------------------------- MODULE SellDecisionProofs -------------------------
(***************************************************************************)
(* What a decision is worth: proofs about SellExecutor that rest on the     *)
(* invariant of SellExecutorProofs.                                         *)
(***************************************************************************)
EXTENDS SellExecutorProofs

OwnFrames == {"loop", "submit"}
ForeignFrames == {"prior", "absent"}

\* The stored entry and the locals describe the transaction they name.
DiskHonest ==
    disk.sig # None =>
        /\ disk.amt = tx[disk.sig].amt
        /\ disk.reason = tx[disk.sig].reason
        /\ disk.dec = tx[disk.sig].dec
CallHonest ==
    call.sig # None => call.amt = tx[call.sig].amt /\ call.why = tx[call.sig].reason

\* A signature another call left is tracked in the two foreign frames only, and
\* stays on disk while it is polled; in sell's own frames it is the decision's.
Frames ==
    /\ call.ret \in ForeignFrames => pc \in PollPcs \cup FinPcs
    /\ call.ret \in ForeignFrames /\ pc \in PollPcs => disk.sig = call.sig
    /\ call.ret \in OwnFrames /\ call.sig # None => tx[call.sig].dec = call.dec
    /\ call.sig # None /\ disk.sig = None => disk.dec = None
    /\ pc \in {"finAppend", "finNotify"} => disk.sig = None
    /\ pc \in QuietPcs => call.dec = None

\* Decisions are handed out in order, and no order asks for more than its
\* decision did.
DecisionsAllotted ==
    /\ disk.dec <= decs /\ call.dec <= decs
    /\ \A s \in Signatures : tx[s].dec <= decs
Within ==
    /\ disk.dec # None => disk.amt <= authorised[disk.dec]
    /\ call.dec # None => call.req <= authorised[call.dec]
    /\ \A s \in Signatures : tx[s].dec # None => tx[s].amt <= authorised[tx[s].dec]

\* What is stored, tracked or not yet signed has not been given up.
TrackedNotDropped ==
    \A s \in Signatures :
        s \in {disk.sig, call.sig} \/ tx[s].st = "unsigned" => dropped[s] = "no"

\* A transaction that will never count as a sale: it did not land and cannot,
\* or it landed in the poll race.
Spent(s) ==
    /\ ~MayStillLand(s)
    /\ ~(pc = "send" /\ call.sig = s)
    /\ tx[s].st = "landed" => dropped[s] = "race"

\* While a decision can still lead to an order, all its earlier transactions
\* but the stored or tracked one are spent.
SoleOrder ==
    \A s \in Signatures :
        tx[s].dec # None /\ tx[s].dec \in {disk.dec, call.dec} =>
            s \in {disk.sig, call.sig} \/ Spent(s)
OneSale ==
    \A s, t \in Signatures :
        s # t /\ tx[s].dec = tx[t].dec /\ tx[s].dec # None => Spent(s) \/ Spent(t)

DecInv ==
    /\ DiskHonest /\ CallHonest /\ Frames /\ DecisionsAllotted /\ Within
    /\ TrackedNotDropped /\ SoleOrder /\ OneSale

USE BoundsAssumption, ChoicesAssumption
USE DEF Signatures, Decisions, Amounts, None, UnresolvedStatuses, Statuses, ReasonClasses,
        OwnFrames, ForeignFrames

-----------------------------------------------------------------------------
(* Steps that sign nothing, send nothing and decide nothing new.             *)

SameEntry == /\ disk'.sig = disk.sig /\ disk'.amt = disk.amt
             /\ disk'.reason = disk.reason /\ disk'.dec = disk.dec
NoEntry == disk'.sig = None /\ disk'.dec = None
CallEntry == /\ call.sig # None /\ (call.ret \in OwnFrames \/ disk.sig = call.sig)
             /\ disk'.sig \in {None, call.sig} /\ disk'.dec = tx[call.sig].dec
             /\ disk'.amt = call.amt /\ disk'.reason = call.why

SameCall == /\ call'.sig = call.sig /\ call'.dec = call.dec /\ call'.req = call.req
            /\ call'.amt = call.amt /\ call'.why = call.why
FreshCall == call'.sig = None /\ call'.dec = None
GivenUp == call'.sig = None /\ call'.dec = call.dec /\ call'.req = call.req
Taken == /\ call'.sig = disk.sig /\ call'.amt = disk.amt /\ call'.why = disk.reason
         /\ call'.dec = None \/ (call'.dec = disk.dec /\ call'.req = disk.amt)

\* A signature leaves disk and locals only once it is spent or its decision
\* can lead to no further order.
Move ==
    /\ UNCHANGED <<tx, hashLive, decs, authorised>>
    /\ SameEntry \/ NoEntry \/ CallEntry
    /\ SameCall \/ FreshCall \/ GivenUp \/ Taken
    /\ pc' # "send"
    /\ \A s \in Signatures :
         dropped'[s] # dropped[s] => /\ s \notin {disk'.sig, call'.sig}
                                     /\ dropped[s] # "race" /\ tx[s].st # "unsigned"
    /\ \A s \in Signatures :
         s \in {disk.sig, call.sig} =>
             \/ s \in {disk'.sig, call'.sig}
             \/ ~MayStillLand(s) /\ (tx[s].st = "landed" => dropped'[s] = "race")
             \/ tx[s].dec \notin {disk'.dec, call'.dec}

LEMMA SigTypes ==
    ASSUME IndInv
    PROVE  /\ disk.sig \in Signatures \cup {None} /\ call.sig \in Signatures \cup {None}
           /\ disk.dec \in Decisions \cup {None} /\ call.dec \in Decisions \cup {None}
           /\ disk.amt \in Amounts /\ call.req \in Amounts /\ decs \in Nat
           /\ \A s \in Signatures : /\ tx[s].amt \in Amounts
                                    /\ tx[s].dec \in Decisions \cup {None}
           /\ \A d \in Decisions : authorised[d] \in Amounts
           /\ disk.sig # None => tx[disk.sig].dec # None /\ tx[disk.sig].st # "unsigned"
           /\ call.sig # None => tx[call.sig].dec # None /\ tx[call.sig].st # "unsigned"
<1>1. /\ disk.sig \in Signatures \cup {None} /\ call.sig \in Signatures \cup {None}
      /\ disk.dec \in Decisions \cup {None} /\ call.dec \in Decisions \cup {None}
      /\ disk.amt \in Amounts /\ call.req \in Amounts
  BY DEF IndInv, TypeOK, DiskTypeOK, ProcTypeOK, IntentType, CallType
<1>2. /\ decs \in Nat
      /\ \A d \in Decisions : authorised[d] \in Amounts
  BY DEF IndInv, TypeOK, HistTypeOK, CountsTypeOK
<1>3. \A s \in Signatures : tx[s].amt \in Amounts /\ tx[s].dec \in Decisions \cup {None}
  BY DEF IndInv, TypeOK, ChainTypeOK, TxType
<1>4. disk.sig # None => tx[disk.sig].dec # None /\ tx[disk.sig].st # "unsigned"
  BY <1>1 DEF IndInv, Allotted, TypeOK, ChainTypeOK
<1>5. call.sig # None => tx[call.sig].dec # None /\ tx[call.sig].st # "unsigned"
  BY <1>1 DEF IndInv, Allotted, TypeOK, ChainTypeOK
<1>6. QED BY <1>1, <1>2, <1>3, <1>4, <1>5

LEMMA MoveKeepsDecInv ==
    ASSUME IndInv, DecInv, Move, IndInv', Frames'
    PROVE  DecInv'
<1> USE DEF DecInv
<1>1. DiskHonest' BY SigTypes DEF Move, SameEntry, NoEntry, CallEntry, DiskHonest, CallHonest
<1>2. CallHonest'
  BY DEF Move, SameCall, FreshCall, GivenUp, Taken, DiskHonest, CallHonest
<1>3. /\ disk'.dec \in {disk.dec, call.dec, None}
      /\ call'.dec \in {disk.dec, call.dec, None}
  BY DEF Move, SameEntry, NoEntry, CallEntry, SameCall, FreshCall, GivenUp, Taken,
         DiskHonest, Frames
<1>4. DecisionsAllotted' BY <1>3, SigTypes DEF DecisionsAllotted, Move
<1>5. Within'
  <2>1. disk'.dec # None => disk'.amt <= authorised[disk'.dec]
    BY SigTypes DEF Within, Move, SameEntry, NoEntry, CallEntry, CallHonest
  <2>2. call'.dec # None => call'.req <= authorised[call'.dec]
    BY DEF Within, Move, SameCall, FreshCall, GivenUp, Taken
  <2>3. QED BY <2>1, <2>2 DEF Within, Move
<1>6. TrackedNotDropped'
  <2>1. {disk'.sig, call'.sig} \subseteq {disk.sig, call.sig, None}
    BY DEF Move, SameEntry, NoEntry, CallEntry, SameCall, FreshCall, GivenUp, Taken
  <2>2. QED BY <2>1 DEF TrackedNotDropped, Move
<1>7. ASSUME NEW s \in Signatures, Spent(s) PROVE Spent(s)'
  BY <1>7 DEF Spent, Move, MayStillLand
<1>8. SoleOrder'
  <2> SUFFICES ASSUME NEW s \in Signatures, tx[s].dec # None,
                      tx[s].dec \in {disk'.dec, call'.dec}, s \notin {disk'.sig, call'.sig}
               PROVE  Spent(s)'
    BY DEF SoleOrder, Move
  <2>1. s \in {disk.sig, call.sig} \/ Spent(s) BY <1>3 DEF SoleOrder
  <2>2. QED BY <1>7, <2>1 DEF Spent, Move, MayStillLand
<1>9. OneSale' BY <1>7 DEF OneSale, Move
<1>10. QED BY <1>1, <1>2, <1>4, <1>5, <1>6, <1>8, <1>9

-----------------------------------------------------------------------------
(* The fields of the records a step builds.                                  *)

LEMMA FreshShapes ==
    /\ NoCall.sig = None /\ NoCall.dec = None /\ NoCall.ret = "loop"
    /\ NoIntent.sig = None /\ NoIntent.dec = None /\ NoIntent.status = "absent"
    /\ ~NoIntent.ack /\ ~NoIntent.blocked
BY DEF NoCall, NoIntent

LEMMA CallShapes ==
    ASSUME IndInv
    PROVE  /\ call \in CallType
           /\ LET c == [call EXCEPT !.attempt = @ + 1] IN
              /\ c.sig = call.sig /\ c.dec = call.dec /\ c.req = call.req /\ c.amt = call.amt
              /\ c.why = call.why /\ c.ret = call.ret
           /\ LET c == [call EXCEPT !.poll = @ + 1] IN
              /\ c.sig = call.sig /\ c.dec = call.dec /\ c.req = call.req /\ c.amt = call.amt
              /\ c.why = call.why /\ c.ret = call.ret
           /\ \A n : LET c == [call EXCEPT !.cur = n] IN
              /\ c.sig = call.sig /\ c.dec = call.dec /\ c.req = call.req /\ c.amt = call.amt
              /\ c.why = call.why /\ c.ret = call.ret
           /\ \A r : LET c == [call EXCEPT !.ret = r, !.poll = 1] IN
              /\ c.sig = call.sig /\ c.dec = call.dec /\ c.req = call.req /\ c.amt = call.amt
              /\ c.why = call.why /\ c.ret = r
           /\ LET c == [call EXCEPT !.sig = None] IN
              c.sig = None /\ c.dec = call.dec /\ c.req = call.req /\ c.ret = call.ret
           /\ LET c == [[call EXCEPT !.sig = None] EXCEPT !.attempt = @ + 1] IN
              c.sig = None /\ c.dec = call.dec /\ c.req = call.req /\ c.ret = call.ret
<1>1. call \in CallType BY DEF IndInv, TypeOK, ProcTypeOK
<1>2. QED BY <1>1 DEF CallType

-----------------------------------------------------------------------------
(* What each step of the process amounts to.                                 *)

\* The process goes on with the same entry and the same locals, or new ones
\* that track nothing.
LEMMA StayIsMove ==
    ASSUME IndInv, DecInv, SameEntry, SameCall \/ (FreshCall /\ call.sig = None),
           UNCHANGED <<tx, hashLive, decs, authorised, dropped>>, pc' # "send"
    PROVE  Move
BY DEF Move, SameEntry, SameCall, FreshCall

LEMMA DieIsMove ==
    ASSUME IndInv, DecInv, Die, UNCHANGED <<tx, hashLive, decs, authorised, disk>>
    PROVE  Move /\ Frames'
<1>1. FreshCall /\ pc' = "down" /\ call'.ret = "loop" BY FreshShapes DEF Die, FreshCall
<1>2. SameEntry BY DEF SameEntry
<1>3. disk.sig \in {call.sig, None} \/ call.sig = None BY DEF IndInv, CallTracks
<1>4. \A s \in Signatures :
        dropped'[s] # dropped[s] => s = call.sig /\ s # disk.sig /\ dropped[s] = "no"
  BY DEF Die
<1>5. call.sig # None /\ disk.sig = None => disk.dec = None BY DEF DecInv, Frames
<1>6. Move BY <1>1, <1>2, <1>3, <1>4, <1>5, SigTypes DEF Move, FreshCall
<1>7. Frames' BY <1>1, <1>5 DEF Frames, FreshCall, PollPcs, FinPcs, QuietPcs
<1>8. QED BY <1>6, <1>7

LEMMA BlockIsMove ==
    ASSUME IndInv, DecInv, Block, call.sig # None,
           call.ret \in OwnFrames \/ disk.sig = call.sig,
           UNCHANGED <<tx, hashLive, decs, authorised, dropped>>
    PROVE  Move /\ Frames'
<1>1. FreshCall /\ pc' \in {"down", "idle"} /\ call'.ret = "loop"
  BY FreshShapes DEF Block, Return, FreshCall
<1>2. CallEntry /\ disk'.sig = call.sig BY DEF Block, IntentOf, CallEntry
<1>3. disk.sig \in {call.sig, None} BY DEF IndInv, CallTracks
<1>4. Move BY <1>1, <1>2, <1>3 DEF Move, FreshCall
<1>5. Frames' BY <1>1 DEF Frames, FreshCall, PollPcs, FinPcs, QuietPcs
<1>6. QED BY <1>4, <1>5

LEMMA NextPollIsMove ==
    ASSUME IndInv, DecInv, NextPoll, pc \in PollPcs,
           UNCHANGED <<tx, hashLive, decs, authorised, dropped>>
    PROVE  Move /\ Frames'
<1>1. call.sig # None /\ (call.ret \in OwnFrames \/ disk.sig = call.sig)
  <2>1. call.ret \in OwnFrames \cup ForeignFrames BY DEF IndInv, TypeOK, ProcTypeOK, CallType
  <2>2. QED BY <2>1 DEF IndInv, CallTracks, DecInv, Frames
<1>2. CASE call.poll < PollLimit
  <2>1. SameCall /\ UNCHANGED disk /\ pc' = "poll" /\ call'.ret = call.ret
    BY <1>2, CallShapes DEF NextPoll, SameCall
  <2>2. SameEntry BY <2>1 DEF SameEntry
  <2>3. Move BY <2>1, <2>2, StayIsMove
  <2>4. Frames' BY <2>1 DEF DecInv, Frames, SameCall, PollPcs, FinPcs, QuietPcs
  <2>5. QED BY <2>3, <2>4
<1>3. CASE ~(call.poll < PollLimit) BY <1>1, <1>3, BlockIsMove DEF NextPoll
<1>4. QED BY <1>2, <1>3

LEMMA RetryIsMove ==
    ASSUME IndInv, DecInv, NextAttempt(call), call.ret \in OwnFrames, pc \notin QuietPcs,
           UNCHANGED <<tx, hashLive, decs, authorised, dropped, disk>>
    PROVE  Move /\ Frames'
<1>1. SameCall /\ pc' = "attempt" /\ call'.ret = call.ret
  BY CallShapes DEF NextAttempt, SameCall
<1>2. SameEntry BY DEF SameEntry
<1>3. Move BY <1>1, <1>2, StayIsMove
<1>4. Frames' BY <1>1 DEF DecInv, Frames, SameCall, PollPcs, FinPcs, QuietPcs
<1>5. QED BY <1>3, <1>4

\* The entry of another call is taken over to be resolved.
LEMMA ResolvingIsMove ==
    ASSUME IndInv, DecInv, NEW c \in CallType, NEW ret \in ForeignFrames, pc \in QuietPcs,
           InFlight(disk), Resolving(c, disk, ret),
           c.dec = None \/ (c.dec = disk.dec /\ c.req = disk.amt),
           UNCHANGED <<tx, hashLive, decs, authorised, dropped, disk>>
    PROVE  Move /\ Frames'
<1>1. /\ call'.sig = disk.sig /\ call'.amt = disk.amt /\ call'.why = disk.reason
      /\ call'.ret = ret /\ call'.dec = c.dec /\ call'.req = c.req /\ pc' = "poll"
  BY DEF Resolving, CallType
<1>2. Taken /\ SameEntry BY <1>1 DEF Taken, SameEntry
<1>3. call.sig = None BY DEF IndInv, CallTracks
<1>4. Move BY <1>1, <1>2, <1>3 DEF Move, SameEntry
<1>5. Frames' BY <1>1 DEF Frames, PollPcs, FinPcs, QuietPcs, InFlight
<1>6. QED BY <1>4, <1>5

\* A new intent is written: nothing stored or tracked can count any more, and
\* the decision is new or the one whose transactions are all spent.
LEMMA WriteIntentKeepsDecInv ==
    ASSUME IndInv, DecInv, IndInv', NEW c \in CallType, WriteIntent(c),
           c.dec # None => c.dec \in {disk.dec, call.dec} /\ c.req <= authorised[c.dec],
           UNCHANGED <<tx, hashLive>>,
           \A s \in Signatures :
             dropped[s] = "race" \/ tx[s].st = "unsigned" => dropped'[s] = dropped[s],
           \A s \in Signatures :
             s \in {disk.sig, call.sig} =>
                 ~MayStillLand(s) /\ (tx[s].st = "landed" => dropped'[s] = "race")
    PROVE  DecInv'
<1> USE DEF DecInv
<1> DEFINE d == IF c.dec = None THEN decs + 1 ELSE c.dec
<1>1. /\ disk'.sig = None /\ disk'.dec = d /\ disk'.amt = c.req
      /\ decs' = IF c.dec = None THEN decs + 1 ELSE decs
      /\ authorised' = IF c.dec = None THEN [authorised EXCEPT ![d] = c.req] ELSE authorised
      /\ pc' = "attempt"
  BY DEF WriteIntent
<1>2. call'.sig = None /\ call'.dec = d /\ call'.req = c.req /\ call'.ret = "loop"
  BY DEF WriteIntent, CallType
<1>3. decs \in Nat /\ decs' >= decs /\ d <= decs' /\ d \in Decisions
  <2>1. disk'.dec \in Decisions \cup {None}
    BY DEF IndInv, TypeOK, DiskTypeOK, IntentType
  <2>2. decs \in Nat /\ d # None BY SigTypes DEF CallType
  <2>3. QED BY <1>1, <2>1, <2>2, SigTypes DEF DecisionsAllotted
<1>4. \A e \in Decisions : e <= decs => authorised'[e] = authorised[e]
  BY <1>1, <1>3 DEF IndInv, TypeOK, HistTypeOK
<1>5. c.req <= authorised'[d] /\ c.req \in Amounts
  <2>1. CASE c.dec = None
    BY <1>1, <1>3, <2>1 DEF IndInv, TypeOK, HistTypeOK, CallType
  <2>2. CASE c.dec # None BY <1>1, <2>2 DEF CallType
  <2>3. QED BY <2>1, <2>2
<1>6. DiskHonest' /\ CallHonest' BY <1>1, <1>2 DEF DiskHonest, CallHonest
<1>7. Frames' BY <1>1, <1>2 DEF Frames, PollPcs, FinPcs, QuietPcs
<1>8. DecisionsAllotted' BY <1>1, <1>2, <1>3, SigTypes DEF DecisionsAllotted
<1>9. Within' BY <1>1, <1>2, <1>3, <1>4, <1>5, SigTypes DEF Within, DecisionsAllotted
<1>10. TrackedNotDropped' BY <1>1, <1>2 DEF TrackedNotDropped
<1>11. ASSUME NEW s \in Signatures, Spent(s) PROVE Spent(s)'
  BY <1>1, <1>11 DEF Spent, MayStillLand
<1>12. SoleOrder'
  <2> SUFFICES ASSUME NEW s \in Signatures, tx[s].dec # None, tx[s].dec = d
               PROVE  Spent(s)'
    BY <1>1, <1>2 DEF SoleOrder
  <2>1. c.dec # None BY <1>3, SigTypes DEF DecisionsAllotted
  <2>2. s \in {disk.sig, call.sig} \/ Spent(s) BY <2>1 DEF SoleOrder
  <2>3. QED BY <1>1, <1>11, <2>2 DEF Spent, MayStillLand
<1>13. OneSale' BY <1>11 DEF OneSale
<1>14. QED BY <1>6, <1>7, <1>8, <1>9, <1>10, <1>12, <1>13

\* The signature in hand is dead, or landed unseen between the two reads.
LEMMA DeadKeepsDecInv ==
    ASSUME IndInv, DecInv, IndInv', Dead, pc \in PollPcs, ~MayStillLand(call.sig),
           UNCHANGED <<tx, hashLive>>
    PROVE  DecInv'
<1>1. /\ call.sig \in Signatures /\ disk.sig \in {call.sig, None}
      /\ dropped \in [Signatures -> {"no", "skip", "race", "crash"}]
  BY SigTypes DEF IndInv, CallTracks, TypeOK, HistTypeOK
<1>2. /\ \A s \in Signatures :
           dropped'[s] # dropped[s] =>
               s = call.sig /\ dropped[s] # "race" /\ tx[s].st # "unsigned"
      /\ tx[call.sig].st = "landed" => dropped'[call.sig] = "race"
  BY <1>1, SigTypes DEF Dead, DecInv, TrackedNotDropped
<1>3. /\ \A s \in Signatures :
           dropped[s] = "race" \/ tx[s].st = "unsigned" => dropped'[s] = dropped[s]
      /\ \A s \in Signatures :
           s \in {disk.sig, call.sig} =>
               ~MayStillLand(s) /\ (tx[s].st = "landed" => dropped'[s] = "race")
  BY <1>1, <1>2
<1>4. CASE call.ret = "prior" /\ WriteIntent(call)
  <2>1. call \in CallType BY CallShapes
  <2>2. call.dec # None => call.req <= authorised[call.dec] BY DEF DecInv, Within
  <2>3. QED BY <1>3, <1>4, <2>1, <2>2, WriteIntentKeepsDecInv
<1>5. CASE call.ret = "absent" /\ disk' = NoIntent /\ Return /\ UNCHANGED <<decs, authorised>>
  <2>1. /\ NoEntry /\ FreshCall /\ pc' \in {"down", "idle"} /\ call'.ret = "loop"
    BY <1>5, FreshShapes DEF NoEntry, FreshCall, Return
  <2>2. Move BY <1>2, <1>3, <1>5, <2>1 DEF Move, NoEntry, FreshCall
  <2>3. Frames' BY <2>1 DEF Frames, NoEntry, FreshCall, PollPcs, FinPcs, QuietPcs
  <2>4. QED BY <2>2, <2>3, MoveKeepsDecInv
<1>6. CASE /\ call.ret \in OwnFrames /\ ClearPendingSignature /\ UNCHANGED <<decs, authorised>>
           /\ GivenUp /\ call'.ret = call.ret /\ pc' \in {"hold", "attempt"}
  <2>1. CallEntry /\ disk'.sig = None
    BY <1>1, <1>6 DEF CallEntry, ClearPendingSignature, IntentOf
  <2>2. Move BY <1>2, <1>3, <1>6, <2>1 DEF Move, GivenUp
  <2>3. Frames' BY <1>6, <2>1 DEF Frames, GivenUp, PollPcs, FinPcs, QuietPcs
  <2>4. QED BY <2>2, <2>3, MoveKeepsDecInv
<1>7. QED
  <2>1. CASE call.ret = "loop" \/ call.ret = "submit"
    <3>1. /\ ClearPendingSignature /\ UNCHANGED <<decs, authorised>> /\ pc' \in {"hold", "attempt"}
          /\ \/ call' = [call EXCEPT !.sig = None]
             \/ call' = [[call EXCEPT !.sig = None] EXCEPT !.attempt = @ + 1]
      BY <2>1 DEF Dead, NextAttempt
    <3>2. GivenUp /\ call'.ret = call.ret BY <3>1, CallShapes DEF GivenUp
    <3>3. QED BY <1>6, <2>1, <3>1, <3>2
  <2>2. CASE call.ret = "prior" BY <1>4, <2>2 DEF Dead
  <2>3. CASE call.ret = "absent" BY <1>5, <2>3 DEF Dead
  <2>4. QED BY <2>1, <2>2, <2>3 DEF Dead

LEMMA EnterSellKeepsDecInv ==
    ASSUME IndInv, DecInv, IndInv', pc \in {"reconcile", "decide", "panic"},
           NEW src \in {"cycle", "reconcile", "panic"}, NEW obs \in Amounts, NEW req \in Amounts,
           NEW reason \in ReasonClasses, NEW dec \in Decisions \cup {None},
           EnterSell(src, obs, req, reason, dec),
           dec = None \/ (dec = disk.dec /\ req = disk.amt)
    PROVE  DecInv'
<1> DEFINE c == [NoCall EXCEPT !.src = src, !.obs = obs, !.req = req, !.reason = reason,
                               !.dec = dec]
<1> USE DEF chainVars, diskVars, histVars
<1>1. c \in CallType /\ c.req = req /\ c.dec = dec
  BY NoCallType DEF CallType, NoCall
<1> HIDE DEF c
<1>2. pc \in QuietPcs /\ call.sig = None BY DEF QuietPcs, IndInv, CallTracks
<1>3. UNCHANGED <<tx, hashLive, dropped>> BY DEF EnterSell
<1>4. CASE pc' \in {"down", "idle"} /\ call' = NoCall /\ UNCHANGED <<disk, decs, authorised>>
  <2>1. FreshCall /\ SameEntry /\ call'.ret = "loop" BY <1>4, FreshShapes DEF FreshCall, SameEntry
  <2>2. Move BY <1>2, <1>3, <1>4, <2>1, StayIsMove
  <2>3. Frames'
    BY <1>4, <2>1, <1>2 DEF DecInv, Frames, FreshCall, PollPcs, FinPcs, QuietPcs
  <2>4. QED BY <2>2, <2>3, MoveKeepsDecInv
<1>5. CASE InFlight(disk) /\ Resolving(c, disk, "prior") /\ UNCHANGED <<disk, decs, authorised>>
  <2>1. Move /\ Frames' BY <1>1, <1>2, <1>3, <1>5, ResolvingIsMove
  <2>2. QED BY <2>1, MoveKeepsDecInv
<1>6. CASE ~InFlight(disk) /\ WriteIntent(c)
  <2>1. disk.sig = None BY <1>6 DEF InFlight, IndInv, DiskTracks
  <2>2. c.dec # None => c.dec \in {disk.dec, call.dec} /\ c.req <= authorised[c.dec]
    BY <1>1 DEF DecInv, Within
  <2>3. QED BY <1>1, <1>2, <1>3, <1>6, <2>1, <2>2, WriteIntentKeepsDecInv DEF MayStillLand
<1>7. QED BY <1>4, <1>5, <1>6 DEF EnterSell, c

-----------------------------------------------------------------------------
(* Steps that move transactions.                                             *)

\* The chain and the operator leave entry, locals and history alone, and a
\* transaction only comes closer to its end.
LEMMA ChainKeepsDecInv ==
    ASSUME IndInv, DecInv,
           UNCHANGED <<pc, call, dropped, authorised, decs>>, SameEntry,
           \A s \in Signatures :
             /\ tx'[s].amt = tx[s].amt /\ tx'[s].dec = tx[s].dec /\ tx'[s].reason = tx[s].reason
             /\ tx'[s].st = "unsigned" => tx[s].st = "unsigned"
             /\ Spent(s) => Spent(s)'
    PROVE  DecInv'
<1> USE SigTypes DEF DecInv, SameEntry
<1>1. DiskHonest' /\ CallHonest' BY DEF DiskHonest, CallHonest
<1>2. Frames' BY DEF Frames
<1>3. DecisionsAllotted' BY DEF DecisionsAllotted
<1>4. Within' BY DEF Within
<1>5. TrackedNotDropped' BY DEF TrackedNotDropped
<1>6. SoleOrder' BY DEF SoleOrder
<1>7. OneSale' BY DEF OneSale
<1>8. QED BY <1>1, <1>2, <1>3, <1>4, <1>5, <1>6, <1>7

LEMMA TxFieldsKept ==
    ASSUME IndInv, NEW s \in Signatures, NEW v \in {"sent", "landed", "failed"},
           tx' = [tx EXCEPT ![s].st = v]
    PROVE  \A t \in Signatures :
             /\ tx'[t].amt = tx[t].amt /\ tx'[t].dec = tx[t].dec /\ tx'[t].reason = tx[t].reason
             /\ tx'[t].st = IF t = s THEN v ELSE tx[t].st
<1>1. tx \in [Signatures -> TxType] BY DEF IndInv, TypeOK, ChainTypeOK
<1>2. \A r \in TxType : /\ [r EXCEPT !.st = v].amt = r.amt /\ [r EXCEPT !.st = v].dec = r.dec
                        /\ [r EXCEPT !.st = v].reason = r.reason /\ [r EXCEPT !.st = v].st = v
  BY DEF TxType
<1>3. QED BY <1>1, <1>2

LEMMA EnvironmentKeepsDecInv == ASSUME IndInv, DecInv, Environment PROVE DecInv'
<1> USE DEF chainVars, diskVars, procVars, histVars, envVars
<1>1. ASSUME NEW s \in Signatures, Land(s) PROVE DecInv'
  <2>1. PICK v \in {"landed", "failed"} : tx' = [tx EXCEPT ![s].st = v] BY <1>1 DEF Land
  <2>2. SameEntry /\ UNCHANGED <<pc, call, dropped, authorised, decs, hashLive>> /\ MayStillLand(s)
    BY <1>1 DEF Land, SameEntry
  <2>3. \A t \in Signatures :
          /\ tx'[t].amt = tx[t].amt /\ tx'[t].dec = tx[t].dec /\ tx'[t].reason = tx[t].reason
          /\ tx'[t].st = IF t = s THEN v ELSE tx[t].st
    <3>1. v \in {"sent", "landed", "failed"} OBVIOUS
    <3>2. QED BY <2>1, <3>1, TxFieldsKept
  <2>4. \A t \in Signatures : Spent(t) => Spent(t)'
    BY <2>2, <2>3 DEF Spent, MayStillLand
  <2>5. QED BY <2>2, <2>3, <2>4, ChainKeepsDecInv
<1>2. ASSUME NEW s \in Signatures, Expire(s) PROVE DecInv'
  <2>1. SameEntry /\ UNCHANGED <<pc, call, dropped, authorised, decs, tx>>
    BY <1>2 DEF Expire, SameEntry
  <2>2. \A t \in Signatures : hashLive'[t] => hashLive[t]
    BY <1>2 DEF Expire, IndInv, TypeOK, ChainTypeOK
  <2>3. \A t \in Signatures : Spent(t) => Spent(t)'
    BY <2>1, <2>2 DEF Spent, MayStillLand
  <2>4. QED BY <2>1, <2>3, ChainKeepsDecInv
<1>3. CASE CatchUp \/ OperatorTrade \/ OperatorDispose \/ OperatorAck
  <2>1. UNCHANGED <<pc, call, dropped, authorised, decs, tx, hashLive>>
    BY <1>3 DEF CatchUp, OperatorTrade, OperatorDispose, OperatorAck
  <2>2. SameEntry
    <3>1. CASE OperatorAck
      BY <3>1 DEF OperatorAck, SameEntry, IndInv, TypeOK, DiskTypeOK, IntentType
    <3>2. CASE UNCHANGED disk BY <3>2 DEF SameEntry
    <3>3. QED BY <1>3, <3>1, <3>2 DEF CatchUp, OperatorTrade, OperatorDispose
  <2>3. \A t \in Signatures : Spent(t) => Spent(t)' BY <2>1 DEF Spent, MayStillLand
  <2>4. QED BY <2>1, <2>2, <2>3, ChainKeepsDecInv
<1>4. QED BY <1>1, <1>2, <1>3 DEF Environment

LEMMA PersistSubmittingKeepsDecInv ==
    ASSUME IndInv, DecInv, IndInv', PersistSubmitting
    PROVE  DecInv'
<1> USE DEF DecInv
<1> DEFINE s == sigs + 1
           sellNow == IF call.req < call.cur THEN call.req ELSE call.cur
<1>1. /\ pc = "simulate" /\ s \in Signatures /\ tx[s].st = "unsigned"
      /\ call.sig = None /\ disk.sig = None /\ call.dec # None
  BY DEF PersistSubmitting, IndInv, TypeOK, ChainTypeOK, Allotted, CallTracks, CallAuthorised,
         OrderPcs
<1>2. /\ tx'[s].amt = sellNow /\ tx'[s].dec = call.dec /\ tx'[s].reason = call.reason
      /\ tx'[s].st = "signed"
      /\ \A t \in Signatures \ {s} : tx'[t] = tx[t] /\ hashLive'[t] = hashLive[t]
  BY <1>1 DEF PersistSubmitting, IndInv, TypeOK, ChainTypeOK
<1>3. /\ disk'.sig = s /\ disk'.amt = sellNow /\ disk'.reason = call.reason /\ disk'.dec = call.dec
      /\ pc' = "send" /\ UNCHANGED <<dropped, authorised, decs>>
  BY DEF PersistSubmitting, histVars
<1>4. /\ call'.sig = s /\ call'.amt = sellNow /\ call'.why = call.reason /\ call'.dec = call.dec
      /\ call'.req = call.req /\ call'.ret = call.ret
  BY CallShapes DEF PersistSubmitting, CallType
<1>5. call.cur \in Amounts /\ call.ret \in OwnFrames
  <2>1. call.cur \in Amounts /\ call.ret \in OwnFrames \cup ForeignFrames
    BY CallShapes DEF CallType
  <2>2. QED BY <1>1, <2>1 DEF Frames, PollPcs, FinPcs
<1>6. sellNow <= authorised[call.dec] /\ sellNow \in Amounts
  BY <1>1, <1>5, SigTypes DEF Within
<1>7. DiskHonest' /\ CallHonest' BY <1>2, <1>3, <1>4 DEF DiskHonest, CallHonest
<1>8. Frames' BY <1>1, <1>2, <1>3, <1>4, <1>5 DEF Frames, PollPcs, FinPcs, QuietPcs
<1>9. DecisionsAllotted' BY <1>1, <1>2, <1>3, <1>4 DEF DecisionsAllotted
<1>10. Within' BY <1>1, <1>2, <1>3, <1>4, <1>6 DEF Within
<1>11. TrackedNotDropped'
  BY <1>1, <1>2, <1>3, <1>4 DEF TrackedNotDropped
<1>12. \A t \in Signatures \ {s} : Spent(t) => Spent(t)'
  BY <1>1, <1>2, <1>3, <1>4 DEF Spent, MayStillLand
<1>13. \A t \in Signatures \ {s} : tx[t].dec = call.dec => Spent(t)
  BY <1>1 DEF SoleOrder
<1>14. SoleOrder' BY <1>1, <1>2, <1>3, <1>4, <1>12, <1>13 DEF SoleOrder
<1>15. OneSale' BY <1>1, <1>2, <1>12, <1>13 DEF OneSale
<1>16. QED BY <1>7, <1>8, <1>9, <1>10, <1>11, <1>14, <1>15

LEMMA SendKeepsDecInv ==
    ASSUME IndInv, DecInv, IndInv', Send
    PROVE  DecInv'
<1> USE SigTypes DEF DecInv, diskVars, histVars
<1>1. /\ call.sig \in Signatures /\ disk.sig = call.sig /\ pc = "send" /\ pc' = "response"
      /\ UNCHANGED <<call, disk, dropped, authorised, decs, hashLive>>
  BY DEF Send, IndInv, CallTracks
<1>2. \A t \in Signatures :
        /\ tx'[t].amt = tx[t].amt /\ tx'[t].dec = tx[t].dec /\ tx'[t].reason = tx[t].reason
        /\ t # call.sig => tx'[t].st = tx[t].st
        /\ tx'[t].st = "unsigned" => tx[t].st = "unsigned"
  <2>1. CASE UNCHANGED tx BY <2>1
  <2>2. CASE tx' = [tx EXCEPT ![call.sig].st = "sent"] BY <1>1, <2>2, TxFieldsKept
  <2>3. QED BY <2>1, <2>2 DEF Send
<1>3. DiskHonest' /\ CallHonest' BY <1>1, <1>2 DEF DiskHonest, CallHonest
<1>4. Frames' BY <1>1, <1>2 DEF Frames, PollPcs, FinPcs, QuietPcs
<1>5. DecisionsAllotted' BY <1>1, <1>2 DEF DecisionsAllotted
<1>6. Within' BY <1>1, <1>2 DEF Within
<1>7. TrackedNotDropped' BY <1>1, <1>2 DEF TrackedNotDropped
<1>8. \A t \in Signatures : Spent(t) => Spent(t)'
  BY <1>1, <1>2 DEF Spent, MayStillLand
<1>9. SoleOrder' BY <1>1, <1>2, <1>8 DEF SoleOrder
<1>10. OneSale' BY <1>2, <1>8 DEF OneSale
<1>11. QED BY <1>3, <1>4, <1>5, <1>6, <1>7, <1>9, <1>10

-----------------------------------------------------------------------------
(* The invariant is kept by every step.                                      *)

LEMMA EngineKeepsDecInv == ASSUME IndInv, DecInv, IndInv', Engine PROVE DecInv'
<1> USE DEF chainVars, diskVars, procVars, histVars, envVars
<1>1. ASSUME pc \in QuietPcs, pc' \in QuietPcs, SameEntry,
             UNCHANGED <<tx, hashLive, decs, authorised, dropped>>,
             UNCHANGED call \/ (FreshCall /\ call'.ret = "loop")
      PROVE  DecInv'
  <2>1. call.sig = None /\ call.dec = None /\ call.ret # "prior" /\ call.ret # "absent"
    BY <1>1 DEF IndInv, CallTracks, DecInv, Frames, QuietPcs, PollPcs, FinPcs
  <2>2. FreshCall /\ pc' # "send" BY <1>1, <2>1 DEF FreshCall, QuietPcs
  <2>3. Move BY <1>1, <2>1, <2>2, StayIsMove
  <2>4. Frames'
    BY <1>1, <2>1, <2>2 DEF DecInv, Frames, FreshCall, SameEntry, PollPcs, FinPcs, QuietPcs
  <2>5. QED BY <2>3, <2>4, MoveKeepsDecInv
<1>3. CASE StartServer \/ PageHeld \/ CycleHold \/ PanicNothingHeld
  <2>1. /\ pc \in QuietPcs /\ pc' \in QuietPcs /\ SameEntry
        /\ UNCHANGED <<tx, hashLive, decs, authorised, dropped>>
        /\ call' \in {call, NoCall}
    BY <1>3 DEF StartServer, PageHeld, CycleHold, PanicNothingHeld, Return, QuietPcs, SameEntry
  <2>2. QED BY <1>1, <2>1, FreshShapes DEF FreshCall
<1>4. CASE ReconcileRead \/ CycleRead \/ StartPanic
  <2>1. /\ pc \in QuietPcs /\ pc' \in QuietPcs /\ SameEntry
        /\ UNCHANGED <<tx, hashLive, decs, authorised, dropped>>
    BY <1>4 DEF ReconcileRead, CycleRead, StartPanic, QuietPcs, SameEntry
  <2>2. UNCHANGED call \/ (FreshCall /\ call'.ret = "loop")
    BY <1>4 DEF ReconcileRead, CycleRead, StartPanic, FreshCall, NoCall
  <2>3. QED BY <1>1, <2>1, <2>2
<1>5. CASE HoldTerminal
  <2>1. /\ pc \in QuietPcs /\ pc' \in QuietPcs
        /\ UNCHANGED <<tx, hashLive, decs, authorised, dropped>>
        /\ call' \in {call, NoCall}
    BY <1>5 DEF HoldTerminal, Return, QuietPcs
  <2>2. SameEntry
    BY <1>5 DEF HoldTerminal, SameEntry, IndInv, TypeOK, DiskTypeOK, IntentType
  <2>3. QED BY <1>1, <2>1, <2>2, FreshShapes DEF FreshCall
<1>6. CASE SettleAbsent
  <2>1. call \in CallType /\ pc \in QuietPcs /\ InFlight(disk) /\ Resolving(call, disk, "absent")
    BY <1>6, CallShapes DEF SettleAbsent, QuietPcs
  <2>2. call.dec = None /\ UNCHANGED <<tx, hashLive, decs, authorised, dropped, disk>>
    BY <1>6, <2>1 DEF SettleAbsent, DecInv, Frames
  <2>3. Move /\ Frames' BY <2>1, <2>2, ResolvingIsMove
  <2>4. QED BY <2>3, MoveKeepsDecInv
<1>7. CASE ClearAbsent \/ ClearUnexecutable
  <2>1. /\ pc = "reconcile" /\ disk' = NoIntent /\ call' = NoCall /\ pc' \in {"down", "idle"}
        /\ UNCHANGED <<tx, hashLive, decs, authorised>>
    BY <1>7 DEF ClearAbsent, ClearUnexecutable, Return
  <2>2. NoEntry /\ FreshCall /\ call'.ret = "loop" BY <2>1, FreshShapes DEF NoEntry, FreshCall
  <2>3. call.sig = None BY <2>1 DEF IndInv, CallTracks, QuietPcs
  <2>4. \A s \in Signatures :
          dropped'[s] # dropped[s] => dropped[s] # "race" /\ tx[s].st # "unsigned"
    BY <1>7, SigTypes DEF ClearAbsent, ClearUnexecutable, DecInv, TrackedNotDropped, IndInv,
       TypeOK, HistTypeOK
  <2>5. Move BY <2>1, <2>2, <2>3, <2>4, SigTypes DEF Move, NoEntry, FreshCall
  <2>6. Frames' BY <2>1, <2>2 DEF Frames, NoEntry, FreshCall, PollPcs, FinPcs, QuietPcs
  <2>7. QED BY <2>5, <2>6, MoveKeepsDecInv
<1>8. CASE Resume
  <2>1. /\ pc = "reconcile" /\ call.obs \in Amounts /\ disk.amt \in Amounts
        /\ disk.reason \in ReasonClasses /\ disk.dec \in Decisions \cup {None}
        /\ EnterSell("reconcile", call.obs, disk.amt, disk.reason, disk.dec)
    BY <1>8 DEF Resume, IndInv, TypeOK, ProcTypeOK, DiskTypeOK, CallType, IntentType
  <2>2. QED BY <2>1, EnterSellKeepsDecInv
<1>9. CASE CycleSell
  <2>1. PICK reason \in Reasons, amount \in 1..call.obs :
          EnterSell("cycle", call.obs, amount, reason, None)
    BY <1>9 DEF CycleSell
  <2>2. /\ pc = "decide" /\ call.obs \in Amounts /\ amount \in Amounts
        /\ reason \in ReasonClasses
    BY <1>9, <2>1, CallShapes DEF CycleSell, CallType
  <2>3. QED BY <2>1, <2>2, EnterSellKeepsDecInv
<1>10. CASE PanicSell
  <2>1. /\ pc = "panic" /\ call.obs \in Amounts
        /\ EnterSell("panic", call.obs, call.obs, "wide", None)
    BY <1>10, CallShapes DEF PanicSell, CallType
  <2>2. QED BY <2>1, EnterSellKeepsDecInv
<1>11. QED BY <1>3, <1>4, <1>5, <1>6, <1>7, <1>8, <1>9, <1>10 DEF Engine

LEMMA ResolverKeepsDecInv == ASSUME IndInv, DecInv, IndInv', Resolver PROVE DecInv'
<1> USE DEF chainVars, diskVars, procVars, histVars, envVars
<1>1. CASE PollError
  <2>1. CASE Die BY <1>1, <2>1, DieIsMove, MoveKeepsDecInv DEF PollError
  <2>2. CASE call.ret \in {"loop", "submit"} /\ NextAttempt(call) /\ UNCHANGED <<dropped, crashes>>
    <3>1. pc \notin QuietPcs /\ UNCHANGED <<tx, hashLive, decs, authorised, disk>>
      BY <1>1 DEF PollError, QuietPcs
    <3>2. Move /\ Frames' BY <2>2, <3>1, RetryIsMove
    <3>3. QED BY <3>2, MoveKeepsDecInv
  <2>3. QED BY <1>1, <2>1, <2>2 DEF PollError
<1>2. CASE PollFailed \/ PollBlockhashDead
  <2>1. Dead /\ pc \in PollPcs /\ ~MayStillLand(call.sig) /\ UNCHANGED <<tx, hashLive>>
    BY <1>2 DEF PollFailed, PollBlockhashDead, PollPcs, MayStillLand
  <2>2. QED BY <2>1, DeadKeepsDecInv
<1>3. CASE PollPending \/ PollBlockhashValid \/ (PollBalance /\ NextPoll)
  <2>1. /\ NextPoll /\ pc \in PollPcs
        /\ UNCHANGED <<tx, hashLive, decs, authorised, dropped>>
    BY <1>3 DEF PollPending, PollBlockhashValid, PollBalance, PollPcs
  <2>2. QED BY <2>1, NextPollIsMove, MoveKeepsDecInv
<1>4. CASE PollConfirmed \/ PollUnknown \/ (PollBalance /\ pc' = "finalize" /\ UNCHANGED <<disk, call>>)
  <2>1. /\ UNCHANGED <<disk, call, tx, hashLive, decs, authorised, dropped>>
        /\ pc \in PollPcs /\ pc' \in PollPcs \cup {"finalize"}
    BY <1>4 DEF PollConfirmed, PollUnknown, PollBalance, PollPcs
  <2>2. SameEntry /\ SameCall /\ pc' # "send"
    BY <2>1 DEF SameEntry, SameCall, PollPcs
  <2>3. Move BY <2>1, <2>2, StayIsMove
  <2>4. Frames' BY <2>1 DEF DecInv, Frames, PollPcs, FinPcs, QuietPcs
  <2>5. QED BY <2>3, <2>4, MoveKeepsDecInv
<1>5. QED BY <1>1, <1>2, <1>3, <1>4 DEF Resolver, PollBalance

LEMMA FinalizerKeepsDecInv == ASSUME IndInv, DecInv, IndInv', Finalizer PROVE DecInv'
<1> USE DEF chainVars, diskVars, procVars, histVars, envVars
<1>1. CASE FinalizeDispose \/ FinalizeAppend
  <2>1. /\ UNCHANGED <<disk, call, tx, hashLive, decs, authorised, dropped>>
        /\ \/ pc = "finalize" /\ pc' = "finDelete"
           \/ pc = "finAppend" /\ pc' = "finNotify"
    BY <1>1 DEF FinalizeDispose, FinalizeAppend
  <2>2. SameEntry /\ SameCall BY <2>1 DEF SameEntry, SameCall
  <2>3. Move BY <2>1, <2>2, StayIsMove
  <2>4. Frames' BY <2>1 DEF DecInv, Frames, PollPcs, FinPcs, QuietPcs
  <2>5. QED BY <2>3, <2>4, MoveKeepsDecInv
<1>2. CASE FinalizeDelete
  <2>1. /\ UNCHANGED <<call, tx, hashLive, decs, authorised, dropped>>
        /\ pc = "finDelete" /\ pc' = "finAppend" /\ disk' = NoIntent
    BY <1>2 DEF FinalizeDelete
  <2>2. NoEntry /\ SameCall BY <2>1, FreshShapes DEF NoEntry, SameCall
  <2>3. disk.sig \in {call.sig, None} BY <2>1 DEF IndInv, CallTracks, FinPcs
  <2>4. Move BY <2>1, <2>2, <2>3 DEF Move, SameCall
  <2>5. Frames' BY <2>1, <2>2 DEF DecInv, Frames, NoEntry, PollPcs, FinPcs, QuietPcs
  <2>6. QED BY <2>4, <2>5, MoveKeepsDecInv
<1>3. CASE FinalizeNotify
  <2>1. /\ UNCHANGED <<disk, tx, hashLive, decs, authorised, dropped>>
        /\ pc = "finNotify" /\ pc' \in {"down", "idle"} /\ call' = NoCall
    BY <1>3 DEF FinalizeNotify, Return
  <2>2. SameEntry /\ FreshCall /\ call'.ret = "loop"
    BY <2>1, FreshShapes DEF SameEntry, FreshCall
  <2>3. disk.sig = None /\ disk.dec = None
    BY <2>1 DEF DecInv, Frames, IndInv, CallTracks, FinPcs
  <2>4. Move BY <2>1, <2>2, <2>3, SigTypes DEF Move, FreshCall
  <2>5. Frames' BY <2>1, <2>2, <2>3 DEF Frames, FreshCall, PollPcs, FinPcs, QuietPcs
  <2>6. QED BY <2>4, <2>5, MoveKeepsDecInv
<1>4. CASE FinalizeIoError
  <2>1. CASE Die BY <1>4, <2>1, DieIsMove, MoveKeepsDecInv DEF FinalizeIoError
  <2>2. CASE call.ret \in {"loop", "submit"} /\ NextAttempt(call) /\ UNCHANGED <<dropped, crashes>>
    <3>1. pc \notin QuietPcs /\ UNCHANGED <<tx, hashLive, decs, authorised, disk>>
      BY <1>4 DEF FinalizeIoError, QuietPcs
    <3>2. Move /\ Frames' BY <2>2, <3>1, RetryIsMove
    <3>3. QED BY <3>2, MoveKeepsDecInv
  <2>3. QED BY <1>4, <2>1, <2>2 DEF FinalizeIoError
<1>5. QED BY <1>1, <1>2, <1>3, <1>4 DEF Finalizer

LEMMA AttemptsKeepsDecInv == ASSUME IndInv, DecInv, IndInv', Attempts PROVE DecInv'
<1> USE DEF chainVars, diskVars, procVars, histVars, envVars
<1>1. ASSUME UNCHANGED <<disk, tx, hashLive, decs, authorised, dropped>>, SameCall,
             call'.ret \in OwnFrames, call.ret \in OwnFrames, pc \notin QuietPcs,
             pc' \in {"poll", "filled", "order", "simulate"}
      PROVE  DecInv'
  <2>1. SameEntry BY <1>1 DEF SameEntry
  <2>2. Move BY <1>1, <2>1, StayIsMove
  <2>3. Frames' BY <1>1 DEF DecInv, Frames, SameCall, PollPcs, FinPcs, QuietPcs
  <2>4. QED BY <2>2, <2>3, MoveKeepsDecInv
<1>2. pc \in OrderPcs \cup {"attempt", "send", "response"} => call.ret \in OwnFrames
  <2>1. call.ret \in OwnFrames \cup ForeignFrames BY CallShapes DEF CallType
  <2>2. QED BY <2>1 DEF DecInv, Frames, OrderPcs, PollPcs, FinPcs
<1>3. CASE ResolvePending \/ AlreadyFilled \/ ReadHolding \/ OrderSigned
  <2>1. /\ UNCHANGED <<disk, tx, hashLive, decs, authorised, dropped>>
        /\ pc \in OrderPcs \cup {"attempt"} /\ pc' \in {"poll", "filled", "order", "simulate"}
    BY <1>3 DEF ResolvePending, AlreadyFilled, ReadHolding, OrderSigned, ReadyToOrder,
       Attempting, OrderPcs
  <2>2. SameCall /\ call'.ret \in {call.ret, "loop"}
    <3>1. CASE ResolvePending BY <3>1, CallShapes DEF ResolvePending, SameCall
    <3>2. CASE ReadHolding BY <3>2, CallShapes DEF ReadHolding, SameCall
    <3>3. CASE AlreadyFilled \/ OrderSigned BY <3>3 DEF AlreadyFilled, OrderSigned, SameCall
    <3>4. QED BY <1>3, <3>1, <3>2, <3>3
  <2>3. pc \notin QuietPcs /\ call.ret \in OwnFrames
    BY <1>2, <2>1 DEF QuietPcs, OrderPcs
  <2>4. QED BY <1>1, <2>1, <2>2, <2>3
<1>4. CASE FilledDelete \/ RefuseBelowFloor
  <2>1. /\ pc \in OrderPcs /\ disk' = NoIntent /\ call' = NoCall /\ pc' \in {"down", "idle"}
        /\ UNCHANGED <<tx, hashLive, decs, authorised, dropped>>
    BY <1>4 DEF FilledDelete, RefuseBelowFloor, Return, OrderPcs
  <2>2. NoEntry /\ FreshCall /\ call'.ret = "loop" BY <2>1, FreshShapes DEF NoEntry, FreshCall
  <2>3. call.sig = None /\ disk.sig = None BY <2>1 DEF IndInv, CallTracks
  <2>4. Move BY <2>1, <2>2, <2>3 DEF Move
  <2>5. Frames' BY <2>1, <2>2 DEF Frames, NoEntry, FreshCall, PollPcs, FinPcs, QuietPcs
  <2>6. QED BY <2>4, <2>5, MoveKeepsDecInv
<1>5. CASE ExecuteSuccess
  <2>1. /\ pc = "response" /\ pc' = "poll"
        /\ UNCHANGED <<tx, hashLive, decs, authorised, dropped>>
        /\ disk' = IntentOf(call, "submitted", call.sig)
    BY <1>5 DEF ExecuteSuccess
  <2>2. SameCall /\ call'.ret = "submit" BY <1>5, CallShapes DEF ExecuteSuccess, SameCall
  <2>3. call.sig # None /\ disk.sig = call.sig /\ call.ret \in OwnFrames
    BY <1>2, <2>1 DEF IndInv, CallTracks
  <2>4. CallEntry /\ disk'.sig = call.sig BY <2>1, <2>3 DEF CallEntry, IntentOf
  <2>5. Move BY <2>1, <2>2, <2>3, <2>4 DEF Move
  <2>6. Frames'
    BY <2>1, <2>2, <2>3, <2>4 DEF DecInv, Frames, SameCall, PollPcs, FinPcs, QuietPcs
  <2>7. QED BY <2>5, <2>6, MoveKeepsDecInv
<1>6. CASE ExecuteAmbiguous \/ AttemptError
  <2>1. /\ pc \in OrderPcs \cup {"attempt", "response"} /\ NextAttempt(call)
        /\ UNCHANGED <<disk, tx, hashLive, decs, authorised, dropped>>
    BY <1>6 DEF ExecuteAmbiguous, AttemptError, ReadyToOrder, Attempting, OrderPcs
  <2>2. pc \notin QuietPcs /\ call.ret \in OwnFrames
    BY <1>2, <2>1 DEF QuietPcs, OrderPcs
  <2>3. Move /\ Frames' BY <2>1, <2>2, RetryIsMove
  <2>4. QED BY <2>3, MoveKeepsDecInv
<1>7. CASE GiveUpUnresolved
  <2>1. /\ Block /\ call.sig # None /\ call.ret \in OwnFrames
        /\ UNCHANGED <<tx, hashLive, decs, authorised, dropped>>
    BY <1>2, <1>7 DEF GiveUpUnresolved
  <2>2. Move /\ Frames' BY <2>1, BlockIsMove
  <2>3. QED BY <2>2, MoveKeepsDecInv
<1>8. CASE GiveUpFailed
  <2>1. /\ call.sig = None /\ call' = NoCall /\ pc' \in {"down", "idle"}
        /\ UNCHANGED <<tx, hashLive, decs, authorised, dropped>>
    BY <1>8 DEF GiveUpFailed, Return
  <2>2. SameEntry
    BY <1>8 DEF GiveUpFailed, SameEntry, IndInv, TypeOK, DiskTypeOK, IntentType
  <2>3. FreshCall /\ call'.ret = "loop" BY <2>1, FreshShapes DEF FreshCall
  <2>4. Move BY <2>1, <2>2, <2>3, StayIsMove
  <2>5. Frames' BY <2>1, <2>3 DEF Frames, FreshCall, PollPcs, FinPcs, QuietPcs
  <2>6. QED BY <2>4, <2>5, MoveKeepsDecInv
<1>9. QED
  BY <1>3, <1>4, <1>5, <1>6, <1>7, <1>8, PersistSubmittingKeepsDecInv, SendKeepsDecInv
     DEF Attempts

LEMMA NextKeepsDecInv == ASSUME IndInv, DecInv, IndInv', [Next]_vars PROVE DecInv'
<1> USE DEF chainVars, diskVars, procVars, histVars, envVars
<1>1. CASE Environment BY <1>1, EnvironmentKeepsDecInv
<1>2. CASE Engine BY <1>2, EngineKeepsDecInv
<1>3. CASE Resolver BY <1>3, ResolverKeepsDecInv
<1>4. CASE Finalizer BY <1>4, FinalizerKeepsDecInv
<1>5. CASE Attempts BY <1>5, AttemptsKeepsDecInv
<1>6. CASE Crash
  <2>1. Move /\ Frames' BY <1>6, DieIsMove DEF Crash
  <2>2. QED BY <2>1, MoveKeepsDecInv
<1>7. CASE UNCHANGED vars
  <2>1. UNCHANGED <<pc, call, disk, dropped, authorised, decs, tx, hashLive>> BY <1>7 DEF vars
  <2>2. SameEntry BY <2>1 DEF SameEntry
  <2>3. \A s \in Signatures : Spent(s) => Spent(s)' BY <2>1 DEF Spent, MayStillLand
  <2>4. QED BY <2>1, <2>2, <2>3, ChainKeepsDecInv
<1>8. QED BY <1>1, <1>2, <1>3, <1>4, <1>5, <1>6, <1>7 DEF Next, Process

LEMMA InitEstablishesDecInv == Init => DecInv
<1> SUFFICES ASSUME Init PROVE DecInv OBVIOUS
<1> USE FreshShapes DEF Init, NoTx
<1>1. DiskHonest /\ CallHonest BY DEF DiskHonest, CallHonest
<1>2. Frames BY DEF Frames, QuietPcs, PollPcs, FinPcs
<1>3. DecisionsAllotted /\ Within BY DEF DecisionsAllotted, Within
<1>4. TrackedNotDropped BY DEF TrackedNotDropped
<1>5. SoleOrder /\ OneSale BY DEF SoleOrder, OneSale
<1>6. QED BY <1>1, <1>2, <1>3, <1>4, <1>5 DEF DecInv

LEMMA DecInvHolds == Spec => []DecInv
<1>1. IndInv /\ IndInv' /\ DecInv /\ [Next]_vars => DecInv' BY NextKeepsDecInv
<1>2. QED BY <1>1, InitEstablishesDecInv, InvHolds, PTL DEF Spec

\* One decision sells once and no more than it asked for, across retries,
\* crashes and resumes: a second transaction of its that lands was declared
\* dead by the poll race.
THEOREM DecisionSellsOnce == Spec => []SoldOncePerDecision
<1>1. IndInv /\ DecInv => SoldOncePerDecision
  <2> SUFFICES ASSUME IndInv, DecInv, NEW s \in Signatures, tx[s].st = "landed"
               PROVE  /\ tx[s].amt <= authorised[tx[s].dec]
                      /\ \A t \in Signatures :
                           t # s /\ tx[t].st = "landed" /\ tx[t].dec = tx[s].dec =>
                               dropped[s] = "race" \/ dropped[t] = "race"
    BY DEF SoldOncePerDecision
  <2>1. tx[s].dec # None BY DEF IndInv, Allotted
  <2>2. QED BY <2>1 DEF DecInv, Within, OneSale, Spent
<1>2. QED BY <1>1, InvHolds, DecInvHolds, PTL
=============================================================================
