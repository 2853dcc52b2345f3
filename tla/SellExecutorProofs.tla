------------------------- MODULE SellExecutorProofs -------------------------
(***************************************************************************)
(* Proofs about SellExecutor for every value of its constants.              *)
(***************************************************************************)
EXTENDS SellExecutor, TLAPS

QuietPcs == {"down", "boot", "reconcile", "page", "idle", "decide", "panic"}
OrderPcs == {"hold", "filled", "order", "simulate"}
PollPcs  == {"poll", "pollBalance", "pollBlockhash"}
FinPcs   == {"finalize", "finDelete", "finAppend", "finNotify"}

\* Signatures and decisions are handed out in order, and what is stored or
\* tracked was handed out.
Allotted ==
    /\ \A s \in Signatures : s > sigs <=> tx[s].st = "unsigned"
    /\ \A s \in Signatures : tx[s].st # "unsigned" => tx[s].dec # None
    /\ disk.sig <= sigs /\ call.sig <= sigs
    /\ disk.status # "absent" => disk.dec # None

\* A stored signature is always under an unresolved status.
DiskTracks == disk.sig # None => disk.status \in UnresolvedStatuses

\* What the locals track at each point of the process, and that the stored
\* entry names the same signature or, once a fill is being booked, none.
CallTracks ==
    /\ pc \in QuietPcs \cup OrderPcs => call.sig = None
    /\ pc \in PollPcs \cup FinPcs \cup {"send", "response"} => call.sig # None
    /\ pc \in OrderPcs => disk.sig = None
    /\ pc = "attempt" /\ call.sig = None => disk.sig = None
    /\ pc \in {"send", "response"} => disk.sig = call.sig
    /\ pc = "send" => tx[call.sig].st = "signed"
    /\ call.sig # None => disk.sig \in {call.sig, None}
    /\ call.sig # None /\ disk.sig = None => tx[call.sig].st = "landed"
    /\ pc \in FinPcs \cup {"pollBalance"} => tx[call.sig].st = "landed"
    /\ pc = "finNotify" => Booked(call.sig)

\* The amounts and decision a call will write when it gets to its intent.
CallAuthorised ==
    /\ pc = "reconcile" => disk.status # "absent"
    /\ pc \in OrderPcs \/ (pc = "attempt" /\ call.sig = None) => disk.status # "absent"
    /\ pc = "panic" => decs < MaxDecisions
    /\ pc \in PollPcs /\ call.ret = "prior" =>
           call.req <= call.obs /\ (call.dec = None => decs < MaxDecisions)
    /\ pc \in OrderPcs \cup {"attempt", "send", "response"} => call.dec # None
    /\ pc \in PollPcs \cup FinPcs /\ call.ret \in {"loop", "submit"} => call.dec # None

IndInv ==
    /\ TypeOK
    /\ Allotted
    /\ DiskTracks
    /\ CallTracks
    /\ CallAuthorised
    /\ LandableIsOnDisk
    /\ FillsAccounted

-----------------------------------------------------------------------------
(* The shapes of the records the process keeps.                             *)

USE BoundsAssumption, ChoicesAssumption
USE DEF Signatures, Decisions, Amounts, None, UnresolvedStatuses, Statuses, ReasonClasses

LEMMA NoCallType == NoCall \in CallType /\ NoCall.sig = None
BY DEF CallType, NoCall

LEMMA FreshCallType ==
    ASSUME NEW src \in {"cycle", "reconcile", "panic"}, NEW n \in Amounts
    PROVE  /\ [NoCall EXCEPT !.obs = n] \in CallType
           /\ [NoCall EXCEPT !.obs = n].sig = None
           /\ [NoCall EXCEPT !.src = src, !.obs = n] \in CallType
           /\ [NoCall EXCEPT !.src = src, !.obs = n].sig = None
<1>1. [NoCall EXCEPT !.src = src] \in CallType /\ [NoCall EXCEPT !.src = src].sig = None
  BY NoCallType DEF CallType
<1>2. \A c \in CallType : [c EXCEPT !.obs = n] \in CallType /\ [c EXCEPT !.obs = n].sig = c.sig
  BY DEF CallType
<1>3. QED BY <1>1, <1>2, NoCallType

LEMMA NextAttemptType ==
    ASSUME NEW c \in CallType
    PROVE  /\ [c EXCEPT !.attempt = @ + 1] \in CallType
           /\ \A f \in DOMAIN c : f # "attempt" => [c EXCEPT !.attempt = @ + 1][f] = c[f]
<1>1. c.attempt + 1 \in Nat BY DEF CallType
<1>2. QED BY <1>1 DEF CallType

LEMMA NoIntentType == NoIntent \in IntentType /\ NoIntent.sig = None
BY DEF IntentType, NoIntent

LEMMA TxStatusStep ==
    ASSUME ChainTypeOK, NEW s \in Signatures, NEW v \in {"sent", "landed", "failed"},
           tx' = [tx EXCEPT ![s].st = v]
    PROVE  /\ tx' \in [Signatures -> TxType]
           /\ tx'[s].st = v
           /\ \A t \in Signatures : tx'[t].dec = tx[t].dec /\ (t # s => tx'[t] = tx[t])
<1>1. tx \in [Signatures -> TxType] BY DEF ChainTypeOK
<1>2. /\ [tx[s] EXCEPT !.st = v] \in TxType /\ [tx[s] EXCEPT !.st = v].st = v
      /\ [tx[s] EXCEPT !.st = v].dec = tx[s].dec
  BY <1>1 DEF TxType
<1>3. QED BY <1>1, <1>2

\* Appending a row books its signature and unbooks none.
LEMMA AppendBooks ==
    ASSUME NEW T, NEW l \in Seq(T), NEW r \in T
    PROVE  /\ Append(l, r) \in Seq(T)
           /\ \A i \in DOMAIN l : i \in DOMAIN Append(l, r) /\ Append(l, r)[i] = l[i]
           /\ \E i \in DOMAIN Append(l, r) : Append(l, r)[i] = r
<1>1. /\ Append(l, r) \in Seq(T) /\ Len(l) \in Nat
      /\ Len(Append(l, r)) = Len(l) + 1
      /\ \A i \in 1..Len(l) : Append(l, r)[i] = l[i]
      /\ Append(l, r)[Len(l) + 1] = r
  OBVIOUS
<1>2. DOMAIN l = 1..Len(l) /\ DOMAIN Append(l, r) = 1..(Len(l) + 1)
  BY <1>1
<1>3. QED BY <1>1, <1>2

LEMMA InitEstablishesInv == Init => IndInv
<1> SUFFICES ASSUME Init PROVE IndInv OBVIOUS
<1> USE DEF Init
<1>1. ChainTypeOK BY DEF ChainTypeOK, TxType, NoTx
<1>2. DiskTypeOK
  <2>1. \A T : <<>> \in Seq(T) OBVIOUS
  <2>2. QED BY <2>1, NoIntentType, Zenon DEF DiskTypeOK
<1>3. ProcTypeOK BY DEF ProcTypeOK, Pcs, CallType, NoCall
<1>4. HistTypeOK BY DEF HistTypeOK
<1>5. CountsTypeOK BY DEF CountsTypeOK
<1>6. Allotted /\ DiskTracks BY DEF Allotted, DiskTracks, NoIntent, NoCall, NoTx
<1>7. CallTracks /\ CallAuthorised
  BY DEF CallTracks, CallAuthorised, QuietPcs, OrderPcs, PollPcs, FinPcs, NoIntent, NoCall
<1>8. LandableIsOnDisk /\ FillsAccounted
  BY DEF LandableIsOnDisk, FillsAccounted, MayStillLand, NoTx
<1>9. QED BY <1>1, <1>2, <1>3, <1>4, <1>5, <1>6, <1>7, <1>8 DEF IndInv, TypeOK

-----------------------------------------------------------------------------
(* A step that moves no transaction: what it must hand over.                 *)

\* The step leaves the chain alone, tracks no new signature, and lets go of a
\* stored or tracked one only once it cannot land and, if it landed, is booked
\* or recorded as lost.
HandsOver ==
    /\ UNCHANGED chainVars
    /\ call'.sig \in {None, call.sig, disk.sig}
    /\ disk'.sig \in {None, call.sig, disk.sig}
    /\ disk'.status # "absent" => disk'.dec # None
    /\ \A s \in Signatures : Booked(s) => Booked(s)'
    /\ \A s \in Signatures :
         /\ dropped[s] # "no" => dropped'[s] # "no"
         /\ dropped[s] = "skip" => dropped'[s] = "skip" \/ ~MayStillLand(s)
    /\ disk.sig # None /\ disk'.sig # disk.sig =>
         \/ ~MayStillLand(disk.sig)
         \/ dropped'[disk.sig] = "skip"
    /\ \A s \in {disk.sig, call.sig} \ {None} :
         tx[s].st = "landed" =>
             Booked(s)' \/ s \in {disk'.sig, call'.sig} \/ dropped'[s] # "no"

LEMMA HandoverKeepsInv ==
    ASSUME IndInv, HandsOver, TypeOK', DiskTracks', CallTracks', CallAuthorised'
    PROVE  IndInv'
<1> USE DEF IndInv, HandsOver, chainVars
<1>1. /\ disk.sig \in Signatures \cup {None} /\ call.sig \in Signatures \cup {None}
      /\ disk'.sig \in Signatures \cup {None} /\ sigs \in Nat
  BY DEF TypeOK, DiskTypeOK, ProcTypeOK, ChainTypeOK, IntentType, CallType
<1>2. Allotted' BY <1>1 DEF Allotted
<1>3. LandableIsOnDisk'
  <2> SUFFICES ASSUME NEW s \in Signatures, MayStillLand(s)', dropped'[s] # "skip"
               PROVE  (InFlight(disk) /\ disk.sig = s)'
    BY DEF LandableIsOnDisk
  <2>1. MayStillLand(s) /\ dropped[s] # "skip" BY DEF MayStillLand
  <2>2. disk.sig = s BY <2>1 DEF LandableIsOnDisk
  <2>3. disk'.sig = s BY <2>1, <2>2
  <2>4. QED BY <2>3 DEF InFlight, DiskTracks
<1>4. FillsAccounted' BY <1>1 DEF FillsAccounted
<1>5. QED BY <1>2, <1>3, <1>4

-----------------------------------------------------------------------------
(* Pieces shared by several steps.                                          *)

LEMMA ResolvingKeepsInv ==
    ASSUME IndInv, NEW c \in CallType, NEW ret \in {"prior", "absent"}, pc \in QuietPcs,
           InFlight(disk), Resolving(c, disk, ret),
           ret = "prior" => c.req <= c.obs /\ (c.dec = None => decs < MaxDecisions),
           UNCHANGED <<chainVars, diskVars, histVars, decs, envVars>>
    PROVE  IndInv'
<1> USE DEF IndInv, TypeOK, Resolving, chainVars, diskVars, procVars, histVars, envVars
<1>0. /\ call.sig \in Signatures \cup {None} /\ disk.sig \in Signatures \cup {None}
      /\ \A s \in Signatures : Booked(s)' <=> Booked(s)
  BY DEF ProcTypeOK, CallType, DiskTypeOK, IntentType, Booked
<1>1. /\ disk.sig \in Signatures /\ disk.amt \in Amounts /\ disk.rem \in Amounts
      /\ disk.reason \in ReasonClasses
  BY <1>0 DEF DiskTypeOK, IntentType, InFlight
<1>2. /\ call' \in CallType /\ call'.sig = disk.sig /\ call'.ret = ret /\ call'.req = c.req
      /\ call'.obs = c.obs /\ call'.dec = c.dec
  BY <1>1 DEF CallType
<1>3. TypeOK'
  <2>1. ChainTypeOK' /\ DiskTypeOK' /\ HistTypeOK' /\ CountsTypeOK'
    BY DEF ChainTypeOK, DiskTypeOK, HistTypeOK, CountsTypeOK
  <2>2. ProcTypeOK' BY <1>2 DEF ProcTypeOK, Pcs
  <2>3. QED BY <2>1, <2>2
<1>4. call.sig = None BY DEF CallTracks
<1>5. DiskTracks' /\ CallTracks'
  BY <1>1, <1>2 DEF DiskTracks, CallTracks, QuietPcs, OrderPcs, PollPcs, FinPcs
<1>6. CallAuthorised' BY <1>2 DEF CallAuthorised, QuietPcs, OrderPcs, PollPcs, FinPcs
<1>7. HandsOver BY <1>0, <1>2, <1>4 DEF HandsOver, Allotted
<1>8. QED BY <1>3, <1>5, <1>6, <1>7, HandoverKeepsInv

LEMMA BlockKeepsInv ==
    ASSUME IndInv, call.sig # None, Block,
           UNCHANGED <<chainVars, disposeOn, ledger, histVars, decs, envVars>>
    PROVE  IndInv'
<1> USE DEF IndInv, TypeOK, Block, Return, chainVars, diskVars, procVars, histVars, envVars
<1>0. /\ call.sig \in Signatures \cup {None} /\ disk.sig \in Signatures \cup {None}
      /\ \A s \in Signatures : Booked(s)' <=> Booked(s)
  BY DEF ProcTypeOK, CallType, DiskTypeOK, IntentType, Booked
<1>1. /\ call.amt \in Amounts /\ call.rem \in Amounts /\ call.why \in ReasonClasses
      /\ tx[call.sig].dec \in Decisions
  <2>1. tx[call.sig].st # "unsigned" BY <1>0 DEF Allotted, ChainTypeOK
  <2>2. tx[call.sig].dec # None /\ tx[call.sig] \in TxType
    BY <1>0, <2>1 DEF Allotted, ChainTypeOK
  <2>3. QED BY <1>0, <2>2 DEF ProcTypeOK, CallType, TxType
<1>2. /\ disk' \in IntentType /\ disk'.sig = call.sig /\ disk'.dec # None
      /\ disk'.status = "submitted_unconfirmed"
  BY <1>0, <1>1 DEF IntentOf, IntentType
<1>3. TypeOK'
  <2>1. ChainTypeOK' /\ HistTypeOK' /\ CountsTypeOK'
    BY DEF ChainTypeOK, HistTypeOK, CountsTypeOK
  <2>2. DiskTypeOK' BY <1>2 DEF DiskTypeOK
  <2>3. ProcTypeOK' BY NoCallType DEF ProcTypeOK, Pcs
  <2>4. QED BY <2>1, <2>2, <2>3
<1>4. DiskTracks' /\ CallTracks'
  BY <1>2, NoCallType DEF DiskTracks, CallTracks, QuietPcs, OrderPcs, PollPcs, FinPcs
<1>5. CallAuthorised' BY DEF CallAuthorised, QuietPcs, OrderPcs, PollPcs, FinPcs
<1>6. disk.sig \in {call.sig, None} BY DEF CallTracks
<1>7. HandsOver BY <1>0, <1>2, <1>6, NoCallType DEF HandsOver
<1>8. QED BY <1>3, <1>4, <1>5, <1>7, HandoverKeepsInv

LEMMA NextPollKeepsInv ==
    ASSUME IndInv, pc \in PollPcs, NextPoll,
           UNCHANGED <<chainVars, disposeOn, ledger, histVars, decs, envVars>>
    PROVE  IndInv'
<1> USE DEF IndInv
<1>1. CASE call.poll < PollLimit
  <2> USE DEF TypeOK, chainVars, diskVars, procVars, histVars, envVars
  <2>1. /\ pc' = "poll" /\ UNCHANGED disk
        /\ call' = [call EXCEPT !.poll = @ + 1] BY <1>1 DEF NextPoll
  <2>2. call \in CallType /\ call.poll + 1 \in Nat BY DEF ProcTypeOK, CallType
  <2>3. /\ call' \in CallType /\ call'.sig = call.sig /\ call'.ret = call.ret
        /\ call'.req = call.req /\ call'.obs = call.obs /\ call'.dec = call.dec
    BY <2>1, <2>2 DEF CallType
  <2>4. TypeOK'
    <3>1. ChainTypeOK' /\ DiskTypeOK' /\ HistTypeOK' /\ CountsTypeOK'
      BY <2>1 DEF ChainTypeOK, DiskTypeOK, HistTypeOK, CountsTypeOK
    <3>2. ProcTypeOK' BY <2>1, <2>3 DEF ProcTypeOK, Pcs
    <3>3. QED BY <3>1, <3>2
  <2>5. DiskTracks' BY <2>1 DEF DiskTracks
  <2>6. CallTracks' BY <2>1, <2>3 DEF CallTracks, QuietPcs, OrderPcs, PollPcs, FinPcs
  <2>7. CallAuthorised' BY <2>1, <2>3 DEF CallAuthorised, QuietPcs, OrderPcs, PollPcs, FinPcs
  <2>8. \A s \in Signatures : Booked(s)' <=> Booked(s) BY DEF Booked
  <2>9. HandsOver BY <2>1, <2>3, <2>8 DEF HandsOver, Allotted
  <2>10. QED BY <2>4, <2>5, <2>6, <2>7, <2>9, HandoverKeepsInv
<1>2. CASE ~(call.poll < PollLimit)
  BY <1>2, BlockKeepsInv DEF NextPoll, CallTracks, PollPcs
<1>3. QED BY <1>1, <1>2

LEMMA RetryKeepsInv ==
    ASSUME IndInv, pc \in PollPcs \cup FinPcs, call.ret \in {"loop", "submit"},
           NextAttempt(call), ioErrs' \in Nat,
           UNCHANGED <<chainVars, diskVars, histVars, decs, crashes, ops>>
    PROVE  IndInv'
<1> USE DEF IndInv, TypeOK, NextAttempt, chainVars, diskVars, procVars, histVars, envVars
<1>1. /\ call' \in CallType /\ call'.sig = call.sig /\ call'.dec = call.dec
  BY NextAttemptType DEF ProcTypeOK, CallType
<1>2. TypeOK'
  <2>1. ChainTypeOK' /\ DiskTypeOK' /\ HistTypeOK' /\ CountsTypeOK'
    BY DEF ChainTypeOK, DiskTypeOK, HistTypeOK, CountsTypeOK
  <2>2. ProcTypeOK' BY <1>1 DEF ProcTypeOK, Pcs
  <2>3. QED BY <2>1, <2>2
<1>3. DiskTracks' BY DEF DiskTracks
<1>4. CallTracks' BY <1>1 DEF CallTracks, QuietPcs, OrderPcs, PollPcs, FinPcs
<1>5. CallAuthorised'
  BY <1>1 DEF CallAuthorised, CallTracks, QuietPcs, OrderPcs, PollPcs, FinPcs
<1>6. \A s \in Signatures : Booked(s)' <=> Booked(s) BY DEF Booked
<1>7. HandsOver BY <1>1, <1>6 DEF HandsOver, Allotted
<1>8. QED BY <1>2, <1>3, <1>4, <1>5, <1>7, HandoverKeepsInv

LEMMA DieKeepsInv ==
    ASSUME IndInv, Die, ioErrs' \in Nat,
           UNCHANGED <<chainVars, diskVars, authorised, closed, pages, marks, decs, ops>>
    PROVE  IndInv'
<1> USE DEF IndInv, TypeOK, Die, chainVars, diskVars, procVars, histVars, envVars
<1>0. /\ call.sig \in Signatures \cup {None} /\ disk.sig \in Signatures \cup {None}
      /\ \A s \in Signatures : Booked(s)' <=> Booked(s)
  BY DEF ProcTypeOK, CallType, DiskTypeOK, IntentType, Booked
<1>1. TypeOK'
  <2>1. ChainTypeOK' /\ DiskTypeOK' /\ CountsTypeOK'
    BY DEF ChainTypeOK, DiskTypeOK, CountsTypeOK
  <2>2. ProcTypeOK' BY NoCallType DEF ProcTypeOK, Pcs
  <2>3. HistTypeOK' BY DEF HistTypeOK
  <2>4. QED BY <2>1, <2>2, <2>3
<1>2. DiskTracks' BY DEF DiskTracks
<1>3. CallTracks' /\ CallAuthorised'
  BY NoCallType DEF CallTracks, CallAuthorised, QuietPcs, OrderPcs, PollPcs, FinPcs
<1>4. HandsOver
  <2>1. \A s \in Signatures :
          /\ dropped[s] # "no" => dropped'[s] = dropped[s]
          /\ s = call.sig /\ s # disk.sig /\ ~Booked(s) => dropped'[s] # "no"
    OBVIOUS
  <2>2. QED BY <1>0, <2>1, NoCallType DEF HandsOver, Allotted
<1>5. QED BY <1>1, <1>2, <1>3, <1>4, HandoverKeepsInv

\* Whatever was stored or tracked cannot land any more and, if it landed, is
\* booked or recorded as lost.
LetsGo ==
    /\ dropped' \in [Signatures -> {"no", "skip", "race", "crash"}]
    /\ \A s \in Signatures :
         /\ dropped[s] # "no" => dropped'[s] # "no"
         /\ dropped[s] = "skip" => dropped'[s] = "skip" \/ ~MayStillLand(s)
    /\ \A s \in {disk.sig, call.sig} \ {None} :
         /\ ~MayStillLand(s)
         /\ tx[s].st = "landed" => Booked(s) \/ dropped'[s] # "no"

LEMMA WriteIntentKeepsInv ==
    ASSUME IndInv, NEW c \in CallType, c.req <= c.obs, c.dec = None => decs < MaxDecisions,
           LetsGo, WriteIntent(c),
           UNCHANGED <<chainVars, disposeOn, ledger, closed, pages, marks, envVars>>
    PROVE  IndInv'
<1> USE DEF IndInv, TypeOK, chainVars, diskVars, procVars, histVars, envVars
<1>0. /\ call.sig \in Signatures \cup {None} /\ disk.sig \in Signatures \cup {None}
      /\ \A s \in Signatures : Booked(s)' <=> Booked(s)
  BY DEF ProcTypeOK, CallType, DiskTypeOK, IntentType, Booked
<1> DEFINE d == IF c.dec = None THEN decs + 1 ELSE c.dec
<1>1. d \in Decisions BY DEF CountsTypeOK, CallType
<1>2. /\ disk' \in IntentType /\ disk'.sig = None /\ disk'.dec = d /\ disk'.status = "intent"
  <2>1. c.obs - c.req \in Amounts /\ c.req \in Amounts /\ c.reason \in ReasonClasses
    BY DEF CallType
  <2>2. QED BY <1>1, <2>1 DEF WriteIntent, IntentType
<1>3. /\ call' \in CallType /\ call'.sig = None /\ call'.dec = d /\ pc' = "attempt"
  BY <1>1 DEF WriteIntent, CallType
<1>4. TypeOK'
  <2>1. ChainTypeOK' BY DEF ChainTypeOK
  <2>2. DiskTypeOK' BY <1>2 DEF DiskTypeOK
  <2>3. ProcTypeOK' BY <1>3 DEF ProcTypeOK, Pcs
  <2>4. authorised' \in [Decisions -> Amounts]
    BY <1>1 DEF WriteIntent, HistTypeOK, CallType
  <2>5. HistTypeOK' BY <2>4 DEF HistTypeOK, LetsGo
  <2>6. CountsTypeOK' BY DEF WriteIntent, CountsTypeOK
  <2>7. QED BY <2>1, <2>2, <2>3, <2>5, <2>6
<1>5. DiskTracks' /\ CallTracks'
  BY <1>2, <1>3 DEF DiskTracks, CallTracks, QuietPcs, OrderPcs, PollPcs, FinPcs
<1>6. CallAuthorised'
  BY <1>1, <1>2, <1>3 DEF CallAuthorised, QuietPcs, OrderPcs, PollPcs, FinPcs
<1>7. HandsOver BY <1>0, <1>1, <1>2, <1>3 DEF HandsOver, LetsGo
<1>8. QED BY <1>4, <1>5, <1>6, <1>7, HandoverKeepsInv

LEMMA EnterSellKeepsInv ==
    ASSUME IndInv, pc \in QuietPcs, NEW src \in {"cycle", "reconcile", "panic"},
           NEW obs \in Amounts, NEW req, NEW reason \in ReasonClasses,
           NEW dec \in Decisions \cup {None}, dec = None => decs < MaxDecisions,
           EnterSell(src, obs, req, reason, dec)
    PROVE  IndInv'
<1> DEFINE c == [NoCall EXCEPT !.src = src, !.obs = obs, !.req = req, !.reason = reason,
                               !.dec = dec]
<1>1. req \in Amounts /\ req <= obs BY DEF EnterSell
<1>2. c \in CallType /\ c.req = req /\ c.obs = obs /\ c.dec = dec
  <2> DEFINE c0 == [NoCall EXCEPT !.src = src]
             c1 == [c0 EXCEPT !.obs = obs]
             c2 == [c1 EXCEPT !.req = req]
             c3 == [c2 EXCEPT !.reason = reason]
  <2>1. c1 \in CallType /\ c1.obs = obs
    <3>1. c0 \in CallType BY NoCallType DEF CallType
    <3>2. QED BY <3>1 DEF CallType
  <2>2. c2 \in CallType /\ c2.obs = obs /\ c2.req = req BY <1>1, <2>1 DEF CallType
  <2>3. c3 \in CallType /\ c3.obs = obs /\ c3.req = req BY <2>2 DEF CallType
  <2>4. c = [c3 EXCEPT !.dec = dec] OBVIOUS
  <2> HIDE DEF c, c3
  <2>5. QED BY <2>3, <2>4 DEF CallType
<1>3. call.sig = None BY DEF IndInv, CallTracks
<1>4. CASE /\ pc' = IF src = "panic" THEN "down" ELSE "idle"
           /\ call' = NoCall
           /\ UNCHANGED <<disk, decs, authorised>>
  <2> USE <1>3, <1>4 DEF IndInv, TypeOK, EnterSell, chainVars, diskVars, procVars, histVars, envVars
  <2>1. TypeOK'
    <3>1. ChainTypeOK' /\ DiskTypeOK' /\ HistTypeOK' /\ CountsTypeOK'
      BY DEF ChainTypeOK, DiskTypeOK, HistTypeOK, CountsTypeOK
    <3>2. ProcTypeOK' BY NoCallType DEF ProcTypeOK, Pcs
    <3>3. QED BY <3>1, <3>2
  <2>2. DiskTracks' /\ CallTracks' /\ CallAuthorised'
   
      BY NoCallType DEF DiskTracks, CallTracks, CallAuthorised, QuietPcs, OrderPcs,
         PollPcs, FinPcs
  <2>3. \A s \in Signatures : Booked(s)' <=> Booked(s) BY DEF Booked
  <2>4. HandsOver BY <2>3, NoCallType DEF HandsOver, Allotted
  <2>5. QED BY <2>1, <2>2, <2>4, HandoverKeepsInv
<1>5. CASE InFlight(disk) /\ Resolving(c, disk, "prior") /\ UNCHANGED <<disk, decs, authorised>>
  <2>1. UNCHANGED <<chainVars, diskVars, histVars, decs, envVars>>
    BY <1>5 DEF EnterSell, diskVars, histVars
  <2>2. QED BY <1>1, <1>2, <1>5, <2>1, ResolvingKeepsInv
<1>6. CASE ~InFlight(disk) /\ WriteIntent(c)
  <2>1. UNCHANGED <<chainVars, disposeOn, ledger, dropped, closed, pages, marks, envVars>>
    BY DEF EnterSell
  <2>2. disk.sig = None BY <1>6 DEF IndInv, DiskTracks, InFlight
  <2>3. LetsGo BY <1>3, <2>1, <2>2 DEF LetsGo, IndInv, TypeOK, HistTypeOK
  <2>4. QED BY <1>1, <1>2, <1>6, <2>1, <2>3, WriteIntentKeepsInv
<1>7. QED BY <1>4, <1>5, <1>6 DEF EnterSell

\* The stored entry names no signature any more.
Cleared ==
    /\ disk' \in IntentType /\ disk'.sig = None
    /\ disk'.status # "absent" => disk'.dec # None

LEMMA DeadKeepsInv ==
    ASSUME IndInv, pc \in PollPcs, ~MayStillLand(call.sig), Dead,
           UNCHANGED <<chainVars, disposeOn, ledger, closed, pages, marks, envVars>>
    PROVE  IndInv'
<1> USE DEF IndInv
<1>0. /\ call.sig \in Signatures /\ disk.sig \in {call.sig, None}
  BY DEF TypeOK, ProcTypeOK, CallType, CallTracks
<1>1. LetsGo
  <2>1. /\ dropped \in [Signatures -> {"no", "skip", "race", "crash"}]
    BY DEF TypeOK, HistTypeOK
  <2>2. dropped' = IF tx[call.sig].st = "landed"
                   THEN [dropped EXCEPT ![call.sig] = "race"] ELSE dropped
    BY DEF Dead
  <2>3. QED BY <1>0, <2>1, <2>2 DEF LetsGo
<1>2. CASE call.ret = "prior" /\ WriteIntent(call)
  <2>1. /\ call \in CallType /\ call.req <= call.obs /\ (call.dec = None => decs < MaxDecisions)
    BY <1>2 DEF TypeOK, ProcTypeOK, CallAuthorised
  <2>2. QED BY <1>1, <1>2, <2>1, WriteIntentKeepsInv
<1>3. ASSUME UNCHANGED <<decs, authorised>>, Cleared, call' \in CallType, call'.sig = None, pc' \in Pcs,
             CallTracks', CallAuthorised'
      PROVE  IndInv'
  <2> USE <1>3 DEF Cleared, chainVars, diskVars, procVars, histVars, envVars
  <2>1. TypeOK'
    <3>1. ChainTypeOK' BY DEF TypeOK, ChainTypeOK
    <3>2. DiskTypeOK' /\ ProcTypeOK' BY DEF TypeOK, DiskTypeOK, ProcTypeOK
    <3>3. HistTypeOK' BY <1>1 DEF TypeOK, HistTypeOK, LetsGo
    <3>4. CountsTypeOK' BY DEF TypeOK, CountsTypeOK
    <3>5. QED BY <3>1, <3>2, <3>3, <3>4 DEF TypeOK
  <2>2. DiskTracks' BY DEF DiskTracks
  <2>3. \A s \in Signatures : Booked(s)' <=> Booked(s) BY DEF Booked
  <2>4. HandsOver BY <1>0, <1>1, <2>3 DEF HandsOver, LetsGo
  <2>5. QED BY <2>1, <2>2, <2>4, HandoverKeepsInv
<1>4. CASE call.ret = "absent" /\ disk' = NoIntent /\ Return /\ UNCHANGED <<decs, authorised>>
  <2>1. Cleared /\ call' \in CallType /\ call'.sig = None /\ pc' \in {"down", "idle"}
    BY <1>4, NoIntentType, NoCallType DEF NoIntent, Return, Cleared
  <2>2. CallTracks' /\ CallAuthorised'
    BY <2>1 DEF CallTracks, CallAuthorised, QuietPcs, OrderPcs, PollPcs, FinPcs
  <2>3. QED BY <1>3, <1>4, <2>1, <2>2 DEF Pcs
<1>5. ASSUME ClearPendingSignature PROVE Cleared /\ disk'.status = "retrying"
  <2>1. /\ call.amt \in Amounts /\ call.rem \in Amounts /\ call.why \in ReasonClasses
    BY DEF TypeOK, ProcTypeOK, CallType
  <2>2. tx[call.sig].st # "unsigned" BY <1>0 DEF Allotted, TypeOK, ChainTypeOK
  <2>3. tx[call.sig].dec # None /\ tx[call.sig] \in TxType
    BY <1>0, <2>2 DEF Allotted, TypeOK, ChainTypeOK
  <2>4. tx[call.sig].dec \in Decisions BY <2>3 DEF TxType
  <2>5. QED BY <1>5, <2>1, <2>4 DEF Cleared, ClearPendingSignature, IntentOf, IntentType
<1>6. CASE /\ call.ret = "loop" /\ ClearPendingSignature /\ pc' = "hold"
           /\ call' = [call EXCEPT !.sig = None] /\ UNCHANGED <<decs, authorised>>
  <2>1. call' \in CallType /\ call'.sig = None /\ call'.dec = call.dec
    BY <1>6 DEF TypeOK, ProcTypeOK, CallType
  <2>2. Cleared /\ disk'.status = "retrying" BY <1>5, <1>6
  <2>3. CallTracks'
    BY <1>6, <2>1, <2>2 DEF Cleared, CallTracks, QuietPcs, OrderPcs, PollPcs, FinPcs
  <2>4. CallAuthorised'
    BY <1>6, <2>1, <2>2 DEF CallAuthorised, QuietPcs, OrderPcs, PollPcs, FinPcs
  <2>5. QED BY <1>3, <1>6, <2>1, <2>2, <2>3, <2>4 DEF Pcs
<1>7. CASE /\ call.ret = "submit" /\ ClearPendingSignature
           /\ NextAttempt([call EXCEPT !.sig = None]) /\ UNCHANGED <<decs, authorised>>
  <2>1. /\ [call EXCEPT !.sig = None] \in CallType /\ [call EXCEPT !.sig = None].sig = None
        /\ [call EXCEPT !.sig = None].dec = call.dec
    BY DEF TypeOK, ProcTypeOK, CallType
  <2>2. call' \in CallType /\ call'.sig = None /\ call'.dec = call.dec /\ pc' = "attempt"
    BY <1>7, <2>1, NextAttemptType DEF NextAttempt, CallType
  <2>3. Cleared /\ disk'.status = "retrying" BY <1>5, <1>7
  <2>4. CallTracks' BY <2>2, <2>3 DEF Cleared, CallTracks, QuietPcs, OrderPcs, PollPcs, FinPcs
  <2>5. CallAuthorised'
    BY <1>7, <2>2, <2>3 DEF CallAuthorised, QuietPcs, OrderPcs, PollPcs, FinPcs
  <2>6. QED BY <1>3, <1>7, <2>2, <2>3, <2>4, <2>5 DEF Pcs
<1>8. QED BY <1>2, <1>4, <1>6, <1>7 DEF Dead

-----------------------------------------------------------------------------
(* The chain, the RPC node and the operator.                                *)

LEMMA LandKeepsInv == ASSUME IndInv, NEW s \in Signatures, Land(s) PROVE IndInv'
<1> USE DEF IndInv, TypeOK, Land, chainVars, diskVars, procVars, histVars, envVars
<1> DEFINE v == tx'[s].st
<1>1. /\ tx' \in [Signatures -> TxType] /\ v \in {"landed", "failed"}
      /\ \A t \in Signatures : /\ tx'[t].dec = tx[t].dec
                               /\ t # s => tx'[t] = tx[t]
  <2>1. PICK w \in {"landed", "failed"} : tx' = [tx EXCEPT ![s].st = w] OBVIOUS
  <2>2. QED BY <2>1, TxStatusStep
<1>2. ChainTypeOK'
  <2>1. bal \in Amounts /\ tx[s].amt \in Amounts BY DEF ChainTypeOK, TxType
  <2>2. bal' \in Amounts BY <2>1
  <2>3. QED BY <1>1, <2>2 DEF ChainTypeOK
<1>3. DiskTypeOK' /\ ProcTypeOK' /\ HistTypeOK' /\ CountsTypeOK'
  BY DEF DiskTypeOK, ProcTypeOK, HistTypeOK, CountsTypeOK
<1>4. tx[s].st = "sent" BY DEF MayStillLand
<1>5. Allotted' BY <1>1, <1>4 DEF Allotted
<1>6. DiskTracks' /\ CallAuthorised' BY DEF DiskTracks, CallAuthorised
<1>7. \A t \in Signatures : Booked(t)' <=> Booked(t) BY DEF Booked
<1>8. call.sig \in Signatures \cup {None} BY DEF ProcTypeOK, CallType
<1>9. CallTracks' BY <1>1, <1>4, <1>7, <1>8 DEF CallTracks, QuietPcs, OrderPcs, PollPcs, FinPcs
<1>10. LandableIsOnDisk' BY <1>1, <1>4 DEF LandableIsOnDisk, MayStillLand, InFlight
<1>11. FillsAccounted' BY <1>1, <1>7 DEF FillsAccounted, LandableIsOnDisk
<1>12. QED BY <1>2, <1>3, <1>5, <1>6, <1>9, <1>10, <1>11

LEMMA ExpireKeepsInv == ASSUME IndInv, NEW s \in Signatures, Expire(s) PROVE IndInv'
<1> USE DEF IndInv, TypeOK, Expire, chainVars, diskVars, procVars, histVars, envVars
<1>1. ChainTypeOK' BY DEF ChainTypeOK
<1>2. DiskTypeOK' /\ ProcTypeOK' /\ HistTypeOK' /\ CountsTypeOK'
  BY DEF DiskTypeOK, ProcTypeOK, HistTypeOK, CountsTypeOK
<1>3. Allotted' /\ DiskTracks' /\ CallAuthorised' BY DEF Allotted, DiskTracks, CallAuthorised
<1>4. CallTracks' /\ FillsAccounted' BY DEF CallTracks, FillsAccounted, Booked
<1>5. LandableIsOnDisk' BY DEF LandableIsOnDisk, MayStillLand, InFlight, ChainTypeOK
<1>6. QED BY <1>1, <1>2, <1>3, <1>4, <1>5

LEMMA CatchUpKeepsInv == ASSUME IndInv, CatchUp PROVE IndInv'
<1> USE DEF IndInv, TypeOK, CatchUp, chainVars, diskVars, procVars, histVars, envVars
<1>1. ChainTypeOK' BY DEF ChainTypeOK
<1>2. DiskTypeOK' /\ ProcTypeOK' /\ HistTypeOK' /\ CountsTypeOK'
  BY DEF DiskTypeOK, ProcTypeOK, HistTypeOK, CountsTypeOK
<1>3. Allotted' /\ DiskTracks' /\ CallAuthorised' BY DEF Allotted, DiskTracks, CallAuthorised
<1>4. CallTracks' /\ FillsAccounted' BY DEF CallTracks, FillsAccounted, Booked
<1>5. LandableIsOnDisk' BY DEF LandableIsOnDisk, MayStillLand, InFlight, ChainTypeOK
<1>6. QED BY <1>1, <1>2, <1>3, <1>4, <1>5

LEMMA OperatorTradeKeepsInv == ASSUME IndInv, OperatorTrade PROVE IndInv'
<1> USE DEF IndInv, TypeOK, OperatorTrade, chainVars, diskVars, procVars, histVars, envVars
<1>1. ChainTypeOK' BY DEF ChainTypeOK
<1>2. DiskTypeOK' /\ ProcTypeOK' /\ HistTypeOK' /\ CountsTypeOK'
  BY DEF DiskTypeOK, ProcTypeOK, HistTypeOK, CountsTypeOK
<1>3. Allotted' /\ DiskTracks' /\ CallAuthorised' BY DEF Allotted, DiskTracks, CallAuthorised
<1>4. CallTracks' /\ FillsAccounted' BY DEF CallTracks, FillsAccounted, Booked
<1>5. LandableIsOnDisk' BY DEF LandableIsOnDisk, MayStillLand, InFlight, ChainTypeOK
<1>6. QED BY <1>1, <1>2, <1>3, <1>4, <1>5

LEMMA OperatorDisposeKeepsInv == ASSUME IndInv, OperatorDispose PROVE IndInv'
<1> USE DEF IndInv, TypeOK, OperatorDispose, chainVars, diskVars, procVars, histVars,
           envVars
<1>1. TypeOK'
  <2>1. ChainTypeOK' /\ ProcTypeOK' BY DEF ChainTypeOK, ProcTypeOK
  <2>2. DiskTypeOK' BY DEF DiskTypeOK
  <2>3. HistTypeOK' BY DEF HistTypeOK
  <2>4. CountsTypeOK' BY DEF CountsTypeOK
  <2>5. QED BY <2>1, <2>2, <2>3, <2>4
<1>2. DiskTracks'
  BY DEF DiskTracks, CallTracks, NoIntent, DiskTypeOK, ProcTypeOK, IntentType, QuietPcs,
     OrderPcs, PollPcs, FinPcs
<1>3. CallTracks'
  BY DEF CallTracks, DiskTracks, InFlight, NoIntent, NoCall, Booked, ChainTypeOK,
     DiskTypeOK, ProcTypeOK, IntentType, CallType, TxType, QuietPcs, OrderPcs, PollPcs,
     FinPcs
<1>4. CallAuthorised'
  BY DEF CallAuthorised, CallTracks, Allotted, NoIntent, NoCall, ChainTypeOK, DiskTypeOK,
     ProcTypeOK, IntentType, CallType, TxType, QuietPcs, OrderPcs, PollPcs, FinPcs
<1>5. HandsOver
  <2>1. \A s \in Signatures : Booked(s)' <=> Booked(s) BY DEF Booked
  <2>2. QED
    BY <2>1 DEF HandsOver, Allotted, CallTracks, DiskTracks, CallAuthorised, InFlight,
       MayStillLand, NoIntent, NoCall, HistTypeOK, ChainTypeOK, DiskTypeOK, ProcTypeOK,
       IntentType, CallType, TxType, QuietPcs, OrderPcs, PollPcs, FinPcs
<1>6. QED BY <1>1, <1>2, <1>3, <1>4, <1>5, HandoverKeepsInv

LEMMA OperatorAckKeepsInv == ASSUME IndInv, OperatorAck PROVE IndInv'
<1> USE DEF IndInv, TypeOK, OperatorAck, chainVars, diskVars, procVars, histVars, envVars
<1>1. TypeOK'
  <2>1. ChainTypeOK' /\ ProcTypeOK' BY DEF ChainTypeOK, ProcTypeOK
  <2>2. DiskTypeOK' BY DEF DiskTypeOK, IntentType
  <2>3. HistTypeOK' BY DEF HistTypeOK
  <2>4. CountsTypeOK' BY DEF CountsTypeOK
  <2>5. QED BY <2>1, <2>2, <2>3, <2>4
<1>2. DiskTracks'
  BY DEF DiskTracks, CallTracks, NoIntent, DiskTypeOK, ProcTypeOK, IntentType, QuietPcs,
     OrderPcs, PollPcs, FinPcs
<1>3. CallTracks'
  BY DEF CallTracks, DiskTracks, InFlight, NoIntent, NoCall, Booked, ChainTypeOK,
     DiskTypeOK, ProcTypeOK, IntentType, CallType, TxType, QuietPcs, OrderPcs, PollPcs,
     FinPcs
<1>4. CallAuthorised'
  BY DEF CallAuthorised, CallTracks, Allotted, NoIntent, NoCall, ChainTypeOK, DiskTypeOK,
     ProcTypeOK, IntentType, CallType, TxType, QuietPcs, OrderPcs, PollPcs, FinPcs
<1>5. HandsOver
  <2>1. \A s \in Signatures : Booked(s)' <=> Booked(s) BY DEF Booked
  <2>2. QED
    BY <2>1 DEF HandsOver, Allotted, CallTracks, DiskTracks, CallAuthorised, InFlight,
       MayStillLand, NoIntent, NoCall, HistTypeOK, ChainTypeOK, DiskTypeOK, ProcTypeOK,
       IntentType, CallType, TxType, QuietPcs, OrderPcs, PollPcs, FinPcs
<1>6. QED BY <1>1, <1>2, <1>3, <1>4, <1>5, HandoverKeepsInv

-----------------------------------------------------------------------------
(* The engine.                                                              *)

LEMMA StartServerKeepsInv == ASSUME IndInv, StartServer PROVE IndInv'
<1> USE DEF IndInv, TypeOK, StartServer, chainVars, diskVars, procVars, histVars, envVars
<1>1. TypeOK'
  <2>1. ChainTypeOK' /\ DiskTypeOK' /\ HistTypeOK' /\ CountsTypeOK'
    BY DEF ChainTypeOK, DiskTypeOK, HistTypeOK, CountsTypeOK
  <2>2. ProcTypeOK' BY DEF ProcTypeOK, Pcs
  <2>3. QED BY <2>1, <2>2
<1>2. DiskTracks'
  BY DEF DiskTracks, CallTracks, NoIntent, DiskTypeOK, ProcTypeOK, IntentType, QuietPcs,
     OrderPcs, PollPcs, FinPcs
<1>3. CallTracks'
  BY DEF CallTracks, DiskTracks, InFlight, NoIntent, NoCall, Booked, ChainTypeOK,
     DiskTypeOK, ProcTypeOK, IntentType, CallType, TxType, QuietPcs, OrderPcs, PollPcs,
     FinPcs
<1>4. CallAuthorised'
  BY DEF CallAuthorised, CallTracks, Allotted, NoIntent, NoCall, ChainTypeOK, DiskTypeOK,
     ProcTypeOK, IntentType, CallType, TxType, QuietPcs, OrderPcs, PollPcs, FinPcs
<1>5. HandsOver
  <2>1. \A s \in Signatures : Booked(s)' <=> Booked(s) BY DEF Booked
  <2>2. QED
    BY <2>1 DEF HandsOver, Allotted, CallTracks, DiskTracks, CallAuthorised, InFlight,
       MayStillLand, NoIntent, NoCall, HistTypeOK, ChainTypeOK, DiskTypeOK, ProcTypeOK,
       IntentType, CallType, TxType, QuietPcs, OrderPcs, PollPcs, FinPcs
<1>6. QED BY <1>1, <1>2, <1>3, <1>4, <1>5, HandoverKeepsInv

LEMMA ReconcileReadKeepsInv == ASSUME IndInv, ReconcileRead PROVE IndInv'
<1> USE DEF IndInv, TypeOK, ReconcileRead, chainVars, diskVars, procVars, histVars,
           envVars
<1>1. TypeOK'
  <2>1. ChainTypeOK' /\ DiskTypeOK' /\ HistTypeOK' /\ CountsTypeOK'
    BY DEF ChainTypeOK, DiskTypeOK, HistTypeOK, CountsTypeOK
  <2>2. ProcTypeOK' BY FreshCallType DEF ProcTypeOK, Pcs, ChainTypeOK
  <2>3. QED BY <2>1, <2>2
<1>2. DiskTracks'
  BY DEF DiskTracks, CallTracks, NoIntent, DiskTypeOK, ProcTypeOK, IntentType, QuietPcs,
     OrderPcs, PollPcs, FinPcs
<1>3. CallTracks' 
  <2>1. call'.sig = None BY FreshCallType DEF CallTracks, QuietPcs, ChainTypeOK
  <2>2. pc' \in QuietPcs BY DEF QuietPcs
  <2>3. QED BY <2>1, <2>2 DEF CallTracks, QuietPcs, OrderPcs, PollPcs, FinPcs
<1>4. CallAuthorised'
  BY DEF CallAuthorised, CallTracks, Allotted, NoIntent, NoCall, ChainTypeOK, DiskTypeOK,
     ProcTypeOK, IntentType, CallType, TxType, QuietPcs, OrderPcs, PollPcs, FinPcs
<1>5. HandsOver 
  <2>1. \A s \in Signatures : Booked(s)' <=> Booked(s) BY DEF Booked
  <2>2. call.sig = None /\ call'.sig = None
    BY FreshCallType DEF CallTracks, QuietPcs, ChainTypeOK
  <2>3. QED BY <2>1, <2>2 DEF HandsOver, Allotted
<1>6. QED BY <1>1, <1>2, <1>3, <1>4, <1>5, HandoverKeepsInv

LEMMA SettleAbsentKeepsInv == ASSUME IndInv, SettleAbsent PROVE IndInv'
BY ResolvingKeepsInv DEF SettleAbsent, IndInv, TypeOK, ProcTypeOK, QuietPcs

LEMMA ClearAbsentKeepsInv == ASSUME IndInv, ClearAbsent PROVE IndInv'
<1> USE DEF IndInv, TypeOK, ClearAbsent, Return, InFlight, chainVars, diskVars, procVars,
           histVars, envVars
<1>1. TypeOK'
  <2>1. ChainTypeOK' /\ HistTypeOK' /\ CountsTypeOK'
    BY DEF ChainTypeOK, HistTypeOK, CountsTypeOK
  <2>2. DiskTypeOK' BY NoIntentType DEF DiskTypeOK
  <2>3. ProcTypeOK' BY NoCallType DEF ProcTypeOK, Pcs
  <2>4. QED BY <2>1, <2>2, <2>3
<1>2. DiskTracks'
  BY DEF DiskTracks, CallTracks, NoIntent, DiskTypeOK, ProcTypeOK, IntentType, QuietPcs,
     OrderPcs, PollPcs, FinPcs
<1>3. CallTracks'
  BY DEF CallTracks, DiskTracks, InFlight, NoIntent, NoCall, Booked, ChainTypeOK,
     DiskTypeOK, ProcTypeOK, IntentType, CallType, TxType, QuietPcs, OrderPcs, PollPcs,
     FinPcs
<1>4. CallAuthorised'
  BY DEF CallAuthorised, CallTracks, Allotted, NoIntent, NoCall, ChainTypeOK, DiskTypeOK,
     ProcTypeOK, IntentType, CallType, TxType, QuietPcs, OrderPcs, PollPcs, FinPcs
<1>5. HandsOver
  <2>1. \A s \in Signatures : Booked(s)' <=> Booked(s) BY DEF Booked
  <2>2. QED
    BY <2>1 DEF HandsOver, Allotted, CallTracks, DiskTracks, CallAuthorised, InFlight,
       MayStillLand, NoIntent, NoCall, HistTypeOK, ChainTypeOK, DiskTypeOK, ProcTypeOK,
       IntentType, CallType, TxType, QuietPcs, OrderPcs, PollPcs, FinPcs
<1>6. QED BY <1>1, <1>2, <1>3, <1>4, <1>5, HandoverKeepsInv

LEMMA HoldTerminalKeepsInv == ASSUME IndInv, HoldTerminal PROVE IndInv'
<1> USE DEF IndInv, TypeOK, HoldTerminal, Return, TerminalIntent, chainVars, diskVars,
           procVars, histVars, envVars
<1>1. TypeOK'
  <2>1. ChainTypeOK' /\ HistTypeOK' /\ CountsTypeOK'
    BY DEF ChainTypeOK, HistTypeOK, CountsTypeOK
  <2>2. DiskTypeOK' BY DEF DiskTypeOK, IntentType
  <2>3. ProcTypeOK' BY NoCallType DEF ProcTypeOK, Pcs
  <2>4. QED BY <2>1, <2>2, <2>3
<1>2. DiskTracks'
  BY DEF DiskTracks, CallTracks, NoIntent, DiskTypeOK, ProcTypeOK, IntentType, QuietPcs,
     OrderPcs, PollPcs, FinPcs
<1>3. CallTracks' 
  <2>1. call'.sig = None /\ pc' \in QuietPcs BY NoCallType DEF CallTracks, QuietPcs
  <2>2. QED BY <2>1 DEF CallTracks, QuietPcs, OrderPcs, PollPcs, FinPcs
<1>4. CallAuthorised'
  BY DEF CallAuthorised, CallTracks, Allotted, NoIntent, NoCall, ChainTypeOK, DiskTypeOK,
     ProcTypeOK, IntentType, CallType, TxType, QuietPcs, OrderPcs, PollPcs, FinPcs
<1>5. HandsOver 
  <2>1. \A s \in Signatures : Booked(s)' <=> Booked(s) BY DEF Booked
  <2>2. call.sig = None /\ call'.sig = None BY NoCallType DEF CallTracks, QuietPcs
  <2>3. disk'.sig = disk.sig /\ disk'.dec = disk.dec /\ disk'.status = disk.status
    BY DEF DiskTypeOK, IntentType
  <2>4. QED BY <2>1, <2>2, <2>3 DEF HandsOver, Allotted
<1>6. QED BY <1>1, <1>2, <1>3, <1>4, <1>5, HandoverKeepsInv

LEMMA PageHeldKeepsInv == ASSUME IndInv, PageHeld PROVE IndInv'
<1> USE DEF IndInv, TypeOK, PageHeld, Return, chainVars, diskVars, procVars, histVars,
           envVars
<1>1. TypeOK'
  <2>1. ChainTypeOK' /\ DiskTypeOK' /\ CountsTypeOK'
    BY DEF ChainTypeOK, DiskTypeOK, CountsTypeOK
  <2>2. ProcTypeOK' BY NoCallType DEF ProcTypeOK, Pcs
  <2>3. HistTypeOK' BY DEF HistTypeOK
  <2>4. QED BY <2>1, <2>2, <2>3
<1>2. DiskTracks'
  BY DEF DiskTracks, CallTracks, NoIntent, DiskTypeOK, ProcTypeOK, IntentType, QuietPcs,
     OrderPcs, PollPcs, FinPcs
<1>3. CallTracks'
  BY DEF CallTracks, DiskTracks, InFlight, NoIntent, NoCall, Booked, ChainTypeOK,
     DiskTypeOK, ProcTypeOK, IntentType, CallType, TxType, QuietPcs, OrderPcs, PollPcs,
     FinPcs
<1>4. CallAuthorised'
  BY DEF CallAuthorised, CallTracks, Allotted, NoIntent, NoCall, ChainTypeOK, DiskTypeOK,
     ProcTypeOK, IntentType, CallType, TxType, QuietPcs, OrderPcs, PollPcs, FinPcs
<1>5. HandsOver
  <2>1. \A s \in Signatures : Booked(s)' <=> Booked(s) BY DEF Booked
  <2>2. QED
    BY <2>1 DEF HandsOver, Allotted, CallTracks, DiskTracks, CallAuthorised, InFlight,
       MayStillLand, NoIntent, NoCall, HistTypeOK, ChainTypeOK, DiskTypeOK, ProcTypeOK,
       IntentType, CallType, TxType, QuietPcs, OrderPcs, PollPcs, FinPcs
<1>6. QED BY <1>1, <1>2, <1>3, <1>4, <1>5, HandoverKeepsInv

LEMMA ClearUnexecutableKeepsInv == ASSUME IndInv, ClearUnexecutable PROVE IndInv'
<1> USE DEF IndInv, TypeOK, ClearUnexecutable, Return, chainVars, diskVars, procVars,
           histVars, envVars
<1>1. TypeOK'
  <2>1. ChainTypeOK' /\ CountsTypeOK' BY DEF ChainTypeOK, CountsTypeOK
  <2>2. DiskTypeOK' BY NoIntentType DEF DiskTypeOK
  <2>3. ProcTypeOK' BY NoCallType DEF ProcTypeOK, Pcs
  <2>4. HistTypeOK' BY DEF HistTypeOK
  <2>5. QED BY <2>1, <2>2, <2>3, <2>4
<1>2. DiskTracks'
  BY DEF DiskTracks, CallTracks, NoIntent, DiskTypeOK, ProcTypeOK, IntentType, QuietPcs,
     OrderPcs, PollPcs, FinPcs
<1>3. CallTracks'
  BY DEF CallTracks, DiskTracks, InFlight, NoIntent, NoCall, Booked, ChainTypeOK,
     DiskTypeOK, ProcTypeOK, IntentType, CallType, TxType, QuietPcs, OrderPcs, PollPcs,
     FinPcs
<1>4. CallAuthorised'
  BY DEF CallAuthorised, CallTracks, Allotted, NoIntent, NoCall, ChainTypeOK, DiskTypeOK,
     ProcTypeOK, IntentType, CallType, TxType, QuietPcs, OrderPcs, PollPcs, FinPcs
<1>5. HandsOver 
  <2>1. \A s \in Signatures : Booked(s)' <=> Booked(s) BY DEF Booked
  <2>2. call.sig = None /\ call'.sig = None /\ disk'.sig = None /\ disk'.status = "absent"
    BY NoCallType DEF CallTracks, QuietPcs, NoIntent
  <2>3. \A s \in Signatures : dropped'[s] = IF s = disk.sig THEN "skip" ELSE dropped[s]
    BY DEF HistTypeOK, DiskTypeOK, IntentType
  <2>4. disk.sig # None => disk.sig \in Signatures BY DEF DiskTypeOK, IntentType
  <2>5. QED BY <2>1, <2>2, <2>3, <2>4 DEF HandsOver, Allotted
<1>6. QED BY <1>1, <1>2, <1>3, <1>4, <1>5, HandoverKeepsInv

LEMMA ResumeKeepsInv == ASSUME IndInv, Resume PROVE IndInv'
<1>1. call.obs \in Amounts BY DEF IndInv, TypeOK, ProcTypeOK, CallType
<1>2. disk.reason \in ReasonClasses /\ disk.dec \in Decisions
  BY DEF Resume, IndInv, CallAuthorised, Allotted, TypeOK, DiskTypeOK, IntentType
<1>3. QED BY <1>1, <1>2, EnterSellKeepsInv DEF Resume, QuietPcs

LEMMA CycleReadKeepsInv == ASSUME IndInv, CycleRead PROVE IndInv'
<1> USE DEF IndInv, TypeOK, CycleRead, chainVars, diskVars, procVars, histVars, envVars
<1>1. TypeOK'
  <2>1. ChainTypeOK' /\ DiskTypeOK' /\ HistTypeOK' /\ CountsTypeOK'
    BY DEF ChainTypeOK, DiskTypeOK, HistTypeOK, CountsTypeOK
  <2>2. ProcTypeOK' BY FreshCallType DEF ProcTypeOK, Pcs, ChainTypeOK
  <2>3. QED BY <2>1, <2>2
<1>2. DiskTracks'
  BY DEF DiskTracks, CallTracks, NoIntent, DiskTypeOK, ProcTypeOK, IntentType, QuietPcs,
     OrderPcs, PollPcs, FinPcs
<1>3. CallTracks'
  BY DEF CallTracks, DiskTracks, InFlight, NoIntent, NoCall, Booked, ChainTypeOK,
     DiskTypeOK, ProcTypeOK, IntentType, CallType, TxType, QuietPcs, OrderPcs, PollPcs,
     FinPcs
<1>4. CallAuthorised'
  BY DEF CallAuthorised, CallTracks, Allotted, NoIntent, NoCall, ChainTypeOK, DiskTypeOK,
     ProcTypeOK, IntentType, CallType, TxType, QuietPcs, OrderPcs, PollPcs, FinPcs
<1>5. HandsOver
  <2>1. \A s \in Signatures : Booked(s)' <=> Booked(s) BY DEF Booked
  <2>2. QED
    BY <2>1 DEF HandsOver, Allotted, CallTracks, DiskTracks, CallAuthorised, InFlight,
       MayStillLand, NoIntent, NoCall, HistTypeOK, ChainTypeOK, DiskTypeOK, ProcTypeOK,
       IntentType, CallType, TxType, QuietPcs, OrderPcs, PollPcs, FinPcs
<1>6. QED BY <1>1, <1>2, <1>3, <1>4, <1>5, HandoverKeepsInv

LEMMA CycleHoldKeepsInv == ASSUME IndInv, CycleHold PROVE IndInv'
<1> USE DEF IndInv, TypeOK, CycleHold, Return, chainVars, diskVars, procVars, histVars,
           envVars
<1>1. TypeOK'
  <2>1. ChainTypeOK' /\ DiskTypeOK' /\ HistTypeOK' /\ CountsTypeOK'
    BY DEF ChainTypeOK, DiskTypeOK, HistTypeOK, CountsTypeOK
  <2>2. ProcTypeOK' BY NoCallType DEF ProcTypeOK, Pcs
  <2>3. QED BY <2>1, <2>2
<1>2. DiskTracks'
  BY DEF DiskTracks, CallTracks, NoIntent, DiskTypeOK, ProcTypeOK, IntentType, QuietPcs,
     OrderPcs, PollPcs, FinPcs
<1>3. CallTracks'
  BY DEF CallTracks, DiskTracks, InFlight, NoIntent, NoCall, Booked, ChainTypeOK,
     DiskTypeOK, ProcTypeOK, IntentType, CallType, TxType, QuietPcs, OrderPcs, PollPcs,
     FinPcs
<1>4. CallAuthorised'
  BY DEF CallAuthorised, CallTracks, Allotted, NoIntent, NoCall, ChainTypeOK, DiskTypeOK,
     ProcTypeOK, IntentType, CallType, TxType, QuietPcs, OrderPcs, PollPcs, FinPcs
<1>5. HandsOver
  <2>1. \A s \in Signatures : Booked(s)' <=> Booked(s) BY DEF Booked
  <2>2. QED
    BY <2>1 DEF HandsOver, Allotted, CallTracks, DiskTracks, CallAuthorised, InFlight,
       MayStillLand, NoIntent, NoCall, HistTypeOK, ChainTypeOK, DiskTypeOK, ProcTypeOK,
       IntentType, CallType, TxType, QuietPcs, OrderPcs, PollPcs, FinPcs
<1>6. QED BY <1>1, <1>2, <1>3, <1>4, <1>5, HandoverKeepsInv

LEMMA CycleSellKeepsInv == ASSUME IndInv, CycleSell PROVE IndInv'
<1>1. call.obs \in Amounts BY DEF IndInv, TypeOK, ProcTypeOK, CallType
<1>2. PICK reason \in Reasons, amount \in 1..call.obs :
         EnterSell("cycle", call.obs, amount, reason, None)
  BY DEF CycleSell
<1>3. QED BY <1>1, <1>2, EnterSellKeepsInv DEF CycleSell, QuietPcs

LEMMA StartPanicKeepsInv == ASSUME IndInv, StartPanic PROVE IndInv'
<1> USE DEF IndInv, TypeOK, StartPanic, chainVars, diskVars, procVars, histVars, envVars
<1>1. TypeOK'
  <2>1. ChainTypeOK' /\ DiskTypeOK' /\ HistTypeOK' /\ CountsTypeOK'
    BY DEF ChainTypeOK, DiskTypeOK, HistTypeOK, CountsTypeOK
  <2>2. ProcTypeOK' BY FreshCallType DEF ProcTypeOK, Pcs, ChainTypeOK
  <2>3. QED BY <2>1, <2>2
<1>2. DiskTracks'
  BY DEF DiskTracks, CallTracks, NoIntent, DiskTypeOK, ProcTypeOK, IntentType, QuietPcs,
     OrderPcs, PollPcs, FinPcs
<1>3. CallTracks'
  BY DEF CallTracks, DiskTracks, InFlight, NoIntent, NoCall, Booked, ChainTypeOK,
     DiskTypeOK, ProcTypeOK, IntentType, CallType, TxType, QuietPcs, OrderPcs, PollPcs,
     FinPcs
<1>4. CallAuthorised'
  BY DEF CallAuthorised, CallTracks, Allotted, NoIntent, NoCall, ChainTypeOK, DiskTypeOK,
     ProcTypeOK, IntentType, CallType, TxType, QuietPcs, OrderPcs, PollPcs, FinPcs
<1>5. HandsOver
  <2>1. \A s \in Signatures : Booked(s)' <=> Booked(s) BY DEF Booked
  <2>2. QED
    BY <2>1 DEF HandsOver, Allotted, CallTracks, DiskTracks, CallAuthorised, InFlight,
       MayStillLand, NoIntent, NoCall, HistTypeOK, ChainTypeOK, DiskTypeOK, ProcTypeOK,
       IntentType, CallType, TxType, QuietPcs, OrderPcs, PollPcs, FinPcs
<1>6. QED BY <1>1, <1>2, <1>3, <1>4, <1>5, HandoverKeepsInv

LEMMA PanicSellKeepsInv == ASSUME IndInv, PanicSell PROVE IndInv'
<1>1. call.obs \in Amounts BY DEF IndInv, TypeOK, ProcTypeOK, CallType
<1>2. decs < MaxDecisions BY DEF PanicSell, IndInv, CallAuthorised
<1>3. QED BY <1>1, <1>2, EnterSellKeepsInv DEF PanicSell, QuietPcs

LEMMA PanicNothingHeldKeepsInv == ASSUME IndInv, PanicNothingHeld PROVE IndInv'
<1> USE DEF IndInv, TypeOK, PanicNothingHeld, Return, chainVars, diskVars, procVars,
           histVars, envVars
<1>1. TypeOK'
  <2>1. ChainTypeOK' /\ DiskTypeOK' /\ HistTypeOK' /\ CountsTypeOK'
    BY DEF ChainTypeOK, DiskTypeOK, HistTypeOK, CountsTypeOK
  <2>2. ProcTypeOK' BY NoCallType DEF ProcTypeOK, Pcs
  <2>3. QED BY <2>1, <2>2
<1>2. DiskTracks'
  BY DEF DiskTracks, CallTracks, NoIntent, DiskTypeOK, ProcTypeOK, IntentType, QuietPcs,
     OrderPcs, PollPcs, FinPcs
<1>3. CallTracks'
  BY DEF CallTracks, DiskTracks, InFlight, NoIntent, NoCall, Booked, ChainTypeOK,
     DiskTypeOK, ProcTypeOK, IntentType, CallType, TxType, QuietPcs, OrderPcs, PollPcs,
     FinPcs
<1>4. CallAuthorised'
  BY DEF CallAuthorised, CallTracks, Allotted, NoIntent, NoCall, ChainTypeOK, DiskTypeOK,
     ProcTypeOK, IntentType, CallType, TxType, QuietPcs, OrderPcs, PollPcs, FinPcs
<1>5. HandsOver
  <2>1. \A s \in Signatures : Booked(s)' <=> Booked(s) BY DEF Booked
  <2>2. QED
    BY <2>1 DEF HandsOver, Allotted, CallTracks, DiskTracks, CallAuthorised, InFlight,
       MayStillLand, NoIntent, NoCall, HistTypeOK, ChainTypeOK, DiskTypeOK, ProcTypeOK,
       IntentType, CallType, TxType, QuietPcs, OrderPcs, PollPcs, FinPcs
<1>6. QED BY <1>1, <1>2, <1>3, <1>4, <1>5, HandoverKeepsInv

-----------------------------------------------------------------------------
(* The resolver.                                                            *)

LEMMA PollErrorKeepsInv == ASSUME IndInv, PollError PROVE IndInv'
<1>1. ioErrs' \in Nat BY DEF PollError, IndInv, TypeOK, CountsTypeOK
<1>2. CASE call.ret \in {"loop", "submit"} /\ NextAttempt(call) /\ UNCHANGED <<dropped, crashes>>
  <2>1. UNCHANGED <<chainVars, diskVars, histVars, decs, crashes, ops>>
    BY <1>2 DEF PollError, histVars
  <2>2. QED BY <1>1, <1>2, <2>1, RetryKeepsInv DEF PollError, PollPcs
<1>3. CASE Die BY <1>1, <1>3, DieKeepsInv DEF PollError
<1>4. QED BY <1>2, <1>3 DEF PollError

LEMMA PollFailedKeepsInv == ASSUME IndInv, PollFailed PROVE IndInv'
BY DeadKeepsInv DEF PollFailed, PollPcs, MayStillLand

LEMMA PollConfirmedKeepsInv == ASSUME IndInv, PollConfirmed PROVE IndInv'
<1> USE DEF IndInv, TypeOK, PollConfirmed, chainVars, diskVars, procVars, histVars,
           envVars
<1>1. TypeOK'
  <2>1. ChainTypeOK' /\ DiskTypeOK' /\ HistTypeOK' /\ CountsTypeOK'
    BY DEF ChainTypeOK, DiskTypeOK, HistTypeOK, CountsTypeOK
  <2>2. ProcTypeOK' BY DEF ProcTypeOK, Pcs
  <2>3. QED BY <2>1, <2>2
<1>2. DiskTracks'
  BY DEF DiskTracks, CallTracks, NoIntent, DiskTypeOK, ProcTypeOK, IntentType, QuietPcs,
     OrderPcs, PollPcs, FinPcs
<1>3. CallTracks'
  BY DEF CallTracks, DiskTracks, InFlight, NoIntent, NoCall, Booked, ChainTypeOK,
     DiskTypeOK, ProcTypeOK, IntentType, CallType, TxType, QuietPcs, OrderPcs, PollPcs,
     FinPcs
<1>4. CallAuthorised'
  BY DEF CallAuthorised, CallTracks, Allotted, NoIntent, NoCall, ChainTypeOK, DiskTypeOK,
     ProcTypeOK, IntentType, CallType, TxType, QuietPcs, OrderPcs, PollPcs, FinPcs
<1>5. HandsOver
  <2>1. \A s \in Signatures : Booked(s)' <=> Booked(s) BY DEF Booked
  <2>2. QED
    BY <2>1 DEF HandsOver, Allotted, CallTracks, DiskTracks, CallAuthorised, InFlight,
       MayStillLand, NoIntent, NoCall, HistTypeOK, ChainTypeOK, DiskTypeOK, ProcTypeOK,
       IntentType, CallType, TxType, QuietPcs, OrderPcs, PollPcs, FinPcs
<1>6. QED BY <1>1, <1>2, <1>3, <1>4, <1>5, HandoverKeepsInv

LEMMA PollPendingKeepsInv == ASSUME IndInv, PollPending PROVE IndInv'
BY NextPollKeepsInv DEF PollPending, PollPcs

LEMMA PollUnknownKeepsInv == ASSUME IndInv, PollUnknown PROVE IndInv'
<1> USE DEF IndInv, TypeOK, PollUnknown, chainVars, diskVars, procVars, histVars, envVars
<1>1. TypeOK'
  <2>1. ChainTypeOK' /\ DiskTypeOK' /\ HistTypeOK' /\ CountsTypeOK'
    BY DEF ChainTypeOK, DiskTypeOK, HistTypeOK, CountsTypeOK
  <2>2. ProcTypeOK' BY DEF ProcTypeOK, Pcs
  <2>3. QED BY <2>1, <2>2
<1>2. DiskTracks'
  BY DEF DiskTracks, CallTracks, NoIntent, DiskTypeOK, ProcTypeOK, IntentType, QuietPcs,
     OrderPcs, PollPcs, FinPcs
<1>3. CallTracks'
  BY DEF CallTracks, DiskTracks, InFlight, NoIntent, NoCall, Booked, ChainTypeOK,
     DiskTypeOK, ProcTypeOK, IntentType, CallType, TxType, QuietPcs, OrderPcs, PollPcs,
     FinPcs
<1>4. CallAuthorised'
  BY DEF CallAuthorised, CallTracks, Allotted, NoIntent, NoCall, ChainTypeOK, DiskTypeOK,
     ProcTypeOK, IntentType, CallType, TxType, QuietPcs, OrderPcs, PollPcs, FinPcs
<1>5. HandsOver
  <2>1. \A s \in Signatures : Booked(s)' <=> Booked(s) BY DEF Booked
  <2>2. QED
    BY <2>1 DEF HandsOver, Allotted, CallTracks, DiskTracks, CallAuthorised, InFlight,
       MayStillLand, NoIntent, NoCall, HistTypeOK, ChainTypeOK, DiskTypeOK, ProcTypeOK,
       IntentType, CallType, TxType, QuietPcs, OrderPcs, PollPcs, FinPcs
<1>6. QED BY <1>1, <1>2, <1>3, <1>4, <1>5, HandoverKeepsInv

LEMMA PollBalanceKeepsInv == ASSUME IndInv, PollBalance PROVE IndInv'
<1>1. CASE NextPoll BY <1>1, NextPollKeepsInv DEF PollBalance, PollPcs
<1>2. CASE pc' = "finalize" /\ UNCHANGED <<disk, call>>
  <2> USE <1>2 DEF IndInv, TypeOK, PollBalance, chainVars, diskVars, procVars, histVars, envVars
  <2>1. TypeOK'
    <3>1. ChainTypeOK' /\ DiskTypeOK' /\ HistTypeOK' /\ CountsTypeOK'
      BY DEF ChainTypeOK, DiskTypeOK, HistTypeOK, CountsTypeOK
    <3>2. ProcTypeOK' BY DEF ProcTypeOK, Pcs
    <3>3. QED BY <3>1, <3>2
  <2>2. DiskTracks' BY DEF DiskTracks
  <2>3. CallTracks' BY DEF CallTracks, QuietPcs, OrderPcs, PollPcs, FinPcs
  <2>4. CallAuthorised' BY DEF CallAuthorised, QuietPcs, OrderPcs, PollPcs, FinPcs
  <2>5. \A s \in Signatures : Booked(s)' <=> Booked(s) BY DEF Booked
  <2>6. HandsOver BY <2>5 DEF HandsOver, Allotted
  <2>7. QED BY <2>1, <2>2, <2>3, <2>4, <2>6, HandoverKeepsInv
<1>3. QED BY <1>1, <1>2 DEF PollBalance

LEMMA PollBlockhashDeadKeepsInv == ASSUME IndInv, PollBlockhashDead PROVE IndInv'
BY DeadKeepsInv DEF PollBlockhashDead, PollPcs, MayStillLand

LEMMA PollBlockhashValidKeepsInv == ASSUME IndInv, PollBlockhashValid PROVE IndInv'
BY NextPollKeepsInv DEF PollBlockhashValid, PollPcs

-----------------------------------------------------------------------------
(* The finalizer.                                                           *)

LEMMA FinalizeDisposeKeepsInv == ASSUME IndInv, FinalizeDispose PROVE IndInv'
<1> USE DEF IndInv, TypeOK, FinalizeDispose, chainVars, diskVars, procVars, histVars,
           envVars
<1>1. TypeOK'
  <2>1. ChainTypeOK' /\ HistTypeOK' /\ CountsTypeOK'
    BY DEF ChainTypeOK, HistTypeOK, CountsTypeOK
  <2>2. DiskTypeOK' BY DEF DiskTypeOK
  <2>3. ProcTypeOK' BY DEF ProcTypeOK, Pcs
  <2>4. QED BY <2>1, <2>2, <2>3
<1>2. DiskTracks'
  BY DEF DiskTracks, CallTracks, NoIntent, DiskTypeOK, ProcTypeOK, IntentType, QuietPcs,
     OrderPcs, PollPcs, FinPcs
<1>3. CallTracks'
  BY DEF CallTracks, DiskTracks, InFlight, NoIntent, NoCall, Booked, ChainTypeOK,
     DiskTypeOK, ProcTypeOK, IntentType, CallType, TxType, QuietPcs, OrderPcs, PollPcs,
     FinPcs
<1>4. CallAuthorised'
  BY DEF CallAuthorised, CallTracks, Allotted, NoIntent, NoCall, ChainTypeOK, DiskTypeOK,
     ProcTypeOK, IntentType, CallType, TxType, QuietPcs, OrderPcs, PollPcs, FinPcs
<1>5. HandsOver
  <2>1. \A s \in Signatures : Booked(s)' <=> Booked(s) BY DEF Booked
  <2>2. QED
    BY <2>1 DEF HandsOver, Allotted, CallTracks, DiskTracks, CallAuthorised, InFlight,
       MayStillLand, NoIntent, NoCall, HistTypeOK, ChainTypeOK, DiskTypeOK, ProcTypeOK,
       IntentType, CallType, TxType, QuietPcs, OrderPcs, PollPcs, FinPcs
<1>6. QED BY <1>1, <1>2, <1>3, <1>4, <1>5, HandoverKeepsInv

LEMMA FinalizeDeleteKeepsInv == ASSUME IndInv, FinalizeDelete PROVE IndInv'
<1> USE DEF IndInv, TypeOK, FinalizeDelete, chainVars, diskVars, procVars, histVars,
           envVars
<1>1. TypeOK'
  <2>1. ChainTypeOK' /\ HistTypeOK' /\ CountsTypeOK'
    BY DEF ChainTypeOK, HistTypeOK, CountsTypeOK
  <2>2. DiskTypeOK' BY NoIntentType DEF DiskTypeOK
  <2>3. ProcTypeOK' BY DEF ProcTypeOK, Pcs
  <2>4. QED BY <2>1, <2>2, <2>3
<1>2. DiskTracks'
  BY DEF DiskTracks, CallTracks, NoIntent, DiskTypeOK, ProcTypeOK, IntentType, QuietPcs,
     OrderPcs, PollPcs, FinPcs
<1>3. CallTracks'
  BY DEF CallTracks, DiskTracks, InFlight, NoIntent, NoCall, Booked, ChainTypeOK,
     DiskTypeOK, ProcTypeOK, IntentType, CallType, TxType, QuietPcs, OrderPcs, PollPcs,
     FinPcs
<1>4. CallAuthorised'
  BY DEF CallAuthorised, CallTracks, Allotted, NoIntent, NoCall, ChainTypeOK, DiskTypeOK,
     ProcTypeOK, IntentType, CallType, TxType, QuietPcs, OrderPcs, PollPcs, FinPcs
<1>5. HandsOver
  <2>1. \A s \in Signatures : Booked(s)' <=> Booked(s) BY DEF Booked
  <2>2. QED
    BY <2>1 DEF HandsOver, Allotted, CallTracks, DiskTracks, CallAuthorised, InFlight,
       MayStillLand, NoIntent, NoCall, HistTypeOK, ChainTypeOK, DiskTypeOK, ProcTypeOK,
       IntentType, CallType, TxType, QuietPcs, OrderPcs, PollPcs, FinPcs
<1>6. QED BY <1>1, <1>2, <1>3, <1>4, <1>5, HandoverKeepsInv

LEMMA FinalizeAppendKeepsInv == ASSUME IndInv, FinalizeAppend PROVE IndInv'
<1> USE DEF IndInv, TypeOK, FinalizeAppend, chainVars, diskVars, procVars, histVars, envVars
<1> DEFINE T == [sig : Signatures, amt : Amounts, reason : ReasonClasses]
           r == [sig |-> call.sig, amt |-> call.amt, reason |-> call.why]
<1>1. call.sig \in Signatures /\ r \in T
  BY DEF ProcTypeOK, CallType, CallTracks, FinPcs
<1>2. ledger \in Seq(T) /\ ledger' = Append(ledger, r) BY DEF DiskTypeOK
<1>3. /\ ledger' \in Seq(T)
      /\ \A i \in DOMAIN ledger : i \in DOMAIN ledger' /\ ledger'[i] = ledger[i]
      /\ \E i \in DOMAIN ledger' : ledger'[i] = r
  <2> HIDE DEF r, T, IndInv, FinalizeAppend
  <2>1. QED BY <1>1, <1>2, AppendBooks
<1>4. Booked(call.sig)' /\ \A s \in Signatures : Booked(s) => Booked(s)'
  <2>1. r.sig = call.sig OBVIOUS
  <2> HIDE DEF r, T
  <2>2. QED BY <1>3, <2>1 DEF Booked
<1>5. TypeOK'
  <2>1. ChainTypeOK' /\ HistTypeOK' /\ CountsTypeOK'
    BY DEF ChainTypeOK, HistTypeOK, CountsTypeOK
  <2>2. DiskTypeOK' BY <1>3 DEF DiskTypeOK
  <2>3. ProcTypeOK' BY DEF ProcTypeOK, Pcs
  <2>4. QED BY <2>1, <2>2, <2>3
<1>6. DiskTracks' BY DEF DiskTracks
<1>7. CallTracks' BY <1>4 DEF CallTracks, QuietPcs, OrderPcs, PollPcs, FinPcs
<1>8. CallAuthorised' BY DEF CallAuthorised, QuietPcs, OrderPcs, PollPcs, FinPcs
<1>9. HandsOver BY <1>4 DEF HandsOver, Allotted
<1>10. QED BY <1>5, <1>6, <1>7, <1>8, <1>9, HandoverKeepsInv

LEMMA FinalizeNotifyKeepsInv == ASSUME IndInv, FinalizeNotify PROVE IndInv'
<1> USE DEF IndInv, TypeOK, FinalizeNotify, Return, chainVars, diskVars, procVars,
           histVars, envVars
<1>1. TypeOK'
  <2>1. ChainTypeOK' /\ DiskTypeOK' /\ HistTypeOK' /\ CountsTypeOK'
    BY DEF ChainTypeOK, DiskTypeOK, HistTypeOK, CountsTypeOK
  <2>2. ProcTypeOK' BY NoCallType DEF ProcTypeOK, Pcs
  <2>3. QED BY <2>1, <2>2
<1>2. DiskTracks'
  BY DEF DiskTracks, CallTracks, NoIntent, DiskTypeOK, ProcTypeOK, IntentType, QuietPcs,
     OrderPcs, PollPcs, FinPcs
<1>3. CallTracks'
  BY DEF CallTracks, DiskTracks, InFlight, NoIntent, NoCall, Booked, ChainTypeOK,
     DiskTypeOK, ProcTypeOK, IntentType, CallType, TxType, QuietPcs, OrderPcs, PollPcs,
     FinPcs
<1>4. CallAuthorised'
  BY DEF CallAuthorised, CallTracks, Allotted, NoIntent, NoCall, ChainTypeOK, DiskTypeOK,
     ProcTypeOK, IntentType, CallType, TxType, QuietPcs, OrderPcs, PollPcs, FinPcs
<1>5. HandsOver 
  <2>1. \A s \in Signatures : Booked(s)' <=> Booked(s) BY DEF Booked
  <2>2. call'.sig = None /\ Booked(call.sig) /\ call.sig \in Signatures /\ disk.sig \in {call.sig, None}
    BY NoCallType DEF CallTracks, FinPcs, ProcTypeOK, CallType
  <2>3. QED BY <2>1, <2>2 DEF HandsOver, Allotted
<1>6. QED BY <1>1, <1>2, <1>3, <1>4, <1>5, HandoverKeepsInv

LEMMA FinalizeIoErrorKeepsInv == ASSUME IndInv, FinalizeIoError PROVE IndInv'
<1>1. ioErrs' \in Nat BY DEF FinalizeIoError, IndInv, TypeOK, CountsTypeOK
<1>2. CASE call.ret \in {"loop", "submit"} /\ NextAttempt(call) /\ UNCHANGED <<dropped, crashes>>
  <2>1. UNCHANGED <<chainVars, diskVars, histVars, decs, crashes, ops>>
    BY <1>2 DEF FinalizeIoError, histVars
  <2>2. QED BY <1>1, <1>2, <2>1, RetryKeepsInv DEF FinalizeIoError, FinPcs
<1>3. CASE Die BY <1>1, <1>3, DieKeepsInv DEF FinalizeIoError
<1>4. QED BY <1>2, <1>3 DEF FinalizeIoError

-----------------------------------------------------------------------------
(* The attempts of sell, and crashes.                                       *)

LEMMA ResolvePendingKeepsInv == ASSUME IndInv, ResolvePending PROVE IndInv'
<1> USE DEF IndInv, TypeOK, ResolvePending, Attempting, chainVars, diskVars, procVars,
           histVars, envVars
<1>1. TypeOK'
  <2>1. ChainTypeOK' /\ DiskTypeOK' /\ HistTypeOK' /\ CountsTypeOK'
    BY DEF ChainTypeOK, DiskTypeOK, HistTypeOK, CountsTypeOK
  <2>2. ProcTypeOK' BY DEF ProcTypeOK, Pcs, CallType
  <2>3. QED BY <2>1, <2>2
<1>2. DiskTracks'
  BY DEF DiskTracks, CallTracks, NoIntent, DiskTypeOK, ProcTypeOK, IntentType, QuietPcs,
     OrderPcs, PollPcs, FinPcs
<1>3. CallTracks'
  BY DEF CallTracks, DiskTracks, InFlight, NoIntent, NoCall, Booked, ChainTypeOK,
     DiskTypeOK, ProcTypeOK, IntentType, CallType, TxType, QuietPcs, OrderPcs, PollPcs,
     FinPcs
<1>4. CallAuthorised'
  BY DEF CallAuthorised, CallTracks, Allotted, NoIntent, NoCall, ChainTypeOK, DiskTypeOK,
     ProcTypeOK, IntentType, CallType, TxType, QuietPcs, OrderPcs, PollPcs, FinPcs
<1>5. HandsOver
  <2>1. \A s \in Signatures : Booked(s)' <=> Booked(s) BY DEF Booked
  <2>2. QED
    BY <2>1 DEF HandsOver, Allotted, CallTracks, DiskTracks, CallAuthorised, InFlight,
       MayStillLand, NoIntent, NoCall, HistTypeOK, ChainTypeOK, DiskTypeOK, ProcTypeOK,
       IntentType, CallType, TxType, QuietPcs, OrderPcs, PollPcs, FinPcs
<1>6. QED BY <1>1, <1>2, <1>3, <1>4, <1>5, HandoverKeepsInv

LEMMA AlreadyFilledKeepsInv == ASSUME IndInv, AlreadyFilled PROVE IndInv'
<1> USE DEF IndInv, TypeOK, AlreadyFilled, ReadyToOrder, Attempting, chainVars, diskVars,
           procVars, histVars, envVars
<1>1. TypeOK'
  <2>1. ChainTypeOK' /\ HistTypeOK' /\ CountsTypeOK'
    BY DEF ChainTypeOK, HistTypeOK, CountsTypeOK
  <2>2. DiskTypeOK' BY DEF DiskTypeOK
  <2>3. ProcTypeOK' BY DEF ProcTypeOK, Pcs
  <2>4. QED BY <2>1, <2>2, <2>3
<1>2. DiskTracks'
  BY DEF DiskTracks, CallTracks, NoIntent, DiskTypeOK, ProcTypeOK, IntentType, QuietPcs,
     OrderPcs, PollPcs, FinPcs
<1>3. CallTracks'
  BY DEF CallTracks, DiskTracks, InFlight, NoIntent, NoCall, Booked, ChainTypeOK,
     DiskTypeOK, ProcTypeOK, IntentType, CallType, TxType, QuietPcs, OrderPcs, PollPcs,
     FinPcs
<1>4. CallAuthorised'
  BY DEF CallAuthorised, CallTracks, Allotted, NoIntent, NoCall, ChainTypeOK, DiskTypeOK,
     ProcTypeOK, IntentType, CallType, TxType, QuietPcs, OrderPcs, PollPcs, FinPcs
<1>5. HandsOver
  <2>1. \A s \in Signatures : Booked(s)' <=> Booked(s) BY DEF Booked
  <2>2. QED
    BY <2>1 DEF HandsOver, Allotted, CallTracks, DiskTracks, CallAuthorised, InFlight,
       MayStillLand, NoIntent, NoCall, HistTypeOK, ChainTypeOK, DiskTypeOK, ProcTypeOK,
       IntentType, CallType, TxType, QuietPcs, OrderPcs, PollPcs, FinPcs
<1>6. QED BY <1>1, <1>2, <1>3, <1>4, <1>5, HandoverKeepsInv

LEMMA FilledDeleteKeepsInv == ASSUME IndInv, FilledDelete PROVE IndInv'
<1> USE DEF IndInv, TypeOK, FilledDelete, Return, chainVars, diskVars, procVars, histVars,
           envVars
<1>1. TypeOK'
  <2>1. ChainTypeOK' /\ HistTypeOK' /\ CountsTypeOK'
    BY DEF ChainTypeOK, HistTypeOK, CountsTypeOK
  <2>2. DiskTypeOK' BY NoIntentType DEF DiskTypeOK
  <2>3. ProcTypeOK' BY NoCallType DEF ProcTypeOK, Pcs
  <2>4. QED BY <2>1, <2>2, <2>3
<1>2. DiskTracks'
  BY DEF DiskTracks, CallTracks, NoIntent, DiskTypeOK, ProcTypeOK, IntentType, QuietPcs,
     OrderPcs, PollPcs, FinPcs
<1>3. CallTracks'
  BY DEF CallTracks, DiskTracks, InFlight, NoIntent, NoCall, Booked, ChainTypeOK,
     DiskTypeOK, ProcTypeOK, IntentType, CallType, TxType, QuietPcs, OrderPcs, PollPcs,
     FinPcs
<1>4. CallAuthorised'
  BY DEF CallAuthorised, CallTracks, Allotted, NoIntent, NoCall, ChainTypeOK, DiskTypeOK,
     ProcTypeOK, IntentType, CallType, TxType, QuietPcs, OrderPcs, PollPcs, FinPcs
<1>5. HandsOver
  <2>1. \A s \in Signatures : Booked(s)' <=> Booked(s) BY DEF Booked
  <2>2. QED
    BY <2>1 DEF HandsOver, Allotted, CallTracks, DiskTracks, CallAuthorised, InFlight,
       MayStillLand, NoIntent, NoCall, HistTypeOK, ChainTypeOK, DiskTypeOK, ProcTypeOK,
       IntentType, CallType, TxType, QuietPcs, OrderPcs, PollPcs, FinPcs
<1>6. QED BY <1>1, <1>2, <1>3, <1>4, <1>5, HandoverKeepsInv

LEMMA ReadHoldingKeepsInv == ASSUME IndInv, ReadHolding PROVE IndInv'
<1> USE DEF IndInv, TypeOK, ReadHolding, ReadyToOrder, Attempting, chainVars, diskVars,
           procVars, histVars, envVars
<1>1. TypeOK'
  <2>1. ChainTypeOK' /\ DiskTypeOK' /\ HistTypeOK' /\ CountsTypeOK'
    BY DEF ChainTypeOK, DiskTypeOK, HistTypeOK, CountsTypeOK
  <2>2. ProcTypeOK' BY DEF ProcTypeOK, ChainTypeOK, Pcs, CallType
  <2>3. QED BY <2>1, <2>2
<1>2. DiskTracks'
  BY DEF DiskTracks, CallTracks, NoIntent, DiskTypeOK, ProcTypeOK, IntentType, QuietPcs,
     OrderPcs, PollPcs, FinPcs
<1>3. CallTracks'
  BY DEF CallTracks, DiskTracks, InFlight, NoIntent, NoCall, Booked, ChainTypeOK,
     DiskTypeOK, ProcTypeOK, IntentType, CallType, TxType, QuietPcs, OrderPcs, PollPcs,
     FinPcs
<1>4. CallAuthorised'
  BY DEF CallAuthorised, CallTracks, Allotted, NoIntent, NoCall, ChainTypeOK, DiskTypeOK,
     ProcTypeOK, IntentType, CallType, TxType, QuietPcs, OrderPcs, PollPcs, FinPcs
<1>5. HandsOver
  <2>1. \A s \in Signatures : Booked(s)' <=> Booked(s) BY DEF Booked
  <2>2. QED
    BY <2>1 DEF HandsOver, Allotted, CallTracks, DiskTracks, CallAuthorised, InFlight,
       MayStillLand, NoIntent, NoCall, HistTypeOK, ChainTypeOK, DiskTypeOK, ProcTypeOK,
       IntentType, CallType, TxType, QuietPcs, OrderPcs, PollPcs, FinPcs
<1>6. QED BY <1>1, <1>2, <1>3, <1>4, <1>5, HandoverKeepsInv

LEMMA RefuseBelowFloorKeepsInv == ASSUME IndInv, RefuseBelowFloor PROVE IndInv'
<1> USE DEF IndInv, TypeOK, RefuseBelowFloor, Return, chainVars, diskVars, procVars,
           histVars, envVars
<1>1. TypeOK'
  <2>1. ChainTypeOK' /\ HistTypeOK' /\ CountsTypeOK'
    BY DEF ChainTypeOK, HistTypeOK, CountsTypeOK
  <2>2. DiskTypeOK' BY NoIntentType DEF DiskTypeOK
  <2>3. ProcTypeOK' BY NoCallType DEF ProcTypeOK, Pcs
  <2>4. QED BY <2>1, <2>2, <2>3
<1>2. DiskTracks'
  BY DEF DiskTracks, CallTracks, NoIntent, DiskTypeOK, ProcTypeOK, IntentType, QuietPcs,
     OrderPcs, PollPcs, FinPcs
<1>3. CallTracks'
  BY DEF CallTracks, DiskTracks, InFlight, NoIntent, NoCall, Booked, ChainTypeOK,
     DiskTypeOK, ProcTypeOK, IntentType, CallType, TxType, QuietPcs, OrderPcs, PollPcs,
     FinPcs
<1>4. CallAuthorised'
  BY DEF CallAuthorised, CallTracks, Allotted, NoIntent, NoCall, ChainTypeOK, DiskTypeOK,
     ProcTypeOK, IntentType, CallType, TxType, QuietPcs, OrderPcs, PollPcs, FinPcs
<1>5. HandsOver
  <2>1. \A s \in Signatures : Booked(s)' <=> Booked(s) BY DEF Booked
  <2>2. QED
    BY <2>1 DEF HandsOver, Allotted, CallTracks, DiskTracks, CallAuthorised, InFlight,
       MayStillLand, NoIntent, NoCall, HistTypeOK, ChainTypeOK, DiskTypeOK, ProcTypeOK,
       IntentType, CallType, TxType, QuietPcs, OrderPcs, PollPcs, FinPcs
<1>6. QED BY <1>1, <1>2, <1>3, <1>4, <1>5, HandoverKeepsInv

LEMMA OrderSignedKeepsInv == ASSUME IndInv, OrderSigned PROVE IndInv'
<1> USE DEF IndInv, TypeOK, OrderSigned, chainVars, diskVars, procVars, histVars, envVars
<1>1. TypeOK'
  <2>1. ChainTypeOK' /\ DiskTypeOK' /\ HistTypeOK' /\ CountsTypeOK'
    BY DEF ChainTypeOK, DiskTypeOK, HistTypeOK, CountsTypeOK
  <2>2. ProcTypeOK' BY DEF ProcTypeOK, Pcs
  <2>3. QED BY <2>1, <2>2
<1>2. DiskTracks'
  BY DEF DiskTracks, CallTracks, NoIntent, DiskTypeOK, ProcTypeOK, IntentType, QuietPcs,
     OrderPcs, PollPcs, FinPcs
<1>3. CallTracks'
  BY DEF CallTracks, DiskTracks, InFlight, NoIntent, NoCall, Booked, ChainTypeOK,
     DiskTypeOK, ProcTypeOK, IntentType, CallType, TxType, QuietPcs, OrderPcs, PollPcs,
     FinPcs
<1>4. CallAuthorised'
  BY DEF CallAuthorised, CallTracks, Allotted, NoIntent, NoCall, ChainTypeOK, DiskTypeOK,
     ProcTypeOK, IntentType, CallType, TxType, QuietPcs, OrderPcs, PollPcs, FinPcs
<1>5. HandsOver
  <2>1. \A s \in Signatures : Booked(s)' <=> Booked(s) BY DEF Booked
  <2>2. QED
    BY <2>1 DEF HandsOver, Allotted, CallTracks, DiskTracks, CallAuthorised, InFlight,
       MayStillLand, NoIntent, NoCall, HistTypeOK, ChainTypeOK, DiskTypeOK, ProcTypeOK,
       IntentType, CallType, TxType, QuietPcs, OrderPcs, PollPcs, FinPcs
<1>6. QED BY <1>1, <1>2, <1>3, <1>4, <1>5, HandoverKeepsInv

LEMMA PersistSubmittingKeepsInv == ASSUME IndInv, PersistSubmitting PROVE IndInv'
<1> USE DEF IndInv, TypeOK, chainVars, diskVars, procVars, histVars, envVars
<1> DEFINE s == sigs + 1
           n == IF call.req < call.cur THEN call.req ELSE call.cur
<1>1. /\ s \in Signatures /\ sigs' = s /\ sigs \in Nat /\ n \in Amounts /\ call.cur - n \in Amounts
      /\ call \in CallType /\ call.reason \in ReasonClasses /\ call.dec \in Decisions
  <2>1. s \in Signatures /\ sigs' = s /\ sigs \in Nat BY DEF PersistSubmitting, ChainTypeOK
  <2>2. /\ call \in CallType /\ call.reason \in ReasonClasses
        /\ call.req \in Amounts /\ call.cur \in Amounts /\ call.dec \in Decisions \cup {None}
    BY DEF ProcTypeOK, CallType
  <2>3. call.dec # None BY DEF PersistSubmitting, CallAuthorised, OrderPcs
  <2>4. QED BY <2>1, <2>2, <2>3
<1>2. /\ tx' = [tx EXCEPT ![s] = [st |-> "signed", amt |-> n, dec |-> call.dec,
                                 reason |-> call.reason]]
      /\ hashLive' = [hashLive EXCEPT ![s] = TRUE]
      /\ call' = [call EXCEPT !.sig = s, !.amt = n, !.rem = call.cur - n, !.why = call.reason]
      /\ disk' = [status |-> "submitting", reason |-> call.reason, amt |-> n,
                  rem |-> call.cur - n, sig |-> s, dec |-> call.dec,
                  blocked |-> FALSE, ack |-> FALSE]
      /\ pc = "simulate" /\ pc' = "send"
      /\ UNCHANGED <<bal, seen, disposeOn, ledger, histVars, decs, envVars>>
  BY DEF PersistSubmitting
<1> HIDE DEF s, n
<1>3. /\ tx' \in [Signatures -> TxType] /\ tx'[s].st = "signed" /\ tx'[s].dec # None
      /\ \A t \in Signatures : t # s => tx'[t] = tx[t] /\ hashLive'[t] = hashLive[t]
  <2>1. [st |-> "signed", amt |-> n, dec |-> call.dec, reason |-> call.reason] \in TxType
    BY <1>1 DEF TxType
  <2>2. QED BY <1>1, <1>2, <2>1 DEF ChainTypeOK
<1>4. call' \in CallType /\ call'.sig = s /\ call'.dec = call.dec
  BY <1>1, <1>2 DEF CallType
<1>5. /\ disk' \in IntentType /\ disk'.sig = s /\ disk'.dec # None
      /\ disk'.status = "submitting"
  BY <1>1, <1>2 DEF IntentType
<1>6. TypeOK'
  <2>1. ChainTypeOK' BY <1>1, <1>2, <1>3 DEF ChainTypeOK
  <2>2. DiskTypeOK' BY <1>2, <1>5 DEF DiskTypeOK
  <2>3. ProcTypeOK' BY <1>2, <1>4 DEF ProcTypeOK, Pcs
  <2>4. HistTypeOK' /\ CountsTypeOK' BY <1>2 DEF HistTypeOK, CountsTypeOK
  <2>5. QED BY <2>1, <2>2, <2>3, <2>4
<1>7. call.sig = None /\ disk.sig = None BY <1>2 DEF CallTracks, OrderPcs
<1>8. Allotted'
  <2>1. \A t \in Signatures : t > sigs' <=> tx'[t].st = "unsigned"
    <3> SUFFICES ASSUME NEW t \in Signatures PROVE t > sigs' <=> tx'[t].st = "unsigned"
      OBVIOUS
    <3>1. CASE t = s BY <1>1, <1>3, <3>1
    <3>2. CASE t # s BY <1>1, <1>3, <3>2 DEF Allotted, s
    <3>3. QED BY <3>1, <3>2
  <2>2. QED BY <1>1, <1>3, <1>4, <1>5, <2>1 DEF Allotted
<1>9. DiskTracks' BY <1>5 DEF DiskTracks
<1>10. CallTracks'
  BY <1>1, <1>2, <1>3, <1>4, <1>5 DEF CallTracks, QuietPcs, OrderPcs, PollPcs, FinPcs
<1>11. CallAuthorised'
  BY <1>1, <1>2, <1>4 DEF CallAuthorised, QuietPcs, OrderPcs, PollPcs, FinPcs
<1>12. LandableIsOnDisk'
  BY <1>2, <1>3, <1>7 DEF LandableIsOnDisk, MayStillLand
<1>13. \A t \in Signatures : Booked(t)' <=> Booked(t) BY <1>2 DEF Booked
<1>14. FillsAccounted' BY <1>2, <1>3, <1>7, <1>13 DEF FillsAccounted
<1>15. QED BY <1>6, <1>8, <1>9, <1>10, <1>11, <1>12, <1>14

LEMMA SendKeepsInv == ASSUME IndInv, Send PROVE IndInv'
<1> USE DEF IndInv, TypeOK, Send, chainVars, diskVars, procVars, histVars, envVars
<1>1. /\ call.sig \in Signatures /\ disk.sig = call.sig /\ tx[call.sig].st = "signed"
  BY DEF ProcTypeOK, CallType, CallTracks
<1>2. /\ tx' \in [Signatures -> TxType] /\ tx'[call.sig].st \in {"signed", "sent"}
      /\ \A t \in Signatures : /\ tx'[t].dec = tx[t].dec
                               /\ t # call.sig => tx'[t] = tx[t]
  <2>1. tx \in [Signatures -> TxType] BY DEF ChainTypeOK
  <2>2. CASE tx' = [tx EXCEPT ![call.sig].st = "sent"] BY <1>1, <2>2, TxStatusStep
  <2>3. CASE UNCHANGED tx BY <1>1, <2>1, <2>3
  <2>4. QED BY <2>2, <2>3
<1>3. ChainTypeOK' BY <1>2 DEF ChainTypeOK
<1>4. DiskTypeOK' /\ ProcTypeOK' /\ HistTypeOK' /\ CountsTypeOK'
  BY DEF DiskTypeOK, ProcTypeOK, Pcs, HistTypeOK, CountsTypeOK
<1>5. Allotted'
  <2>1. \A t \in Signatures : tx'[t].st = "unsigned" <=> tx[t].st = "unsigned" BY <1>1, <1>2
  <2>2. QED BY <1>2, <2>1 DEF Allotted
<1>6. DiskTracks' /\ CallAuthorised'
  BY DEF DiskTracks, CallAuthorised, QuietPcs, OrderPcs, PollPcs, FinPcs
<1>7. CallTracks' BY <1>1, <1>2 DEF CallTracks, QuietPcs, OrderPcs, PollPcs, FinPcs
<1>8. LandableIsOnDisk' BY <1>1, <1>2 DEF LandableIsOnDisk, MayStillLand, InFlight, DiskTracks
<1>9. \A t \in Signatures : Booked(t)' <=> Booked(t) BY DEF Booked
<1>10. FillsAccounted' BY <1>1, <1>2, <1>9 DEF FillsAccounted
<1>11. QED BY <1>3, <1>4, <1>5, <1>6, <1>7, <1>8, <1>10

LEMMA ExecuteSuccessKeepsInv == ASSUME IndInv, ExecuteSuccess PROVE IndInv'
<1> USE DEF IndInv, TypeOK, ExecuteSuccess, chainVars, diskVars, procVars, histVars, envVars
<1>0. /\ call.sig \in Signatures /\ disk.sig = call.sig /\ call \in CallType
      /\ \A s \in Signatures : Booked(s)' <=> Booked(s)
  BY DEF ProcTypeOK, CallType, CallTracks, Booked
<1>1. /\ call.amt \in Amounts /\ call.rem \in Amounts /\ call.why \in ReasonClasses
      /\ tx[call.sig].dec \in Decisions
  <2>1. tx[call.sig].st # "unsigned" BY <1>0 DEF Allotted, ChainTypeOK
  <2>2. tx[call.sig].dec # None /\ tx[call.sig] \in TxType
    BY <1>0, <2>1 DEF Allotted, ChainTypeOK
  <2>3. QED BY <1>0, <2>2 DEF CallType, TxType
<1>2. /\ disk' \in IntentType /\ disk'.sig = call.sig /\ disk'.dec # None
      /\ disk'.status = "submitted"
  BY <1>0, <1>1 DEF IntentOf, IntentType
<1>3. call' \in CallType /\ call'.sig = call.sig /\ call'.dec = call.dec /\ call'.ret = "submit"
  BY <1>0 DEF CallType
<1>4. TypeOK'
  <2>1. ChainTypeOK' /\ HistTypeOK' /\ CountsTypeOK'
    BY DEF ChainTypeOK, HistTypeOK, CountsTypeOK
  <2>2. DiskTypeOK' BY <1>2 DEF DiskTypeOK
  <2>3. ProcTypeOK' BY <1>3 DEF ProcTypeOK, Pcs
  <2>4. QED BY <2>1, <2>2, <2>3
<1>5. DiskTracks' BY <1>2 DEF DiskTracks
<1>6. CallTracks' BY <1>0, <1>2, <1>3 DEF CallTracks, QuietPcs, OrderPcs, PollPcs, FinPcs
<1>7. CallAuthorised' BY <1>3 DEF CallAuthorised, QuietPcs, OrderPcs, PollPcs, FinPcs
<1>8. HandsOver BY <1>0, <1>2, <1>3 DEF HandsOver
<1>9. QED BY <1>4, <1>5, <1>6, <1>7, <1>8, HandoverKeepsInv

LEMMA ExecuteAmbiguousKeepsInv == ASSUME IndInv, ExecuteAmbiguous PROVE IndInv'
<1> USE DEF IndInv, TypeOK, ExecuteAmbiguous, NextAttempt, chainVars, diskVars, procVars,
           histVars, envVars
<1>1. TypeOK'
  <2>1. ChainTypeOK' /\ DiskTypeOK' /\ HistTypeOK' /\ CountsTypeOK'
    BY DEF ChainTypeOK, DiskTypeOK, HistTypeOK, CountsTypeOK
  <2>2. ProcTypeOK' BY NextAttemptType DEF ProcTypeOK, Pcs
  <2>3. QED BY <2>1, <2>2
<1>2. DiskTracks'
  BY DEF DiskTracks, CallTracks, NoIntent, DiskTypeOK, ProcTypeOK, IntentType, QuietPcs,
     OrderPcs, PollPcs, FinPcs
<1>3. CallTracks'
  BY DEF CallTracks, DiskTracks, InFlight, NoIntent, NoCall, Booked, ChainTypeOK,
     DiskTypeOK, ProcTypeOK, IntentType, CallType, TxType, QuietPcs, OrderPcs, PollPcs,
     FinPcs
<1>4. CallAuthorised'
  BY DEF CallAuthorised, CallTracks, Allotted, NoIntent, NoCall, ChainTypeOK, DiskTypeOK,
     ProcTypeOK, IntentType, CallType, TxType, QuietPcs, OrderPcs, PollPcs, FinPcs
<1>5. HandsOver
  <2>1. \A s \in Signatures : Booked(s)' <=> Booked(s) BY DEF Booked
  <2>2. QED
    BY <2>1 DEF HandsOver, Allotted, CallTracks, DiskTracks, CallAuthorised, InFlight,
       MayStillLand, NoIntent, NoCall, HistTypeOK, ChainTypeOK, DiskTypeOK, ProcTypeOK,
       IntentType, CallType, TxType, QuietPcs, OrderPcs, PollPcs, FinPcs
<1>6. QED BY <1>1, <1>2, <1>3, <1>4, <1>5, HandoverKeepsInv

LEMMA AttemptErrorKeepsInv == ASSUME IndInv, AttemptError PROVE IndInv'
<1> USE DEF IndInv, TypeOK, AttemptError, NextAttempt, ReadyToOrder, Attempting,
           chainVars, diskVars, procVars, histVars, envVars
<1>1. TypeOK'
  <2>1. ChainTypeOK' /\ DiskTypeOK' /\ HistTypeOK' /\ CountsTypeOK'
    BY DEF ChainTypeOK, DiskTypeOK, HistTypeOK, CountsTypeOK
  <2>2. ProcTypeOK' BY NextAttemptType DEF ProcTypeOK, Pcs
  <2>3. QED BY <2>1, <2>2
<1>2. DiskTracks'
  BY DEF DiskTracks, CallTracks, NoIntent, DiskTypeOK, ProcTypeOK, IntentType, QuietPcs,
     OrderPcs, PollPcs, FinPcs
<1>3. CallTracks'
  BY DEF CallTracks, DiskTracks, InFlight, NoIntent, NoCall, Booked, ChainTypeOK,
     DiskTypeOK, ProcTypeOK, IntentType, CallType, TxType, QuietPcs, OrderPcs, PollPcs,
     FinPcs
<1>4. CallAuthorised'
  BY DEF CallAuthorised, CallTracks, Allotted, NoIntent, NoCall, ChainTypeOK, DiskTypeOK,
     ProcTypeOK, IntentType, CallType, TxType, QuietPcs, OrderPcs, PollPcs, FinPcs
<1>5. HandsOver
  <2>1. \A s \in Signatures : Booked(s)' <=> Booked(s) BY DEF Booked
  <2>2. QED
    BY <2>1 DEF HandsOver, Allotted, CallTracks, DiskTracks, CallAuthorised, InFlight,
       MayStillLand, NoIntent, NoCall, HistTypeOK, ChainTypeOK, DiskTypeOK, ProcTypeOK,
       IntentType, CallType, TxType, QuietPcs, OrderPcs, PollPcs, FinPcs
<1>6. QED BY <1>1, <1>2, <1>3, <1>4, <1>5, HandoverKeepsInv

LEMMA GiveUpUnresolvedKeepsInv == ASSUME IndInv, GiveUpUnresolved PROVE IndInv'
BY BlockKeepsInv DEF GiveUpUnresolved

LEMMA GiveUpFailedKeepsInv == ASSUME IndInv, GiveUpFailed PROVE IndInv'
<1> USE DEF IndInv, TypeOK, GiveUpFailed, Return, chainVars, diskVars, procVars, histVars,
           envVars
<1>1. TypeOK'
  <2>1. ChainTypeOK' /\ CountsTypeOK' BY DEF ChainTypeOK, CountsTypeOK
  <2>2. DiskTypeOK' BY DEF DiskTypeOK, IntentType
  <2>3. ProcTypeOK' BY NoCallType DEF ProcTypeOK, Pcs
  <2>4. HistTypeOK' BY DEF HistTypeOK, CallAuthorised, ProcTypeOK, CallType
  <2>5. QED BY <2>1, <2>2, <2>3, <2>4
<1>2. DiskTracks'
  BY DEF DiskTracks, CallTracks, NoIntent, DiskTypeOK, ProcTypeOK, IntentType, QuietPcs,
     OrderPcs, PollPcs, FinPcs
<1>3. CallTracks'
  BY DEF CallTracks, DiskTracks, InFlight, NoIntent, NoCall, Booked, ChainTypeOK,
     DiskTypeOK, ProcTypeOK, IntentType, CallType, TxType, QuietPcs, OrderPcs, PollPcs,
     FinPcs
<1>4. CallAuthorised'
  BY DEF CallAuthorised, CallTracks, Allotted, NoIntent, NoCall, ChainTypeOK, DiskTypeOK,
     ProcTypeOK, IntentType, CallType, TxType, QuietPcs, OrderPcs, PollPcs, FinPcs
<1>5. HandsOver 
  <2>1. \A s \in Signatures : Booked(s)' <=> Booked(s) BY DEF Booked
  <2>2. call.sig = None /\ call'.sig = None /\ disk.sig = None BY NoCallType DEF CallTracks
  <2>3. disk'.sig = None /\ disk'.dec = disk.dec BY <2>2 DEF DiskTypeOK, IntentType
  <2>4. disk.dec # None BY DEF CallAuthorised, Allotted
  <2>5. QED BY <2>1, <2>2, <2>3, <2>4 DEF HandsOver, Allotted
<1>6. QED BY <1>1, <1>2, <1>3, <1>4, <1>5, HandoverKeepsInv

LEMMA CrashKeepsInv == ASSUME IndInv, Crash PROVE IndInv'
<1>1. ioErrs' \in Nat BY DEF Crash, IndInv, TypeOK, CountsTypeOK
<1>2. QED BY <1>1, DieKeepsInv DEF Crash

-----------------------------------------------------------------------------
(* Every step keeps the invariant.                                           *)

LEMMA NextKeepsInv == IndInv /\ [Next]_vars => IndInv'
<1> SUFFICES ASSUME IndInv, [Next]_vars PROVE IndInv' OBVIOUS
<1>1. CASE Environment
  <2>1. CASE \E s \in Signatures : Land(s) \/ Expire(s)
    BY <2>1, LandKeepsInv, ExpireKeepsInv
  <2>2. QED
    BY <1>1, <2>1, CatchUpKeepsInv, OperatorTradeKeepsInv, OperatorDisposeKeepsInv,
       OperatorAckKeepsInv DEF Environment
<1>2. CASE Engine
  BY <1>2, StartServerKeepsInv, ReconcileReadKeepsInv, SettleAbsentKeepsInv,
     ClearAbsentKeepsInv, HoldTerminalKeepsInv, PageHeldKeepsInv,
     ClearUnexecutableKeepsInv, ResumeKeepsInv, CycleReadKeepsInv, CycleHoldKeepsInv,
     CycleSellKeepsInv, StartPanicKeepsInv, PanicSellKeepsInv, PanicNothingHeldKeepsInv
     DEF Engine
<1>3. CASE Resolver
  BY <1>3, PollErrorKeepsInv, PollFailedKeepsInv, PollConfirmedKeepsInv,
     PollPendingKeepsInv, PollUnknownKeepsInv, PollBalanceKeepsInv,
     PollBlockhashDeadKeepsInv, PollBlockhashValidKeepsInv DEF Resolver
<1>4. CASE Finalizer
  BY <1>4, FinalizeDisposeKeepsInv, FinalizeDeleteKeepsInv, FinalizeAppendKeepsInv,
     FinalizeNotifyKeepsInv, FinalizeIoErrorKeepsInv DEF Finalizer
<1>5. CASE Attempts
  BY <1>5, ResolvePendingKeepsInv, AlreadyFilledKeepsInv, FilledDeleteKeepsInv,
     ReadHoldingKeepsInv, RefuseBelowFloorKeepsInv, OrderSignedKeepsInv,
     PersistSubmittingKeepsInv, SendKeepsInv, ExecuteSuccessKeepsInv,
     ExecuteAmbiguousKeepsInv, AttemptErrorKeepsInv, GiveUpUnresolvedKeepsInv,
     GiveUpFailedKeepsInv DEF Attempts
<1>6. CASE Crash BY <1>6, CrashKeepsInv
<1>7. CASE UNCHANGED vars
  <2> USE <1>7 DEF vars, chainVars, diskVars, procVars, histVars, envVars
  <2>1. TypeOK'
    BY DEF IndInv, TypeOK, ChainTypeOK, DiskTypeOK, ProcTypeOK, HistTypeOK, CountsTypeOK
  <2>2. Allotted' /\ DiskTracks' /\ CallAuthorised'
    BY DEF IndInv, Allotted, DiskTracks, CallAuthorised
  <2>3. CallTracks' BY DEF IndInv, CallTracks, Booked
  <2>4. LandableIsOnDisk' BY DEF IndInv, LandableIsOnDisk, MayStillLand, InFlight
  <2>5. FillsAccounted' BY DEF IndInv, FillsAccounted, Booked
  <2>6. QED BY <2>1, <2>2, <2>3, <2>4, <2>5 DEF IndInv
<1>8. QED BY <1>1, <1>2, <1>3, <1>4, <1>5, <1>6, <1>7 DEF Next, Process

LEMMA InvHolds == Spec => []IndInv
BY InitEstablishesInv, NextKeepsInv, PTL DEF Spec

\* The variables of the exit path keep their types in every behaviour, for any
\* holdings and any number of signatures, decisions, attempts, polls, crashes,
\* operator moves and failed writes.
THEOREM TypeCorrect == Spec => []TypeOK
<1>1. IndInv => TypeOK BY DEF IndInv
<1>2. QED BY <1>1, InvHolds, PTL

\* What sell and reconcile_pending_exits rely on: a transaction that may still
\* land is named by the pending entry on disk, across any crashes.
THEOREM LandableTracked == Spec => []LandableIsOnDisk
<1>1. IndInv => LandableIsOnDisk BY DEF IndInv
<1>2. QED BY <1>1, InvHolds, PTL

\* A sale that moved the balance is in the ledger, still tracked, or was lost
\* in one of the three ways the model names.
THEOREM FillsAlwaysAccounted == Spec => []FillsAccounted
<1>1. IndInv => FillsAccounted BY DEF IndInv
<1>2. QED BY <1>1, InvHolds, PTL

-----------------------------------------------------------------------------
(* The exit path implements SingleFlight.                                    *)

\* No step but Send adds an order; most leave the orders alone.
LEMMA OnlySendOpens ==
    ASSUME IndInv, [Next]_vars, ~Send
    PROVE  UsedSignatures' = UsedSignatures /\ OpenOrders' \subseteq OpenOrders
<1> USE DEF chainVars, diskVars, procVars, histVars, envVars
<1>1. ASSUME UNCHANGED <<tx, hashLive>>,
             \A s \in Signatures :
                 dropped[s] = "skip" => dropped'[s] = "skip" \/ ~MayStillLand(s)
      PROVE  UsedSignatures' = UsedSignatures /\ OpenOrders' \subseteq OpenOrders
  BY <1>1 DEF UsedSignatures, OpenOrders, MayStillLand
<1>2. CASE UNCHANGED <<tx, hashLive, dropped>> BY <1>1, <1>2
<1>3. ASSUME NEW s \in Signatures, Land(s)
      PROVE  UsedSignatures' = UsedSignatures /\ OpenOrders' \subseteq OpenOrders
  <2>1. PICK v \in {"landed", "failed"} : tx' = [tx EXCEPT ![s].st = v] BY <1>3 DEF Land
  <2>2. tx'[s].st = v /\ \A t \in Signatures : t # s => tx'[t] = tx[t]
    BY <2>1, TxStatusStep DEF IndInv, TypeOK
  <2>3. tx[s].st = "sent" /\ UNCHANGED <<hashLive, dropped>> BY <1>3 DEF Land, MayStillLand
  <2>4. UsedSignatures' = UsedSignatures BY <2>2, <2>3 DEF UsedSignatures
  <2>5. OpenOrders' \subseteq OpenOrders BY <2>2, <2>3 DEF OpenOrders, MayStillLand
  <2>6. QED BY <2>4, <2>5
<1>4. ASSUME NEW s \in Signatures, Expire(s)
      PROVE  UsedSignatures' = UsedSignatures /\ OpenOrders' \subseteq OpenOrders
  <2>1. \A t \in Signatures : hashLive'[t] => hashLive[t]
    BY <1>4 DEF Expire, IndInv, TypeOK, ChainTypeOK
  <2>2. UNCHANGED <<tx, dropped>> BY <1>4 DEF Expire
  <2>3. QED BY <2>1, <2>2 DEF UsedSignatures, OpenOrders, MayStillLand
<1>5. CASE PersistSubmitting
  <2>1. sigs + 1 \in Signatures /\ tx[sigs + 1].st = "unsigned"
    BY <1>5 DEF PersistSubmitting, IndInv, TypeOK, ChainTypeOK, Allotted
  <2>2. /\ tx'[sigs + 1].st = "signed" /\ UNCHANGED dropped
        /\ \A t \in Signatures \ {sigs + 1} : tx'[t] = tx[t] /\ hashLive'[t] = hashLive[t]
    BY <1>5, <2>1 DEF PersistSubmitting, IndInv, TypeOK, ChainTypeOK
  <2>3. QED BY <2>1, <2>2 DEF UsedSignatures, OpenOrders, MayStillLand
<1>6. CASE ClearUnexecutable
  <2>1. \A s \in Signatures : dropped[s] = "skip" => dropped'[s] = "skip"
    BY <1>6 DEF ClearUnexecutable, IndInv, TypeOK, HistTypeOK
  <2>2. QED BY <1>1, <1>6, <2>1 DEF ClearUnexecutable
<1>7. CASE PollFailed \/ PollBlockhashDead
  <2>1. /\ UNCHANGED <<tx, hashLive>>
        /\ dropped' = IF tx[call.sig].st = "landed"
                      THEN [dropped EXCEPT ![call.sig] = "race"] ELSE dropped
    BY <1>7 DEF PollFailed, PollBlockhashDead, Dead
  <2>2. \A s \in Signatures : dropped[s] = "skip" => dropped'[s] = "skip" \/ ~MayStillLand(s)
    BY <2>1 DEF MayStillLand, IndInv, TypeOK, HistTypeOK
  <2>3. QED BY <1>1, <2>1, <2>2
<1>8. CASE PollError \/ FinalizeIoError \/ Crash
  <2>1. UNCHANGED <<tx, hashLive>> /\ (Die \/ UNCHANGED dropped)
    BY <1>8 DEF PollError, FinalizeIoError, Crash
  <2>2. \A s \in Signatures : dropped[s] = "skip" => dropped'[s] = "skip"
    BY <2>1 DEF Die
  <2>3. QED BY <1>1, <2>1, <2>2
<1>9. CASE Engine /\ ~ClearUnexecutable
  <2>1. CASE Resume \/ CycleSell \/ PanicSell
    BY <1>2, <2>1 DEF Resume, CycleSell, PanicSell, EnterSell
  <2>2. QED
    BY <1>2, <1>9, <2>1 DEF Engine, StartServer, ReconcileRead, SettleAbsent, ClearAbsent,
       HoldTerminal, PageHeld, CycleRead, CycleHold, StartPanic, PanicNothingHeld
<1>10. CASE Resolver /\ ~(PollFailed \/ PollBlockhashDead \/ PollError)
  BY <1>2, <1>10 DEF Resolver, PollConfirmed, PollPending, PollUnknown, PollBalance,
     PollBlockhashValid
<1>11. CASE Finalizer /\ ~FinalizeIoError
  BY <1>2, <1>11 DEF Finalizer, FinalizeDispose, FinalizeDelete, FinalizeAppend, FinalizeNotify
<1>12. CASE Attempts /\ ~PersistSubmitting
  BY <1>2, <1>12 DEF Attempts, ResolvePending, AlreadyFilled, FilledDelete, ReadHolding,
     RefuseBelowFloor, OrderSigned, ExecuteSuccess, ExecuteAmbiguous, AttemptError,
     GiveUpUnresolved, GiveUpFailed
<1>13. CASE Environment
 
    BY <1>2, <1>3, <1>4, <1>13 DEF Environment, CatchUp, OperatorTrade, OperatorDispose,
       OperatorAck
<1>14. CASE UNCHANGED vars BY <1>2, <1>14 DEF vars
<1>15. QED BY <1>5, <1>6, <1>7, <1>8, <1>9, <1>10, <1>11, <1>12, <1>13, <1>14 DEF Next, Process

\* At most one order is open: the one the pending entry on disk names.
LEMMA OpenIsOnDisk == IndInv => OpenOrders \subseteq {disk.sig}
BY DEF IndInv, LandableIsOnDisk, OpenOrders

LEMMA SendReleases ==
    ASSUME IndInv, Send
    PROVE  Flight!Next \/ UNCHANGED <<OpenOrders, UsedSignatures>>
<1> DEFINE s == call.sig
<1>1. s \in Signatures /\ disk.sig = s /\ tx[s].st = "signed"
  BY DEF Send, IndInv, TypeOK, ProcTypeOK, CallType, CallTracks
<1>2. OpenOrders = {} /\ s \notin UsedSignatures
  BY <1>1, OpenIsOnDisk DEF OpenOrders, MayStillLand, UsedSignatures
<1>3. UNCHANGED <<hashLive, dropped>> BY DEF Send, histVars
<1>4. CASE UNCHANGED tx
  BY <1>3, <1>4 DEF OpenOrders, MayStillLand, UsedSignatures
<1>5. CASE tx' = [tx EXCEPT ![s].st = "sent"]
  <2>1. tx'[s].st = "sent" /\ \A t \in Signatures : t # s => tx'[t] = tx[t]
    BY <1>1, <1>5, TxStatusStep DEF IndInv, TypeOK
  <2>2. UsedSignatures' = UsedSignatures \cup {s}
    BY <1>1, <2>1 DEF UsedSignatures
  <2>3. OpenOrders' \subseteq {s}
    BY <1>2, <1>3, <2>1 DEF OpenOrders, MayStillLand
  <2>4. OpenOrders' \in {{}, {s}} BY <2>3
  <2>5. Flight!Release(s) BY <1>2, <2>2, <2>4 DEF Flight!Release
  <2>6. QED BY <1>1, <2>5 DEF Flight!Next
<1>6. QED BY <1>4, <1>5 DEF Send

LEMMA StepSimulates == IndInv /\ [Next]_vars => [Flight!Next]_(Flight!vars)
<1> SUFFICES ASSUME IndInv, [Next]_vars
             PROVE  Flight!Next \/ UNCHANGED <<OpenOrders, UsedSignatures>>
  BY DEF Flight!vars
<1>1. CASE Send BY <1>1, SendReleases
<1>2. CASE ~Send
  <2>1. /\ UsedSignatures' = UsedSignatures /\ OpenOrders' \subseteq OpenOrders
        /\ OpenOrders \subseteq {disk.sig}
    BY <1>2, OnlySendOpens, OpenIsOnDisk
  <2>2. OpenOrders' = OpenOrders \/ (OpenOrders # {} /\ OpenOrders' = {}) BY <2>1
  <2>3. QED BY <2>1, <2>2 DEF Flight!Next, Flight!Settle
<1>3. QED BY <1>1, <1>2

\* The exit path implements SingleFlight: whatever sell, the resolver, the
\* reconciliation and a restart do, an order is sent only while no other one
\* that was not given up on a "skipped" resume may still execute, and no
\* signature is sent twice.
THEOREM ImplementsSingleFlight == Spec => OneOrderInFlight
<1>1. Init => Flight!Init
  BY DEF Init, Flight!Init, OpenOrders, UsedSignatures, MayStillLand, NoTx
<1>2. QED BY <1>1, StepSimulates, InvHolds, PTL DEF Spec, OneOrderInFlight, Flight!Spec
====
