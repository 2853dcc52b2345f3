--------------------------- MODULE PairingProofs ---------------------------
(***************************************************************************)
(* For every limit, lifetime and window, and every number of restarts,      *)
(* faults and ticks: what the pairing coordinator keeps in memory is live   *)
(* in its journal, a code is exchanged once, a new epoch leaves nothing of  *)
(* an older one open, and the journal never refuses a name, a predecessor   *)
(* or a time of the coordinator.                                            *)
(***************************************************************************)
EXTENDS Pairing, TLAPS, FiniteSetTheorems

Name == Nat \X Nat
Rated == {"issued", "rejected"}
Occurrences ==
    [kind : Terminal \cup Rated, id : Name, pred : Name, at : Nat, exp : Nat,
     window : Name, until : Nat, nth : Nat]
Capabilities == [id : Name, exp : Nat]
Windows == [used : Nat, id : Name, deadline : Nat, until : Nat]
Budget(kind) == IF kind = "issued" THEN MaxIssued ELSE MaxFailed

Typed ==
    /\ now \in Nat /\ epoch \in Nat /\ ord \in Nat
    /\ status \in {"down", "up", "poisoned"} /\ (status # "down" => epoch > 0)
    /\ status = "down" => codes = {} /\ sessions = {}
    /\ codes \in SUBSET Capabilities /\ IsFiniteSet(codes)
    /\ sessions \in SUBSET Capabilities /\ IsFiniteSet(sessions)
    /\ att \in Windows /\ iss \in Windows
    /\ journal \in SUBSET Occurrences /\ IsFiniteSet(journal)

\* The registry's limits; a window has a name once it has an end.
Limits ==
    /\ Cardinality(codes) <= MaxCodes /\ Cardinality(sessions) <= MaxSessions
    /\ att.used <= MaxFailed /\ iss.used <= MaxIssued
    /\ att.id = None <=> att.until = 0
    /\ iss.id = None <=> iss.until = 0

\* No name is used twice, the next name of a serving coordinator is new, and what
\* is closed is there.
NamesIn(J, last) ==
    /\ \A e \in J : /\ 0 < e.id[1] /\ e.id[1] <= epoch /\ e.at <= now
                    /\ status = "up" /\ e.id[1] = epoch => e.id[2] <= last
    /\ \A d, e \in J : d.id = e.id => d = e
    /\ \A c \in J : c.kind \in Terminal => \E p \in J : p.id = c.pred

\* A window holds no more than its budget, and of each kind one is open.
SameWindow(J, e) == {d \in J : d.kind = e.kind /\ d.window = e.window}
RatesIn(J) ==
    /\ \A e \in J : e.kind \in Rated =>
          e.window # None /\ Cardinality(SameWindow(J, e)) <= Budget(e.kind)
    /\ \A d, e \in J : d.kind \in Rated /\ e.kind = d.kind /\ now < d.until /\ now < e.until
                          => d.window = e.window

\* A code in memory is an issued occurrence without a terminal child, a session
\* a consumed one.
LiveIn(J, x, kind) ==
    /\ \E e \in J : e.kind = kind /\ e.id = x.id /\ e.exp = x.exp /\ e.id[1] = epoch
    /\ \A c \in J : c.kind \in Terminal => c.pred # x.id
MemoryAgrees ==
    status = "up" => /\ \A x \in codes : LiveIn(journal, x, "issued")
                     /\ \A x \in sessions : LiveIn(journal, x, "consumed")

\* The inductive invariant.
PInv ==
    /\ Typed /\ Limits /\ NamesIn(journal, ord) /\ RatesIn(journal)
    /\ MemoryAgrees /\ OldEpochsClosed /\ CodeUsedOnce /\ RefusedForRateOnly

\* SetToSeq lists a finite set without repetition.
LEMMA Listing ==
    ASSUME NEW S, IsFiniteSet(S)
    PROVE  /\ Cardinality(S) \in Nat
           /\ SetToSeq(S) \in [1..Cardinality(S) -> S]
           /\ \A x \in S : \E i \in 1..Cardinality(S) : SetToSeq(S)[i] = x
<1>1. Cardinality(S) \in Nat BY FS_CardinalityType
<1>2. PICK f \in [1..Cardinality(S) -> S] : IsInjective(f)
  <2>1. ExistsBijection(1..Cardinality(S), S) BY FS_CardinalityType
  <2>2. QED BY <2>1 DEF ExistsBijection, Bijection, Injection, IsInjective
<1>3. SetToSeq(S) \in [1..Cardinality(S) -> S] /\ IsInjective(SetToSeq(S))
  BY <1>2 DEF SetToSeq
<1>4. \A x \in S : \E i \in 1..Cardinality(S) : SetToSeq(S)[i] = x
  <2>. DEFINE n == Cardinality(S) s == SetToSeq(S)
  <2>1. 1..n # {} \/ S = {} BY <1>1, FS_EmptySet
  <2>2. SUFFICES ASSUME NEW x \in S, \A i \in 1..n : s[i] # x PROVE FALSE
    BY <1>3
  <2>3. s \in Injection(1..n, S \ {x})
    BY <1>3, <2>2 DEF Injection, IsInjective
  <2>4. IsFiniteSet(1..n) /\ Cardinality(1..n) = n BY <1>1, FS_Interval
  <2>5. IsFiniteSet(S \ {x}) /\ Cardinality(S \ {x}) = n - 1
    BY FS_RemoveElement
  <2>6. QED BY <1>1, <2>3, <2>4, <2>5, FS_Injection
<1>5. QED BY <1>1, <1>3, <1>4

\* One element more.
LEMMA OneMore ==
    ASSUME NEW S, NEW x, IsFiniteSet(S)
    PROVE  /\ IsFiniteSet(S \union {x})
           /\ Cardinality(S) \in Nat /\ Cardinality(S \union {x}) \in Nat
           /\ Cardinality(S \union {x}) <= Cardinality(S) + 1
<1>1. IsFiniteSet(S \union {x}) BY FS_AddElement
<1>2. Cardinality(S) \in Nat /\ Cardinality(S \union {x}) \in Nat BY <1>1, FS_CardinalityType
<1>3. Cardinality(S \union {x}) = IF x \in S THEN Cardinality(S) ELSE Cardinality(S) + 1
  BY FS_AddElement
<1>4. QED BY <1>1, <1>2, <1>3

\* Occurrences that close what a finite set names, numbered after base.
FiledAs(F, S, kind, ep, base) ==
    \A o : o \in F <=> \E i \in 1..Cardinality(S) :
                          o = Occurrence(kind, <<ep, base + i>>, SetToSeq(S)[i].id, 0)

\* What expire and begin_pairing_epoch_v1 file: one occurrence for each name,
\* numbered without a gap.
LEMMA Filing ==
    ASSUME NEW S, IsFiniteSet(S), \A x \in S : x.id \in Name, now \in Nat,
           NEW kind \in Terminal, NEW ep \in Nat, NEW base \in Nat, NEW F,
           FiledAs(F, S, kind, ep, base)
    PROVE  /\ IsFiniteSet(F) /\ F \in SUBSET Occurrences
           /\ \A o \in F : /\ o.kind = kind /\ o.at = now /\ o.id[1] = ep
                           /\ base < o.id[2] /\ o.id[2] <= base + Cardinality(S)
                           /\ \E x \in S : o.pred = x.id
           /\ \A d, e \in F : d.id = e.id => d = e
           /\ \A x \in S : \E o \in F : o.pred = x.id
<1> DEFINE n == Cardinality(S)
           s == SetToSeq(S)
           Filed(i) == Occurrence(kind, <<ep, base + i>>, s[i].id, 0)
<1>1. n \in Nat /\ s \in [1..n -> S] /\ \A x \in S : \E i \in 1..n : s[i] = x
  BY Listing
<1>2. \A o : o \in F <=> \E i \in 1..n : o = Filed(i) BY DEF FiledAs
<1> HIDE DEF n, s
<1>3. \A i \in 1..n : /\ Filed(i).kind = kind /\ Filed(i).at = now
                      /\ Filed(i).id = <<ep, base + i>>
                      /\ Filed(i).pred = s[i].id /\ s[i] \in S
                      /\ Filed(i) \in Occurrences
  <2>1. \A i \in 1..n : s[i] \in S /\ s[i].id \in Name /\ <<ep, base + i>> \in Name
    BY <1>1 DEF Name
  <2>2. None \in Name BY DEF None, Name
  <2>3. QED BY <2>1, <2>2 DEF Occurrence, Occurrences, None, Name
<1>4. IsFiniteSet(F)
  <2> DEFINE f == [i \in 1..n |-> Filed(i)]
  <2>1. f \in Surjection(1..n, F)
    <3>1. f \in [1..n -> F] BY <1>2
    <3>2. \A o \in F : \E i \in 1..n : f[i] = o BY <1>2
    <3>3. QED BY <3>1, <3>2 DEF Surjection
  <2>2. IsFiniteSet(1..n) BY <1>1, FS_Interval
  <2>3. QED BY <2>1, <2>2, FS_Surjection
<1> HIDE DEF Filed
<1>5. F \in SUBSET Occurrences BY <1>2, <1>3
<1>6. \A o \in F : /\ o.kind = kind /\ o.at = now /\ o.id[1] = ep
                   /\ base < o.id[2] /\ o.id[2] <= base + n
                   /\ \E x \in S : o.pred = x.id
  <2> SUFFICES ASSUME NEW o \in F
               PROVE  /\ o.kind = kind /\ o.at = now /\ o.id[1] = ep
                      /\ base < o.id[2] /\ o.id[2] <= base + n
                      /\ \E x \in S : o.pred = x.id
    OBVIOUS
  <2>1. PICK i \in 1..n : o = Filed(i) BY <1>2
  <2>2. o.kind = kind /\ o.at = now /\ o.id = <<ep, base + i>> /\ o.pred = s[i].id /\ s[i] \in S
    BY <1>3, <2>1
  <2>3. QED BY <1>1, <2>2
<1>7. \A d, e \in F : d.id = e.id => d = e
  <2> SUFFICES ASSUME NEW d \in F, NEW e \in F, d.id = e.id PROVE d = e OBVIOUS
  <2>1. PICK i \in 1..n : d = Filed(i) BY <1>2
  <2>2. PICK j \in 1..n : e = Filed(j) BY <1>2
  <2>3. <<ep, base + i>> = <<ep, base + j>> BY <1>3, <2>1, <2>2
  <2>4. i = j BY <1>1, <2>3
  <2>5. QED BY <2>1, <2>2, <2>4
<1>8. \A x \in S : \E o \in F : o.pred = x.id
  <2> SUFFICES ASSUME NEW x \in S PROVE \E o \in F : o.pred = x.id OBVIOUS
  <2>1. PICK i \in 1..n : s[i] = x BY <1>1
  <2>2. Filed(i) \in F /\ Filed(i).pred = x.id BY <1>2, <1>3, <2>1
  <2>3. QED BY <2>2
<1>9. QED BY <1>4, <1>5, <1>6, <1>7, <1>8 DEF n

-----------------------------------------------------------------------------
(***************************************************************************)
(* Every batch of a serving coordinator is in order, and the journal that   *)
(* takes it stays so.                                                       *)
(***************************************************************************)
\* New names of this epoch; what is closed was in memory; a code that is exchanged
\* was shown; one occurrence at most is more than the end of something.
GoodBatch(B) ==
    /\ B \in SUBSET Occurrences /\ IsFiniteSet(B)
    /\ \A o \in B : o.id[1] = epoch /\ ord < o.id[2] /\ o.at = now
    /\ \A o \in B : o.kind \in Terminal => o.pred \in IdOf(codes \union sessions)
    /\ \A o \in B : o.kind \in Rated => o.pred = None /\ o.window # None
    /\ \A o \in B : o.kind = "consumed" => o.pred \in shown
    /\ \A d, e \in B : d.id = e.id => d = e
    /\ \A d, e \in B : {d.kind, e.kind} \subseteq Rated \cup {"consumed"} => d = e

\* The names in memory are names of live occurrences, and no two are the same.
LEMMA MemoryNames ==
    ASSUME PInv, status = "up"
    PROVE  /\ \A x \in codes \union sessions :
                 /\ x.id \in IdOf(Live) /\ x.id \in Name /\ x.id[1] = epoch
                 /\ \A c \in journal : c.kind \in Terminal => c.pred # x.id
           /\ \A x, y \in codes \union sessions : x.id = y.id => x = y
           /\ \A x \in codes, y \in sessions : x.id # y.id
<1>1. \A x \in codes : LiveIn(journal, x, "issued") BY DEF PInv, MemoryAgrees
<1>2. \A x \in sessions : LiveIn(journal, x, "consumed") BY DEF PInv, MemoryAgrees
<1>3. \A d, e \in journal : d.id = e.id => d = e BY DEF PInv, NamesIn
<1>4. \A x \in codes \union sessions : x \in Capabilities BY DEF PInv, Typed
<1>5. \A x \in codes \union sessions :
         /\ x.id \in IdOf(Live) /\ x.id[1] = epoch
         /\ \A c \in journal : c.kind \in Terminal => c.pred # x.id
  BY <1>1, <1>2 DEF LiveIn, Live, IdOf
<1>6. \A x \in codes, y \in sessions : x.id # y.id
  BY <1>1, <1>2, <1>3 DEF LiveIn
<1>7. \A x, y \in codes \union sessions : x.id = y.id => x = y
  <2> SUFFICES ASSUME NEW x \in codes \union sessions, NEW y \in codes \union sessions, x.id = y.id
               PROVE  x = y
    OBVIOUS
  <2>1. x.exp = y.exp BY <1>1, <1>2, <1>3, <1>6 DEF LiveIn
  <2>2. QED BY <1>4, <2>1 DEF Capabilities
<1>8. QED BY <1>4, <1>5, <1>6, <1>7 DEF Capabilities

\* The journal refuses a batch for its window or budget only, and what it takes
\* is within both.
LEMMA RefusalsAreForRates ==
    ASSUME PInv, status = "up", NEW B, GoodBatch(B)
    PROVE  /\ Refusal(B) \in {"none", "window", "budget"}
           /\ Refusal(B) = "none" =>
                 \A o \in B : o.kind \in Rated => ~ForeignWindow(o) /\ ~BudgetSpent(o)
<1>1. ASSUME NEW o \in B, o.pred # None
      PROVE  o.pred \in IdOf(Live) /\ o.pred[1] = epoch
  <2>1. o.kind \in Terminal
    BY <1>1 DEF GoodBatch, Occurrences
  <2>2. PICK x \in codes \union sessions : o.pred = x.id BY <2>1 DEF GoodBatch, IdOf
  <2>3. QED BY <2>2, MemoryNames
<1>2. \A o \in B : o.pred # None => \E p \in journal : p.id = o.pred /\ p.id[1] = epoch /\ p.at <= o.at
  BY <1>1 DEF IdOf, Live, GoodBatch, PInv, NamesIn
<1>3. \A o \in B : o.id[1] = epoch BY DEF GoodBatch
<1>4. \A o \in B, e \in journal : ~(o.at < e.at)
  <2> SUFFICES ASSUME NEW o \in B, NEW e \in journal PROVE ~(o.at < e.at) OBVIOUS
  <2>1. o.at = now /\ e.at <= now /\ e.at \in Nat /\ now \in Nat
    BY DEF GoodBatch, PInv, NamesIn, Typed, Occurrences
  <2>2. QED BY <2>1
<1>5. \A o \in B : o.id \notin IdOf(journal)
  <2> SUFFICES ASSUME NEW o \in B, NEW e \in journal, o.id = e.id PROVE FALSE BY DEF IdOf
  <2>1. o.id[1] = epoch /\ ord < o.id[2] BY DEF GoodBatch
  <2>2. e.id[2] <= ord /\ e.id[2] \in Nat /\ ord \in Nat
    BY <2>1 DEF PInv, NamesIn, Typed, Occurrences, Name
  <2>3. QED BY <2>1, <2>2
<1>6. \A o \in B : o.pred # None => o.pred \in IdOf(Live) BY <1>1
<1>7. QED BY <1>2, <1>3, <1>4, <1>5, <1>6 DEF Refusal, Rated

\* The journal with a batch it took.
LEMMA JournalGrows ==
    ASSUME PInv, status = "up", NEW B, GoodBatch(B), Refusal(B) = "none" \/ B = {},
           NEW last \in Nat, ord <= last, \A o \in B : o.id[2] <= last
    PROVE  /\ journal \cup B \in SUBSET Occurrences /\ IsFiniteSet(journal \cup B)
           /\ NamesIn(journal \cup B, last) /\ RatesIn(journal \cup B)
<1> DEFINE J == journal \cup B
<1>0. /\ now \in Nat /\ epoch \in Nat /\ ord \in Nat /\ epoch > 0
      /\ journal \in SUBSET Occurrences /\ IsFiniteSet(journal)
      /\ B \in SUBSET Occurrences /\ IsFiniteSet(B)
  BY DEF PInv, Typed, GoodBatch
<1>1. J \in SUBSET Occurrences /\ IsFiniteSet(J) BY <1>0, FS_Union
<1>2. NamesIn(J, last)
  <2>1. ASSUME NEW e \in J
        PROVE  /\ 0 < e.id[1] /\ e.id[1] <= epoch /\ e.at <= now
               /\ e.id[1] = epoch => e.id[2] <= last
    <3>1. CASE e \in B BY <1>0, <3>1 DEF GoodBatch
    <3>2. CASE e \in journal
      <4>1. /\ 0 < e.id[1] /\ e.id[1] <= epoch /\ e.at <= now
            /\ e.id[1] = epoch => e.id[2] <= ord
        BY <3>2 DEF PInv, NamesIn
      <4>2. e.id[2] \in Nat BY <1>0, <3>2 DEF Occurrences, Name
      <4>3. QED BY <1>0, <4>1, <4>2
    <3>3. QED BY <3>1, <3>2
  <2>2. ASSUME NEW d \in B, NEW e \in journal, d.id = e.id PROVE FALSE
    <3>1. d.id[1] = epoch /\ ord < d.id[2] BY DEF GoodBatch
    <3>2. e.id[2] <= ord /\ e.id[2] \in Nat
      BY <1>0, <2>2, <3>1 DEF PInv, NamesIn, Occurrences, Name
    <3>3. QED BY <1>0, <2>2, <3>1, <3>2
  <2>3. \A d, e \in J : d.id = e.id => d = e
    BY <2>2 DEF GoodBatch, PInv, NamesIn
  <2>4. \A c \in J : c.kind \in Terminal => \E p \in J : p.id = c.pred
    <3>1. \A c \in B : c.kind \in Terminal => \E p \in journal : p.id = c.pred
      BY MemoryNames DEF GoodBatch, IdOf, Live
    <3>2. QED BY <3>1 DEF PInv, NamesIn
  <2>5. QED BY <2>1, <2>3, <2>4 DEF NamesIn
<1>3. RatesIn(J)
  <2>0. RatesIn(journal) BY DEF PInv
  <2>1. CASE \A o \in B : o.kind \notin Rated
    <3>1. \A e \in J : e.kind \in Rated => e \in journal /\ SameWindow(J, e) = SameWindow(journal, e)
      BY <2>1 DEF SameWindow
    <3>2. QED BY <2>0, <3>1 DEF RatesIn
  <2>2. CASE \E o \in B : o.kind \in Rated
    <3>1. PICK r \in B : r.kind \in Rated BY <2>2
    <3>2. \A e \in J : e.kind \in Rated => e \in journal \/ e = r BY <3>1 DEF GoodBatch
    <3>3. r.window # None /\ ~ForeignWindow(r) /\ ~BudgetSpent(r)
      BY <3>1, RefusalsAreForRates DEF GoodBatch
    <3>4. ASSUME NEW e \in J, e.kind \in Rated
          PROVE  e.window # None /\ Cardinality(SameWindow(J, e)) <= Budget(e.kind)
      <4>1. e.window # None BY <2>0, <3>2, <3>3, <3>4 DEF RatesIn
      <4>2. CASE r.kind = e.kind /\ r.window = e.window
        <5>1. SameWindow(J, e) = SameWindow(journal, r) \cup {r}
          BY <3>1, <3>2, <3>4, <4>2 DEF SameWindow
        <5>2. IsFiniteSet(SameWindow(journal, r)) BY <1>0, FS_Subset DEF SameWindow
        <5>3. Cardinality(SameWindow(journal, r)) < Budget(r.kind)
          <6>1. ~(Cardinality(SameWindow(journal, r)) >= Budget(r.kind))
            BY <3>3 DEF BudgetSpent, SameWindow, Budget
          <6>2. Cardinality(SameWindow(journal, r)) \in Nat BY <5>2, FS_CardinalityType
          <6>3. Budget(r.kind) \in Nat BY PairingConstants DEF Budget
          <6>4. QED BY <6>1, <6>2, <6>3
        <5>4. Cardinality(SameWindow(J, e)) <= Cardinality(SameWindow(journal, r)) + 1
          BY <5>1, <5>2, OneMore
        <5>5. Budget(r.kind) \in Nat BY PairingConstants DEF Budget
        <5>6. /\ Cardinality(SameWindow(journal, r)) \in Nat
              /\ Cardinality(SameWindow(J, e)) \in Nat
          BY <5>1, <5>2, FS_AddElement, FS_CardinalityType
        <5>7. QED BY <4>1, <4>2, <5>3, <5>4, <5>5, <5>6
      <4>3. CASE ~(r.kind = e.kind /\ r.window = e.window)
        <5>1. e \in journal BY <3>2, <3>4, <4>3
        <5>2. SameWindow(J, e) = SameWindow(journal, e)
          BY <3>2, <3>4, <4>3 DEF SameWindow
        <5>3. QED BY <2>0, <3>4, <5>1, <5>2 DEF RatesIn
      <4>4. QED BY <4>2, <4>3
    <3>5. ASSUME NEW e \in journal, e.kind = r.kind, now < e.until PROVE r.window = e.window
      <4>1. e \in InOpenWindow(r.kind) BY <3>5 DEF InOpenWindow
      <4>2. PICK x \in InOpenWindow(r.kind) : r.window = x.window
        BY <3>3, <4>1 DEF ForeignWindow
      <4>3. QED BY <2>0, <3>1, <3>5, <4>2 DEF RatesIn, InOpenWindow
    <3>6. QED BY <2>0, <3>1, <3>2, <3>4, <3>5 DEF RatesIn
  <2>3. QED BY <2>1, <2>2
<1>4. QED BY <1>1, <1>2, <1>3

-----------------------------------------------------------------------------
(***************************************************************************)
(* A call on a serving coordinator, by what it does to the journal.         *)
(***************************************************************************)
\* x was in memory and is not closed by what was appended, or is an occurrence of
\* the batch, and was appended.
StillLive(x, was, kind, B) ==
    \/ x \in was /\ \A o \in B : o \in journal' => o.pred # x.id
    \/ \E o \in B : o \in journal' /\ o.kind = kind /\ o.id = x.id /\ o.exp = x.exp

\* The batch is appended or it is not; only an appended batch is released, and a
\* coordinator that could not tell is poisoned.
Call(B) ==
    /\ status = "up" /\ GoodBatch(B)
    /\ now' = now /\ epoch' = epoch
    /\ ord' \in Nat /\ ord <= ord' /\ \A o \in B : o.id[2] <= ord'
    /\ status' \in {"up", "poisoned"}
    /\ \/ journal' = journal
       \/ journal' = journal \union B /\ (Refusal(B) = "none" \/ B = {})
    /\ why' \in {why, "fault", "window", "budget"}
    /\ status' = "up" => /\ \A x \in codes' : StillLive(x, codes, "issued", B)
                         /\ \A x \in sessions' : StillLive(x, sessions, "consumed", B)
    /\ \A c \in shown' : c \in shown \/ \E o \in B : o \in journal' /\ o.kind = "issued" /\ o.id = c
    /\ shown \subseteq shown' /\ granted \subseteq granted'
    /\ \A c \in granted' : \/ c \in granted
                           \/ \E o \in B : o \in journal' /\ o.kind = "consumed" /\ o.id = c

Called == \E B : Call(B)

\* A call keeps the journal in order and in agreement with the memory.
LEMMA CallKeeps ==
    ASSUME PInv, NEW B, Call(B)
    PROVE  /\ journal' \in SUBSET Occurrences /\ IsFiniteSet(journal')
           /\ NamesIn(journal, ord)' /\ RatesIn(journal)'
           /\ MemoryAgrees' /\ OldEpochsClosed' /\ CodeUsedOnce' /\ RefusedForRateOnly'
<1>0. /\ status = "up" /\ GoodBatch(B) /\ now' = now /\ epoch' = epoch
      /\ now \in Nat /\ epoch \in Nat /\ ord \in Nat /\ epoch > 0
      /\ ord' \in Nat /\ ord <= ord' /\ \A o \in B : o.id[2] <= ord'
  BY DEF Call, PInv, Typed
<1>1. /\ journal' = journal \/ journal' = journal \union B
      /\ journal' \in SUBSET Occurrences /\ IsFiniteSet(journal')
      /\ NamesIn(journal', ord') /\ RatesIn(journal')
  <2>1. CASE journal' = journal
    <3>1. \A e \in journal : e.id[2] \in Nat BY DEF PInv, Typed, Occurrences, Name
    <3>2. \A e \in journal : e.id[1] = epoch => e.id[2] <= ord BY <1>0 DEF PInv, NamesIn
    <3>3. \A e \in journal : e.id[1] = epoch => e.id[2] <= ord' BY <1>0, <3>1, <3>2
    <3>4. QED BY <1>0, <2>1, <3>3 DEF PInv, Typed, NamesIn
  <2>2. CASE journal' = journal \union B /\ (Refusal(B) = "none" \/ B = {})
    BY <1>0, <2>2, JournalGrows
  <2>3. QED BY <2>1, <2>2 DEF Call
<1>2. NamesIn(journal, ord)' BY <1>0, <1>1 DEF NamesIn
<1>3. RatesIn(journal)' BY <1>0, <1>1 DEF RatesIn, SameWindow
<1>4. MemoryAgrees'
  <2> SUFFICES ASSUME status' = "up"
               PROVE  /\ \A x \in codes' : LiveIn(journal, x, "issued")'
                      /\ \A x \in sessions' : LiveIn(journal, x, "consumed")'
    BY DEF MemoryAgrees, LiveIn
  <2>1. /\ \A x \in codes : LiveIn(journal, x, "issued")
        /\ \A x \in sessions : LiveIn(journal, x, "consumed")
    BY <1>0 DEF PInv, MemoryAgrees
  <2>2. ASSUME NEW was, NEW kind, \A x \in was : LiveIn(journal, x, kind),
               NEW x, StillLive(x, was, kind, B)
        PROVE  LiveIn(journal', x, kind)
    <3>1. CASE x \in was /\ \A o \in B : o \in journal' => o.pred # x.id
      BY <1>0, <1>1, <2>2, <3>1 DEF LiveIn
    <3>2. CASE \E o \in B : o \in journal' /\ o.kind = kind /\ o.id = x.id /\ o.exp = x.exp
      <4>1. PICK o \in B : o \in journal' /\ o.kind = kind /\ o.id = x.id /\ o.exp = x.exp
        BY <3>2
      <4>2. o.id[1] = epoch /\ ord < o.id[2] BY <1>0 DEF GoodBatch
      <4>3. \A c \in B : c.kind \in Terminal => c.pred # x.id
        <5> SUFFICES ASSUME NEW c \in B, c.kind \in Terminal, c.pred = o.id PROVE FALSE
          BY <4>1
        <5>1. PICK y \in codes \union sessions : c.pred = y.id BY <1>0 DEF GoodBatch, IdOf
        <5>2. PICK e \in journal : e.id = y.id BY <1>0, MemoryNames DEF IdOf, Live
        <5>3. e.id[2] \in Nat /\ e.id[2] <= ord
          BY <1>0, <4>2, <5>1, <5>2 DEF PInv, NamesIn, Typed, Occurrences, Name
        <5>4. QED BY <1>0, <4>2, <5>1, <5>2, <5>3
      <4>4. \A c \in journal : c.kind \in Terminal => c.pred # x.id
        <5> SUFFICES ASSUME NEW c \in journal, c.kind \in Terminal, c.pred = o.id PROVE FALSE
          BY <4>1
        <5>1. PICK e \in journal : e.id = c.pred BY DEF PInv, NamesIn
        <5>2. e.id[2] \in Nat /\ e.id[2] <= ord
          BY <1>0, <4>2, <5>1 DEF PInv, NamesIn, Typed, Occurrences, Name
        <5>3. QED BY <1>0, <4>2, <5>1, <5>2
      <4>5. QED BY <1>0, <1>1, <4>1, <4>2, <4>3, <4>4 DEF LiveIn
    <3>3. QED BY <2>2, <3>1, <3>2 DEF StillLive
  <2>3. QED BY <1>0, <2>1, <2>2 DEF Call, LiveIn
<1>5. OldEpochsClosed'
  <2>1. \A e \in Live' : e \in Live \/ e \in B BY <1>1 DEF Live
  <2>2. QED BY <1>0, <2>1 DEF OldEpochsClosed, PInv, GoodBatch
<1>6. CodeUsedOnce'
  <2>1. shown' \subseteq {e.id : e \in {d \in journal' : d.kind = "issued"}}
    <3>1. shown \subseteq {e.id : e \in {d \in journal : d.kind = "issued"}}
      BY DEF PInv, CodeUsedOnce, IdOf
    <3>2. QED BY <1>1, <3>1 DEF Call
  <2>2. ASSUME NEW b \in B, b.kind = "consumed", NEW d \in journal, d.kind = "consumed"
        PROVE  d.pred # b.pred
    <3>1. PICK x \in codes \union sessions : b.pred = x.id
      BY <1>0, <2>2 DEF GoodBatch, IdOf, Terminal
    <3>2. QED BY <1>0, <2>2, <3>1, MemoryNames DEF Terminal
  <2>3. ASSUME NEW c \in granted'
        PROVE  \E e \in journal' : /\ e.kind = "consumed" /\ e.id = c /\ e.pred \in shown'
                                  /\ \A d \in journal' : d.kind = "consumed" /\ d.pred = e.pred => d = e
    <3>1. CASE c \in granted
      <4>1. PICK e \in journal : /\ e.kind = "consumed" /\ e.id = c /\ e.pred \in shown
                               /\ \A d \in journal : d.kind = "consumed" /\ d.pred = e.pred => d = e
        BY <3>1 DEF PInv, CodeUsedOnce
      <4>2. e.pred \in shown' BY <4>1 DEF Call
      <4>3. QED BY <1>1, <2>2, <4>1, <4>2
    <3>2. CASE \E o \in B : o \in journal' /\ o.kind = "consumed" /\ o.id = c
      <4>1. PICK o \in B : o \in journal' /\ o.kind = "consumed" /\ o.id = c BY <3>2
      <4>2. o.pred \in shown' BY <1>0, <4>1 DEF Call, GoodBatch
      <4>3. \A d \in journal' : d.kind = "consumed" /\ d.pred = o.pred => d = o
        BY <1>0, <1>1, <2>2, <4>1 DEF GoodBatch
      <4>4. QED BY <4>1, <4>2, <4>3
    <3>3. QED BY <3>1, <3>2 DEF Call
  <2>4. QED BY <2>1, <2>3 DEF CodeUsedOnce, IdOf
<1>7. RefusedForRateOnly' BY DEF Call, PInv, RefusedForRateOnly
<1>8. QED BY <1>1, <1>2, <1>3, <1>4, <1>5, <1>6, <1>7

-----------------------------------------------------------------------------
(***************************************************************************)
(* The registry's parts of a call.                                          *)
(***************************************************************************)
\* What has expired is filed under fresh names, and the rest is named otherwise.
LEMMA ExpiryFacts ==
    ASSUME PInv, status = "up"
    PROVE  /\ NextOrd \in Nat /\ ord <= NextOrd
           /\ NextId \in Name /\ NextId[1] = epoch /\ NextId[2] = NextOrd + 1 /\ NextId # None
           /\ IsFiniteSet(Expiries) /\ Expiries \in SUBSET Occurrences
           /\ \A o \in Expiries : /\ o.kind = "expired" /\ o.at = now /\ o.id[1] = epoch
                                  /\ ord < o.id[2] /\ o.id[2] <= NextOrd
                                  /\ \E x \in Expired : o.pred = x.id
           /\ \A d, e \in Expiries : d.id = e.id => d = e
           /\ \A o \in Expiries : o.pred \in IdOf(codes \union sessions)
           /\ \A x \in Unexpired(codes) \union Unexpired(sessions), o \in Expiries : o.pred # x.id
<1>1. /\ now \in Nat /\ epoch \in Nat /\ ord \in Nat /\ epoch > 0
      /\ codes \in SUBSET Capabilities /\ IsFiniteSet(codes)
      /\ sessions \in SUBSET Capabilities /\ IsFiniteSet(sessions)
  BY DEF PInv, Typed
<1>2. Expired \subseteq codes \union sessions BY DEF Expired
<1>3. IsFiniteSet(Expired) BY <1>1, <1>2, FS_Union, FS_Subset
<1>4. \A x \in Expired : x.id \in Name BY <1>1, <1>2 DEF Capabilities
<1>5. Cardinality(Expired) \in Nat BY <1>3, FS_CardinalityType
<1>6. FiledAs(Expiries, Expired, "expired", epoch, ord)
  <2>1. DOMAIN SetToSeq(Expired) = 1..Cardinality(Expired) BY <1>3, Listing
  <2>2. QED BY <2>1 DEF FiledAs, Expiries
<1>7. "expired" \in Terminal BY DEF Terminal
<1>8. NextOrd \in Nat /\ ord <= NextOrd /\ NextOrd = ord + Cardinality(Expired)
  BY <1>1, <1>5 DEF NextOrd
<1>9. NextId \in Name /\ NextId[1] = epoch /\ NextId[2] = NextOrd + 1 /\ NextId # None
  BY <1>1, <1>8 DEF NextId, Name, None
<1>10. /\ IsFiniteSet(Expiries) /\ Expiries \in SUBSET Occurrences
       /\ \A o \in Expiries : /\ o.kind = "expired" /\ o.at = now /\ o.id[1] = epoch
                              /\ ord < o.id[2] /\ o.id[2] <= NextOrd
                              /\ \E x \in Expired : o.pred = x.id
       /\ \A d, e \in Expiries : d.id = e.id => d = e
  BY <1>1, <1>3, <1>4, <1>6, <1>7, <1>8, Filing
<1>11. \A o \in Expiries : o.pred \in IdOf(codes \union sessions) BY <1>2, <1>10 DEF IdOf
<1>12. \A x \in Unexpired(codes) \union Unexpired(sessions), o \in Expiries : o.pred # x.id
  <2> SUFFICES ASSUME NEW x \in Unexpired(codes) \union Unexpired(sessions), NEW y \in Expired,
                      y.id = x.id
               PROVE  FALSE
    BY <1>10
  <2>1. x = y BY <1>2, MemoryNames DEF Unexpired
  <2>2. QED BY <2>1 DEF Expired, Unexpired
<1>13. QED BY <1>8, <1>9, <1>10, <1>11, <1>12

\* Expiries with one occurrence of the call itself.
LEMMA BatchOfCall ==
    ASSUME PInv, status = "up",
           NEW o \in Occurrences, o.id = NextId, o.at = now,
           o.kind \in Rated => o.pred = None /\ o.window # None,
           o.kind \in Terminal => o.pred \in IdOf(codes \union sessions),
           o.kind = "consumed" => o.pred \in shown
    PROVE  /\ GoodBatch(Expiries \union {o})
           /\ \A b \in Expiries \union {o} : b.id[2] <= NextOrd + 1
<1> DEFINE B == Expiries \union {o}
<1>1. /\ IsFiniteSet(B) /\ B \in SUBSET Occurrences
  BY ExpiryFacts, FS_AddElement
<1>2. \A b \in B : /\ b.id[1] = epoch /\ ord < b.id[2] /\ b.at = now /\ b.id[2] <= NextOrd + 1
  <2>1. ord \in Nat BY DEF PInv, Typed
  <2>2. \A b \in Expiries : b.id[2] \in Nat BY ExpiryFacts DEF Occurrences, Name
  <2>3. QED BY <2>1, <2>2, ExpiryFacts
<1>3. \A b \in Expiries : b.kind = "expired" /\ b.id # o.id
  <2>1. \A b \in Expiries : b.id[2] \in Nat BY ExpiryFacts DEF Occurrences, Name
  <2>2. QED BY <2>1, ExpiryFacts
<1>4. \A d, e \in B : d.id = e.id => d = e BY <1>3, ExpiryFacts
<1>5. "expired" \in Terminal /\ "expired" \notin Rated /\ "expired" # "consumed"
  BY DEF Terminal, Rated
<1>6. QED BY <1>1, <1>2, <1>3, <1>4, <1>5, ExpiryFacts DEF GoodBatch

\* Memory after expire.
LEMMA UnexpiredFacts ==
    ASSUME NEW S \in SUBSET Capabilities, IsFiniteSet(S), NEW n \in Nat, Cardinality(S) <= n
    PROVE  /\ Unexpired(S) \in SUBSET S /\ Unexpired(S) \in SUBSET Capabilities
           /\ IsFiniteSet(Unexpired(S)) /\ Cardinality(Unexpired(S)) \in Nat
           /\ Cardinality(Unexpired(S)) <= n
<1>1. Unexpired(S) \in SUBSET S BY DEF Unexpired
<1>2. IsFiniteSet(Unexpired(S)) /\ Cardinality(Unexpired(S)) <= Cardinality(S)
  BY <1>1, FS_Subset
<1>3. Cardinality(Unexpired(S)) \in Nat /\ Cardinality(S) \in Nat BY <1>2, FS_CardinalityType
<1>4. QED BY <1>1, <1>2, <1>3

\* A rate window after check_attempt_window or check_issue_window, and once an
\* occurrence has opened it.
GoodWindow(w, n) == w \in Windows /\ w.used <= n /\ (w.id = None <=> w.until = 0)
LEMMA WindowFacts ==
    ASSUME NEW w, NEW n \in Nat, GoodWindow(w, n), NEW length \in Nat \ {0}, now \in Nat,
           NEW id \in Name, id # None
    PROVE  /\ GoodWindow(Current(w, length), n)
           /\ GoodWindow(Opened(w, id, length), n)
           /\ Opened(w, id, length).id # None
           /\ Opened(w, id, length).used = w.used
<1>1. \A t \in Nat : GoodWindow(Closed(t), n)
  BY DEF GoodWindow, Closed, Windows, None, Name
<1>2. GoodWindow(Current(w, length), n)
  <2>1. now + length \in Nat OBVIOUS
  <2>2. QED BY <1>1, <2>1 DEF Current
<1>3. CASE w.id # None BY <1>2, <1>3 DEF Opened
<1>4. CASE w.id = None
  <2>1. Opened(w, id, length) = [w EXCEPT !.id = id, !.until = now + length]
    BY <1>4 DEF Opened
  <2>2. now + length \in Nat /\ now + length # 0 OBVIOUS
  <2>3. QED BY <1>2, <2>1, <2>2 DEF GoodWindow, Windows
<1>5. QED BY <1>3, <1>4

\* A bounded set of codes or sessions.
Within(S, n) == S \in SUBSET Capabilities /\ IsFiniteSet(S) /\ Cardinality(S) <= n

\* A call that also keeps the registry within its limits keeps the invariant.
LEMMA CallPreserves ==
    ASSUME PInv, NEW B, Call(B), Within(codes', MaxCodes), Within(sessions', MaxSessions),
           GoodWindow(att', MaxFailed), GoodWindow(iss', MaxIssued)
    PROVE  PInv' /\ Called
<1>1. Typed'
  <2>1. now \in Nat /\ epoch \in Nat /\ epoch > 0 BY DEF PInv, Typed, Call
  <2>2. /\ now' = now /\ epoch' = epoch /\ ord' \in Nat /\ status' \in {"up", "poisoned"}
    BY DEF Call
  <2>3. journal' \in SUBSET Occurrences /\ IsFiniteSet(journal') BY CallKeeps
  <2>4. QED BY <2>1, <2>2, <2>3 DEF Typed, Within, GoodWindow
<1>2. Limits' BY DEF Limits, Within, GoodWindow
<1>3. QED BY <1>1, <1>2, CallKeeps DEF PInv, Called

\* What the invariant says of the registry.
LEMMA RegistryFacts ==
    ASSUME PInv
    PROVE  /\ Within(codes, MaxCodes) /\ Within(sessions, MaxSessions)
           /\ GoodWindow(att, MaxFailed) /\ GoodWindow(iss, MaxIssued)
           /\ MaxCodes \in Nat /\ MaxSessions \in Nat /\ MaxFailed \in Nat \ {0}
           /\ MaxIssued \in Nat /\ CodeTtl \in Nat /\ SessionTtl \in Nat
           /\ AttemptWindow \in Nat \ {0} /\ IssueWindow \in Nat \ {0}
           /\ now \in Nat /\ ord \in Nat /\ epoch \in Nat
           /\ Within(Unexpired(codes), MaxCodes) /\ Unexpired(codes) \in SUBSET codes
           /\ Within(Unexpired(sessions), MaxSessions) /\ Unexpired(sessions) \in SUBSET sessions
<1>1. /\ Within(codes, MaxCodes) /\ Within(sessions, MaxSessions)
      /\ GoodWindow(att, MaxFailed) /\ GoodWindow(iss, MaxIssued)
      /\ now \in Nat /\ ord \in Nat /\ epoch \in Nat
  BY DEF PInv, Typed, Limits, Within, GoodWindow
<1>2. /\ MaxCodes \in Nat /\ MaxSessions \in Nat /\ MaxFailed \in Nat \ {0}
      /\ MaxIssued \in Nat /\ CodeTtl \in Nat /\ SessionTtl \in Nat
      /\ AttemptWindow \in Nat \ {0} /\ IssueWindow \in Nat \ {0}
  BY PairingConstants
<1>3. Within(Unexpired(codes), MaxCodes) /\ Unexpired(codes) \in SUBSET codes
  BY <1>1, <1>2, UnexpiredFacts DEF Within
<1>4. Within(Unexpired(sessions), MaxSessions) /\ Unexpired(sessions) \in SUBSET sessions
  BY <1>1, <1>2, UnexpiredFacts DEF Within
<1>5. QED BY <1>1, <1>2, <1>3, <1>4

\* A set that is not full takes one more.
LEMMA RoomForOne ==
    ASSUME NEW S, NEW n \in Nat, Within(S, n), Cardinality(S) < n, NEW x \in Capabilities
    PROVE  Within(S \union {x}, n)
<1>1. Cardinality(S) \in Nat /\ Cardinality(S \union {x}) \in Nat
      /\ Cardinality(S \union {x}) <= Cardinality(S) + 1 /\ IsFiniteSet(S \union {x})
  BY OneMore DEF Within
<1>2. Cardinality(S \union {x}) <= n BY <1>1
<1>3. QED BY <1>1, <1>2 DEF Within

\* A call that appends nothing: an error, or a fault before the append.
LEMMA QuietCall ==
    ASSUME PInv, status = "up", now' = now, epoch' = epoch, journal' = journal,
           status' = "up", why' = why, shown' = shown, granted' = granted,
           ord' \in Nat, ord <= ord', codes' \subseteq codes, sessions' \subseteq sessions
    PROVE  Call({})
<1>1. GoodBatch({}) BY FS_EmptySet DEF GoodBatch
<1>2. QED BY <1>1 DEF Call, StillLive

\* The outcomes of persist_exact.
Saved(B) ==
    /\ status' = status /\ why' = why
    /\ journal' = journal \union B /\ (B = {} \/ Refusal(B) = "none")
Lost(B) ==
    /\ status' = "poisoned" /\ why' \in {"fault", Refusal(B)}
    /\ Refusal(B) = "none" => why' = "fault"
    /\ journal' = journal \/ (journal' = journal \union B /\ Refusal(B) = "none")

LEMMA IssueKeeps == ASSUME PInv, Issue PROVE PInv' /\ Called
<1> DEFINE w == Current(iss, IssueWindow)
           o == Opened(w, NextId, IssueWindow)
           new == InWindow(Occurrence("issued", NextId, None, now + CodeTtl), o)
           c == [id |-> NextId, exp |-> now + CodeTtl]
           free == w.used < MaxIssued /\ Cardinality(Unexpired(codes)) < MaxCodes
           B == Expiries \union {new}
           saved == Saved(B)
           lost == Lost(B)
<1>0. status = "up" /\ now' = now /\ att' = att /\ epoch' = epoch BY DEF Issue
<1>1. /\ NextId \in Name /\ NextId # None /\ NextOrd \in Nat /\ ord <= NextOrd
      /\ NextId[1] = epoch
  BY <1>0, ExpiryFacts
<1>2. GoodWindow(w, MaxIssued) BY <1>1, RegistryFacts, WindowFacts
<1>3. /\ GoodWindow(o, MaxIssued) /\ o.id # None /\ o.used = w.used
  BY <1>1, <1>2, RegistryFacts, WindowFacts
<1> HIDE DEF w, o
<1>4. /\ Within(Unexpired(codes), MaxCodes) /\ Unexpired(codes) \in SUBSET codes
      /\ Within(Unexpired(sessions), MaxSessions) /\ Unexpired(sessions) \in SUBSET sessions
      /\ GoodWindow(att', MaxFailed)
  BY <1>0, RegistryFacts
<1>5. CASE ~free /\ ExpireOnly /\ iss' = w
  <2>1. Call({}) BY <1>0, <1>1, <1>4, <1>5, QuietCall DEF ExpireOnly
  <2>2. QED BY <1>2, <1>4, <1>5, <2>1, CallPreserves DEF ExpireOnly
<1>6. CASE /\ free /\ iss' = w /\ ord' = NextOrd + 1
           /\ codes' = Unexpired(codes) /\ sessions' = Unexpired(sessions)
           /\ UNCHANGED <<status, journal, shown, granted, why>>
  <2>1. ord' \in Nat /\ ord <= ord' BY <1>1, <1>6, RegistryFacts
  <2>2. Call({}) BY <1>0, <1>4, <1>6, <2>1, QuietCall
  <2>3. QED BY <1>2, <1>4, <1>6, <2>2, CallPreserves
<1>7. CASE /\ free
           /\ iss' = [o EXCEPT !.used = @ + 1]
           /\ ord' = NextOrd + 1
           /\ sessions' = Unexpired(sessions)
           /\ \/ saved /\ codes' = Unexpired(codes) \union {c} /\ shown' = shown \union {NextId}
              \/ lost /\ codes' = Unexpired(codes) /\ UNCHANGED shown
           /\ UNCHANGED granted
  <2>1. GoodWindow(iss', MaxIssued)
    <3>1. o.used + 1 \in Nat /\ o.used + 1 <= MaxIssued
      BY <1>3, <1>7, RegistryFacts DEF GoodWindow, Windows
    <3>2. iss' = [o EXCEPT !.used = o.used + 1] BY <1>7
    <3>3. QED BY <1>3, <3>1, <3>2 DEF GoodWindow, Windows
  <2>2. /\ new \in Occurrences /\ new.id = NextId /\ new.at = now /\ new.pred = None
        /\ new.kind = "issued" /\ new.window # None /\ new.exp = now + CodeTtl
    <3>1. /\ o.id \in Name /\ o.until \in Nat /\ o.used \in Nat BY <1>3 DEF GoodWindow, Windows
    <3>2. None \in Name /\ now + CodeTtl \in Nat /\ now \in Nat BY RegistryFacts DEF None, Name
    <3>3. QED BY <1>1, <1>3, <3>1, <3>2 DEF InWindow, Occurrence, Occurrences, Rated
  <2> HIDE DEF new
  <2>3. "issued" \notin Terminal BY DEF Terminal
  <2>4. GoodBatch(B) /\ \A b \in B : b.id[2] <= NextOrd + 1
    BY <1>0, <2>2, <2>3, BatchOfCall
  <2>5. \A x \in Unexpired(codes) \union Unexpired(sessions), b \in B : b.pred # x.id
    <3>1. \A x \in codes \union sessions : x.id # None
      BY <1>0, MemoryNames, ExpiryFacts DEF None, PInv, Typed
    <3>2. QED BY <1>0, <1>4, <2>2, <3>1, ExpiryFacts
  <2>6. c \in Capabilities /\ c.id = NextId /\ c.exp = now + CodeTtl
    BY <1>1, RegistryFacts DEF Capabilities
  <2> HIDE DEF c
  <2>7. Within(codes', MaxCodes)
    <3>1. Within(Unexpired(codes) \union {c}, MaxCodes)
      BY <1>4, <1>7, <2>6, RegistryFacts, RoomForOne
    <3>2. QED BY <1>4, <1>7, <3>1
  <2>8. ord' \in Nat /\ ord <= ord' BY <1>1, <1>7, RegistryFacts
  <2> HIDE DEF free
  <2>9. Refusal(B) \in {"none", "window", "budget"} BY <1>0, <2>4, RefusalsAreForRates
  <2>10. new \in B OBVIOUS
  <2> HIDE DEF B
  <2>11. Call(B)
    <3>1. CASE saved /\ codes' = Unexpired(codes) \union {c} /\ shown' = shown \union {NextId}
      BY <1>0, <1>4, <1>7, <2>2, <2>4, <2>5, <2>6, <2>8, <2>10, <3>1 DEF Call, StillLive, Saved
    <3>2. CASE lost /\ codes' = Unexpired(codes) /\ UNCHANGED shown
      BY <1>0, <1>4, <1>7, <2>4, <2>8, <2>9, <3>2 DEF Call, Lost
    <3>3. QED BY <1>7, <3>1, <3>2
  <2>12. Within(sessions', MaxSessions) BY <1>4, <1>7
  <2>13. QED BY <1>4, <2>1, <2>7, <2>11, <2>12, CallPreserves
<1>8. QED
  BY <1>0, <1>5, <1>6, <1>7 DEF Issue, Persist, Saved, Lost, w, o

\* The counter of failures stops at its limit.
LEMMA CountedBounded ==
    ASSUME NEW w, w.used \in Nat, MaxFailed \in Nat
    PROVE  Counted(w) \in Nat /\ Counted(w) <= MaxFailed
<1>1. \E x \in {w.used + 1, MaxFailed} : \A y \in {w.used + 1, MaxFailed} : x <= y OBVIOUS
<1>2. /\ Counted(w) \in {w.used + 1, MaxFailed}
      /\ \A y \in {w.used + 1, MaxFailed} : Counted(w) <= y
  BY <1>1 DEF Counted, Min
<1>3. QED BY <1>2

LEMMA RejectKeeps ==
    ASSUME PInv, status = "up", NEW w, GoodWindow(w, MaxFailed), Reject(w),
           UNCHANGED <<now, iss, epoch>>
    PROVE  PInv' /\ Called
<1> DEFINE opened == Opened(w, NextId, AttemptWindow)
           o == [opened EXCEPT !.used = Counted(w)]
           new == InWindow(Occurrence("rejected", NextId, None, 0), o)
           B == Expiries \union {new}
<1>1. /\ NextId \in Name /\ NextId # None /\ NextOrd \in Nat /\ ord <= NextOrd
  BY ExpiryFacts
<1>2. GoodWindow(opened, MaxFailed) /\ opened.id # None
  BY <1>1, RegistryFacts, WindowFacts
<1> HIDE DEF opened
<1>3. GoodWindow(o, MaxFailed) /\ o.id # None
  <2>1. Counted(w) \in Nat /\ Counted(w) <= MaxFailed
    BY RegistryFacts, CountedBounded DEF GoodWindow, Windows
  <2>2. QED BY <1>2, <2>1 DEF GoodWindow, Windows
<1> HIDE DEF o
<1>4. /\ att' = o /\ ord' = NextOrd + 1
      /\ codes' = Unexpired(codes) /\ sessions' = Unexpired(sessions)
      /\ shown' = shown /\ granted' = granted
      /\ Saved(B) \/ Lost(B)
  BY DEF Reject, Persist, Saved, Lost, o, opened
<1>5. /\ Within(codes', MaxCodes) /\ Unexpired(codes) \in SUBSET codes
      /\ Within(sessions', MaxSessions) /\ Unexpired(sessions) \in SUBSET sessions
      /\ GoodWindow(iss', MaxIssued) /\ GoodWindow(att', MaxFailed)
  BY <1>3, <1>4, RegistryFacts
<1>6. /\ new \in Occurrences /\ new.id = NextId /\ new.at = now /\ new.pred = None
      /\ new.kind = "rejected" /\ new.window # None
  <2>1. /\ o.id \in Name /\ o.until \in Nat /\ o.used \in Nat BY <1>3 DEF GoodWindow, Windows
  <2>2. None \in Name /\ now \in Nat BY RegistryFacts DEF None, Name
  <2>3. QED BY <1>1, <1>3, <2>1, <2>2 DEF InWindow, Occurrence, Occurrences, Rated
<1> HIDE DEF new
<1>7. "rejected" \notin Terminal BY DEF Terminal
<1>8. GoodBatch(B) /\ \A b \in B : b.id[2] <= NextOrd + 1 BY <1>6, <1>7, BatchOfCall
<1>9. \A x \in Unexpired(codes) \union Unexpired(sessions), b \in B : b.pred # x.id
  <2>1. \A x \in codes \union sessions : x.id # None
    BY MemoryNames, ExpiryFacts DEF None, PInv, Typed
  <2>2. QED BY <1>5, <1>6, <2>1, ExpiryFacts
<1>10. ord' \in Nat /\ ord <= ord' BY <1>1, <1>4, RegistryFacts
<1>11. Refusal(B) \in {"none", "window", "budget"} BY <1>8, RefusalsAreForRates
<1> HIDE DEF B
<1>12. Call(B)
  BY <1>4, <1>5, <1>8, <1>9, <1>10, <1>11 DEF Call, StillLive, Saved, Lost
<1>13. QED BY <1>5, <1>12, CallPreserves

LEMMA ConsumeKeeps ==
    ASSUME PInv, status = "up", NEW w, GoodWindow(w, MaxFailed),
           NEW code \in shown, code \in IdOf(Unexpired(codes)),
           Cardinality(Unexpired(sessions)) < MaxSessions, Consume(w, code),
           UNCHANGED <<now, iss, epoch>>
    PROVE  PInv' /\ Called
<1> DEFINE new == Occurrence("consumed", NextId, code, now + SessionTtl)
           s == [id |-> NextId, exp |-> now + SessionTtl]
           B == Expiries \union {new}
<1>1. NextId \in Name /\ NextOrd \in Nat /\ ord <= NextOrd BY ExpiryFacts
<1>2. /\ att' = w /\ ord' = NextOrd + 1 /\ codes' = Left(code) /\ shown' = shown
      /\ \/ Saved(B) /\ sessions' = Unexpired(sessions) \union {s} /\ granted' = granted \union {NextId}
         \/ Lost(B) /\ sessions' = Unexpired(sessions) /\ granted' = granted
         \/ sessions' = Unexpired(sessions) /\ UNCHANGED <<status, journal, why, granted>>
  BY DEF Consume, Persist, Saved, Lost
<1>3. /\ Within(Unexpired(codes), MaxCodes) /\ Unexpired(codes) \in SUBSET codes
      /\ Within(Unexpired(sessions), MaxSessions) /\ Unexpired(sessions) \in SUBSET sessions
      /\ GoodWindow(iss', MaxIssued) /\ GoodWindow(att', MaxFailed)
  BY <1>2, RegistryFacts
<1>4. Within(codes', MaxCodes) /\ codes' \subseteq Unexpired(codes) /\ \A x \in codes' : x.id # code
  <2>1. Left(code) \in SUBSET Unexpired(codes) /\ \A x \in Left(code) : x.id # code BY DEF Left
  <2>2. IsFiniteSet(Left(code)) /\ Cardinality(Left(code)) <= Cardinality(Unexpired(codes))
    BY <1>3, <2>1, FS_Subset DEF Within
  <2>3. /\ Cardinality(Left(code)) \in Nat /\ Cardinality(Unexpired(codes)) \in Nat
        /\ MaxCodes \in Nat
    BY <1>3, <2>2, FS_CardinalityType, RegistryFacts DEF Within
  <2>4. QED BY <1>2, <1>3, <2>1, <2>2, <2>3 DEF Within
<1>5. ord' \in Nat /\ ord <= ord' BY <1>1, <1>2, RegistryFacts
<1>6. CASE sessions' = Unexpired(sessions) /\ UNCHANGED <<status, journal, why, granted>>
  <2>1. Call({}) BY <1>2, <1>3, <1>4, <1>5, <1>6, QuietCall
  <2>2. QED BY <1>3, <1>4, <1>6, <2>1, CallPreserves
<1>7. CASE \/ Saved(B) /\ sessions' = Unexpired(sessions) \union {s} /\ granted' = granted \union {NextId}
           \/ Lost(B) /\ sessions' = Unexpired(sessions) /\ granted' = granted
  <2>1. PICK x \in codes : x.id = code BY <1>3 DEF IdOf
  <2>2. code \in Name BY <2>1, MemoryNames
  <2>3. /\ new \in Occurrences /\ new.id = NextId /\ new.at = now /\ new.pred = code
        /\ new.kind = "consumed" /\ new.exp = now + SessionTtl
    <3>1. None \in Name /\ now \in Nat /\ now + SessionTtl \in Nat BY RegistryFacts DEF None, Name
    <3>2. QED BY <1>1, <2>2, <3>1 DEF Occurrence, Occurrences, Terminal
  <2> HIDE DEF new
  <2>4. "consumed" \notin Rated BY DEF Rated
  <2>5. code \in IdOf(codes \union sessions) BY <2>1 DEF IdOf
  <2>6. GoodBatch(B) /\ \A b \in B : b.id[2] <= NextOrd + 1
    BY <2>3, <2>4, <2>5, BatchOfCall
  <2>7. \A y \in codes' \union Unexpired(sessions), b \in B : b.pred # y.id
    <3>1. \A y \in Unexpired(sessions) : y.id # code BY <1>3, <2>1, MemoryNames
    <3>2. QED BY <1>4, <2>3, <3>1, ExpiryFacts
  <2>8. s \in Capabilities /\ s.id = NextId /\ s.exp = now + SessionTtl
    BY <1>1, RegistryFacts DEF Capabilities
  <2> HIDE DEF s
  <2>9. Within(sessions', MaxSessions)
    <3>1. Within(Unexpired(sessions) \union {s}, MaxSessions)
      BY <1>3, <2>8, RegistryFacts, RoomForOne
    <3>2. QED BY <1>3, <1>7, <3>1
  <2>10. Refusal(B) \in {"none", "window", "budget"} BY <2>6, RefusalsAreForRates
  <2>11. new \in B OBVIOUS
  <2> HIDE DEF B
  <2>12. Call(B)
    <3>1. CASE Saved(B) /\ sessions' = Unexpired(sessions) \union {s} /\ granted' = granted \union {NextId}
      BY <1>2, <1>3, <1>4, <1>5, <2>3, <2>6, <2>7, <2>8, <2>11, <3>1 DEF Call, StillLive, Saved
    <3>2. CASE Lost(B) /\ sessions' = Unexpired(sessions) /\ granted' = granted
      BY <1>2, <1>3, <1>4, <1>5, <2>6, <2>10, <3>2 DEF Call, Lost
    <3>3. QED BY <1>7, <3>1, <3>2
  <2>13. QED BY <1>3, <1>4, <2>9, <2>12, CallPreserves
<1>8. QED BY <1>2, <1>6, <1>7

LEMMA ExchangeKeeps == ASSUME PInv, Exchange PROVE PInv' /\ Called
<1> DEFINE w == Current(att, AttemptWindow)
<1>0. status = "up" /\ UNCHANGED <<now, iss, epoch>> BY DEF Exchange
<1>1. GoodWindow(w, MaxFailed) BY <1>0, RegistryFacts, ExpiryFacts, WindowFacts
<1> HIDE DEF w
<1>2. PICK code \in shown \union {None} :
         \/ ExpireOnly /\ att' = w
         \/ Reject(w)
         \/ /\ code \in IdOf(Unexpired(codes)) /\ Consume(w, code)
            /\ ~(Cardinality(Unexpired(sessions)) >= MaxSessions)
  BY DEF Exchange, w
<1>3. CASE ExpireOnly /\ att' = w
  <2>1. ord' \in Nat /\ ord <= ord' BY <1>0, <1>3, ExpiryFacts DEF ExpireOnly
  <2>2. /\ codes' = Unexpired(codes) /\ sessions' = Unexpired(sessions)
        /\ UNCHANGED <<status, journal, shown, granted, why>>
    BY <1>3 DEF ExpireOnly
  <2>3. Call({}) BY <1>0, <2>1, <2>2, RegistryFacts, QuietCall
  <2>4. QED BY <1>0, <1>1, <1>3, <2>2, <2>3, RegistryFacts, CallPreserves
<1>4. CASE Reject(w) BY <1>0, <1>1, <1>4, RejectKeeps
<1>5. CASE /\ code \in IdOf(Unexpired(codes)) /\ Consume(w, code)
           /\ ~(Cardinality(Unexpired(sessions)) >= MaxSessions)
  <2>1. code # None
    <3>1. PICK x \in codes : x.id = code BY <1>5, RegistryFacts DEF IdOf
    <3>2. QED BY <1>0, <3>1, MemoryNames DEF None, PInv, Typed
  <2>2. Cardinality(Unexpired(sessions)) < MaxSessions
    BY <1>5, RegistryFacts, FS_CardinalityType DEF Within
  <2>3. code \in shown BY <2>1
  <2>4. QED BY <1>0, <1>1, <1>5, <2>2, <2>3, ConsumeKeeps
<1>6. QED BY <1>2, <1>3, <1>4, <1>5

LEMMA AuthorizeKeeps == ASSUME PInv, Authorize PROVE PInv' /\ Called
<1>1. /\ status = "up" /\ codes' = Unexpired(codes) /\ sessions' = Unexpired(sessions)
      /\ ord' = NextOrd /\ UNCHANGED <<now, att, iss, epoch, shown, granted>>
      /\ Saved(Expiries) \/ Lost(Expiries)
  BY DEF Authorize, Persist, Saved, Lost
<1>2. GoodBatch(Expiries)
  <2>1. "expired" \in Terminal /\ "expired" \notin Rated /\ "expired" # "consumed"
    BY DEF Terminal, Rated
  <2>2. QED BY <1>1, <2>1, ExpiryFacts DEF GoodBatch
<1>3. Refusal(Expiries) \in {"none", "window", "budget"} BY <1>1, <1>2, RefusalsAreForRates
<1>4. Call(Expiries)
  <2>1. ord' \in Nat /\ ord <= ord' /\ \A o \in Expiries : o.id[2] <= ord' BY <1>1, ExpiryFacts
  <2>2. \A x \in codes' : StillLive(x, codes, "issued", Expiries)
    BY <1>1, ExpiryFacts, RegistryFacts DEF StillLive
  <2>3. \A x \in sessions' : StillLive(x, sessions, "consumed", Expiries)
    BY <1>1, ExpiryFacts, RegistryFacts DEF StillLive
  <2>4. QED BY <1>1, <1>2, <1>3, <2>1, <2>2, <2>3 DEF Call, Saved, Lost
<1>5. QED BY <1>1, <1>4, RegistryFacts, CallPreserves

LEMMA RevokeKeeps == ASSUME PInv, Revoke PROVE PInv' /\ Called
<1>0. status = "up" /\ ord' = ord + 1 /\ UNCHANGED <<now, codes, att, iss, epoch, shown, granted>>
  BY DEF Revoke
<1>1. PICK s \in sessions :
         /\ sessions' = sessions \ {s}
         /\ Persist({Occurrence(IF s.exp <= now THEN "expired" ELSE "revoked",
                                <<epoch, ord + 1>>, s.id, 0)}, TRUE, TRUE)
  BY DEF Revoke
<1> DEFINE kind == IF s.exp <= now THEN "expired" ELSE "revoked"
           new == Occurrence(kind, <<epoch, ord + 1>>, s.id, 0)
           B == {new}
<1>2. Saved(B) \/ Lost(B) BY <1>1 DEF Persist, Saved, Lost
<1>3. kind \in Terminal /\ kind \notin Rated /\ kind # "consumed" BY DEF Terminal, Rated
<1> HIDE DEF kind
<1>4. s.id \in Name /\ s.id \in IdOf(codes \union sessions) BY <1>0, MemoryNames DEF IdOf
<1>5. /\ new \in Occurrences /\ new.id = <<epoch, ord + 1>> /\ new.at = now
      /\ new.pred = s.id /\ new.kind = kind
  <2>1. None \in Name /\ <<epoch, ord + 1>> \in Name /\ now \in Nat BY RegistryFacts DEF None, Name
  <2>2. QED BY <1>3, <1>4, <2>1 DEF Occurrence, Occurrences
<1> HIDE DEF new
<1>6. GoodBatch(B)
  <2>1. IsFiniteSet(B) BY FS_Singleton
  <2>2. new.id[1] = epoch /\ ord < new.id[2] BY <1>5, RegistryFacts
  <2>3. QED BY <1>3, <1>4, <1>5, <2>1, <2>2 DEF GoodBatch
<1>7. Refusal(B) \in {"none", "window", "budget"} BY <1>0, <1>6, RefusalsAreForRates
<1>8. \A x \in codes \union (sessions \ {s}) : x.id # s.id BY <1>0, MemoryNames
<1>9. Call(B)
  <2>1. ord' \in Nat /\ ord <= ord' /\ \A o \in B : o.id[2] <= ord'
    BY <1>0, <1>5, RegistryFacts
  <2>2. \A x \in codes' : StillLive(x, codes, "issued", B)
    BY <1>0, <1>5, <1>8 DEF StillLive
  <2>3. \A x \in sessions' : StillLive(x, sessions, "consumed", B)
    BY <1>1, <1>5, <1>8 DEF StillLive
  <2> HIDE DEF B
  <2>4. QED BY <1>0, <1>2, <1>6, <1>7, <2>1, <2>2, <2>3 DEF Call, Saved, Lost
<1>10. Within(sessions', MaxSessions)
  <2>1. IsFiniteSet(sessions \ {s}) /\ Cardinality(sessions \ {s}) <= Cardinality(sessions)
    BY RegistryFacts, FS_Subset DEF Within
  <2>2. Cardinality(sessions \ {s}) \in Nat /\ Cardinality(sessions) \in Nat
    BY <2>1, RegistryFacts, FS_CardinalityType DEF Within
  <2>3. QED BY <1>1, <2>1, <2>2, RegistryFacts DEF Within
<1>11. QED BY <1>0, <1>9, <1>10, RegistryFacts, CallPreserves

-----------------------------------------------------------------------------
(***************************************************************************)
(* Opening, closing, time.                                                  *)
(***************************************************************************)
\* bootstrap_window takes over a window that is within its budget.
LEMMA BootstrapGood ==
    ASSUME PInv, NEW kind \in Rated
    PROVE  GoodWindow(Bootstrap(kind), Budget(kind))
<1> DEFINE open == InOpenWindow(kind)
           e == CHOOSE e \in open : TRUE
<1>0. now \in Nat /\ Budget(kind) \in Nat BY RegistryFacts DEF Budget
<1>1. CASE open = {}
  <2>1. Bootstrap(kind) = Closed(now) BY <1>1 DEF Bootstrap
  <2>2. QED BY <1>0, <2>1 DEF GoodWindow, Closed, Windows, None, Name
<1>2. CASE open # {}
  <2>1. e \in open BY <1>2
  <2> HIDE DEF e
  <2>2. e \in journal /\ e.kind = kind /\ now < e.until BY <2>1 DEF InOpenWindow
  <2>3. open \in SUBSET SameWindow(journal, e)
    BY <2>2 DEF InOpenWindow, SameWindow, PInv, RatesIn
  <2>4. e \in Occurrences BY <2>2 DEF PInv, Typed
  <2>5. IsFiniteSet(SameWindow(journal, e)) BY FS_Subset DEF SameWindow, PInv, Typed
  <2>6. IsFiniteSet(open) /\ Cardinality(open) <= Cardinality(SameWindow(journal, e))
    BY <2>3, <2>5, FS_Subset
  <2>7. Cardinality(open) \in Nat /\ Cardinality(SameWindow(journal, e)) \in Nat
    BY <2>5, <2>6, FS_CardinalityType
  <2>8. e.window # None /\ Cardinality(SameWindow(journal, e)) <= Budget(kind)
    BY <2>2 DEF PInv, RatesIn
  <2>9. Cardinality(open) <= Budget(kind) BY <1>0, <2>6, <2>7, <2>8
  <2>10. Bootstrap(kind) = [used |-> Cardinality(open), id |-> e.window,
                            deadline |-> e.until, until |-> e.until]
    BY <1>2 DEF Bootstrap, e
  <2>11. e.until \in Nat /\ e.until # 0 /\ e.window \in Name
    BY <1>0, <2>2, <2>4 DEF Occurrences
  <2>12. QED BY <2>7, <2>8, <2>9, <2>10, <2>11 DEF GoodWindow, Windows
<1>3. QED BY <1>1, <1>2

\* begin_pairing_epoch_v1 files an end for everything live, and nothing else.
LEMMA StartCloses ==
    ASSUME PInv
    PROVE  /\ IsFiniteSet(Live) /\ Cardinality(Live) \in Nat
           /\ IsFiniteSet(Invalidations) /\ Invalidations \in SUBSET Occurrences
           /\ \A o \in Invalidations :
                 /\ o.kind = "invalidated" /\ o.at = now /\ o.id[1] = epoch + 1
                 /\ o.id[2] <= 0 + Cardinality(Live)
                 /\ \E x \in Live : o.pred = x.id
           /\ \A d, e \in Invalidations : d.id = e.id => d = e
           /\ \A x \in Live : \E o \in Invalidations : o.pred = x.id
<1> DEFINE F == Invalidations
           n == Cardinality(Live)
<1>1. now \in Nat /\ epoch \in Nat /\ journal \in SUBSET Occurrences /\ IsFiniteSet(journal)
  BY DEF PInv, Typed
<1>2. IsFiniteSet(Live) /\ n \in Nat BY <1>1, FS_Subset, FS_CardinalityType DEF Live
<1>3. FiledAs(F, Live, "invalidated", epoch + 1, 0)
  <2>1. DOMAIN SetToSeq(Live) = 1..n BY <1>2, Listing
  <2>2. \A i \in 1..n : 0 + i = i BY <1>2
  <2>3. QED BY <2>1, <2>2 DEF FiledAs, Invalidations, Closing
<1>4. \A x \in Live : x.id \in Name BY <1>1 DEF Live, Occurrences
<1>5. "invalidated" \in Terminal /\ epoch + 1 \in Nat BY <1>1 DEF Terminal
<1> HIDE DEF F
<1>6. /\ IsFiniteSet(F) /\ F \in SUBSET Occurrences
      /\ \A o \in F : /\ o.kind = "invalidated" /\ o.at = now /\ o.id[1] = epoch + 1
                      /\ o.id[2] <= 0 + n
                      /\ \E x \in Live : o.pred = x.id
      /\ \A d, e \in F : d.id = e.id => d = e
      /\ \A x \in Live : \E o \in F : o.pred = x.id
  BY <1>1, <1>2, <1>3, <1>4, <1>5, Filing
<1>7. QED BY <1>2, <1>6 DEF F

LEMMA StartKeeps == ASSUME PInv, Start PROVE PInv'
<1> DEFINE F == Invalidations
           n == Cardinality(Live)
<1>1. /\ status = "down" /\ epoch' = epoch + 1 /\ journal' = journal \union F
      /\ why' = "none" /\ UNCHANGED <<now, codes, sessions, shown, granted>>
  BY DEF Start, BeginEpoch
<1>2. \/ /\ status' = "up" /\ ord' = n
         /\ att' = Bootstrap("rejected") /\ iss' = Bootstrap("issued")
      \/ status' = "down" /\ UNCHANGED <<ord, att, iss>>
  BY <1>1 DEF Start, Serve, SeedOrdinal
<1>3. /\ now \in Nat /\ epoch \in Nat /\ ord \in Nat /\ codes = {} /\ sessions = {}
      /\ journal \in SUBSET Occurrences /\ IsFiniteSet(journal)
  BY <1>1 DEF PInv, Typed
<1>4. IsFiniteSet(Live) /\ n \in Nat BY StartCloses
<1>6. /\ IsFiniteSet(F) /\ F \in SUBSET Occurrences
      /\ \A o \in F : /\ o.kind = "invalidated" /\ o.at = now /\ o.id[1] = epoch + 1
                      /\ o.id[2] <= 0 + n
                      /\ \E x \in Live : o.pred = x.id
      /\ \A d, e \in F : d.id = e.id => d = e
      /\ \A x \in Live : \E o \in F : o.pred = x.id
  BY StartCloses
<1> HIDE DEF F, n
<1>7. /\ "invalidated" \in Terminal /\ "invalidated" \notin Rated
      /\ "invalidated" \notin {"issued", "consumed"}
  BY DEF Terminal, Rated
<1>8. \A e \in journal : 0 < e.id[1] /\ e.id[1] <= epoch /\ e.at <= now /\ e.id[1] \in Nat
  BY <1>3 DEF PInv, NamesIn, Occurrences, Name
<1>9. Typed' /\ Limits'
  <2>1. GoodWindow(att', MaxFailed) /\ GoodWindow(iss', MaxIssued)
    <3>1. GoodWindow(Bootstrap("rejected"), MaxFailed) /\ GoodWindow(Bootstrap("issued"), MaxIssued)
      BY BootstrapGood DEF Rated, Budget
    <3>2. QED BY <1>2, <3>1, RegistryFacts
  <2>2. IsFiniteSet(journal') /\ journal' \in SUBSET Occurrences
    BY <1>1, <1>3, <1>6, FS_Union
  <2>3. ord' \in Nat BY <1>2, <1>3, <1>4
  <2>4. epoch' \in Nat /\ epoch' > 0 BY <1>1, <1>3
  <2>5. Typed' BY <1>1, <1>2, <1>3, <2>1, <2>2, <2>3, <2>4, FS_EmptySet DEF Typed, GoodWindow
  <2>6. Limits' BY <1>1, <2>1 DEF PInv, Limits, GoodWindow
  <2>7. QED BY <2>5, <2>6
<1>10. NamesIn(journal, ord)'
  <2>1. ASSUME NEW e \in journal'
        PROVE  /\ 0 < e.id[1] /\ e.id[1] <= epoch + 1 /\ e.at <= now
               /\ status' = "up" /\ e.id[1] = epoch + 1 => e.id[2] <= n
    <3>1. CASE e \in journal BY <1>3, <1>8, <3>1
    <3>2. CASE e \in F
      <4>1. e.at = now /\ e.id[1] = epoch + 1 /\ e.id[2] <= 0 + n BY <1>6, <3>2
      <4>2. QED BY <1>3, <1>4, <4>1
    <3>3. QED BY <1>1, <3>1, <3>2
  <2>2. \A d, e \in journal' : d.id = e.id => d = e
    <3>1. \A d \in journal, e \in F : d.id # e.id
      <4> SUFFICES ASSUME NEW d \in journal, NEW e \in F, d.id = e.id PROVE FALSE OBVIOUS
      <4>1. d.id[1] <= epoch /\ d.id[1] = epoch + 1 BY <1>6, <1>8
      <4>2. QED BY <1>3, <4>1
    <3>2. \A d, e \in journal : d.id = e.id => d = e BY DEF PInv, NamesIn
    <3>3. QED BY <1>1, <1>6, <3>1, <3>2
  <2>3. \A c \in journal' : c.kind \in Terminal => \E p \in journal' : p.id = c.pred
    <3>1. \A c \in F : \E p \in journal : p.id = c.pred BY <1>6 DEF Live
    <3>2. \A c \in journal : c.kind \in Terminal => \E p \in journal : p.id = c.pred
      BY DEF PInv, NamesIn
    <3>3. QED BY <1>1, <3>1, <3>2
  <2>4. \A e \in journal' : status' = "up" /\ e.id[1] = epoch' => e.id[2] <= ord'
    BY <1>1, <1>2, <2>1
  <2>5. \A e \in journal' : 0 < e.id[1] /\ e.id[1] <= epoch' /\ e.at <= now'
    BY <1>1, <2>1
  <2>6. QED BY <2>2, <2>3, <2>4, <2>5 DEF NamesIn
<1>11. RatesIn(journal)'
  <2>1. \A e \in journal' : e.kind \in Rated =>
           e \in journal /\ SameWindow(journal', e) = SameWindow(journal, e)
    BY <1>1, <1>6, <1>7 DEF SameWindow
  <2>2. RatesIn(journal) BY DEF PInv
  <2>3. RatesIn(journal') BY <2>1, <2>2 DEF RatesIn
  <2>4. QED BY <1>1, <2>3 DEF RatesIn, SameWindow
<1>12. MemoryAgrees' BY <1>1, <1>3 DEF MemoryAgrees
<1>13. OldEpochsClosed'
  <2>1. Live' = {}
    <3> SUFFICES ASSUME NEW e \in Live' PROVE FALSE OBVIOUS
    <3>1. /\ e \in journal' /\ e.kind \in {"issued", "consumed"}
          /\ \A c \in journal' : c.kind \in Terminal => c.pred # e.id
      BY DEF Live
    <3>2. e \in journal BY <1>1, <1>6, <1>7, <3>1
    <3>3. e \in Live BY <1>1, <3>1, <3>2 DEF Live
    <3>4. QED BY <1>1, <1>6, <1>7, <3>1, <3>3
  <2>2. QED BY <2>1 DEF OldEpochsClosed
<1>14. CodeUsedOnce'
  <2>1. \A d \in journal' : d.kind \in {"issued", "consumed"} => d \in journal
    BY <1>1, <1>6, <1>7
  <2>2. journal \subseteq journal' BY <1>1
  <2>3. CodeUsedOnce BY DEF PInv
  <2>4. QED BY <1>1, <2>1, <2>2, <2>3 DEF CodeUsedOnce, IdOf
<1>15. RefusedForRateOnly' BY <1>1 DEF RefusedForRateOnly
<1>16. QED BY <1>9, <1>10, <1>11, <1>12, <1>13, <1>14, <1>15 DEF PInv

\* The memory is forgotten: nothing is claimed of it until the next start.
LEMMA ForgetKeeps ==
    ASSUME PInv, status' = "down", Forgotten,
           UNCHANGED <<now, epoch, journal, shown, granted, why>>
    PROVE  PInv'
<1>1. codes' = {} /\ sessions' = {} /\ att' = Closed(0) /\ iss' = Closed(0) /\ ord' = 0
  BY DEF Forgotten
<1>2. Closed(0) \in Windows /\ Closed(0).used = 0 /\ Closed(0).id = None /\ Closed(0).until = 0
  BY DEF Closed, Windows, Name, None
<1>3. Typed' BY <1>1, <1>2, FS_EmptySet DEF PInv, Typed
<1>4. Limits' BY <1>1, <1>2, FS_EmptySet, RegistryFacts DEF Limits
<1>5. NamesIn(journal, ord)' BY DEF PInv, NamesIn
<1>6. RatesIn(journal)' BY DEF PInv, RatesIn, SameWindow
<1>7. MemoryAgrees' /\ OldEpochsClosed' BY DEF MemoryAgrees, OldEpochsClosed
<1>8. CodeUsedOnce' /\ RefusedForRateOnly'
  BY DEF PInv, CodeUsedOnce, RefusedForRateOnly, IdOf
<1>9. QED BY <1>3, <1>4, <1>5, <1>6, <1>7, <1>8 DEF PInv

LEMMA TickKeeps == ASSUME PInv, Tick PROVE PInv'
<1>1. /\ now' = now + 1 /\ now \in Nat
      /\ UNCHANGED <<status, codes, sessions, att, iss, ord, epoch, journal, shown, granted, why>>
  BY DEF Tick, PInv, Typed, registry
<1>2. Typed' BY <1>1 DEF PInv, Typed
<1>3. Limits' BY <1>1 DEF PInv, Limits
<1>4. NamesIn(journal, ord)'
  <2>1. \A e \in journal : e.at \in Nat /\ e.at <= now BY DEF PInv, Typed, Occurrences, NamesIn
  <2>2. \A e \in journal : e.at <= now + 1 BY <1>1, <2>1
  <2>3. QED BY <1>1, <2>2 DEF PInv, NamesIn
<1>5. RatesIn(journal)'
  <2>1. \A e \in journal : e.until \in Nat BY DEF PInv, Typed, Occurrences
  <2>2. \A e \in journal : now + 1 < e.until => now < e.until BY <1>1, <2>1
  <2>3. \A e \in journal : now' < e.until => now < e.until BY <1>1, <2>2
  <2>4. QED BY <1>1, <2>3 DEF PInv, RatesIn, SameWindow
<1>6. MemoryAgrees' /\ OldEpochsClosed' /\ CodeUsedOnce' /\ RefusedForRateOnly'
  BY <1>1 DEF PInv, MemoryAgrees, LiveIn, OldEpochsClosed, Live, CodeUsedOnce, IdOf,
              RefusedForRateOnly
<1>7. QED BY <1>2, <1>3, <1>4, <1>5, <1>6 DEF PInv

LEMMA PInvInit == Init => PInv
<1> SUFFICES ASSUME Init PROVE PInv OBVIOUS
<1>1. /\ now = 0 /\ status = "down" /\ codes = {} /\ sessions = {} /\ ord = 0 /\ epoch = 0
      /\ journal = {} /\ shown = {} /\ granted = {} /\ why = "none"
      /\ att = Closed(0) /\ iss = Closed(0)
  BY DEF Init
<1>2. Closed(0) \in Windows /\ Closed(0).used = 0 /\ Closed(0).id = None /\ Closed(0).until = 0
  BY DEF Closed, Windows, Name, None
<1>3. Typed BY <1>1, <1>2, FS_EmptySet DEF Typed
<1>4. Limits BY <1>1, <1>2, FS_EmptySet, PairingConstants DEF Limits
<1>5. NamesIn(journal, ord) /\ RatesIn(journal) BY <1>1 DEF NamesIn, RatesIn
<1>6. MemoryAgrees /\ OldEpochsClosed BY <1>1 DEF MemoryAgrees, OldEpochsClosed
<1>7. CodeUsedOnce /\ RefusedForRateOnly BY <1>1 DEF CodeUsedOnce, RefusedForRateOnly, IdOf
<1>8. QED BY <1>3, <1>4, <1>5, <1>6, <1>7 DEF PInv

LEMMA PInvKept == PInv /\ [Next]_vars => PInv'
<1> SUFFICES ASSUME PInv, [Next]_vars PROVE PInv' OBVIOUS
<1>1. CASE Issue BY <1>1, IssueKeeps
<1>2. CASE Exchange BY <1>2, ExchangeKeeps
<1>3. CASE Authorize BY <1>3, AuthorizeKeeps
<1>4. CASE Revoke BY <1>4, RevokeKeeps
<1>5. CASE Start BY <1>5, StartKeeps
<1>6. CASE Crash BY <1>6, ForgetKeeps DEF Crash
<1>7. CASE Reopen BY <1>7, ForgetKeeps DEF Reopen
<1>8. CASE Tick BY <1>8, TickKeeps
<1>9. CASE UNCHANGED vars
  <2>1. /\ UNCHANGED <<now, status, codes, sessions, att, iss, ord, epoch, journal>>
        /\ UNCHANGED <<shown, granted, why>>
    BY <1>9 DEF vars, registry
  <2>2. Typed' /\ Limits' BY <2>1 DEF PInv, Typed, Limits
  <2>3. NamesIn(journal, ord)' BY <2>1 DEF PInv, NamesIn
  <2>4. RatesIn(journal)' BY <2>1 DEF PInv, RatesIn, SameWindow
  <2>5. MemoryAgrees' BY <2>1 DEF PInv, MemoryAgrees, LiveIn
  <2>6. OldEpochsClosed' BY <2>1 DEF PInv, OldEpochsClosed, Live
  <2>7. CodeUsedOnce' /\ RefusedForRateOnly'
    BY <2>1 DEF PInv, CodeUsedOnce, IdOf, RefusedForRateOnly
  <2>8. QED BY <2>2, <2>3, <2>4, <2>5, <2>6, <2>7 DEF PInv
<1>10. QED BY <1>1, <1>2, <1>3, <1>4, <1>5, <1>6, <1>7, <1>8, <1>9 DEF Next

LEMMA PInvAlways == Spec => []PInv
BY PInvInit, PInvKept, PTL DEF Spec

-----------------------------------------------------------------------------
\* The registry never holds more codes, sessions, issues or failures than its
\* limits, not even in a window that a restart took over from the journal.
THEOREM RegistryWithinLimits == Spec => []PairingTypeOK
<1>1. PInv => PairingTypeOK
  <2> SUFFICES ASSUME PInv PROVE PairingTypeOK OBVIOUS
  <2>1. /\ Typed /\ Limits /\ CodeUsedOnce /\ \A e \in journal : e.id[1] > 0
    BY DEF PInv, NamesIn, Typed, Occurrences, Name
  <2>2. None \notin shown \union granted
    <3>1. \A c \in shown \union granted : \E e \in journal : e.id = c
      BY <2>1 DEF CodeUsedOnce, IdOf
    <3>2. None[1] = 0 BY DEF None
    <3>3. QED BY <2>1, <3>1, <3>2
  <2>3. att.used \in 0..MaxFailed /\ iss.used \in 0..MaxIssued
    BY <2>1, PairingConstants DEF Typed, Limits, Windows
  <2>4. QED BY <2>1, <2>2, <2>3 DEF PairingTypeOK, Typed, Limits
<1>2. QED BY <1>1, PInvAlways, PTL

\* A serving registry holds nothing that the journal says is over.
THEOREM MemoryAlwaysLive == Spec => []MemoryIsLive
<1>1. PInv => MemoryIsLive
  <2> SUFFICES ASSUME PInv, status = "up", NEW x \in codes \union sessions
               PROVE  \E e \in Live : /\ e.id = x.id /\ e.exp = x.exp /\ e.id[1] = epoch
                                      /\ e.kind = (IF x \in codes THEN "issued" ELSE "consumed")
    BY DEF MemoryIsLive
  <2>1. CASE x \in codes
    <3>1. LiveIn(journal, x, "issued") BY <2>1 DEF PInv, MemoryAgrees
    <3>2. QED BY <2>1, <3>1 DEF LiveIn, Live
  <2>2. CASE x \notin codes
    <3>1. LiveIn(journal, x, "consumed") BY <2>2 DEF PInv, MemoryAgrees
    <3>2. QED BY <2>2, <3>1 DEF LiveIn, Live
  <2>3. QED BY <2>1, <2>2
<1>2. QED BY <1>1, PInvAlways, PTL

\* A code is durable before it is shown, and one capability at most stems from it,
\* whatever was retried, lost or committed unseen.
THEOREM CodesExchangedOnce == Spec => []CodeUsedOnce
<1>1. PInv => CodeUsedOnce BY DEF PInv
<1>2. QED BY <1>1, PInvAlways, PTL

\* A coordinator that serves has closed every earlier epoch in the journal.
THEOREM EpochsAreClosed == Spec => []OldEpochsClosed
<1>1. PInv => OldEpochsClosed BY DEF PInv
<1>2. QED BY <1>1, PInvAlways, PTL

\* The journal refuses no batch for a name, a predecessor or a time: the
\* coordinator's own numbering and memory are always in step with it.
THEOREM NoOrdinalConflict == Spec => []RefusedForRateOnly
<1>1. PInv => RefusedForRateOnly BY DEF PInv
<1>2. QED BY <1>1, PInvAlways, PTL
-----------------------------------------------------------------------------
(***************************************************************************)
(* The journal as a ledger of one-time codes.                               *)
(***************************************************************************)
Recorded(J, kind, n) == \E e \in J : e.kind = kind /\ e.id = n
Ended(J, n) == \E c \in J : c.kind \in Terminal /\ c.pred = n

\* What is open, live and over, by the occurrences that name it.
LEMMA PhaseOf ==
    ASSUME NEW n
    PROVE  /\ n \in OpenCodes <=> Recorded(journal, "issued", n) /\ ~Ended(journal, n)
           /\ n \in LiveSessions <=> Recorded(journal, "consumed", n) /\ ~Ended(journal, n)
           /\ n \in Over <=> /\ \E kind \in {"issued", "consumed"} : Recorded(journal, kind, n)
                             /\ Ended(journal, n)
<1>1. n \in IdOf(Live) <=> /\ \E kind \in {"issued", "consumed"} : Recorded(journal, kind, n)
                           /\ ~Ended(journal, n)
  BY DEF IdOf, Live, Recorded, Ended
<1>2. QED BY <1>1 DEF OpenCodes, LiveSessions, Over, IdOf, Live, Recorded, Ended

\* An occurrence of a batch has a name that nothing had, and that nothing closes.
LEMMA BatchIsNew ==
    ASSUME PInv, status = "up", NEW B, GoodBatch(B), NEW o \in B
    PROVE  /\ \A kind : ~Recorded(journal, kind, o.id)
           /\ ~Ended(journal, o.id) /\ ~Ended(B, o.id)
<1>1. /\ o.id[1] = epoch /\ ord < o.id[2] /\ ord \in Nat
      /\ \A e \in journal : e.id[1] = epoch => e.id[2] \in Nat /\ e.id[2] <= ord
  BY DEF GoodBatch, PInv, NamesIn, Typed, Occurrences, Name
<1>2. \A e \in journal : e.id # o.id BY <1>1
<1>3. ~Ended(journal, o.id) BY <1>2 DEF Ended, PInv, NamesIn
<1>4. ~Ended(B, o.id)
  <2> SUFFICES ASSUME NEW c \in B, c.kind \in Terminal, c.pred = o.id PROVE FALSE
    BY DEF Ended
  <2>1. PICK x \in codes \union sessions : c.pred = x.id BY DEF GoodBatch, IdOf
  <2>2. PICK e \in journal : e.id = x.id BY MemoryNames DEF IdOf, Live
  <2>3. QED BY <1>2, <2>1, <2>2
<1>5. QED BY <1>2, <1>3, <1>4 DEF Recorded

\* What a batch closes was open or live.
LEMMA BatchEndsTheLive ==
    ASSUME PInv, status = "up", NEW B, GoodBatch(B), NEW n, Ended(B, n)
    PROVE  n \in OpenCodes \union LiveSessions
<1>1. PICK x \in codes \union sessions : n = x.id BY DEF Ended, GoodBatch, IdOf
<1>2. n \in IdOf(Live) BY <1>1, MemoryNames
<1>3. QED BY <1>2 DEF OpenCodes, LiveSessions, IdOf, Live

\* The ledger after a batch: what it closes is over, what it names is new.
LEMMA BatchMovesCodes ==
    ASSUME PInv, status = "up", NEW B, GoodBatch(B), journal' = journal \union B
    PROVE  /\ \A n : n \in OpenCodes' <=>
                        (n \in OpenCodes /\ ~Ended(B, n)) \/ Recorded(B, "issued", n)
           /\ \A n : n \in LiveSessions' <=>
                        (n \in LiveSessions /\ ~Ended(B, n)) \/ Recorded(B, "consumed", n)
           /\ \A n : n \in Over' <=> n \in Over \/ Ended(B, n)
<1>1. ASSUME NEW n, NEW kind
      PROVE  /\ Recorded(journal, kind, n)' <=> Recorded(journal, kind, n) \/ Recorded(B, kind, n)
             /\ Ended(journal, n)' <=> Ended(journal, n) \/ Ended(B, n)
  BY DEF Recorded, Ended
<1>2. \A n, kind : Recorded(B, kind, n) => ~Ended(journal, n) /\ ~Ended(B, n)
  BY BatchIsNew DEF Recorded
<1>3. ASSUME NEW n
      PROVE  /\ n \in OpenCodes' <=> Recorded(journal, "issued", n)' /\ ~Ended(journal, n)'
             /\ n \in LiveSessions' <=> Recorded(journal, "consumed", n)' /\ ~Ended(journal, n)'
             /\ n \in Over' <=> /\ \E kind \in {"issued", "consumed"} : Recorded(journal, kind, n)'
                                /\ Ended(journal, n)'
  <2>1. n \in IdOf(Live)' <=> /\ \E kind \in {"issued", "consumed"} : Recorded(journal, kind, n)'
                              /\ ~Ended(journal, n)'
    BY DEF IdOf, Live, Recorded, Ended
  <2>2. QED BY <2>1 DEF OpenCodes, LiveSessions, Over, IdOf, Live, Recorded, Ended
<1>4. \A n : n \in OpenCodes' <=> (n \in OpenCodes /\ ~Ended(B, n)) \/ Recorded(B, "issued", n)
  BY <1>1, <1>2, <1>3, PhaseOf
<1>5. \A n : n \in LiveSessions' <=> (n \in LiveSessions /\ ~Ended(B, n)) \/ Recorded(B, "consumed", n)
  BY <1>1, <1>2, <1>3, PhaseOf
<1>6. \A n : n \in Over' <=> n \in Over \/ Ended(B, n)
  <2>1. \A n : Ended(B, n) => \E kind \in {"issued", "consumed"} : Recorded(journal, kind, n)
    BY BatchEndsTheLive, PhaseOf
  <2>2. QED BY <1>1, <1>2, <1>3, <2>1, PhaseOf
<1>7. QED BY <1>4, <1>5, <1>6

codeState == <<OpenCodes, LiveSessions, Over, shown \union granted>>

\* A step that leaves the journal and what was released alone moves no code.
LEMMA CodesStay ==
    ASSUME UNCHANGED <<journal, shown, granted>>
    PROVE  UNCHANGED codeState
BY DEF codeState, OpenCodes, LiveSessions, Over, Live, IdOf

\* A call ends what it closes and issues or exchanges one code at most.
LEMMA CallMovesCodes ==
    ASSUME PInv, Called
    PROVE  Codes!Next \/ UNCHANGED codeState
<1>1. PICK B : Call(B) BY DEF Called
<1>2. status = "up" /\ GoodBatch(B) BY <1>1 DEF Call
<1>3. CASE journal' = journal
  <2>1. \A o \in B : o \notin journal' BY <1>2, <1>3, BatchIsNew DEF Recorded
  <2>2. shown' = shown /\ granted' = granted BY <1>1, <2>1 DEF Call
  <2>3. QED BY <1>3, <2>2, CodesStay
<1>4. CASE journal' = journal \union B
  <2> DEFINE E == {n \in OpenCodes \union LiveSessions : Ended(B, n)}
  <2>1. /\ \A n : n \in OpenCodes' <=>
                     (n \in OpenCodes /\ ~Ended(B, n)) \/ Recorded(B, "issued", n)
        /\ \A n : n \in LiveSessions' <=>
                     (n \in LiveSessions /\ ~Ended(B, n)) \/ Recorded(B, "consumed", n)
        /\ \A n : n \in Over' <=> n \in Over \/ Ended(B, n)
    BY <1>2, <1>4, BatchMovesCodes
  <2>2. /\ E \in SUBSET (OpenCodes \union LiveSessions)
        /\ \A n : n \in E <=> Ended(B, n)
    BY <1>2, BatchEndsTheLive
  <2>3. ASSUME NEW o \in B PROVE o.id \notin OpenCodes \union LiveSessions \union Over
    BY <1>2, <2>3, BatchIsNew, PhaseOf
  <2>4. /\ shown \subseteq shown' /\ granted \subseteq granted'
        /\ \A c \in shown' : c \in shown \/ \E o \in B : o.kind = "issued" /\ o.id = c
        /\ \A c \in granted' : c \in granted \/ \E o \in B : o.kind = "consumed" /\ o.id = c
    BY <1>1 DEF Call
  <2> HIDE DEF E
  <2>5. CASE \A o \in B : o.kind \notin {"issued", "consumed"}
    <3>1. \A n : ~Recorded(B, "issued", n) /\ ~Recorded(B, "consumed", n)
      BY <2>5 DEF Recorded
    <3>2. OpenCodes' = OpenCodes \ E /\ LiveSessions' = LiveSessions \ E /\ Over' = Over \union E
      BY <2>1, <2>2, <3>1
    <3>3. shown' = shown /\ granted' = granted BY <2>4, <2>5
    <3>4. QED BY <2>2, <3>2, <3>3 DEF Codes!Next, Codes!End
  <2>6. CASE \E o \in B : o.kind = "issued"
    <3>1. PICK o \in B : o.kind = "issued" BY <2>6
    <3>2. \A d \in B : d.kind \in {"issued", "consumed"} => d = o
      BY <1>2, <3>1 DEF GoodBatch, Rated
    <3>3. \A n : /\ Recorded(B, "issued", n) <=> n = o.id
                 /\ ~Recorded(B, "consumed", n)
      BY <3>1, <3>2 DEF Recorded
    <3>4. /\ OpenCodes' = (OpenCodes \ E) \union {o.id}
          /\ LiveSessions' = LiveSessions \ E /\ Over' = Over \union E
      BY <2>1, <2>2, <3>3
    <3>5. shown' \in {shown, shown \union {o.id}} /\ granted' = granted
      BY <2>4, <3>1, <3>2
    <3>6. (shown \union granted)' \in {shown \union granted, shown \union granted \union {o.id}}
      BY <3>5
    <3>7. Codes!Issue(o.id, E)
      BY <2>3, <3>4, <3>6 DEF Codes!Issue, Codes!Known
    <3>8. QED BY <2>2, <3>4, <3>7 DEF Codes!Next
  <2>7. CASE \E o \in B : o.kind = "consumed"
    <3>1. PICK o \in B : o.kind = "consumed" BY <2>7
    <3>2. \A d \in B : d.kind \in {"issued", "consumed"} => d = o
      BY <1>2, <3>1 DEF GoodBatch, Rated
    <3>3. \A n : /\ Recorded(B, "consumed", n) <=> n = o.id
                 /\ ~Recorded(B, "issued", n)
      BY <3>1, <3>2 DEF Recorded
    <3>4. Ended(B, o.pred) BY <3>1 DEF Ended, Terminal
    <3>5. o.pred \in shown /\ o.pred \in OpenCodes
      <4>1. o.pred \in shown BY <1>2, <3>1 DEF GoodBatch
      <4>2. PICK d \in journal : d.kind = "issued" /\ d.id = o.pred
        BY <4>1 DEF PInv, CodeUsedOnce, IdOf
      <4>3. \A e \in journal : e.id = o.pred => e = d BY <4>2 DEF PInv, NamesIn
      <4>4. ~Recorded(journal, "consumed", o.pred) BY <4>2, <4>3 DEF Recorded
      <4>5. o.pred \in OpenCodes \union LiveSessions BY <2>2, <3>4
      <4>6. QED BY <4>1, <4>4, <4>5, PhaseOf
    <3>6. /\ OpenCodes' = OpenCodes \ (E \union {o.pred})
          /\ LiveSessions' = (LiveSessions \ E) \union {o.id}
          /\ Over' = Over \union E \union {o.pred}
      BY <2>1, <2>2, <3>3, <3>4
    <3>7. granted' \in {granted, granted \union {o.id}} /\ shown' = shown
      BY <2>4, <3>1, <3>2
    <3>8. (shown \union granted)' \in {shown \union granted, shown \union granted \union {o.id}}
      BY <3>7
    <3>9. Codes!Exchange(o.pred, o.id, E)
      BY <2>3, <3>5, <3>6, <3>8 DEF Codes!Exchange, Codes!Known
    <3>10. QED BY <2>2, <3>5, <3>6, <3>9 DEF Codes!Next
  <2>8. QED BY <2>5, <2>6, <2>7
<1>5. QED BY <1>1, <1>3, <1>4 DEF Call

\* A start closes everything that could still be used.
LEMMA StartMovesCodes ==
    ASSUME PInv, Start
    PROVE  Codes!Next
<1>1. journal' = journal \union Invalidations /\ UNCHANGED <<shown, granted>>
  BY DEF Start, BeginEpoch
<1>2. /\ \A o \in Invalidations : o.kind = "invalidated" /\ \E x \in Live : o.pred = x.id
      /\ \A x \in Live : \E o \in Invalidations : o.pred = x.id
  BY StartCloses
<1>3. "invalidated" \in Terminal /\ "invalidated" \notin {"issued", "consumed"} BY DEF Terminal
<1>4. OpenCodes' = {} /\ LiveSessions' = {}
  <2>1. Live' = {}
    <3> SUFFICES ASSUME NEW e \in Live' PROVE FALSE OBVIOUS
    <3>1. /\ e \in journal' /\ e.kind \in {"issued", "consumed"}
          /\ \A c \in journal' : c.kind \in Terminal => c.pred # e.id
      BY DEF Live
    <3>2. e \in Live BY <1>1, <1>2, <1>3, <3>1 DEF Live
    <3>3. QED BY <1>1, <1>2, <1>3, <3>1, <3>2
  <2>2. QED BY <2>1 DEF OpenCodes, LiveSessions, IdOf
<1>5. Over' = Over \union OpenCodes \union LiveSessions
  <2>1. IdOf(Live)' = {} BY <1>4 DEF OpenCodes, LiveSessions, IdOf, Live
  <2>2. \A e \in journal' : e.kind \in {"issued", "consumed"} <=>
                               e \in journal /\ e.kind \in {"issued", "consumed"}
    BY <1>1, <1>2, <1>3
  <2>3. QED BY <1>1, <2>1, <2>2 DEF Over, OpenCodes, LiveSessions, IdOf, Live
<1>6. Codes!End(OpenCodes \union LiveSessions)
  BY <1>1, <1>4, <1>5 DEF Codes!End
<1>7. QED BY <1>6 DEF Codes!Next

LEMMA StepMovesCodes == PInv /\ [Next]_vars => [Codes!Next]_codeState
<1> SUFFICES ASSUME PInv, [Next]_vars PROVE Codes!Next \/ UNCHANGED codeState OBVIOUS
<1>1. CASE Issue BY <1>1, IssueKeeps, CallMovesCodes
<1>2. CASE Exchange BY <1>2, ExchangeKeeps, CallMovesCodes
<1>3. CASE Authorize BY <1>3, AuthorizeKeeps, CallMovesCodes
<1>4. CASE Revoke BY <1>4, RevokeKeeps, CallMovesCodes
<1>5. CASE Start BY <1>5, StartMovesCodes
<1>6. CASE Crash BY <1>6, CodesStay DEF Crash
<1>7. CASE Reopen BY <1>7, CodesStay DEF Reopen
<1>8. CASE Tick BY <1>8, CodesStay DEF Tick
<1>9. CASE UNCHANGED vars BY <1>9, CodesStay DEF vars, registry
<1>10. QED BY <1>1, <1>2, <1>3, <1>4, <1>5, <1>6, <1>7, <1>8, <1>9 DEF Next

\* The journal and what was released implement a ledger of one-time codes: every
\* step of the coordinator, its store and its failures is one of its steps.
THEOREM ImplementsOneTimeCodes == Spec => CodesAreOneTime
<1>1. ASSUME Init PROVE Codes!Init
  <2>1. journal = {} /\ shown = {} /\ granted = {} BY <1>1 DEF Init
  <2>2. QED BY <2>1 DEF Codes!Init, OpenCodes, LiveSessions, Over, Live, IdOf
<1>2. codeState = Codes!codeVars BY DEF codeState, Codes!codeVars
<1>3. QED
  BY <1>1, <1>2, StepMovesCodes, PInvAlways, PTL DEF Spec, CodesAreOneTime, Codes!Spec, codeState, Codes!codeVars
=============================================================================
