-------------------------- MODULE SupervisorProofs --------------------------
(***************************************************************************)
(* Proofs about Supervisor for every value of its constants.                *)
(*                                                                          *)
(* The idea of the invariant: whatever record a restart may come to count   *)
(* (a journal file memory does not count, a complete pending file) fits the *)
(* records before it, because nothing is counted while such a file lies     *)
(* there, except by writing over it.                                        *)
(***************************************************************************)
EXTENDS Supervisor, TLAPS, WellFoundedInduction

Record == [type : Types, of : Nat, key : Key \cup {NoKey}, gen : Nat, att : Nat]
PendingFile == [at : Nat, torn : BOOLEAN, ev : Record]
Item == [of : Ids, kind : {"evidence", "gap"}]
CallType == [of : Nat, as : {"durable", "abandoned"}, stop : BOOLEAN, pop : BOOLEAN]

FilesTyped ==
    /\ journal \in Seq(Record) /\ pending \in PendingFile
    /\ seg \in [Ids -> Kinds] /\ next \in Nat \ {0}
MemoryTyped ==
    /\ queue \in Seq(Item) /\ call \in CallType
    /\ pc \in {"down", "opened", "idle", "sealed", "stopping"}
    /\ job \in {"none", "startup", "shutdown"}
    /\ granted \subseteq Ids \X Record /\ io \subseteq Ids

\* Where the next record goes: behind the counted ones, over at most one file.
Ordinals ==
    /\ pc # "down" => Len(journal) \in {next - 1, next}
    /\ pending # NoFile => /\ pending.at \in Nat \ {0}
                           /\ pending.at \in {Len(journal), Len(journal) + 1}
                           /\ pc # "down" => pending.at = next

\* What a record claims of spool and I/O is so.
Backed(ev) ==
    /\ ev.type = "durable" => seg[ev.of] # "none"
    /\ ev.type = "abandoned" => seg[ev.of] = "gap"
    /\ ev.type = "cancelled" => ev.of \notin io

\* A reservation is the newest of its key; an outcome is of a reserved attempt,
\* and the first unless a gap is journalled again for an abandoned one.
Newest(n, ev) ==
    \A m \in 1 .. n :
        journal[m].type = "reserved" /\ journal[m].key = ev.key =>
            /\ journal[m].gen <= ev.gen
            /\ journal[m].gen = ev.gen => journal[m].att < ev.att
FirstOutcome(n, ev) ==
    \A m \in 1 .. n : Settles(m, ev.of) => journal[m].type = "abandoned" /\ ev.type = "abandoned"

\* ev fits behind the first n records.
Fits(n, ev) ==
    /\ ev.of \in 0 .. n
    /\ ev.type = "reserved" => n + 1 \in Ids /\ ev.att \in 1 .. n + 1 /\ Newest(n, ev)
    /\ ev.type \in Settling => /\ ev.of \in Ids /\ ev.of \in 1 .. n
                               /\ journal[ev.of].type = "reserved"
                               /\ FirstOutcome(n, ev)
                               /\ Backed(ev)

FilesFit ==
    /\ \A m \in 1 .. Len(journal) : Fits(m - 1, journal[m])
    /\ pending # NoFile => Fits(pending.at - 1, pending.ev)

GrantsHeld ==
    \A g \in granted : g[1] \in Counted /\ journal[g[1]] = g[2] /\ g[2].type = "reserved"

\* I/O is begun on record, and evidence comes from begun I/O only.
IoOnRecord ==
    /\ \A r \in io : r \in ReservedIds /\ IoRecorded(r)
    /\ \A r \in Ids : seg[r] = "evidence" => r \in io

\* No outcome but a gap so far.
GapOnly(r) == \A i \in Counted : Settles(i, r) => journal[i].type = "abandoned"

\* A queued item awaits its outcome, or is the evidence whose gap was sealed.
Owned(q) ==
    /\ q.of \in io
    /\ \/ q.of \in Pending
       \/ q.kind = "evidence" /\ seg[q.of] = "gap" /\ GapOnly(q.of)
QueueOwned ==
    /\ pc = "down" \/ job = "startup" => queue = <<>>
    /\ \A i \in DOMAIN queue : Owned(queue[i])
    /\ \A i, j \in DOMAIN queue : queue[i].of = queue[j].of => i = j

\* The attempt in hand.
CallHeld ==
    /\ pc \in {"sealed", "stopping"} =>
         /\ call.of \in ReservedIds
         /\ call.pop => queue # <<>> /\ Head(queue).of = call.of
    /\ pc = "sealed" =>
         /\ ~ call.pop => ~ Queued(call.of)
         /\ call.as = "durable" => seg[call.of] # "none" /\ call.of \in Pending
         /\ call.as = "abandoned" => seg[call.of] = "gap" /\ GapOnly(call.of)
         /\ call.pop /\ call.stop => call.as = "abandoned" /\ Head(queue).kind = "evidence"
    /\ pc = "stopping" /\ call.pop => call.of \notin Pending
    /\ pc = "down" => call = NoCall /\ job = "none"

SInv ==
    /\ FilesTyped /\ MemoryTyped /\ Ordinals /\ FilesFit
    /\ GrantsHeld /\ IoOnRecord /\ QueueOwned /\ CallHeld

USE SupervisorConstants
USE DEF Types, Settling, Kinds, Ids

-----------------------------------------------------------------------------
(* Numbers and sequences.                                                    *)

\* A nonempty set of naturals has a least element.
LEMMA NatMin ==
    ASSUME NEW S \in SUBSET Nat, S # {}
    PROVE  \E x \in S : \A y \in S : x <= y
<1> DEFINE R == OpToRel(<, Nat)
<1>1. IsWellFoundedOn(R, Nat) BY NatLessThanWellFounded
<1>2. \A x, y \in Nat : y < x => <<y, x>> \in R BY DEF OpToRel
<1> HIDE DEF R
<1>3. PICK x \in S : \A y \in S : ~(<<y, x>> \in R) BY <1>1, WFMin
<1>4. x \in Nat /\ \A y \in S : y \in Nat OBVIOUS
<1>5. ASSUME NEW y \in S PROVE x <= y
  <2>1. <<y, x>> \notin R BY <1>3
  <2>2. ~(y < x) BY <1>2, <1>4, <2>1, Zenon
  <2>3. QED BY <1>4, <2>2
<1>6. QED BY <1>5

LEMMA MinIn ==
    ASSUME NEW S \in SUBSET Nat, S # {}
    PROVE  Min(S) \in S /\ \A y \in S : Min(S) <= y
BY NatMin DEF Min

\* A bounded one has a greatest.
LEMMA MaxIn ==
    ASSUME NEW n \in Nat, NEW S \in SUBSET (1 .. n), S # {}
    PROVE  Max(S) \in S /\ \A y \in S : y <= Max(S)
<1> DEFINE B == {m \in Nat : \A y \in S : y <= m}
<1>1. n \in B /\ B \in SUBSET Nat OBVIOUS
<1>2. PICK m \in B : \A b \in B : m <= b BY <1>1, NatMin
<1>3. m \in Nat /\ \A y \in S : y <= m BY <1>2
<1>4. m \in S
  <2> SUFFICES ASSUME m \notin S PROVE FALSE OBVIOUS
  <2>1. \A y \in S : y \in 1 .. n /\ y <= m - 1 BY <1>3
  <2>2. PICK y \in S : TRUE OBVIOUS
  <2>5. y \in 1 .. n /\ y <= m - 1 BY <2>1
  <2>6. m - 1 \in Nat BY <1>3, <2>5
  <2>3. m - 1 \in B BY <2>1, <2>6
  <2>4. QED BY <1>2, <1>3, <2>3
<1>5. \E x \in S : \A y \in S : x >= y BY <1>3, <1>4
<1>6. Max(S) \in S /\ \A y \in S : Max(S) >= y BY <1>5 DEF Max
<1>7. QED BY <1>6

\* The greatest of a set that has one.
LEMMA MaxIs ==
    ASSUME NEW S \in SUBSET Nat, NEW m \in S, \A y \in S : y <= m
    PROVE  Max(S) = m
<1>1. \E x \in S : \A y \in S : x >= y OBVIOUS
<1>2. Max(S) \in S /\ \A y \in S : Max(S) >= y BY <1>1 DEF Max
<1>3. m \in Nat /\ Max(S) \in Nat /\ Max(S) >= m /\ Max(S) <= m BY <1>2
<1>4. QED BY <1>3

LEMMA Rewritten ==
    ASSUME NEW T, NEW j \in Seq(T), NEW e \in T, NEW n \in Nat, n <= Len(j)
    PROVE  LET l == Append(SubSeq(j, 1, n), e)
           IN  /\ l \in Seq(T) /\ Len(l) = n + 1 /\ l[n + 1] = e
               /\ \A i \in 1 .. n : l[i] = j[i]
<1> DEFINE p == SubSeq(j, 1, n)
<1>1. p \in Seq(T) /\ Len(p) = n /\ \A i \in 1 .. n : p[i] = j[i] OBVIOUS
<1> HIDE DEF p
<1>2. QED BY <1>1

-----------------------------------------------------------------------------
(* Counting one record more.                                                 *)

\* The counted records stay and at most one joins them.
Extends ==
    /\ Top' \in {Top, Top + 1}
    /\ \A i \in Counted : journal'[i] = journal[i]
NewSettles(r) ==
    /\ Top' = Top + 1
    /\ journal'[Top + 1].type \in Settling /\ journal'[Top + 1].of = r

SegGrows == \A r \in Ids : seg[r] # "none" => seg'[r] = seg[r]

FilesOK == FilesTyped /\ Ordinals /\ FilesFit

LEMMA TopIs ==
    ASSUME FilesOK
    PROVE  /\ Top \in Nat /\ Top <= Len(journal) /\ Len(journal) \in Nat
           /\ pc # "down" => Top = next - 1
           /\ \A m \in Counted : Fits(m - 1, journal[m]) /\ journal[m] \in Record
BY DEF FilesOK, FilesTyped, Ordinals, FilesFit, Top, Counted

LEMMA TopNext ==
    ASSUME FilesOK'
    PROVE  /\ Top' \in Nat /\ Top' <= Len(journal') /\ Len(journal') \in Nat
           /\ pc' # "down" => Top' = next' - 1
           /\ \A m \in 1 .. Top' : Fits(m - 1, journal[m])' /\ journal'[m] \in Record
<1>1. /\ Top' \in Nat /\ Top' <= Len(journal') /\ Len(journal') \in Nat
      /\ pc' # "down" => Top' = next' - 1
  <2>1. /\ journal' \in Seq(Record) /\ next' \in Nat \ {0}
        /\ pc' # "down" => Len(journal') \in {next' - 1, next'}
    BY DEF FilesOK, FilesTyped, Ordinals
  <2>2. Len(journal') \in Nat BY <2>1
  <2>3. CASE pc' = "down"
    <3>1. Top' = Len(journal') BY <2>3 DEF Top
    <3>2. QED BY <2>2, <2>3, <3>1
  <2>4. CASE pc' # "down"
    <3>1. Top' = next' - 1 BY <2>4 DEF Top
    <3>2. next' \in Nat /\ next' # 0 /\ Len(journal') \in {next' - 1, next'} BY <2>1, <2>4
    <3>3. \A n, l \in Nat : n # 0 /\ l \in {n - 1, n} => n - 1 \in Nat /\ n - 1 <= l OBVIOUS
    <3>4. QED BY <2>2, <3>1, <3>2, <3>3
  <2>5. QED BY <2>3, <2>4
<1>2. ASSUME NEW m \in 1 .. Top' PROVE Fits(m - 1, journal[m])' /\ journal'[m] \in Record
  <2>1. m \in 1 .. Len(journal') BY <1>1
  <2>2. Fits(m - 1, journal[m])' BY <2>1 DEF FilesOK, FilesFit
  <2>3. journal'[m] \in Record BY <2>1 DEF FilesOK, FilesTyped
  <2>4. QED BY <2>2, <2>3
<1>3. QED BY <1>1, <1>2

LEMMA ReservedFits ==
    ASSUME FilesOK, NEW r \in ReservedIds
    PROVE  /\ r \in Counted /\ r \in Ids /\ journal[r] \in Record /\ r \in Nat
           /\ journal[r].att \in 1 .. r /\ Newest(r - 1, journal[r])
BY TopIs DEF ReservedIds, Counted, Fits

LEMMA SettlesFits ==
    ASSUME FilesOK, NEW i \in Counted, NEW r, Settles(i, r)
    PROVE  /\ r \in 1 .. i - 1 /\ r \in ReservedIds /\ r \in Ids
           /\ FirstOutcome(i - 1, journal[i]) /\ Backed(journal[i])
<1>1. Fits(i - 1, journal[i]) /\ i \in Nat /\ i <= Top BY TopIs DEF Counted
<1>2. journal[i].type \in Settling /\ journal[i].of = r BY DEF Settles
<1>3. r \in 1 .. i - 1 /\ journal[r].type = "reserved" BY <1>1, <1>2 DEF Fits
<1>4. r \in ReservedIds BY <1>1, <1>3, TopIs DEF ReservedIds, Counted
<1>5. QED BY <1>1, <1>2, <1>3, <1>4, ReservedFits DEF Fits

\* What counting one more record does to an attempt.
LEMMA ExtendsKeeps ==
    ASSUME FilesOK, FilesOK', Extends, NEW r \in ReservedIds
    PROVE  /\ r \in ReservedIds'
           /\ journal'[r] = journal[r]
           /\ r \in Pending' <=> r \in Pending /\ ~NewSettles(r)
           /\ IoRecorded(r) => IoRecorded(r)'
           /\ GapOnly(r) /\ (NewSettles(r) => journal'[Top + 1].type = "abandoned") => GapOnly(r)'
<1>1. Top \in Nat /\ Top' \in Nat /\ r \in Counted /\ r <= Top
  BY TopIs, TopNext, ReservedFits DEF Counted
<1>2. Counted' = Counted \/ (Top' = Top + 1 /\ Counted' = Counted \cup {Top + 1})
  BY <1>1 DEF Extends, Counted
<1>3. \A i \in Counted : Settles(i, r)' <=> Settles(i, r) BY DEF Extends, Settles
<1>4. Top' = Top + 1 => (NewSettles(r) <=> /\ journal'[Top + 1].type \in Settling
                                            /\ journal'[Top + 1].of = r)
  BY DEF NewSettles
<1>5. r \in ReservedIds' /\ journal'[r] = journal[r]
  BY <1>1, <1>2 DEF Extends, ReservedIds
<1>6. r \in Pending' <=> r \in Pending /\ ~NewSettles(r)
  <2>1. CASE Counted' = Counted /\ Top' = Top
    BY <1>1, <1>3, <1>5, <2>1 DEF Pending, NewSettles
  <2>2. CASE Top' = Top + 1 /\ Counted' = Counted \cup {Top + 1}
    BY <1>3, <1>4, <1>5, <2>2 DEF Pending, Settles
  <2>3. QED BY <1>1, <1>2, <2>1, <2>2 DEF Extends, Counted
<1>7. IoRecorded(r) => IoRecorded(r)' BY <1>2 DEF Extends, IoRecorded
<1>8. GapOnly(r) /\ (NewSettles(r) => journal'[Top + 1].type = "abandoned") => GapOnly(r)'
  BY <1>2, <1>4 DEF GapOnly, Extends, Settles
<1>9. QED BY <1>5, <1>6, <1>7, <1>8

-----------------------------------------------------------------------------
(* What a step does to the files.                                            *)

LEMMA FitsKept ==
    ASSUME NEW n \in Nat, NEW ev \in Record, Fits(n, ev), SegGrows,
           \A i \in 1 .. n : journal'[i] = journal[i],
           ev.type = "cancelled" => ev.of \notin io'
    PROVE  Fits(n, ev)'
<1>1. Newest(n, ev) => Newest(n, ev)' BY DEF Newest
<1>2. FirstOutcome(n, ev) => FirstOutcome(n, ev)' BY DEF FirstOutcome, Settles
<1>3. ev.of \in Ids /\ Backed(ev) => Backed(ev)' BY DEF Backed, SegGrows
<1>4. QED BY <1>1, <1>2, <1>3 DEF Fits

LEMMA FilesFitKept ==
    ASSUME FilesOK, NEW n \in Nat, n <= Len(journal), SegGrows,
           \A i \in 1 .. n : journal'[i] = journal[i],
           \A m \in 1 .. n : journal[m].type = "cancelled" => journal[m].of \notin io'
    PROVE  \A m \in 1 .. n : Fits(m - 1, journal[m])'
<1> SUFFICES ASSUME NEW m \in 1 .. n PROVE Fits(m - 1, journal[m])' OBVIOUS
<1> DEFINE e == journal[m]
<1>1. m - 1 \in Nat /\ m \in 1 .. Len(journal) /\ Len(journal) \in Nat
  BY DEF FilesOK, FilesTyped
<1>2. e \in Record /\ Fits(m - 1, e) BY <1>1 DEF FilesOK, FilesTyped, FilesFit
<1>3. journal'[m] = e BY <1>1
<1>4. \A i \in 1 .. m - 1 : journal'[i] = journal[i] BY <1>1
<1> HIDE DEF e
<1>5. ASSUME NEW f, f = e PROVE Fits(m - 1, f)'
  BY <1>1, <1>2, <1>4, <1>5, FitsKept DEF e
<1>6. QED BY <1>3, <1>5

LEMMA QuietFiles ==
    ASSUME FilesOK, pc # "down", UNCHANGED <<journal, pending, next, io>>, SegGrows,
           seg' \in [Ids -> Kinds]
    PROVE  FilesOK' /\ Extends /\ (pc' # "down" => Top' = Top)
<1>1. journal \in Seq(Record) /\ Len(journal) \in Nat BY DEF FilesOK, FilesTyped
<1>2. FilesTyped' BY DEF FilesOK, FilesTyped
<1>3. Ordinals' BY DEF FilesOK, Ordinals
<1>4. FilesFit'
  <2>1. \A m \in 1 .. Len(journal) : Fits(m - 1, journal[m])'
    <3>1. \A m \in 1 .. Len(journal) : journal[m].type = "cancelled" => journal[m].of \notin io'
      BY DEF FilesOK, FilesFit, Fits, Backed
    <3>2. QED BY <1>1, <3>1, FilesFitKept
  <2>2. ASSUME pending # NoFile PROVE Fits(pending.at - 1, pending.ev)'
    <3>1. /\ pending.at - 1 \in Nat /\ pending.ev \in Record
          /\ Fits(pending.at - 1, pending.ev)
      BY <2>2 DEF FilesOK, FilesTyped, PendingFile, Ordinals, FilesFit
    <3>2. pending.ev.type = "cancelled" => pending.ev.of \notin io'
      BY <3>1 DEF Fits, Backed
    <3>3. QED BY <3>1, <3>2, FitsKept
  <2>3. QED BY <2>1, <2>2 DEF FilesFit
<1>5. Top = next - 1 /\ Top \in Nat /\ Len(journal) \in {next - 1, next}
  BY TopIs DEF FilesOK, Ordinals
<1>6. Top' = IF pc' = "down" THEN Len(journal) ELSE next - 1 BY DEF Top
<1>7. QED BY <1>2, <1>3, <1>4, <1>5, <1>6 DEF FilesOK, Extends

\* journal' is the counted prefix with ev behind it.
LEMMA PrefixPlus ==
    ASSUME FilesOK, pc # "down", NEW ev \in Record, journal' = Append(Prefix, ev)
    PROVE  /\ next \in Nat /\ next # 0 /\ next - 1 \in Nat /\ Top = next - 1
           /\ journal' \in Seq(Record) /\ Len(journal') = next /\ journal'[next] = ev
           /\ \A i \in 1 .. next - 1 : journal'[i] = journal[i]
           /\ next - 1 <= Len(journal)
<1>1. /\ next \in Nat /\ next # 0 /\ next - 1 \in Nat /\ journal \in Seq(Record)
      /\ Len(journal) \in {next - 1, next}
  BY DEF FilesOK, FilesTyped, Ordinals
<1>2. next - 1 <= Len(journal) /\ Top = next - 1 BY <1>1, TopIs
<1>3. QED BY <1>1, <1>2, Rewritten DEF Prefix

LEMMA PrefixPlusFits ==
    ASSUME FilesOK, pc # "down", NEW ev \in Record, Fits(next - 1, ev),
           journal' = Append(Prefix, ev), UNCHANGED seg,
           \A r \in io' : r \in io \/ r \in Pending,
           ev.type = "cancelled" => UNCHANGED io
    PROVE  \A m \in 1 .. Len(journal') : Fits(m - 1, journal[m])'
<1> USE PrefixPlus
<1>1. SegGrows BY DEF SegGrows
<1>2. \A m \in 1 .. next - 1 : Fits(m - 1, journal[m])'
  <2>1. ASSUME NEW m \in 1 .. next - 1, journal[m].type = "cancelled"
        PROVE  journal[m].of \notin io'
    <3>1. m \in Counted /\ Settles(m, journal[m].of) BY <2>1 DEF Counted, Settles
    <3>2. journal[m].of \notin Pending BY <3>1 DEF Pending
    <3>3. journal[m].of \notin io BY <2>1, <3>1, SettlesFits DEF Backed
    <3>4. QED BY <3>2, <3>3
  <2>2. QED BY <1>1, <2>1, FilesFitKept
<1>3. ASSUME NEW m \in 1 .. next, m = next PROVE Fits(m - 1, journal[m])'
  <2>1. ev.type = "cancelled" => ev.of \notin io' BY DEF Fits, Backed
  <2>2. m - 1 \in Nat /\ \A i \in 1 .. m - 1 : journal'[i] = journal[i] BY <1>3
  <2>3. ASSUME NEW f, f = ev PROVE Fits(m - 1, f)'
    BY <1>1, <1>3, <2>1, <2>2, <2>3, FitsKept
  <2>4. QED BY <1>3, <2>3
<1>4. ASSUME NEW m \in 1 .. Len(journal') PROVE Fits(m - 1, journal[m])'
  BY <1>2, <1>3
<1>5. QED BY <1>4

LEMMA AppendOkFiles ==
    ASSUME FilesOK, pc # "down", NEW ev \in Record, Fits(next - 1, ev), AppendOk(ev),
           UNCHANGED seg, \A r \in io' : r \in io \/ r \in Pending,
           ev.type = "cancelled" => UNCHANGED io
    PROVE  /\ FilesOK' /\ Extends /\ Top' = Top + 1 /\ journal'[Top + 1] = ev
           /\ Top + 1 = next
<1>1. journal' = Append(Prefix, ev) /\ pending' = NoFile /\ next' = next + 1 BY DEF AppendOk
<1>2. /\ next \in Nat /\ next # 0 /\ Top = next - 1
      /\ journal' \in Seq(Record) /\ Len(journal') = next /\ journal'[next] = ev
      /\ \A i \in 1 .. next - 1 : journal'[i] = journal[i]
  BY <1>1, PrefixPlus
<1>3. FilesTyped' BY <1>1, <1>2 DEF FilesOK, FilesTyped, AppendOk
<1>4. Ordinals' BY <1>1, <1>2 DEF Ordinals
<1>5. FilesFit' BY <1>1, PrefixPlusFits DEF FilesFit
<1>6. Top' = next BY <1>1, <1>2 DEF Top
<1>7. QED BY <1>2, <1>3, <1>4, <1>5, <1>6 DEF FilesOK, Extends, Counted

LEMMA AppendErrFiles ==
    ASSUME FilesOK, pc # "down", NEW ev \in Record, Fits(next - 1, ev), AppendErr(ev),
           UNCHANGED <<seg, io>>
    PROVE  FilesOK' /\ Extends /\ (pc' # "down" => Top' = Top)
<1>1. SegGrows /\ seg' \in [Ids -> Kinds] /\ next' = next
  BY DEF SegGrows, FilesOK, FilesTyped, AppendErr
<1>2. CASE UNCHANGED <<journal, pending>> BY <1>1, <1>2, QuietFiles
<1>3. CASE /\ UNCHANGED journal /\ pending = NoFile
           /\ \E torn \in BOOLEAN : pending' = [at |-> next, torn |-> torn, ev |-> ev]
  <2>1. PICK torn \in BOOLEAN : pending' = [at |-> next, torn |-> torn, ev |-> ev] BY <1>3
  <2>2. /\ journal \in Seq(Record) /\ Len(journal) \in Nat /\ next \in Nat /\ next # 0
        /\ Len(journal) \in {next - 1, next} /\ next - 1 \in Nat
    BY DEF FilesOK, FilesTyped, Ordinals
  <2>3. FilesTyped' BY <1>1, <1>3, <2>1, <2>2 DEF FilesOK, FilesTyped, PendingFile
  <2>4. pending'.at = next /\ pending'.ev = ev BY <2>1
  <2>5. Ordinals' BY <1>1, <1>3, <2>2, <2>4 DEF Ordinals
  <2>6. \A m \in 1 .. Len(journal) : Fits(m - 1, journal[m])'
    <3>1. \A m \in 1 .. Len(journal) : journal[m].type = "cancelled" => journal[m].of \notin io'
      BY DEF FilesOK, FilesFit, Fits, Backed
    <3>2. QED BY <1>1, <1>3, <2>2, <3>1, FilesFitKept
  <2>7. Fits(pending.at - 1, pending.ev)'
    <3>1. ev.type = "cancelled" => ev.of \notin io' BY DEF Fits, Backed
    <3>2. ASSUME NEW f, f = ev, NEW n \in Nat, n = next - 1 PROVE Fits(n, f)'
      BY <1>1, <1>3, <3>1, <3>2, FitsKept
    <3>3. QED BY <2>2, <2>4, <3>2
  <2>8. FilesFit' BY <1>3, <2>6, <2>7 DEF FilesFit
  <2>9. Top = next - 1 /\ Top \in Nat BY <2>2, TopIs
  <2>10. Top' = IF pc' = "down" THEN Len(journal) ELSE next - 1 BY <1>1, <1>3 DEF Top
  <2>11. QED BY <1>3, <2>2, <2>3, <2>5, <2>8, <2>9, <2>10 DEF FilesOK, Extends
<1>4. CASE journal' = Append(Prefix, ev) /\ UNCHANGED pending /\ pending = NoFile
  <2>1. /\ next \in Nat /\ next # 0 /\ Top = next - 1
        /\ journal' \in Seq(Record) /\ Len(journal') = next
        /\ \A i \in 1 .. next - 1 : journal'[i] = journal[i]
    BY <1>4, PrefixPlus
  <2>2. FilesTyped' BY <1>1, <1>4, <2>1 DEF FilesOK, FilesTyped
  <2>3. Ordinals' BY <1>1, <1>4, <2>1 DEF Ordinals
  <2>4. FilesFit' BY <1>4, PrefixPlusFits DEF FilesFit
  <2>5. Top' = IF pc' = "down" THEN next ELSE next - 1 BY <1>1, <2>1 DEF Top
  <2>6. QED BY <2>1, <2>2, <2>3, <2>4, <2>5 DEF FilesOK, Extends, Counted
<1>5. QED BY <1>2, <1>3, <1>4 DEF AppendErr

-----------------------------------------------------------------------------
(* What a step does to the memory and to what callers hold.                  *)

LEMMA SInvFiles == SInv <=> /\ FilesOK /\ MemoryTyped /\ GrantsHeld /\ IoOnRecord
                            /\ QueueOwned /\ CallHeld
BY DEF SInv, FilesOK

LEMMA GrantsKept ==
    ASSUME SInv, FilesOK', Extends,
           \A g \in granted' :
             \/ g \in granted
             \/ /\ g[1] = Top + 1 /\ Top' = Top + 1 /\ journal'[Top + 1] = g[2]
                /\ g[2].type = "reserved"
    PROVE  GrantsHeld'
<1>1. Top \in Nat BY TopIs, SInvFiles
<1>2. \A i \in Counted : i \in Counted' /\ journal'[i] = journal[i]
  BY <1>1 DEF Extends, Counted
<1>3. Top' = Top + 1 => Top + 1 \in Counted' BY <1>1 DEF Counted
<1>4. QED BY <1>2, <1>3 DEF SInv, GrantsHeld

LEMMA IoKept ==
    ASSUME SInv, FilesOK', Extends, UNCHANGED io,
           \A r \in Ids : seg'[r] = "evidence" => seg[r] = "evidence" \/ r \in io
    PROVE  IoOnRecord'
<1>1. FilesOK BY SInvFiles
<1>2. QED BY <1>1, ExtendsKeeps DEF SInv, IoOnRecord

LEMMA OwnedKept ==
    ASSUME SInv, FilesOK', Extends, SegGrows, io \subseteq io', NEW q \in Item, Owned(q),
           NewSettles(q.of) => /\ journal'[Top + 1].type = "abandoned" /\ GapOnly(q.of)
                               /\ q.kind = "evidence" /\ seg[q.of] = "gap"
    PROVE  Owned(q)'
<1>1. q.of \in ReservedIds /\ FilesOK /\ q.of \in Ids
  BY SInvFiles DEF Owned, SInv, IoOnRecord, Item
<1>2. /\ q.of \in Pending' <=> q.of \in Pending /\ ~NewSettles(q.of)
      /\ GapOnly(q.of) /\ (NewSettles(q.of) => journal'[Top + 1].type = "abandoned")
           => GapOnly(q.of)'
  BY <1>1, ExtendsKeeps
<1>3. seg[q.of] = "gap" => seg'[q.of] = "gap" BY <1>1 DEF SegGrows
<1>4. QED BY <1>2, <1>3 DEF Owned

\* A call is over: Return, Fail, or a step of shutdown.
Ends ==
    /\ pc' \in {"idle", "down"}
    /\ pc' = "down" => job = "startup" /\ job' = "none" /\ call' = NoCall
    /\ job' \in {"none", "startup", "shutdown"} /\ (job' = "startup" => job = "startup")
    /\ call' \in {call, NoCall}

LEMMA ReturnEnds == ASSUME SInv, Return \/ Fail PROVE Ends
BY DEF Return, Fail, Ends, SInv, MemoryTyped

LEMMA QueueSame ==
    ASSUME SInv, FilesOK', Extends, SegGrows, io \subseteq io', UNCHANGED queue,
           \A r \in Ids : Queued(r) => ~NewSettles(r)
    PROVE  \A i \in DOMAIN queue : Owned(queue[i])'
<1> SUFFICES ASSUME NEW i \in DOMAIN queue PROVE Owned(queue[i])' OBVIOUS
<1> DEFINE q == queue[i]
<1>1. q \in Item /\ Owned(q) /\ Queued(q.of) /\ q.of \in Ids
  <2>1. q \in Item BY DEF SInv, MemoryTyped
  <2>2. QED BY <2>1 DEF SInv, QueueOwned, Queued, Item
<1>2. queue'[i] = q OBVIOUS
<1> HIDE DEF q
<1>3. ASSUME NEW p \in Item, p = q PROVE Owned(p)'
  BY <1>1, <1>3, OwnedKept
<1>4. QED BY <1>1, <1>2, <1>3

LEMMA EndKeeps ==
    ASSUME SInv, pc # "down", FilesOK', Extends, SegGrows, io \subseteq io',
           IoOnRecord', GrantsHeld', granted' \subseteq Ids \X Record, io' \subseteq Ids,
           UNCHANGED queue, \A r \in Ids : Queued(r) => ~NewSettles(r), Ends
    PROVE  SInv'
<1>1. \A i \in DOMAIN queue : Owned(queue[i])' BY QueueSame
<1>2. QueueOwned' BY <1>1 DEF SInv, QueueOwned, Ends
<1>3. NoCall \in CallType BY DEF NoCall, CallType
<1>4. MemoryTyped' BY <1>3 DEF SInv, MemoryTyped, Ends
<1>5. CallHeld' BY DEF CallHeld, Ends
<1>6. QED BY <1>2, <1>4, <1>5 DEF SInv, FilesOK

-----------------------------------------------------------------------------
(* Which records fit behind the counted ones.                                *)

LEMMA UpFacts ==
    ASSUME SInv, pc # "down"
    PROVE  /\ FilesOK /\ next \in Nat /\ next # 0 /\ Top = next - 1 /\ Top \in Nat
           /\ Counted = 1 .. next - 1
BY TopIs, SInvFiles DEF FilesOK, FilesTyped, Counted

LEMMA PlainFits ==
    ASSUME SInv, pc # "down", NEW ev \in Record, ev.of \in 0 .. next - 1,
           ev.type \notin Settling \cup {"reserved"}
    PROVE  Fits(next - 1, ev)
BY DEF Fits

LEMMA OutcomeFits ==
    ASSUME SInv, pc # "down", NEW type \in Settling, NEW r \in ReservedIds,
           Backed(About(type, r)), r \in Pending \/ (GapOnly(r) /\ type = "abandoned")
    PROVE  About(type, r) \in Record /\ Fits(next - 1, About(type, r))
<1> DEFINE ev == About(type, r)
<1>1. r \in Nat /\ r \in Ids /\ r \in 1 .. next - 1 /\ journal[r].type = "reserved"
  BY UpFacts, ReservedFits DEF ReservedIds
<1>2. ev \in Record /\ ev.of = r /\ ev.type = type BY <1>1 DEF About, Ev, Record, NoKey
<1>3. FirstOutcome(next - 1, ev)
  BY <1>2, UpFacts DEF FirstOutcome, Pending, GapOnly
<1> HIDE DEF ev
<1>4. Fits(next - 1, ev) BY <1>1, <1>2, <1>3, UpFacts DEF Fits, ev
<1>5. QED BY <1>2, <1>4 DEF ev

LEMMA LatestIs ==
    ASSUME SInv, pc # "down", NEW k, OfKey(k) # {}
    PROVE  /\ Latest(k) \in OfKey(k) /\ Latest(k) \in ReservedIds /\ Gen(k) \in Nat
           /\ journal[Latest(k)].key = k
           /\ \A r \in OfKey(k) : journal[r].gen <= Gen(k)
<1>1. OfKey(k) \in SUBSET (1 .. Top) /\ Top \in Nat BY UpFacts DEF OfKey, ReservedIds, Counted
<1>2. Latest(k) \in OfKey(k) /\ \A r \in OfKey(k) : r <= Latest(k)
  BY <1>1, MaxIn DEF Latest
<1>3. Latest(k) \in ReservedIds /\ journal[Latest(k)].key = k BY <1>2 DEF OfKey
<1>4. /\ journal[Latest(k)] \in Record /\ Newest(Latest(k) - 1, journal[Latest(k)])
      /\ Latest(k) \in Nat
  BY <1>3, UpFacts, ReservedFits
<1>5. Gen(k) \in Nat BY <1>4 DEF Gen, Record
<1>6. ASSUME NEW r \in OfKey(k) PROVE journal[r].gen <= Gen(k)
  <2>1. CASE r = Latest(k) BY <1>5, <2>1 DEF Gen
  <2>2. CASE r # Latest(k)
    <3>1. r \in 1 .. Latest(k) - 1 BY <1>1, <1>2, <1>4, <2>2
    <3>2. journal[r].type = "reserved" /\ journal[r].key = k BY DEF OfKey, ReservedIds
    <3>3. QED BY <1>3, <1>4, <3>1, <3>2 DEF Newest, Gen
  <2>3. QED BY <2>1, <2>2
<1>7. QED BY <1>2, <1>3, <1>5, <1>6

LEMMA NextAttIs ==
    ASSUME SInv, pc # "down", NEW k, OfKey(k) # {}
    PROVE  NextAtt(k) \in 1 .. next /\ \A r \in OfKey(k) : journal[r].att < NextAtt(k)
<1> DEFINE S == {journal[r].att : r \in OfKey(k)}
<1>1. \A r \in OfKey(k) : journal[r].att \in 1 .. Top
  <2> TAKE r \in OfKey(k)
  <2>1. r \in ReservedIds BY DEF OfKey
  <2>2. r \in Nat /\ r <= Top /\ journal[r].att \in 1 .. r
    BY <2>1, UpFacts, ReservedFits DEF Counted
  <2>3. QED BY <2>2, UpFacts
<1>2. S \in SUBSET (1 .. Top) /\ S # {} BY <1>1
<1>3. Max(S) \in S /\ \A y \in S : y <= Max(S) BY <1>2, UpFacts, MaxIn
<1>4. Max(S) \in 1 .. Top /\ NextAtt(k) = 1 + Max(S) BY <1>2, <1>3 DEF NextAtt
<1>5. ASSUME NEW r \in OfKey(k) PROVE journal[r].att < NextAtt(k)
  <2>1. journal[r].att \in S OBVIOUS
  <2>2. journal[r].att <= Max(S) BY <1>3, <2>1
  <2>3. QED BY <1>1, <1>4, <2>2
<1>6. QED BY <1>4, <1>5, UpFacts

LEMMA ReservedEvFits ==
    ASSUME SInv, pc # "down", MayReserve, NEW k \in Key \cup {NoKey}, NEW gen \in Nat, NEW att \in 1 .. next,
           \A r \in OfKey(k) : /\ journal[r].gen <= gen
                               /\ journal[r].gen = gen => journal[r].att < att
    PROVE  LET ev == Ev("reserved", 0, k, gen, att) IN
           ev \in Record /\ ev.type = "reserved" /\ Fits(next - 1, ev)
<1> DEFINE ev == Ev("reserved", 0, k, gen, att)
<1>1. /\ ev \in Record /\ ev.type = "reserved" /\ ev.of = 0 /\ ev.key = k /\ ev.gen = gen
      /\ ev.att = att
  BY UpFacts DEF Ev, Record
<1>2. \A m \in 1 .. next - 1 : journal[m].type = "reserved" /\ journal[m].key = k => m \in OfKey(k)
  BY UpFacts DEF OfKey, ReservedIds
<1> HIDE DEF ev
<1>3. Newest(next - 1, ev) BY <1>1, <1>2 DEF Newest
<1>4. next \in Ids BY DEF MayReserve
<1>5. Fits(next - 1, ev) BY <1>1, <1>3, <1>4, UpFacts DEF Fits
<1>6. QED BY <1>1, <1>5 DEF ev

LEMMA HeldIs ==
    ASSUME SInv, NEW r \in GrantedIds
    PROVE  r \in ReservedIds /\ r \in Ids /\ r \in Counted /\ Held(r)[2] = journal[r]
           /\ journal[r] \in Record
<1>1. Held(r) \in granted /\ Held(r)[1] = r BY DEF Held, GrantedIds
<1>2. r \in Counted /\ journal[r] = Held(r)[2] /\ Held(r)[2].type = "reserved"
  BY <1>1 DEF SInv, GrantsHeld
<1>3. r \in ReservedIds BY <1>2 DEF ReservedIds
<1>4. QED BY <1>2, <1>3, SInvFiles, ReservedFits

-----------------------------------------------------------------------------
(* The calls that are one journal append.                                    *)

LEMMA GrantKeeps ==
    ASSUME SInv, pc # "down", NEW ev \in Record, Fits(next - 1, ev), Ends,
           UNCHANGED <<seg, queue, io>>, ev.type \in Settling /\ AppendOk(ev) => ~Queued(ev.of),
           \/ AppendErr(ev) /\ UNCHANGED granted
           \/ AppendOk(ev) /\ UNCHANGED granted
           \/ /\ AppendOk(ev) /\ granted' = granted \cup {<<next, ev>>}
              /\ ev.type = "reserved" /\ next \in Ids
    PROVE  SInv' /\ Extends
<1> USE UpFacts
<1>1. SegGrows /\ io \subseteq io' BY DEF SegGrows
<1>2. FilesOK' /\ Extends
  BY AppendOkFiles, AppendErrFiles
<1>3. GrantsHeld' /\ granted' \subseteq Ids \X Record
  <2>1. granted \subseteq Ids \X Record BY DEF SInv, MemoryTyped
  <2>2. CASE UNCHANGED granted BY <1>2, <2>1, <2>2, GrantsKept
  <2>3. CASE /\ AppendOk(ev) /\ granted' = granted \cup {<<next, ev>>}
             /\ ev.type = "reserved" /\ next \in Ids
    <3>1. Top' = Top + 1 /\ journal'[Top + 1] = ev /\ Top + 1 = next BY <2>3, AppendOkFiles
    <3>2. QED BY <1>2, <2>1, <2>3, <3>1, GrantsKept
  <2>4. QED BY <2>2, <2>3
<1>4. IoOnRecord' BY <1>2, IoKept
<1>5. io' \subseteq Ids BY DEF SInv, MemoryTyped
<1>6. ASSUME NEW r \in Ids, Queued(r), NewSettles(r) PROVE FALSE
  <2>1. CASE AppendOk(ev)
    BY <1>6, <2>1, AppendOkFiles DEF NewSettles
  <2>2. CASE AppendErr(ev)
    <3>1. pc' # "down" => Top' = Top BY <2>2, AppendErrFiles
    <3>2. pc' = "down" BY <1>6, <3>1 DEF NewSettles
    <3>3. queue = <<>> BY <3>2 DEF Ends, SInv, QueueOwned
    <3>4. QED BY <1>6, <3>3 DEF Queued
  <2>3. QED BY <2>1, <2>2
<1>7. QED BY <1>1, <1>2, <1>3, <1>4, <1>5, <1>6, EndKeeps

LEMMA AppendCallKeeps ==
    ASSUME SInv, pc # "down", NEW ev \in Record, Fits(next - 1, ev), AppendCall(ev),
           UNCHANGED ghosts, ev.type \in Settling => ~Queued(ev.of)
    PROVE  SInv' /\ Extends
<1>1. Ends BY ReturnEnds DEF AppendCall, Reply
<1>2. QED BY <1>1, GrantKeeps DEF AppendCall, ghosts

\* Reserving.
LEMMA GrantStep ==
    ASSUME SInv, Free, MayReserve, NEW ev \in Record, ev.type = "reserved", Fits(next - 1, ev),
           Grant(ev)
    PROVE  SInv' /\ Extends
<1>1. pc # "down" /\ next \in Ids BY DEF Free, MayReserve
<1>2. Ends BY ReturnEnds DEF Grant
<1>3. QED BY <1>1, <1>2, GrantKeeps DEF Grant

LEMMA ReserveKeeps ==
    ASSUME SInv, NEW k \in Key, NEW fresh \in BOOLEAN, Reserve(k, fresh)
    PROVE  SInv' /\ Extends
<1>1. pc # "down" /\ Free /\ MayReserve BY DEF Reserve, Free
<1> USE UpFacts
<1>2. CASE OfKey(k) = {} /\ Grant(Ev("reserved", 0, k, 1, 1))
  BY <1>1, <1>2, ReservedEvFits, GrantStep
<1>3. CASE OfKey(k) # {} /\ Grant(Ev("reserved", 0, k, Gen(k) + 1, 1))
  <2>1. Gen(k) \in Nat /\ \A r \in OfKey(k) : journal[r].gen <= Gen(k) BY <1>1, <1>3, LatestIs
  <2>2. \A r \in OfKey(k) : journal[r].gen \in Nat
    BY <1>1, ReservedFits DEF OfKey, Record
  <2>3. QED BY <1>1, <1>3, <2>1, <2>2, ReservedEvFits, GrantStep
<1>4. CASE OfKey(k) # {} /\ Grant(Ev("reserved", 0, k, Gen(k), NextAtt(k)))
  BY <1>1, <1>4, LatestIs, NextAttIs, ReservedEvFits, GrantStep
<1>5. QED BY <1>2, <1>3, <1>4 DEF Reserve

LEMMA ReserveRetryKeeps ==
    ASSUME SInv, NEW r \in Ids, ReserveRetry(r)
    PROVE  SInv' /\ Extends
<1>1. pc # "down" /\ Free /\ MayReserve /\ r \in GrantedIds BY DEF ReserveRetry, Free
<1> DEFINE k == Held(r)[2].key
<1>2. k \in Key \cup {NoKey} BY <1>1, HeldIs DEF Record
<1>3. OfKey(k) # {} /\ Grant(Ev("reserved", 0, k, Gen(k), NextAtt(k))) BY DEF ReserveRetry
<1> HIDE DEF k
<1>4. QED BY <1>1, <1>2, <1>3, LatestIs, NextAttIs, ReservedEvFits, GrantStep

\* The records that settle and reserve nothing.
LEMMA PlainKeeps ==
    ASSUME SInv, pc # "down", NEW ev \in Record, ev.of \in 0 .. next - 1,
           ev.type \notin Settling \cup {"reserved"}, AppendOk(ev) \/ AppendErr(ev),
           Ends, UNCHANGED <<seg, queue, ghosts>>
    PROVE  SInv' /\ Extends
BY PlainFits, GrantKeeps DEF ghosts

LEMMA PlainCallKeeps ==
    ASSUME SInv, pc # "down", NEW ev \in Record, ev.of \in 0 .. next - 1,
           ev.type \notin Settling \cup {"reserved"}, AppendCall(ev), UNCHANGED ghosts
    PROVE  SInv' /\ Extends
BY PlainFits, AppendCallKeeps

LEMMA AboutIs ==
    ASSUME NEW type \in Types, NEW r \in Nat
    PROVE  About(type, r) \in Record /\ About(type, r).of = r /\ About(type, r).type = type
BY DEF About, Ev, Record

LEMMA DecideRetryKeeps ==
    ASSUME SInv, NEW r \in Ids, DecideRetry(r)
    PROVE  SInv' /\ Extends
<1>1. pc # "down" /\ r \in GrantedIds BY DEF DecideRetry, Free
<1>2. PICK n \in {0} \union {a \in {Held(r)[2].att} : a < MaxAttempts} :
          AppendCall(Ev("retry", r, NoKey, 0, IF n = 0 THEN 0 ELSE n + 1))
  BY DEF DecideRetry
<1>3. n \in Nat /\ r \in 0 .. next - 1
  <2>1. Held(r)[2] \in Record /\ r \in 1 .. next - 1 BY <1>1, HeldIs, UpFacts
  <2>2. QED BY <2>1, <1>2, UpFacts, <1>1 DEF Record
<1> DEFINE ev == Ev("retry", r, NoKey, 0, IF n = 0 THEN 0 ELSE n + 1)
<1>4. ev \in Record /\ ev.of = r /\ ev.type = "retry" BY <1>3 DEF Ev, Record
<1>5. AppendCall(ev) /\ UNCHANGED ghosts BY <1>2 DEF DecideRetry
<1> HIDE DEF ev
<1>6. QED BY <1>1, <1>3, <1>4, <1>5, PlainCallKeeps

LEMMA StartIoKeeps ==
    ASSUME SInv, NEW r \in Ids, StartIo(r)
    PROVE  SInv' /\ Extends
<1>1. pc # "down" /\ r \in Pending /\ r \in GrantedIds BY DEF StartIo, Free
<1> DEFINE ev == About("io", r)
<1>2. ev \in Record /\ ev.of = r /\ ev.type = "io" /\ r \in 0 .. next - 1
  BY <1>1, AboutIs, HeldIs, UpFacts
<1>3. Fits(next - 1, ev) BY <1>1, <1>2, PlainFits
<1>4. Ends /\ UNCHANGED <<seg, queue, granted>> BY ReturnEnds DEF StartIo
<1>5. CASE UNCHANGED io
  <2>1. AppendOk(ev) \/ AppendErr(ev) BY DEF StartIo
  <2> HIDE DEF ev
  <2>2. QED BY <1>1, <1>2, <1>4, <1>5, <2>1, PlainKeeps DEF ghosts
<1>6. CASE AppendOk(ev) /\ io' = io \cup {r}
  <2> HIDE DEF ev
  <2>1. FilesOK BY SInvFiles
  <2>2. FilesOK' /\ Extends /\ Top' = Top + 1 /\ journal'[Top + 1] = ev
    BY <1>1, <1>2, <1>3, <1>4, <1>6, <2>1, AppendOkFiles
  <2>3. SegGrows BY <1>4 DEF SegGrows
  <2>4. \A i \in Ids : ~NewSettles(i) BY <1>2, <2>2 DEF NewSettles
  <2>5. GrantsHeld' BY <1>4, <2>2, GrantsKept
  <2>6. IoOnRecord'
    <3>1. Top + 1 \in Counted' BY <2>1, <2>2, TopIs DEF Counted
    <3>2. IoRecorded(r)' BY <1>2, <2>2, <3>1 DEF IoRecorded
    <3>3. r \in ReservedIds BY <1>1, HeldIs
    <3>4. \A s \in io' : s \in ReservedIds' /\ IoRecorded(s)'
      BY <1>6, <2>1, <2>2, <3>2, <3>3, ExtendsKeeps DEF SInv, IoOnRecord
    <3>5. QED BY <1>4, <1>6, <3>4 DEF SInv, IoOnRecord
  <2>7. io' \subseteq Ids /\ granted' \subseteq Ids \X Record
    BY <1>4, <1>6 DEF SInv, MemoryTyped
  <2>8. QED BY <1>1, <1>4, <1>6, <2>2, <2>3, <2>4, <2>5, <2>6, <2>7, EndKeeps
<1>7. QED BY <1>5, <1>6 DEF StartIo

LEMMA CancelBeforeIoKeeps ==
    ASSUME SInv, NEW r \in Ids, CancelBeforeIo(r)
    PROVE  SInv' /\ Extends
<1>1. pc # "down" /\ r \in Pending /\ r \in ReservedIds /\ r \notin io /\ ~Queued(r)
  BY HeldIs DEF CancelBeforeIo, Free
<1>2. About("cancelled", r).of = r /\ About("cancelled", r).type = "cancelled" BY AboutIs
<1>3. About("cancelled", r) \in Record /\ Fits(next - 1, About("cancelled", r))
  BY <1>1, <1>2, OutcomeFits DEF Backed
<1>4. QED BY <1>1, <1>2, <1>3, AppendCallKeeps DEF CancelBeforeIo

LEMMA StopIs ==
    ASSUME NEW f \in Record
    PROVE  LET ev == Ev("stopped", 0, f.key, f.gen, 0)
           IN  ev \in Record /\ ev.of = 0 /\ ev.type = "stopped"
BY DEF Ev, Record

LEMMA StopWithoutGapKeeps ==
    ASSUME SInv, NEW r \in Ids, StopWithoutGap(r)
    PROVE  SInv' /\ Extends
<1>1. pc # "down" /\ r \in GrantedIds BY DEF StopWithoutGap, MayStop, Free
<1> DEFINE ev == Ev("stopped", 0, Held(r)[2].key, Held(r)[2].gen, 0)
<1>2. ev \in Record /\ ev.of = 0 /\ ev.type = "stopped" BY <1>1, HeldIs, StopIs
<1>3. AppendCall(ev) /\ UNCHANGED ghosts BY DEF StopWithoutGap
<1> HIDE DEF ev
<1>4. QED BY <1>1, <1>2, <1>3, UpFacts, PlainCallKeeps

LEMMA StartedKeeps == ASSUME SInv, Started PROVE SInv' /\ Extends
<1>1. pc # "down" BY DEF Started
<1>2. QED BY <1>1, AboutIs, UpFacts, PlainCallKeeps DEF Started

LEMMA CancelUnstartedKeeps == ASSUME SInv, CancelUnstarted PROVE SInv' /\ Extends
<1>1. pc # "down" /\ queue = <<>> /\ Unstarted # {}
  BY DEF CancelUnstarted, Reconciling, SInv, QueueOwned
<1>2. Unstarted \in SUBSET Nat BY DEF Unstarted, Pending, ReservedIds, Counted
<1> DEFINE r == Min(Unstarted)
<1>3. r \in Unstarted BY <1>1, <1>2, MinIn
<1>4. r \in Pending /\ r \in ReservedIds /\ ~IoRecorded(r) BY <1>3 DEF Unstarted, Pending
<1>5. r \notin io BY <1>4 DEF SInv, IoOnRecord
<1>6. r \in Nat BY <1>2, <1>3
<1> HIDE DEF r
<1>7. About("cancelled", r).of = r /\ About("cancelled", r).type = "cancelled" BY <1>6, AboutIs
<1>8. About("cancelled", r) \in Record /\ Fits(next - 1, About("cancelled", r))
  BY <1>1, <1>4, <1>5, <1>7, OutcomeFits DEF Backed
<1>9. ~Queued(r) BY <1>1 DEF Queued
<1>10. QED BY <1>1, <1>7, <1>8, <1>9, AppendCallKeeps DEF CancelUnstarted, r

LEMMA ShutdownKeeps == ASSUME SInv, Shutdown PROVE SInv' /\ Extends
<1>1. pc # "down" /\ pc = "idle" BY DEF Shutdown, Free
<1>2. Ends BY <1>1, ReturnEnds DEF Shutdown, Ends
<1>3. QED BY <1>1, <1>2, AboutIs, UpFacts, PlainKeeps DEF Shutdown

LEMMA ShutdownCompletedKeeps == ASSUME SInv, ShutdownCompleted PROVE SInv' /\ Extends
<1>1. pc # "down" /\ pc = "idle" BY DEF ShutdownCompleted, Reconciling
<1>2. Ends BY <1>1, ReturnEnds DEF ShutdownCompleted, Ends
<1>3. QED BY <1>1, <1>2, AboutIs, UpFacts, PlainKeeps DEF ShutdownCompleted

-----------------------------------------------------------------------------
(* The steps that leave the journal alone.                                   *)

LEMMA QuietSame ==
    ASSUME pc # "down", pc' # "down", UNCHANGED <<journal, next>>
    PROVE  /\ Top' = Top /\ Counted' = Counted /\ ReservedIds' = ReservedIds
           /\ Pending' = Pending /\ \A r : GapOnly(r)' <=> GapOnly(r)
<1>1. Top' = Top /\ Counted' = Counted BY DEF Top, Counted
<1>2. \A i, r : Settles(i, r)' <=> Settles(i, r) BY DEF Settles
<1>3. ReservedIds' = ReservedIds BY <1>1 DEF ReservedIds
<1>4. Pending' = Pending BY <1>1, <1>2, <1>3 DEF Pending
<1>5. QED BY <1>1, <1>2, <1>3, <1>4 DEF GapOnly

\* Only the spool, and whatever the queue owns of it.
SpoolOnly ==
    /\ UNCHANGED <<journal, pending, next, ghosts, queue>>
    /\ SegGrows /\ seg' \in [Ids -> Kinds]
    /\ \A r \in Ids : seg'[r] = "evidence" => seg[r] = "evidence" \/ r \in io

LEMMA QuietParts ==
    ASSUME SInv, pc # "down", SpoolOnly
    PROVE  /\ FilesOK' /\ Extends /\ GrantsHeld' /\ IoOnRecord'
           /\ granted' \subseteq Ids \X Record /\ io' \subseteq Ids
           /\ \A r \in Ids : Queued(r) /\ NewSettles(r) => pc' = "down"
<1>1. FilesOK' /\ Extends /\ (pc' # "down" => Top' = Top)
  BY SInvFiles, QuietFiles DEF SpoolOnly, ghosts
<1>2. GrantsHeld' /\ IoOnRecord' BY <1>1, GrantsKept, IoKept DEF SpoolOnly, ghosts
<1>3. granted' \subseteq Ids \X Record /\ io' \subseteq Ids
  BY DEF SpoolOnly, ghosts, SInv, MemoryTyped
<1>4. \A r \in Ids : Queued(r) /\ NewSettles(r) => pc' = "down"
  <2>1. Top \in Nat BY SInvFiles, TopIs
  <2>2. QED BY <1>1, <2>1 DEF NewSettles
<1>5. QED BY <1>1, <1>2, <1>3, <1>4

LEMMA QuietEnds ==
    ASSUME SInv, pc # "down", SpoolOnly, Ends
    PROVE  SInv' /\ Extends
<1>1. \A r \in Ids : Queued(r) => ~NewSettles(r)
  BY QuietParts DEF Ends, SInv, QueueOwned, Queued
<1>2. QED BY <1>1, QuietParts, EndKeeps DEF SpoolOnly, ghosts

LEMMA QuietCalls ==
    ASSUME SInv, pc # "down", SpoolOnly, UNCHANGED job,
           pc' \in {"sealed", "stopping"}, call' \in CallType, CallHeld'
    PROVE  SInv' /\ Extends
<1>1. \A r \in Ids : Queued(r) => ~NewSettles(r) BY QuietParts
<1>2. \A i \in DOMAIN queue : Owned(queue[i])'
  BY <1>1, QuietParts, QueueSame DEF SpoolOnly, ghosts
<1>3. QueueOwned' BY <1>2 DEF SpoolOnly, SInv, QueueOwned
<1>4. MemoryTyped' BY DEF SpoolOnly, ghosts, SInv, MemoryTyped
<1>5. QED BY <1>3, <1>4, QuietParts DEF SInv, FilesOK

LEMMA SealKeeps ==
    ASSUME SInv, pc # "down", NEW r \in ReservedIds, NEW kind \in {"evidence", "gap"},
           NEW mine \in BOOLEAN, NEW then \in CallType, Seal(r, kind, mine, then),
           kind = "evidence" => r \in io, then.of = r,
           then.pop => queue # <<>> /\ Head(queue).of = r,
           ~then.pop => ~Queued(r),
           then.as = "durable" => r \in Pending \/ (kind = "evidence" /\ seg[r] = "gap"),
           then.as = "abandoned" => kind = "gap" /\ GapOnly(r),
           then.pop /\ then.stop => then.as = "abandoned" /\ Head(queue).kind = "evidence"
    PROVE  SInv' /\ Extends
<1>1. r \in Ids /\ seg \in [Ids -> Kinds]
  BY SInvFiles, ReservedFits DEF FilesOK, FilesTyped
<1>2. UNCHANGED <<journal, pending, next, ghosts, queue>> BY DEF Seal
<1>3. SpoolOnly
  <2>1. CASE PutOk(r, kind) BY <1>1, <1>2, <2>1 DEF PutOk, SpoolOnly, SegGrows
  <2>2. CASE PutErr(r, kind, mine) BY <1>1, <1>2, <2>2 DEF PutErr, SpoolOnly, SegGrows
  <2>3. QED BY <2>1, <2>2 DEF Seal
<1>4. CASE Fail BY <1>3, <1>4, ReturnEnds, QuietEnds
<1>5. CASE PutOk(r, kind) /\ pc' = "sealed" /\ call' = then /\ UNCHANGED job
  <2>1. seg'[r] = kind /\ (seg[r] = "none" \/ seg[r] = kind) BY <1>1, <1>5 DEF PutOk
  <2>2. /\ ReservedIds' = ReservedIds /\ Pending' = Pending /\ (GapOnly(r)' <=> GapOnly(r))
    BY <1>2, <1>5, QuietSame
  <2>3. Queued(r)' <=> Queued(r) BY <1>2 DEF Queued
  <2>4. CallHeld'
    <3>1. pc' = "sealed" /\ call' = then /\ queue' = queue BY <1>2, <1>5
    <3>2. call'.of \in ReservedIds' /\ (call'.pop => queue' # <<>> /\ Head(queue').of = call'.of)
      BY <3>1, <2>2
    <3>3. ~call'.pop => ~Queued(call.of)' BY <3>1, <2>3
    <3>4. call'.as = "durable" => seg'[call'.of] # "none" /\ call'.of \in Pending'
      BY <3>1, <2>1, <2>2
    <3>5. call'.as = "abandoned" => seg'[call'.of] = "gap" /\ GapOnly(call.of)'
      BY <3>1, <2>1, <2>2
    <3>6. QED BY <3>1, <3>2, <3>3, <3>4, <3>5 DEF CallHeld
  <2>5. QED BY <1>3, <1>5, <2>4, QuietCalls
<1>6. QED BY <1>4, <1>5 DEF Seal

LEMMA FrontIs ==
    ASSUME SInv, queue # <<>>
    PROVE  LET q == Head(queue)
           IN  q \in Item /\ Owned(q) /\ q.of \in ReservedIds /\ q.of \in io
<1> HIDE DEF Ids
<1>1. queue \in Seq(Item) /\ 1 \in DOMAIN queue /\ Head(queue) = queue[1] BY DEF SInv, MemoryTyped
<1>2. queue[1] \in Item /\ Owned(queue[1]) BY <1>1 DEF SInv, QueueOwned
<1>3. QED BY <1>1, <1>2 DEF Owned, SInv, IoOnRecord

LEMMA PendingGapOnly == ASSUME NEW r \in Pending PROVE GapOnly(r)
BY DEF Pending, GapOnly

LEMMA CallIs ==
    ASSUME NEW r \in Nat, NEW as \in {"durable", "abandoned"}, NEW stop \in BOOLEAN,
           NEW pop \in BOOLEAN
    PROVE  LET c == Call(r, as, stop, pop)
           IN  c \in CallType /\ c.of = r /\ c.as = as /\ c.stop = stop /\ c.pop = pop
BY DEF Call, CallType

LEMMA DrainOneKeeps ==
    ASSUME SInv, pc # "down", DrainOne
    PROVE  SInv' /\ Extends
<1> DEFINE q == Head(queue)
           c == Call(q.of, "durable", FALSE, TRUE)
<1>1. queue # <<>> /\ Seal(q.of, q.kind, TRUE, c) BY DEF DrainOne
<1>2. q \in Item /\ Owned(q) /\ q.of \in ReservedIds /\ q.of \in io BY <1>1, FrontIs
<1>3. q.of \in Nat /\ q.kind \in {"evidence", "gap"} BY <1>2 DEF Item
<1>4. /\ c \in CallType /\ c.of = q.of /\ c.as = "durable" /\ c.stop = FALSE /\ c.pop = TRUE
  BY <1>3, CallIs
<1>5. q.of \in Pending \/ (q.kind = "evidence" /\ seg[q.of] = "gap") BY <1>2 DEF Owned
<1> HIDE DEF c
<1>6. QED BY <1>1, <1>2, <1>3, <1>4, <1>5, SealKeeps

LEMMA AbandonKeeps ==
    ASSUME SInv, pc # "down", NEW r, NEW stop \in BOOLEAN, Abandon(r, stop)
    PROVE  SInv' /\ Extends
<1> DEFINE c == Call(r, "abandoned", stop, FALSE)
<1>1. r \in Pending /\ r \in ReservedIds /\ ~Queued(r) /\ Seal(r, "gap", FALSE, c)
  BY DEF Abandon, Pending
<1>2. r \in Nat /\ GapOnly(r) BY <1>1, SInvFiles, ReservedFits, PendingGapOnly
<1>3. c \in CallType /\ c.of = r /\ c.as = "abandoned" /\ c.pop = FALSE
  BY <1>2 DEF Call, CallType
<1> HIDE DEF c
<1>4. QED BY <1>1, <1>2, <1>3, SealKeeps

LEMMA StopFrontKeeps ==
    ASSUME SInv, StopFrontForPressure
    PROVE  SInv' /\ Extends
<1> DEFINE q == Head(queue)
           c == Call(q.of, "abandoned", TRUE, TRUE)
<1>1. pc # "down" /\ queue # <<>> /\ q.kind = "evidence" /\ Seal(q.of, "gap", FALSE, c)
  BY DEF StopFrontForPressure, Free
<1>2. q \in Item /\ Owned(q) /\ q.of \in ReservedIds /\ q.of \in io BY <1>1, FrontIs
<1>3. q.of \in Nat /\ GapOnly(q.of) BY <1>2, PendingGapOnly DEF Item, Owned
<1>4. /\ c \in CallType /\ c.of = q.of /\ c.as = "abandoned" /\ c.stop = TRUE /\ c.pop = TRUE
  BY <1>3, CallIs
<1> HIDE DEF c
<1>5. QED BY <1>1, <1>2, <1>3, <1>4, SealKeeps

LEMMA NothingChanged ==
    ASSUME SInv, pc # "down", UNCHANGED <<disk, next, queue, ghosts>>
    PROVE  SpoolOnly
BY SInvFiles DEF disk, SpoolOnly, SegGrows, FilesOK, FilesTyped

LEMMA DowntimeKeeps ==
    ASSUME SInv, pc # "down", NEW r \in ReservedIds, Downtime(r)
    PROVE  SInv' /\ Extends
<1>1. SpoolOnly BY NothingChanged DEF Downtime
<1>2. CASE Fail BY <1>1, <1>2, ReturnEnds, QuietEnds
<1>3. CASE pc' = "stopping" /\ call' = Call(r, "abandoned", TRUE, FALSE) /\ UNCHANGED job
  <2>1. r \in Nat BY SInvFiles, ReservedFits
  <2>2. call' \in CallType /\ call'.of = r /\ call'.pop = FALSE BY <1>3, <2>1, CallIs
  <2>3. ReservedIds' = ReservedIds BY <1>1, <1>3, QuietSame DEF SpoolOnly
  <2>4. CallHeld' BY <1>3, <2>2, <2>3 DEF CallHeld
  <2>5. QED BY <1>1, <1>3, <2>2, <2>4, QuietCalls
<1>4. QED BY <1>2, <1>3 DEF Downtime

LEMMA StopWithDowntimeKeeps ==
    ASSUME SInv, NEW r \in Ids, StopWithDowntime(r)
    PROVE  SInv' /\ Extends
BY HeldIs, DowntimeKeeps DEF StopWithDowntime, MayStop, Free

LEMMA ShutdownStopKeeps == ASSUME SInv, ShutdownStop PROVE SInv' /\ Extends
<1>1. pc # "down" BY DEF ShutdownStop, Reconciling
<1>2. PICK k \in Active : Downtime(Latest(k)) BY DEF ShutdownStop
<1>3. Latest(k) \in ReservedIds BY <1>1, LatestIs DEF Active
<1>4. QED BY <1>1, <1>2, <1>3, DowntimeKeeps

LEMMA FoundKeeps ==
    ASSUME SInv, pc # "down", queue = <<>>, NEW r \in Pending, seg[r] # "none",
           pc' = "sealed", call' = Call(r, Found(r), FALSE, FALSE), UNCHANGED job,
           UNCHANGED <<disk, next, queue, ghosts>>
    PROVE  SInv' /\ Extends
<1>1. SpoolOnly /\ seg' = seg /\ queue' = <<>> BY NothingChanged DEF disk
<1>2. r \in ReservedIds /\ r \in Ids /\ r \in Nat /\ seg[r] \in {"evidence", "gap"}
  BY SInvFiles, ReservedFits DEF FilesOK, FilesTyped, Pending
<1>3. Found(r) \in {"durable", "abandoned"} /\ (Found(r) = "abandoned" => seg[r] = "gap")
  BY <1>2 DEF Found
<1>4. call' \in CallType /\ call'.of = r /\ call'.pop = FALSE /\ call'.as = Found(r)
  BY <1>2, <1>3 DEF Call, CallType
<1>5. ReservedIds' = ReservedIds /\ Pending' = Pending /\ (GapOnly(r)' <=> GapOnly(r))
  <2>1. UNCHANGED <<journal, next>> BY <1>1 DEF SpoolOnly
  <2>2. QED BY <2>1, QuietSame
<1>6. ~Queued(r)' BY <1>1 DEF Queued
<1>7. GapOnly(r) BY PendingGapOnly
<1>8. CallHeld'
  <2>1. call'.of \in ReservedIds' /\ call'.pop = FALSE BY <1>2, <1>4, <1>5
  <2>2. ~Queued(call.of)' BY <1>4, <1>6
  <2>3. call'.as = "durable" => seg'[call'.of] # "none" /\ call'.of \in Pending'
    BY <1>1, <1>4, <1>5
  <2>4. call'.as = "abandoned" => seg'[call'.of] = "gap" /\ GapOnly(call.of)'
    BY <1>1, <1>3, <1>4, <1>5, <1>7
  <2>5. QED BY <2>1, <2>2, <2>3, <2>4 DEF CallHeld
<1>9. QED BY <1>1, <1>4, <1>8, QuietCalls

LEMMA ReconcileKeeps == ASSUME SInv, Reconcile PROVE SInv' /\ Extends
<1>1. pc # "down" /\ queue = <<>> /\ Pending # {} BY DEF Reconcile, Reconciling
<1>2. Pending \in SUBSET Nat BY DEF Pending, ReservedIds, Counted
<1>3. Min(Pending) \in Pending BY <1>1, <1>2, MinIn
<1>4. PICK r \in Pending :
        \/ Abandon(r, FALSE)
        \/ /\ seg[r] # "none"
           /\ \/ /\ pc' = "sealed" /\ call' = Call(r, Found(r), FALSE, FALSE)
                 /\ UNCHANGED job
              \/ Fail
           /\ UNCHANGED <<disk, next, queue, ghosts>>
  BY <1>3 DEF Reconcile
<1>5. CASE Abandon(r, FALSE) BY <1>1, <1>5, AbandonKeeps
<1>6. CASE Fail /\ UNCHANGED <<disk, next, queue, ghosts>>
  BY <1>1, <1>6, NothingChanged, ReturnEnds, QuietEnds
<1>7. QED BY <1>1, <1>4, <1>5, <1>6, FoundKeeps

LEMMA ReadyKeeps == ASSUME SInv, Ready PROVE SInv' /\ Extends
<1>1. pc = "idle" /\ pc' = "idle" /\ call' = call /\ job' = "none"
  BY DEF Ready, Reconciling
<1>2. Ends /\ SpoolOnly BY <1>1, NothingChanged DEF Ends, Ready
<1>3. QED BY <1>1, <1>2, QuietEnds

-----------------------------------------------------------------------------
(* The queue, and the steps that release its front.                          *)

LEMMA TryEnqueueKeeps ==
    ASSUME SInv, NEW r \in Ids, NEW kind \in {"evidence", "gap"}, TryEnqueue(r, kind)
    PROVE  SInv' /\ Extends
<1>1. /\ pc = "idle" /\ pc' = "idle" /\ job = "none" /\ job' = "none" /\ r \in Pending /\ r \in io
      /\ ~Queued(r) /\ call' = call
      /\ queue' = Append(queue, [of |-> r, kind |-> kind])
      /\ UNCHANGED <<journal, pending, seg, next, granted, io>>
  BY DEF TryEnqueue, Free, disk, ghosts
<1>2. SegGrows /\ seg' \in [Ids -> Kinds] /\ FilesOK
  BY <1>1, SInvFiles DEF SegGrows, FilesOK, FilesTyped
<1>3. FilesOK' /\ Extends BY <1>1, <1>2, QuietFiles
<1>4. GrantsHeld' /\ IoOnRecord' BY <1>1, <1>3, GrantsKept, IoKept
<1>5. Pending' = Pending /\ \A s : GapOnly(s)' <=> GapOnly(s) BY <1>1, QuietSame
<1>6. \A q : Owned(q) => Owned(q)' BY <1>1, <1>5 DEF Owned
<1> DEFINE new == [of |-> r, kind |-> kind]
<1>7. new \in Item /\ new.of = r BY DEF Item
<1>8. Owned(new) BY <1>1 DEF Owned
<1> HIDE DEF new
<1>9. queue \in Seq(Item) BY DEF SInv, MemoryTyped
<1>10. /\ queue' \in Seq(Item) /\ Len(queue) \in Nat /\ DOMAIN queue = 1 .. Len(queue)
       /\ DOMAIN queue' = 1 .. Len(queue) + 1 /\ queue'[Len(queue) + 1] = new
       /\ \A i \in DOMAIN queue : queue'[i] = queue[i]
  BY <1>1, <1>7, <1>9 DEF new
<1>11. \A i \in DOMAIN queue : Owned(queue[i]) /\ queue[i].of # r
  BY <1>1 DEF SInv, QueueOwned, Queued
<1>12. QueueOwned'
  <2>1. ASSUME NEW i \in DOMAIN queue' PROVE Owned(queue[i])'
    BY <1>6, <1>8, <1>10, <1>11 DEF new
  <2>2. ASSUME NEW i \in DOMAIN queue', NEW j \in DOMAIN queue', queue'[i].of = queue'[j].of
        PROVE  i = j
    BY <1>7, <1>10, <1>11, <2>2 DEF SInv, QueueOwned
  <2>3. QED BY <1>1, <2>1, <2>2 DEF QueueOwned
<1>13. MemoryTyped' BY <1>1, <1>10 DEF SInv, MemoryTyped
<1>14. CallHeld' BY <1>1 DEF CallHeld
<1>15. QED BY <1>3, <1>4, <1>12, <1>13, <1>14 DEF SInv, FilesOK

\* What leaves the queue of a process that goes on is settled.
NoDrop == \A r \in Ids : Queued(r) /\ ~Queued(r)' /\ pc' # "down" => r \notin Pending'

LEMMA PopKeeps ==
    ASSUME SInv, pc # "down", FilesOK', Extends, UNCHANGED <<seg, granted, io>>, Ends,
           queue # <<>>, queue' = Tail(queue), \A r \in Ids : NewSettles(r) => r = Head(queue).of,
           Head(queue).of \notin Pending'
    PROVE  SInv' /\ NoDrop
<1> DEFINE h == Head(queue)
<1>1. queue \in Seq(Item) BY DEF SInv, MemoryTyped
<1> HIDE DEF Ids
<1>2. /\ queue' \in Seq(Item) /\ Len(queue) \in Nat /\ Len(queue) # 0
      /\ DOMAIN queue = 1 .. Len(queue) /\ DOMAIN queue' = 1 .. Len(queue) - 1
      /\ \A i \in DOMAIN queue' : i + 1 \in DOMAIN queue /\ queue'[i] = queue[i + 1]
      /\ h = queue[1] /\ 1 \in DOMAIN queue
  BY <1>1
<1>3. ASSUME NEW i \in DOMAIN queue
      PROVE  queue[i] \in Item /\ queue[i].of \in Ids /\ Owned(queue[i])
  <2>1. queue[i] \in Item BY <1>1, <1>2
  <2>2. QED BY <2>1 DEF SInv, QueueOwned, Item
<1>4. SegGrows BY DEF SegGrows
<1>5. ASSUME NEW i \in DOMAIN queue' PROVE Owned(queue[i])'
  <2> DEFINE q == queue[i + 1]
  <2>1. q \in Item /\ Owned(q) /\ q.of \in Ids /\ queue'[i] = q BY <1>2, <1>3
  <2>2. q.of # h.of
    <3>1. i + 1 # 1 BY <1>2
    <3>2. QED BY <1>2, <3>1 DEF SInv, QueueOwned
  <2> HIDE DEF q
  <2>3. ASSUME NEW p \in Item, p = q PROVE Owned(p)'
    BY <1>4, <2>1, <2>2, <2>3, OwnedKept
  <2>4. QED BY <2>1, <2>3
<1>6. ASSUME NEW i \in DOMAIN queue', NEW j \in DOMAIN queue', queue'[i].of = queue'[j].of
      PROVE  i = j
  <2>1. i + 1 \in DOMAIN queue /\ j + 1 \in DOMAIN queue /\ queue[i + 1].of = queue[j + 1].of
    BY <1>2, <1>6
  <2>2. i + 1 = j + 1 BY <2>1 DEF SInv, QueueOwned
  <2>3. QED BY <1>2, <2>2
<1>7. job # "startup" BY DEF SInv, QueueOwned
<1>8. QueueOwned' BY <1>5, <1>6, <1>7 DEF QueueOwned, Ends
<1>9. NoCall \in CallType BY DEF NoCall, CallType
<1>10. MemoryTyped' BY <1>2, <1>9 DEF SInv, MemoryTyped, Ends
<1>11. CallHeld' BY DEF CallHeld, Ends
<1>12. GrantsHeld' /\ IoOnRecord' BY GrantsKept, IoKept
<1>13. NoDrop
  <2> SUFFICES ASSUME NEW r \in Ids, Queued(r), ~Queued(r)' PROVE r \notin Pending'
    BY DEF NoDrop
  <2>1. PICK i \in DOMAIN queue : queue[i].of = r BY DEF Queued
  <2>2. CASE i = 1 BY <1>2, <2>1, <2>2
  <2>3. CASE i # 1
    <3>1. i - 1 \in DOMAIN queue' /\ queue'[i - 1] = queue[i] BY <1>2, <2>3
    <3>2. QED BY <2>1, <3>1 DEF Queued
  <2>4. QED BY <2>2, <2>3
<1>14. QED BY <1>8, <1>10, <1>11, <1>12, <1>13 DEF SInv, FilesOK

\* The record of the sealed outcome.
LEMMA OutcomeIs ==
    ASSUME SInv, pc = "sealed"
    PROVE  LET ev == About(call.as, call.of)
           IN  /\ ev \in Record /\ Fits(next - 1, ev) /\ ev.of = call.of /\ ev.type = call.as
               /\ call.as \in Settling /\ call.of \in ReservedIds /\ call.of \in Ids
<1>1. call.of \in ReservedIds /\ call.as \in {"durable", "abandoned"}
  BY DEF SInv, CallHeld, MemoryTyped, CallType
<1>2. call.of \in Nat /\ call.of \in Ids BY <1>1, SInvFiles, ReservedFits
<1>3. About(call.as, call.of).of = call.of /\ About(call.as, call.of).type = call.as
  BY <1>1, <1>2, AboutIs
<1>4. Backed(About(call.as, call.of)) BY <1>1, <1>3 DEF Backed, SInv, CallHeld
<1>5. call.of \in Pending \/ (GapOnly(call.of) /\ call.as = "abandoned")
  BY <1>1 DEF SInv, CallHeld
<1>6. QED BY <1>1, <1>2, <1>3, <1>4, <1>5, OutcomeFits

LEMMA RecordOutcomeKeeps ==
    ASSUME SInv, RecordOutcome
    PROVE  SInv' /\ Extends /\ NoDrop
<1> DEFINE ev == About(call.as, call.of)
<1>1. pc = "sealed" /\ UNCHANGED <<seg, granted, io>> BY DEF RecordOutcome, ghosts
<1>2. /\ ev \in Record /\ Fits(next - 1, ev) /\ ev.of = call.of /\ ev.type = call.as
      /\ call.as \in Settling /\ call.of \in ReservedIds /\ call.of \in Ids
  BY <1>1, OutcomeIs
<1>3. /\ call.pop \in BOOLEAN
      /\ call.pop => queue # <<>> /\ Head(queue).of = call.of
      /\ ~call.pop => ~Queued(call.of)
      /\ call.pop /\ call.stop => call.as = "abandoned" /\ Head(queue).kind = "evidence"
      /\ call.as = "abandoned" => seg[call.of] = "gap" /\ GapOnly(call.of)
  BY <1>1 DEF SInv, CallHeld, MemoryTyped, CallType
<1>4. \/ AppendErr(ev) /\ Fail /\ UNCHANGED queue
      \/ AppendOk(ev) /\ call.stop /\ UNCHANGED <<queue, job, call>> /\ pc' = "stopping"
      \/ AppendOk(ev) /\ ~call.pop /\ Fail /\ UNCHANGED queue
      \/ AppendOk(ev) /\ queue' = Released /\ (Return \/ Fail)
  BY DEF RecordOutcome, Reply
<1> HIDE DEF ev
<1>5. UNCHANGED queue => NoDrop BY DEF NoDrop, Queued
<1>6. CASE /\ UNCHANGED queue /\ (Return \/ Fail)
           /\ AppendErr(ev) \/ (AppendOk(ev) /\ ~call.pop)
  <2>1. Ends /\ pc # "down" BY <1>1, <1>6, ReturnEnds
  <2>3. ev.type \in Settling /\ AppendOk(ev) => ~Queued(ev.of)
    <3>1. CASE call.pop
      <4>1. AppendErr(ev) BY <1>6, <3>1
      <4>2. next \in Nat BY SInvFiles DEF FilesOK, FilesTyped
      <4>3. ~AppendOk(ev) BY <4>1, <4>2 DEF AppendErr, AppendOk
      <4>4. QED BY <4>3
    <3>2. CASE ~call.pop BY <1>2, <1>3, <3>2
    <3>3. QED BY <3>1, <3>2
  <2>2. SInv' /\ Extends BY <1>1, <1>2, <1>6, <2>1, <2>3, GrantKeeps
  <2>4. QED BY <1>5, <1>6, <2>2
<1>7. ASSUME AppendOk(ev)
      PROVE  /\ FilesOK' /\ Extends /\ Top' = Top + 1 /\ journal'[Top + 1] = ev
             /\ NewSettles(call.of) /\ \A r : NewSettles(r) => r = call.of
             /\ call.of \notin Pending' /\ call.of \in ReservedIds'
  <2>1. FilesOK' /\ Extends /\ Top' = Top + 1 /\ journal'[Top + 1] = ev
    BY <1>1, <1>2, <1>7, SInvFiles, AppendOkFiles
  <2>2. NewSettles(call.of) /\ \A r : NewSettles(r) => r = call.of
    BY <1>2, <2>1 DEF NewSettles
  <2>3. ASSUME NEW c \in ReservedIds, c = call.of PROVE c \notin Pending' /\ c \in ReservedIds'
    BY <2>1, <2>2, <2>3, SInvFiles, ExtendsKeeps
  <2>4. QED BY <1>2, <2>1, <2>2, <2>3
<1>8. CASE AppendOk(ev) /\ queue' = Released /\ (Return \/ Fail)
  <2>1. CASE ~call.pop BY <1>6, <1>8, <2>1 DEF Released
  <2>2. CASE call.pop
    <3>1. queue' = Tail(queue) /\ queue # <<>> /\ Head(queue).of = call.of
      BY <1>3, <1>8, <2>2 DEF Released
    <3>2. QED BY <1>1, <1>7, <1>8, <3>1, ReturnEnds, PopKeeps
  <2>3. QED BY <2>1, <2>2
<1>9. CASE /\ AppendOk(ev) /\ call.stop /\ UNCHANGED <<queue, job, call>> /\ pc' = "stopping"
  <2>1. SegGrows BY <1>1 DEF SegGrows
  <2>2. ASSUME NEW i \in DOMAIN queue PROVE Owned(queue[i])'
    <3> DEFINE q == queue[i]
    <3>1. q \in Item /\ Owned(q) /\ Queued(q.of) BY DEF SInv, MemoryTyped, QueueOwned, Queued
    <3>2. queue'[i] = q BY <1>9
    <3>3. q.of = call.of => /\ ev.type = "abandoned" /\ GapOnly(q.of) /\ q.kind = "evidence"
                            /\ seg[q.of] = "gap"
      <4>1. SUFFICES ASSUME q.of = call.of
                     PROVE  /\ ev.type = "abandoned" /\ GapOnly(q.of) /\ q.kind = "evidence"
                            /\ seg[q.of] = "gap"
        OBVIOUS
      <4>2. call.pop BY <1>3, <3>1, <4>1
      <4>3. q = Head(queue)
        <5>1. 1 \in DOMAIN queue /\ Head(queue) = queue[1] BY <1>3, <4>2 DEF SInv, MemoryTyped
        <5>2. i = 1 BY <1>3, <4>1, <4>2, <5>1 DEF SInv, QueueOwned
        <5>3. QED BY <5>1, <5>2
      <4>4. QED BY <1>2, <1>3, <1>9, <4>1, <4>2, <4>3
    <3> HIDE DEF q
    <3>4. ASSUME NEW p \in Item, p = q PROVE Owned(p)'
      BY <1>1, <1>7, <1>9, <2>1, <3>1, <3>3, <3>4, OwnedKept
    <3>5. QED BY <3>1, <3>2, <3>4
  <2>3. QueueOwned' BY <1>1, <1>9, <2>2 DEF SInv, QueueOwned
  <2>4. MemoryTyped' BY <1>1, <1>9 DEF SInv, MemoryTyped
  <2>5. GrantsHeld' /\ IoOnRecord' BY <1>1, <1>7, <1>9, GrantsKept, IoKept
  <2>6. CallHeld'
    <3>1. call'.of \in ReservedIds' /\ call'.of \notin Pending' BY <1>7, <1>9
    <3>2. QED BY <1>3, <1>9, <3>1 DEF CallHeld
  <2>7. QED BY <1>5, <1>7, <1>9, <2>3, <2>4, <2>5, <2>6 DEF SInv, FilesOK
<1>10. QED BY <1>4, <1>6, <1>8, <1>9

LEMMA RecordStopKeeps ==
    ASSUME SInv, RecordStop
    PROVE  SInv' /\ Extends /\ NoDrop
<1> DEFINE ev == Ev("stopped", 0, journal[call.of].key, journal[call.of].gen, 0)
<1>1. pc = "stopping" /\ UNCHANGED <<seg, granted, io>> BY DEF RecordStop, ghosts
<1>2. call.of \in ReservedIds /\ (call.pop => queue # <<>> /\ Head(queue).of = call.of
                                             /\ call.of \notin Pending)
  BY <1>1 DEF SInv, CallHeld
<1>3. ev \in Record /\ ev.of = 0 /\ ev.type = "stopped" /\ FilesOK
  BY <1>2, SInvFiles, ReservedFits, StopIs
<1>4. /\ \/ AppendOk(ev) /\ queue' = Released
         \/ AppendErr(ev) /\ UNCHANGED queue
      /\ Return \/ Fail
  BY DEF RecordStop, Reply
<1> HIDE DEF ev
<1>5. Ends BY <1>4, ReturnEnds
<1>6. CASE UNCHANGED queue
  <2>1. SInv' /\ Extends BY <1>1, <1>3, <1>4, <1>5, <1>6, UpFacts, PlainKeeps DEF ghosts
  <2>2. QED BY <1>6, <2>1 DEF NoDrop, Queued
<1>7. CASE AppendOk(ev) /\ call.pop /\ queue' = Tail(queue)
  <2>1. Fits(next - 1, ev) BY <1>1, <1>3, UpFacts, PlainFits
  <2>2. FilesOK' /\ Extends /\ Top' = Top + 1 /\ journal'[Top + 1] = ev
    BY <1>1, <1>3, <1>7, <2>1, AppendOkFiles
  <2>3. \A r : ~NewSettles(r) BY <1>3, <2>2 DEF NewSettles
  <2>4. call.of \notin Pending'
    <3>1. ASSUME NEW c \in ReservedIds, c = call.of PROVE c \notin Pending'
      BY <1>2, <1>3, <1>7, <2>2, <3>1, ExtendsKeeps
    <3>2. QED BY <1>2, <3>1
  <2>5. QED BY <1>1, <1>2, <1>5, <1>7, <2>2, <2>3, <2>4, PopKeeps
<1>8. QED BY <1>4, <1>6, <1>7 DEF Released

-----------------------------------------------------------------------------
(* The end of a process and the start of the next.                           *)

LEMMA LeaveKeeps ==
    ASSUME SInv, pc # "down", Leave
    PROVE  SInv' /\ Extends
<1>1. /\ pc' = "down" /\ queue' = <<>> /\ job' = "none" /\ call' = NoCall
      /\ UNCHANGED <<journal, pending, seg, next, granted, io>>
  BY DEF Leave, disk, ghosts
<1>2. SegGrows /\ seg' \in [Ids -> Kinds] /\ FilesOK
  BY <1>1, SInvFiles DEF SegGrows, FilesOK, FilesTyped
<1>3. FilesOK' /\ Extends BY <1>1, <1>2, QuietFiles
<1>4. GrantsHeld' /\ IoOnRecord' BY <1>1, <1>3, GrantsKept, IoKept
<1>5. NoCall \in CallType BY DEF NoCall, CallType
<1>6. queue' \in Seq(Item) BY <1>1
<1>7. MemoryTyped' BY <1>1, <1>5, <1>6 DEF SInv, MemoryTyped
<1>8. QueueOwned' BY <1>1 DEF QueueOwned
<1>9. CallHeld' BY <1>1 DEF CallHeld
<1>10. QED BY <1>3, <1>4, <1>7, <1>8, <1>9 DEF SInv, FilesOK

LEMMA OpenFiles ==
    ASSUME SInv, Open
    PROVE  FilesOK' /\ Extends
<1>1. /\ pc = "down" /\ pending' = NoFile /\ next' = Len(journal') + 1 /\ pc' = "opened"
      /\ UNCHANGED <<seg, io>>
      /\ journal' = IF pending # NoFile /\ pending.at > Len(journal)
                    THEN Append(journal, pending.ev) ELSE journal
  BY DEF Open, ghosts
<1> DEFINE n == Len(journal)
           e == pending.ev
<1>2. /\ FilesOK /\ journal \in Seq(Record) /\ n \in Nat /\ Top = n /\ e \in Record
      /\ seg \in [Ids -> Kinds]
  BY <1>1, SInvFiles DEF FilesOK, FilesTyped, PendingFile, Top
<1>3. SegGrows BY <1>1 DEF SegGrows
<1>4. \A m \in 1 .. n : journal[m].type = "cancelled" => journal[m].of \notin io'
  BY <1>1, <1>2 DEF FilesOK, FilesFit, Fits, Backed
<1>5. CASE journal' = journal
  <2>1. Len(journal') = n /\ Top' = n BY <1>1, <1>2, <1>5 DEF Top
  <2>2. \A m \in 1 .. n : Fits(m - 1, journal[m])' BY <1>2, <1>3, <1>4, <1>5, FilesFitKept
  <2>3. FilesFit' BY <1>1, <1>5, <2>2 DEF FilesFit
  <2>4. FilesTyped'
    <3>1. NoFile \in PendingFile BY DEF NoFile, PendingFile, About, Ev, Record
    <3>2. QED BY <1>1, <1>2, <1>5, <3>1 DEF FilesTyped
  <2>5. Ordinals' BY <1>1, <1>2, <2>1 DEF Ordinals
  <2>6. QED BY <1>2, <1>5, <2>1, <2>3, <2>4, <2>5 DEF FilesOK, Extends
<1>6. CASE pending # NoFile /\ pending.at > n /\ journal' = Append(journal, e)
  <2> HIDE DEF e
  <2>1. /\ journal' \in Seq(Record) /\ Len(journal') = n + 1 /\ journal'[n + 1] = e
        /\ \A i \in 1 .. n : journal'[i] = journal[i]
    BY <1>2, <1>6
  <2>2. Top' = n + 1 BY <1>1, <1>2, <2>1 DEF Top
  <2>3. \A m \in 1 .. n : Fits(m - 1, journal[m])' BY <1>2, <1>3, <1>4, <2>1, FilesFitKept
  <2>4. pending.at = n + 1 /\ Fits(n, e)
    <3>1. pending.at \in Nat /\ pending.at \in {n, n + 1} /\ Fits(pending.at - 1, pending.ev)
      BY <1>2, <1>6 DEF FilesOK, Ordinals, FilesFit
    <3>2. pending.at = n + 1 BY <1>2, <1>6, <3>1
    <3>3. QED BY <1>2, <3>1, <3>2 DEF e
  <2>5. ASSUME NEW f, f = e, NEW m, m = n PROVE Fits(m, f)'
    <3>1. f.type = "cancelled" => f.of \notin io' BY <1>1, <2>4, <2>5 DEF Fits, Backed
    <3>2. QED BY <1>2, <1>3, <2>1, <2>4, <2>5, <3>1, FitsKept
  <2>6. FilesFit'
    <3>1. ASSUME NEW m \in 1 .. Len(journal') PROVE Fits(m - 1, journal[m])'
      <4>1. CASE m \in 1 .. n BY <2>3, <4>1
      <4>2. CASE m = n + 1
        <5>1. m - 1 = n /\ journal'[m] = e BY <1>2, <2>1, <4>2
        <5>2. QED BY <2>5, <5>1
      <4>3. QED BY <1>2, <2>1, <4>1, <4>2
    <3>2. QED BY <1>1, <3>1 DEF FilesFit
  <2>7. FilesTyped'
    <3>1. NoFile \in PendingFile BY DEF NoFile, PendingFile, About, Ev, Record
    <3>2. QED BY <1>1, <1>2, <2>1, <3>1 DEF FilesTyped
  <2>8. Ordinals' BY <1>1, <1>2, <2>1 DEF Ordinals
  <2>9. QED BY <1>2, <2>1, <2>2, <2>6, <2>7, <2>8 DEF FilesOK, Extends, Counted
<1>7. QED BY <1>1, <1>5, <1>6

LEMMA OpenKeeps ==
    ASSUME SInv, Open
    PROVE  SInv' /\ Extends
<1>1. /\ pc = "down" /\ pc' = "opened" /\ job' = "startup"
      /\ UNCHANGED <<seg, queue, call, granted, io>>
  BY DEF Open, ghosts
<1>2. FilesOK' /\ Extends BY OpenFiles
<1>3. GrantsHeld' /\ IoOnRecord' BY <1>1, <1>2, GrantsKept, IoKept
<1>4. queue' = <<>> BY <1>1 DEF SInv, QueueOwned
<1>5. QueueOwned' BY <1>4 DEF QueueOwned
<1>6. MemoryTyped' BY <1>1 DEF SInv, MemoryTyped
<1>7. CallHeld' BY <1>1 DEF CallHeld
<1>8. QED BY <1>2, <1>3, <1>5, <1>6, <1>7 DEF SInv, FilesOK

-----------------------------------------------------------------------------
(* The invariant holds.                                                      *)

LEMMA InitSInv == Init => SInv
<1> SUFFICES ASSUME Init PROVE SInv OBVIOUS
<1>1. /\ journal = <<>> /\ pending = NoFile /\ seg = [r \in Ids |-> "none"] /\ next = 1
      /\ queue = <<>> /\ pc = "down" /\ job = "none" /\ call = NoCall
      /\ granted = {} /\ io = {}
  BY DEF Init
<1>2. NoFile \in PendingFile BY DEF NoFile, PendingFile, About, Ev, Record
<1>3. FilesTyped BY <1>1, <1>2 DEF FilesTyped
<1>4. MemoryTyped BY <1>1 DEF MemoryTyped, NoCall, CallType
<1>5. Ordinals /\ FilesFit BY <1>1 DEF Ordinals, FilesFit
<1>6. GrantsHeld /\ IoOnRecord BY <1>1 DEF GrantsHeld, IoOnRecord
<1>7. QueueOwned /\ CallHeld BY <1>1 DEF QueueOwned, CallHeld
<1>8. QED BY <1>3, <1>4, <1>5, <1>6, <1>7 DEF SInv

LEMMA StutterKeeps == ASSUME SInv, UNCHANGED vars PROVE SInv' /\ Extends
<1> USE DEF vars
<1>1. FilesTyped' /\ MemoryTyped' /\ Ordinals' BY DEF SInv, FilesTyped, MemoryTyped, Ordinals
<1>2. \A n, ev : Fits(n, ev)' <=> Fits(n, ev)
  BY DEF Fits, Newest, FirstOutcome, Settles, Backed
<1>3. FilesFit' BY <1>2 DEF SInv, FilesFit
<1>4. Top' = Top /\ Counted' = Counted /\ ReservedIds' = ReservedIds
  BY DEF Top, Counted, ReservedIds
<1>5. Pending' = Pending BY <1>4 DEF Pending, Settles
<1>6. GrantsHeld' /\ IoOnRecord' BY <1>4 DEF SInv, GrantsHeld, IoOnRecord, IoRecorded
<1>7. \A r : (GapOnly(r)' <=> GapOnly(r)) /\ (Queued(r)' <=> Queued(r))
  BY <1>4 DEF GapOnly, Settles, Queued
<1>8. \A q : Owned(q)' <=> Owned(q) BY <1>5, <1>7 DEF Owned
<1>9. QueueOwned' BY <1>8 DEF SInv, QueueOwned
<1>10. CallHeld' BY <1>4, <1>5, <1>7 DEF SInv, CallHeld
<1>11. SInv' BY <1>1, <1>3, <1>6, <1>9, <1>10 DEF SInv
<1>12. QED BY <1>4, <1>11 DEF Extends

LEMMA CallOnKeeps ==
    ASSUME SInv, NEW r \in Ids, CallOn(r)
    PROVE  SInv' /\ Extends
<1>1. CASE \E stop \in BOOLEAN : Free /\ r \in GrantedIds /\ Abandon(r, stop)
  BY <1>1, AbandonKeeps DEF Free
<1>2. QED
  BY <1>1, ReserveRetryKeeps, DecideRetryKeeps, StartIoKeeps, CancelBeforeIoKeeps,
     StopWithoutGapKeeps, StopWithDowntimeKeeps, TryEnqueueKeeps DEF CallOn

LEMMA StepKeeps == ASSUME SInv, Step PROVE SInv' /\ Extends
<1>1. CASE ShutdownDrain BY <1>1, DrainOneKeeps DEF ShutdownDrain, Reconciling
<1>2. CASE Exit BY <1>2, LeaveKeeps DEF Exit, Free
<1>3. QED
  BY <1>1, <1>2, RecordOutcomeKeeps, RecordStopKeeps, OpenKeeps, StartedKeeps,
     CancelUnstartedKeeps, ReconcileKeeps, ReadyKeeps, ShutdownStopKeeps,
     ShutdownCompletedKeeps DEF Step

LEMMA NextKeeps == ASSUME SInv, [Next]_vars PROVE SInv' /\ Extends
<1>1. CASE Free /\ DrainOne BY <1>1, DrainOneKeeps DEF Free
<1>2. CASE Kill BY <1>2, LeaveKeeps DEF Kill
<1>3. QED
  BY <1>1, <1>2, ReserveKeeps, CallOnKeeps, StopFrontKeeps, ShutdownKeeps, StepKeeps,
     StutterKeeps DEF Next

LEMMA SInvHolds == Spec => []SInv
BY InitSInv, NextKeeps, PTL DEF Spec

-----------------------------------------------------------------------------
(* What the invariant says.                                                  *)

\* Types: every file names a record before it, memory lags the files by at most
\* one, and what is queued is a reserved attempt.
THEOREM SupervisorTypes == Spec => []SupervisorTypeOK
<1>1. ASSUME SInv PROVE SupervisorTypeOK
  <2>1. ASSUME NEW i \in DOMAIN journal PROVE TypeOfEvent(journal[i])
    <3>1. journal \in Seq(Record) BY <1>1 DEF SInv, FilesTyped
    <3>2. i \in 1 .. Len(journal) /\ Len(journal) \in Nat /\ journal[i] \in Record BY <3>1
    <3>3. Fits(i - 1, journal[i]) BY <1>1, <3>2 DEF SInv, FilesFit
    <3>4. journal[i].of \in 0 .. i - 1 BY <3>3 DEF Fits
    <3>5. QED BY <3>2, <3>4 DEF TypeOfEvent, Record
  <2>2. \A i \in DOMAIN queue : queue[i].of \in ReservedIds
    BY <1>1 DEF SInv, QueueOwned, Owned, IoOnRecord
  <2>3. pc # "down" => next \in {Len(journal), Len(journal) + 1}
    BY <1>1 DEF SInv, Ordinals, FilesTyped
  <2>4. QED BY <1>1, <2>1, <2>2, <2>3 DEF SupervisorTypeOK, SInv, FilesTyped, MemoryTyped, Ordinals
<1>2. QED BY <1>1, SInvHolds, PTL

\* Every outcome the journal counts is backed: durable bytes and gaps lie in the
\* spool, and a cancelled attempt never began its I/O and has no evidence there,
\* whichever append, seal or process failed in between.
THEOREM OutcomesAreBacked == Spec => []OutcomeBacked
<1>1. ASSUME SInv PROVE OutcomeBacked
  <2> SUFFICES ASSUME NEW i \in Counted, journal[i].type \in Settling
               PROVE  /\ journal[i].type = "durable" => seg[journal[i].of] # "none"
                      /\ journal[i].type = "abandoned" => seg[journal[i].of] = "gap"
                      /\ journal[i].type = "cancelled" =>
                             journal[i].of \notin io /\ seg[journal[i].of] # "evidence"
    BY DEF OutcomeBacked
  <2>1. Backed(journal[i]) /\ journal[i].of \in Ids
    BY <1>1, SInvFiles, SettlesFits DEF Settles
  <2>2. QED BY <1>1, <2>1 DEF Backed, SInv, IoOnRecord
<1>2. QED BY <1>1, SInvHolds, PTL

\* A reservation a caller was handed stays in the journal as it was handed over,
\* through failed appends, overwritten ordinals and restarts.
THEOREM GrantsAreKept == Spec => []GrantedKept
<1>1. ASSUME SInv PROVE GrantedKept
  <2>1. \A g \in granted : g[1] \in Counted /\ journal[g[1]] = g[2]
    BY <1>1 DEF SInv, GrantsHeld
  <2>2. granted \subseteq Ids \X Record BY <1>1 DEF SInv, MemoryTyped
  <2>3. ASSUME NEW g \in granted, NEW h \in granted, g[1] = h[1] PROVE g = h
    <3>1. g = <<g[1], g[2]>> /\ h = <<h[1], h[2]>> BY <2>2
    <3>2. g[2] = h[2] BY <2>1, <2>3
    <3>3. QED BY <2>3, <3>1, <3>2
  <2>4. QED BY <2>1, <2>3 DEF GrantedKept
<1>2. QED BY <1>1, SInvHolds, PTL

\* Two attempts of one operation never share generation and ordinal, though a
\* reservation whose append failed is promoted by the next start.
THEOREM AttemptsAreDistinct == Spec => []AttemptsDistinct
<1>1. ASSUME SInv PROVE AttemptsDistinct
  <2>1. ASSUME NEW r \in ReservedIds, NEW s \in ReservedIds, r < s,
               journal[r].key = journal[s].key, journal[r].gen = journal[s].gen
        PROVE  journal[r].att < journal[s].att
    <3>1. r \in Nat /\ s \in Nat /\ r \in Counted /\ Newest(s - 1, journal[s])
      BY <1>1, SInvFiles, ReservedFits
    <3>2. r \in 1 .. s - 1 /\ journal[r].type = "reserved" BY <2>1, <3>1 DEF Counted, ReservedIds
    <3>3. QED BY <2>1, <3>1, <3>2 DEF Newest
  <2>2. \A r \in ReservedIds : r \in Nat /\ journal[r].att \in Nat
    BY <1>1, SInvFiles, ReservedFits
  <2>3. ASSUME NEW r \in ReservedIds, NEW s \in ReservedIds,
               journal[r].key = journal[s].key, journal[r].gen = journal[s].gen,
               journal[r].att = journal[s].att
        PROVE  r = s
    <3>1. ~(r < s) BY <2>1, <2>2, <2>3
    <3>2. ~(s < r) BY <2>1, <2>2, <2>3
    <3>3. QED BY <2>2, <3>1, <3>2
  <2>4. QED BY <2>3 DEF AttemptsDistinct
<1>2. QED BY <1>1, SInvHolds, PTL

LEMMA SameQueueNoDrop == UNCHANGED queue => NoDrop
BY DEF NoDrop, Queued

LEMMA NextNoDrop == ASSUME SInv, [Next]_vars PROVE NoDrop
<1>1. CASE \E r \in Ids, kind \in {"evidence", "gap"} : TryEnqueue(r, kind)
  <2>1. PICK r \in Ids, kind \in {"evidence", "gap"} : TryEnqueue(r, kind) BY <1>1
  <2>2. queue \in Seq(Item) /\ queue' = Append(queue, [of |-> r, kind |-> kind])
    BY <2>1 DEF SInv, MemoryTyped, TryEnqueue
  <2>3. [of |-> r, kind |-> kind] \in Item BY DEF Item
  <2>4. \A i \in DOMAIN queue : i \in DOMAIN queue' /\ queue'[i] = queue[i] BY <2>2, <2>3
  <2>5. QED BY <2>4 DEF NoDrop, Queued
<1>2. CASE Leave BY <1>2 DEF NoDrop, Leave
<1>3. CASE UNCHANGED queue BY <1>3, SameQueueNoDrop
<1>4. ASSUME NEW r \in Ids, CallOn(r), ~\E kind \in {"evidence", "gap"} : TryEnqueue(r, kind)
      PROVE  UNCHANGED queue
  BY <1>4 DEF CallOn, ReserveRetry, Grant, DecideRetry, AppendCall, StartIo, CancelBeforeIo,
              StopWithoutGap, StopWithDowntime, Downtime, Abandon, Seal
<1>5. CASE Step
  <2>1. CASE RecordOutcome \/ RecordStop BY <2>1, RecordOutcomeKeeps, RecordStopKeeps
  <2>2. CASE Exit BY <1>2, <2>2 DEF Exit
  <2>3. QED
    BY <1>3, <1>5, <2>1, <2>2
    DEF Step, Open, Started, AppendCall, CancelUnstarted, Reconcile, Abandon, Seal, Ready,
        ShutdownDrain, DrainOne, ShutdownStop, Downtime, ShutdownCompleted
<1>6. QED
  BY <1>1, <1>2, <1>3, <1>4, <1>5
  DEF Next, Reserve, Grant, DrainOne, Seal, StopFrontForPressure, Shutdown, Kill, vars

\* What a caller captured and enqueued leaves the queue of a running process only
\* with its outcome journalled.
THEOREM NothingIsDropped == Spec => NothingDropped
<1>1. ASSUME SInv, [Next]_vars
      PROVE  [\A r \in Ids : Queued(r) /\ ~Queued(r)' /\ pc' # "down" => r \notin Pending']_vars
  BY <1>1, NextNoDrop DEF NoDrop
<1>2. QED BY <1>1, SInvHolds, PTL DEF Spec, NothingDropped

-----------------------------------------------------------------------------
(* The journal implements the ledger of attempts.                            *)

By(r) == {i \in Counted : Settles(i, r)}

LEMMA StatusIs ==
    \A r : StatusOf(r) = IF r \notin ReservedIds THEN "free"
                         ELSE IF By(r) = {} THEN "open" ELSE journal[Max(By(r))].type
BY DEF StatusOf, By, ReservedIds

LEMMA StatusNext ==
    \A r : StatusOf(r)' = IF r \notin ReservedIds' THEN "free"
                          ELSE IF By(r)' = {} THEN "open" ELSE journal'[Max(By(r)')].type
BY DEF StatusOf, By, ReservedIds

LEMMA ExtendsCounts ==
    ASSUME FilesOK, FilesOK', Extends
    PROVE  /\ Top \in Nat /\ \A i \in Counted : i \in Nat /\ i <= Top
           /\ \/ Top' = Top /\ Counted' = Counted
              \/ Top' = Top + 1 /\ Counted' = Counted \cup {Top + 1} /\ Top + 1 \notin Counted
           /\ \A i \in Counted : journal'[i] = journal[i]
           /\ \A i \in Counted : \A r : Settles(i, r)' <=> Settles(i, r)
<1>1. Top \in Nat /\ Top' \in Nat BY TopIs, TopNext
<1>2. \/ Top' = Top /\ Counted' = Counted
      \/ Top' = Top + 1 /\ Counted' = Counted \cup {Top + 1} /\ Top + 1 \notin Counted
  BY <1>1 DEF Extends, Counted
<1>3. \A i \in Counted : journal'[i] = journal[i] BY DEF Extends
<1>4. \A i \in Counted : \A r : Settles(i, r)' <=> Settles(i, r) BY <1>3 DEF Settles
<1>5. \A i \in Counted : i \in Nat /\ i <= Top BY <1>1 DEF Counted
<1>6. QED BY <1>1, <1>2, <1>3, <1>4, <1>5

\* An attempt the counted records reserve.
LEMMA StatusReserved ==
    ASSUME FilesOK, FilesOK', Extends, NEW r \in ReservedIds
    PROVE  /\ ~NewSettles(r) => StatusOf(r)' = StatusOf(r)
           /\ NewSettles(r) =>
                /\ StatusOf(r)' = journal'[Top + 1].type
                /\ StatusOf(r) = "open" \/ StatusOf(r) = StatusOf(r)'
<1> USE ExtendsCounts
<1>1. r \in ReservedIds' BY ExtendsKeeps
<1>2. By(r) \in SUBSET (1 .. Top) /\ Top \in Nat BY DEF By, Counted
<1>3. By(r) # {} => Max(By(r)) \in By(r) BY <1>2, MaxIn
<1>4. ASSUME ~NewSettles(r) PROVE StatusOf(r)' = StatusOf(r)
  <2>1. By(r)' = By(r) BY <1>4 DEF By, NewSettles, Settles
  <2>2. By(r) # {} => journal'[Max(By(r))] = journal[Max(By(r))] BY <1>3 DEF By
  <2>3. QED BY <1>1, <2>1, <2>2, StatusIs, StatusNext
<1>5. ASSUME NewSettles(r)
      PROVE  /\ StatusOf(r)' = journal'[Top + 1].type
             /\ StatusOf(r) = "open" \/ StatusOf(r) = StatusOf(r)'
  <2>1. By(r)' = By(r) \cup {Top + 1} BY <1>5 DEF By, NewSettles, Settles
  <2>2. Max(By(r)') = Top + 1
    <3>1. By(r)' \in SUBSET Nat /\ Top + 1 \in By(r)' /\ \A y \in By(r)' : y <= Top + 1
      BY <1>2, <2>1
    <3>2. QED BY <3>1, MaxIs
  <2>3. StatusOf(r)' = journal'[Top + 1].type BY <1>1, <2>1, <2>2, StatusNext
  <2>4. ASSUME By(r) # {} PROVE StatusOf(r) = StatusOf(r)'
    <3>1. StatusOf(r) = journal[Max(By(r))].type BY <2>4, StatusIs
    <3> DEFINE k == Max(By(r))
    <3>2. k \in 1 .. Top /\ k \in Counted /\ Settles(k, r) BY <1>2, <1>3, <2>4 DEF By
    <3>3. journal'[k] = journal[k] BY <3>2
    <3>4. Top' = Top + 1 /\ journal'[Top + 1].type \in Settling /\ journal'[Top + 1].of = r
      BY <1>5 DEF NewSettles
    <3>5. ASSUME NEW m \in 1 .. Top', m = Top + 1
          PROVE  FirstOutcome(m - 1, journal[m])'
      BY <3>4, <3>5, TopNext DEF Fits
    <3>6. Top + 1 \in 1 .. Top' /\ Top + 1 - 1 = Top BY <3>4
    <3> HIDE DEF k
    <3>7. journal'[k].type = "abandoned" /\ journal'[Top + 1].type = "abandoned"
      BY <3>2, <3>4, <3>5, <3>6, <3>3 DEF FirstOutcome, Settles
    <3>8. QED BY <2>3, <3>1, <3>3, <3>7 DEF k
  <2>5. QED BY <2>3, <2>4, StatusIs
<1>6. QED BY <1>4, <1>5

\* An ordinal they do not: it may become one.
LEMMA StatusUnreserved ==
    ASSUME FilesOK, FilesOK', Extends, NEW r, r \notin ReservedIds
    PROVE  /\ StatusOf(r) = "free" /\ StatusOf(r)' \in {"free", "open"}
           /\ StatusOf(r)' = "open" => /\ r = Top + 1 /\ Top' = Top + 1
                                       /\ journal'[Top + 1].type = "reserved"
<1> USE ExtendsCounts
<1>1. StatusOf(r) = "free" BY StatusIs
<1>2. ASSUME r \in ReservedIds'
      PROVE  /\ r = Top + 1 /\ Top' = Top + 1 /\ journal'[Top + 1].type = "reserved"
             /\ By(r)' = {}
  <2>1. r \in Counted' /\ journal'[r].type = "reserved" BY <1>2 DEF ReservedIds
  <2>2. r \notin Counted BY <2>1 DEF ReservedIds
  <2>3. r = Top + 1 /\ Top' = Top + 1 BY <2>1, <2>2
  <2>4. ASSUME NEW i \in 1 .. Top', Settles(i, r)' PROVE FALSE
    <3>1. Fits(i - 1, journal[i])' BY TopNext
    <3>2. journal'[i].of = r /\ journal'[i].type \in Settling BY <2>4 DEF Settles
    <3>3. r \in 1 .. i - 1 BY <3>1, <3>2 DEF Fits
    <3>4. QED BY <2>3, <3>3
  <2>5. By(r)' = {} BY <2>4 DEF By, Counted
  <2>6. QED BY <2>1, <2>3, <2>5
<1>3. QED BY <1>1, <1>2, StatusNext

\* Every step of the supervisor is a step of the ledger or leaves it alone.
LEMMA StepSettles ==
    ASSUME SInv, [Next]_vars
    PROVE  [Ledger!Next]_[r \in Ids |-> StatusOf(r)]
<1>1. FilesOK /\ FilesOK' /\ Extends
  <2>1. SInv' /\ Extends BY NextKeeps
  <2>2. FilesOK' BY <2>1 DEF SInv, FilesOK
  <2>3. QED BY <2>1, <2>2, SInvFiles
<1> DEFINE st == [r \in Ids |-> StatusOf(r)]
           nt == [r \in Ids |-> StatusOf(r)']
<1>2. SUFFICES nt = st \/ Ledger!Next
  OBVIOUS
<1>3. Top \in Nat /\ (Top' = Top \/ Top' = Top + 1) BY <1>1, ExtendsCounts
<1> DEFINE e == journal'[Top + 1]
<1>4. ASSUME NEW r \in Ids, StatusOf(r)' # StatusOf(r)
      PROVE  /\ Top' = Top + 1
             /\ \/ r = Top + 1 /\ StatusOf(r) = "free" /\ StatusOf(r)' = "open"
                   /\ e.type = "reserved"
                \/ r = e.of /\ StatusOf(r) = "open" /\ StatusOf(r)' = e.type
                   /\ e.type \in Settling
  <2>1. CASE r \in ReservedIds
    BY <1>1, <1>4, <2>1, StatusReserved DEF NewSettles
  <2>2. CASE r \notin ReservedIds
    BY <1>1, <1>4, <2>2, StatusUnreserved
  <2>3. QED BY <2>1, <2>2
<1>5. CASE \A r \in Ids : StatusOf(r)' = StatusOf(r) BY <1>5
<1>6. CASE \E r \in Ids : StatusOf(r)' # StatusOf(r)
  <2>1. PICK r \in Ids : StatusOf(r)' # StatusOf(r) BY <1>6
  <2>2. \A s \in Ids : s # r => StatusOf(s)' = StatusOf(s) BY <1>4, <2>1
  <2>3. nt = [st EXCEPT ![r] = StatusOf(r)'] BY <2>2
  <2>4. \/ StatusOf(r) = "free" /\ StatusOf(r)' = "open"
        \/ StatusOf(r) = "open" /\ StatusOf(r)' \in Settling
    BY <1>4, <2>1
  <2>5. st[r] = StatusOf(r) OBVIOUS
  <2>6. QED BY <2>3, <2>4, <2>5 DEF Ledger!Next, Ledger!Open, Ledger!Settle, Ledger!Settled
<1>7. QED BY <1>5, <1>6

\* The journal implements the ledger of attempts: an identity is opened once,
\* settled once, and what it was settled as never changes.
THEOREM ImplementsLedger == Spec => SettledOnce
<1>1. ASSUME Init PROVE Ledger!Init
  <2>1. journal = <<>> /\ pc = "down" BY <1>1 DEF Init
  <2>2. Counted = {} BY <2>1 DEF Counted, Top
  <2>3. \A r : StatusOf(r) = "free" BY <2>2, StatusIs DEF ReservedIds
  <2>4. QED BY <2>3 DEF Ledger!Init
<1>2. QED BY <1>1, StepSettles, SInvHolds, PTL DEF Spec, SettledOnce, Ledger!Spec
=============================================================================
