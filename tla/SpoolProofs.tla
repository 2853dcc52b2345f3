----------------------------- MODULE SpoolProofs -----------------------------
(***************************************************************************)
(* For every set of segments, every segment length and budget, and every    *)
(* number of kills, power losses and rotten files: what the spool and the   *)
(* replica report durable is, a receipt is for bytes that are there, and    *)
(* evidence leaves the control reserve.                                     *)
(***************************************************************************)
EXTENDS Spool, TLAPS, FiniteSetTheorems

Places == {"none", "temp", "final"}
FileRec == [at : Places, dur : Places, data : Seq(Cell), safe : Nat]
Bulk == {"seg", "rep"} \X Closure       \* the files that hold a segment
SizeOf(f) == IF f[1] \in {"seg", "rep"} THEN SegLen ELSE 1

\* The two ways out: bytes taken over unsynced, and rot.
Excused(f) == f \in adopted \cup rotted
HeldRec(c) == [at |-> "final", dur |-> "final", data |-> Exact(c), safe |-> SegLen]

\* A file under its final name has its exact bytes and they are on the medium;
\* the name may not be. No name is on the medium that the process does not see.
RecOK(f, r, excused) ==
    /\ r \in FileRec /\ r.safe <= Len(r.data) /\ Len(r.data) <= SizeOf(f)
    /\ r.at = "none" => r = NoFile
    /\ r.dur = "final" => r.at = "final"
    /\ f \in Bulk /\ r.at = "final" => excused \/ (r.data = Exact(f[2]) /\ r.safe = SegLen)
FilesOK ==
    /\ fs \in [File -> FileRec]
    /\ \A f \in File : RecOK(f, fs[f], Excused(f))

Safe(f) == fs[f] = HeldRec(f[2]) \/ Excused(f)
Kept(c) == Safe(Seg(c)) \/ c \in unsettled
Anchored(i) == fs[RepAck(i)].at = "final" /\ fs[RepAck(i)].dur = "final"

\* What was reported: an append, the replica's acknowledgement, a receipt. A kept
\* acknowledgement has a durable one of the replica behind it, so that no other
\* closure of the segment can push its bytes out.
Reports ==
    /\ \A c \in told : Safe(Seg(c))
    /\ \A i \in Id : At(AckFile(i)) = "final" => Anchored(i)
    /\ \A c \in Closure :
          /\ Recorded(AckFile(SegId[c]), c) => Safe(Rep(c)) /\ Kept(c)
          /\ Recorded(CatAck(SegId[c]), c) => Kept(c)

\* The call in progress.
WritePcs == {"fill", "fsync", "rename", "dirsync"}
DrainPcs == {"replicate", "persistAck", "send", "partialSync", "complete", "record", "admit",
             "recordCatalog"}
Calls ==
    /\ pc \in {"idle"} \cup WritePcs \cup DrainPcs
    /\ todo \subseteq Closure /\ \A c \in todo : Kept(c)
    /\ pc = "idle" => todo = {}
    /\ pc \in DrainPcs => todo # {}
    /\ pc = "send" => At(Rep(First)) # "final"
    /\ pc \in {"persistAck", "record"} => Safe(Rep(First))
    /\ pc = "record" => Anchored(SegId[First])
    /\ cur.file \in File

\* What atomic_write is called for, and how far it is.
WritesSegment == \E c \in Closure : cur = [file |-> Seg(c), bytes |-> Exact(c)] /\ todo = {}
WritesReplica == todo # {} /\ cur = [file |-> Rep(First), bytes |-> Exact(First)]
WritesReplicaAck == /\ todo # {} /\ cur = [file |-> RepAck(SegId[First]), bytes |-> <<First>>]
                    /\ Safe(Rep(First))
WritesAck == /\ todo # {} /\ cur = [file |-> AckFile(SegId[First]), bytes |-> <<First>>]
             /\ Safe(Rep(First)) /\ Anchored(SegId[First])
WritesCatalogAck == todo # {} /\ cur = [file |-> CatAck(SegId[First]), bytes |-> <<First>>]
Writes ==
    /\ pc \in WritePcs => \/ WritesSegment \/ WritesReplicaAck \/ WritesAck \/ WritesCatalogAck
                          \/ WritesReplica /\ pc \in {"rename", "dirsync"}
    /\ pc \in {"partialSync", "complete"} => WritesReplica
    /\ pc \in {"fill", "fsync", "rename", "partialSync", "complete"} => At(cur.file) = "temp"
    /\ pc \in {"fsync", "rename"} => Data(cur.file) = cur.bytes
    /\ pc = "rename" => fs[cur.file].safe = Len(cur.bytes) \/ Excused(cur.file)
    /\ pc = "complete" => \/ fs[cur.file].safe = SegLen /\ Len(Data(cur.file)) = SegLen
                          \/ Excused(cur.file)
    /\ pc = "fill" => fs[cur.file].safe = 0
    /\ pc = "dirsync" => At(cur.file) = "final"

Counted ==
    /\ quar \in [File -> 0..SegLen]
    /\ catalog \subseteq Closure /\ told \subseteq Closure /\ unsettled \subseteq Closure
    /\ adopted \subseteq File /\ rotted \subseteq File
    /\ breaks \in 0..MaxBreaks /\ power \in 0..MaxPower

\* The inductive invariant.
SpInv == FilesOK /\ Reports /\ Calls /\ Writes /\ Counted

-----------------------------------------------------------------------------
(* Files and bytes.                                                          *)

\* A nonempty set of naturals has a least element.
LEMMA LeastNat ==
    ASSUME NEW S \in SUBSET Nat, S # {}
    PROVE  \E x \in S : \A y \in S : x <= y
<1> DEFINE R == OpToRel(<, Nat)
<1>1. IsWellFoundedOn(R, Nat) BY NatLessThanWellFounded, Zenon
<1>2. \A x, y \in Nat : y < x => <<y, x>> \in R BY DEF OpToRel
<1> HIDE DEF R
<1>3. PICK x \in S : \A y \in S : ~(<<y, x>> \in R) BY <1>1, WFMin
<1>4. ASSUME NEW y \in S PROVE x <= y
  <2>1. x \in Nat /\ y \in Nat OBVIOUS
  <2>2. ~(y < x) BY <1>2, <1>3, <2>1, Zenon
  <2>3. QED BY <2>1, <2>2
<1>5. QED BY <1>4

\* A drain with segments left has a first one.
LEMMA FirstIn ==
    ASSUME todo \subseteq Closure, todo # {}
    PROVE  First \in todo /\ First \in Closure
<1> DEFINE S == {SegId[c] : c \in todo}
<1>1. S \in SUBSET Nat /\ S # {} BY SpoolBounds
<1>2. PICK x \in S : \A y \in S : x <= y BY <1>1, LeastNat
<1>3. \E c \in todo : \A d \in todo : SegId[c] <= SegId[d] BY <1>2
<1>4. First \in todo BY <1>3 DEF First
<1>5. QED BY <1>4

LEMMA FileFacts ==
    /\ \A c \in Closure :
          /\ Seg(c) \in Bulk /\ Rep(c) \in Bulk /\ Seg(c)[2] = c /\ Rep(c)[2] = c
          /\ Seg(c)[1] = "seg" /\ Rep(c)[1] = "rep" /\ SegId[c] \in Id
    /\ Bulk \subseteq File
    /\ \A f \in Bulk : f[1] \in {"seg", "rep"} /\ f[2] \in Closure /\ SizeOf(f) = SegLen
    /\ \A f \in File : f \notin Bulk => f[1] \in {"repAck", "ack", "catAck"} /\ SizeOf(f) = 1
    /\ \A i \in Id : /\ RepAck(i) \in File \ Bulk /\ AckFile(i) \in File \ Bulk
                     /\ CatAck(i) \in File \ Bulk /\ RepAck(i)[1] = "repAck"
                     /\ AckFile(i)[1] = "ack" /\ CatAck(i)[1] = "catAck"
                     /\ AckFile(i)[2] = i /\ CatAck(i)[2] = i /\ RepAck(i)[2] = i
    /\ \A f \in File : SizeOf(f) \in Nat /\ SizeOf(f) <= SegLen
<1>1. SegLen \in Nat \ {0} /\ SegId \in [Closure -> Nat] BY SpoolBounds
<1>2. \A c \in Closure : SegId[c] \in Id BY DEF Id
<1>3. QED BY <1>1, <1>2 DEF Seg, Rep, RepAck, AckFile, CatAck, Bulk, File, SizeOf

\* The bytes of a segment and of a receipt.
LEMMA ByteFacts ==
    /\ \A c \in Closure : /\ Exact(c) \in Seq(Cell) /\ Len(Exact(c)) = SegLen
                          /\ \A n \in 1..SegLen : Exact(c)[n] = c
                          /\ <<c>> \in Seq(Cell) /\ Len(<<c>>) = 1
    /\ \A c, d \in Closure : Exact(c) = Exact(d) => c = d
    /\ NoFile \in FileRec /\ NoFile.at = "none" /\ NoFile.dur = "none" /\ NoFile.safe = 0
    /\ NoFile.data = <<>> /\ Len(<<>>) = 0
    /\ SegLen \in Nat \ {0}
<1>1. SegLen \in Nat \ {0} BY SpoolBounds
<1>2. \A c \in Closure : c \in Cell BY DEF Cell
<1>3. \A c \in Closure : Exact(c) \in Seq(Cell) /\ Len(Exact(c)) = SegLen
  BY <1>1, <1>2 DEF Exact
<1>4. \A c \in Closure, n \in 1..SegLen : Exact(c)[n] = c BY <1>1 DEF Exact
<1>5. \A c, d \in Closure : Exact(c) = Exact(d) => c = d
  <2>1. 1 \in 1..SegLen BY <1>1
  <2>2. QED BY <1>4, <2>1
<1>6. /\ NoFile \in FileRec /\ NoFile.at = "none" /\ NoFile.dur = "none" /\ NoFile.safe = 0
      /\ NoFile.data = <<>> /\ Len(<<>>) = 0
  BY DEF NoFile, FileRec, Places
<1>7. \A c \in Closure : <<c>> \in Seq(Cell) /\ Len(<<c>>) = 1 BY <1>2
<1>8. QED BY <1>1, <1>3, <1>4, <1>5, <1>6, <1>7

-----------------------------------------------------------------------------
(* Steps that leave what was reported alone.                                 *)

Mono == adopted \subseteq adopted' /\ rotted \subseteq rotted' /\ unsettled \subseteq unsettled'
\* What is safe and what is anchored stays so.
Steady ==
    /\ Mono /\ FilesOK'
    /\ \A f \in Bulk : Safe(f) => Safe(f)'
    /\ \A i \in Id : Anchored(i) => Anchored(i)'
\* And no receipt appears.
Calm ==
    /\ Steady
    /\ \A f \in File \ Bulk :
          fs'[f].at = "final" => /\ fs[f].at = "final"
                                 /\ \A c \in Closure : fs'[f].data = <<c>> => fs[f].data = <<c>>

LEMMA CalmKept ==
    ASSUME Steady
    PROVE  \A c \in Closure : (Safe(Seg(c)) => Safe(Seg(c))') /\ (Safe(Rep(c)) => Safe(Rep(c))')
                               /\ (Kept(c) => Kept(c)')
BY FileFacts DEF Steady, Kept, Mono

LEMMA CalmReports ==
    ASSUME SpInv, Calm, \A c \in told' : c \in told \/ (c \in Closure /\ Safe(Seg(c))')
    PROVE  Reports'
<1>1. \A c \in told' : Safe(Seg(c))'
  BY CalmKept DEF SpInv, Reports, Counted, Calm, Steady
<1>2. \A i \in Id : At(AckFile(i))' = "final" => Anchored(i)'
  BY FileFacts DEF SpInv, Reports, Calm, Steady, At
<1>3. ASSUME NEW c \in Closure
      PROVE  /\ Recorded(AckFile(SegId[c]), c)' => Recorded(AckFile(SegId[c]), c)
             /\ Recorded(CatAck(SegId[c]), c)' => Recorded(CatAck(SegId[c]), c)
  BY FileFacts DEF Calm, Steady, Recorded, At, Data
<1>4. ASSUME NEW c \in Closure
      PROVE  /\ Recorded(AckFile(SegId[c]), c)' => Safe(Rep(c))' /\ Kept(c)'
             /\ Recorded(CatAck(SegId[c]), c)' => Kept(c)'
  BY <1>3, CalmKept DEF SpInv, Reports, Calm, Steady
<1>5. QED BY <1>1, <1>2, <1>4 DEF Reports

\* One file changes.
LEMMA OneFile ==
    ASSUME SpInv, Mono, NEW f \in File, NEW r, fs' = [fs EXCEPT ![f] = r],
           RecOK(f, r, f \in adopted' \cup rotted')
    PROVE  /\ FilesOK' /\ fs'[f] = r
           /\ \A g \in File : g # f => fs'[g] = fs[g]
<1>1. fs \in [File -> FileRec] /\ r \in FileRec BY DEF SpInv, FilesOK, RecOK
<1>2. fs'[f] = r /\ \A g \in File : g # f => fs'[g] = fs[g] BY <1>1
<1>3. fs' \in [File -> FileRec] BY <1>1
<1>4. \A g \in File : RecOK(g, fs'[g], g \in adopted' \cup rotted')
  <2> SUFFICES ASSUME NEW g \in File, g # f PROVE RecOK(g, fs[g], g \in adopted' \cup rotted')
    BY <1>2
  <2>1. RecOK(g, fs[g], Excused(g)) BY DEF SpInv, FilesOK
  <2>2. QED BY <2>1 DEF RecOK, Excused, Mono
<1>5. QED BY <1>2, <1>3, <1>4 DEF FilesOK, Excused

LEMMA CalmOne ==
    ASSUME SpInv, Mono, NEW f \in File, NEW r, fs' = [fs EXCEPT ![f] = r],
           RecOK(f, r, f \in adopted' \cup rotted'),
           f \in Bulk => fs[f] # HeldRec(f[2]) \/ f \in adopted' \cup rotted',
           f \notin Bulk => fs[f].at # "final" /\ r.at # "final"
    PROVE  Calm
<1>1. /\ FilesOK' /\ fs'[f] = r /\ \A g \in File : g # f => fs'[g] = fs[g] BY OneFile
<1>2. \A g \in Bulk : Safe(g) => Safe(g)'
  BY <1>1, FileFacts DEF Safe, Excused, Mono, HeldRec
<1>3. \A i \in Id : Anchored(i) => Anchored(i)' BY <1>1, FileFacts DEF Anchored
<1>4. QED BY <1>1, <1>2, <1>3 DEF Calm, Steady

\* A directory is synced.
LEMMA CalmSync ==
    ASSUME SpInv, Mono, NEW kinds, fs' = Synced(fs, kinds)
    PROVE  /\ Calm
           /\ \A f \in File : f[1] \in kinds => fs'[f] = [fs[f] EXCEPT !.dur = fs[f].at]
           /\ \A f \in File : fs'[f].at = fs[f].at /\ fs'[f].data = fs[f].data /\ fs'[f].safe = fs[f].safe
<1>1. fs \in [File -> FileRec] BY DEF SpInv, FilesOK
<1>2. \A f \in File : fs'[f] = IF f[1] \in kinds THEN [fs[f] EXCEPT !.dur = fs[f].at] ELSE fs[f]
  BY DEF Synced
<1>3. fs' = [f \in File |-> fs'[f]] BY DEF Synced
<1>4. \A f \in File : /\ fs'[f] \in FileRec /\ fs'[f].at = fs[f].at /\ fs'[f].data = fs[f].data
                      /\ fs'[f].safe = fs[f].safe /\ fs'[f].dur \in {fs[f].dur, fs[f].at}
  BY <1>1, <1>2 DEF FileRec
<1>5. \A f \in File : RecOK(f, fs'[f], f \in adopted' \cup rotted')
  <2> SUFFICES ASSUME NEW f \in File PROVE RecOK(f, fs'[f], f \in adopted' \cup rotted') OBVIOUS
  <2>1. RecOK(f, fs[f], Excused(f)) BY DEF SpInv, FilesOK
  <2>2. fs[f].at = "none" => fs'[f] = NoFile
    BY <1>1, <1>2, <2>1, ByteFacts DEF RecOK, FileRec
  <2>3. QED BY <1>4, <2>1, <2>2 DEF RecOK, Excused, Mono
<1>6. FilesOK' BY <1>3, <1>4, <1>5 DEF FilesOK, Excused
<1>7. \A f \in Bulk : Safe(f) => Safe(f)'
  <2> SUFFICES ASSUME NEW f \in Bulk, fs[f] = HeldRec(f[2]) PROVE fs'[f] = HeldRec(f[2])
    BY DEF Safe, Excused, Mono, HeldRec
  <2>1. fs[f].at = "final" /\ fs[f].dur = "final" BY DEF HeldRec
  <2>2. QED BY <1>1, <1>2, <2>1, FileFacts DEF FileRec
<1>8. \A i \in Id : Anchored(i) => Anchored(i)' BY <1>4, FileFacts DEF Anchored
<1>9. QED BY <1>2, <1>4, <1>6, <1>7, <1>8 DEF Calm, Steady

LEMMA CalmSame ==
    ASSUME SpInv, Mono, fs' = fs PROVE Calm
<1>1. FilesOK' BY DEF SpInv, FilesOK, RecOK, Excused, Mono
<1>2. QED BY <1>1 DEF Calm, Steady, Safe, Excused, Mono, Anchored

\* quarantine
LEMMA CalmQuarantine ==
    ASSUME SpInv, Mono, NEW f \in Bulk, Quarantined(f),
           fs[f] # HeldRec(f[2])
    PROVE  Calm /\ quar' \in [File -> 0..SegLen]
<1>1. f \in File /\ SizeOf(f) = SegLen BY FileFacts
<1>2. RecOK(f, NoFile, f \in adopted' \cup rotted')
  BY <1>1, ByteFacts DEF RecOK
<1>3. Calm BY <1>1, <1>2, CalmOne DEF Quarantined
<1>4. Len(Data(f)) \in 0..SegLen
  <2>1. RecOK(f, fs[f], Excused(f)) BY <1>1 DEF SpInv, FilesOK
  <2>2. QED BY <1>1, <2>1, ByteFacts DEF RecOK, FileRec, Data
<1>5. QED BY <1>1, <1>3, <1>4 DEF Quarantined, SpInv, Counted

LEMMA CorruptNotHeld ==
    ASSUME NEW f \in Bulk, Corrupt(f) PROVE fs[f] # HeldRec(f[2])
BY FileFacts DEF Corrupt, Data, HeldRec

LEMMA NoWriteFile == NoWrite.file \in File
<1>1. (CHOOSE c \in Closure : TRUE) \in Closure BY SpoolBounds
<1>2. QED BY <1>1, FileFacts DEF NoWrite

\* A call returns, or goes on to the next segment.
LEMMA ReturnKeeps ==
    ASSUME Return PROVE Calls' /\ Writes'
<1>1. NoWrite.file \in File BY NoWriteFile
<1>2. pc' = "idle" /\ todo' = {} /\ cur' = NoWrite BY DEF Return
<1>3. QED BY <1>1, <1>2 DEF Calls, Writes, WritePcs, DrainPcs

LEMMA NextSegmentKeeps ==
    ASSUME SpInv, Calm, NEW going \in {"replicate", "admit"}, NextSegment(going)
    PROVE  Calls' /\ Writes'
<1>1. NoWrite.file \in File BY NoWriteFile
<1>2. /\ todo' = todo \ {First} /\ cur' = NoWrite
      /\ pc' = IF todo' = {} THEN "idle" ELSE going
  BY DEF NextSegment
<1>3. todo' \subseteq Closure /\ \A c \in todo' : Kept(c)'
  BY <1>2, CalmKept DEF SpInv, Calls, Calm, Steady
<1>4. QED BY <1>1, <1>2, <1>3 DEF Calls, Writes, WritePcs, DrainPcs

\* atomic_write begins: a new temporary file, or one that is there already.
LEMMA BeginWriteCalm ==
    ASSUME SpInv, NEW f \in File, NEW bytes \in Seq(Cell), Len(bytes) = SizeOf(f),
           BeginWrite(f, bytes), rotted' = rotted, unsettled' = unsettled
    PROVE  /\ Calm /\ pc' \in {"fill", "rename"} /\ cur' = [file |-> f, bytes |-> bytes]
           /\ fs'[f].at = "temp" /\ adopted' \subseteq File
           /\ pc' = "fill" => fs'[f].safe = 0
           /\ pc' = "rename" => /\ fs'[f].data = bytes
                                /\ fs'[f].safe = Len(bytes) \/ f \in adopted' \cup rotted'
<1>0. /\ RecOK(f, fs[f], Excused(f)) /\ fs \in [File -> FileRec] /\ adopted \subseteq File
  BY DEF SpInv, FilesOK, Counted
<1>1. CASE /\ At(f) = "none" /\ fs' = [fs EXCEPT ![f] = [NoFile EXCEPT !.at = "temp"]]
           /\ pc' = "fill" /\ adopted' = adopted
  <2> DEFINE r == [NoFile EXCEPT !.at = "temp"]
  <2>1. /\ r \in FileRec /\ r.at = "temp" /\ r.dur = "none" /\ r.data = <<>> /\ r.safe = 0
    <3>1. "temp" \in Places BY DEF Places
    <3>2. QED BY <3>1, ByteFacts DEF FileRec
  <2> HIDE DEF r
  <2>2. RecOK(f, r, f \in adopted' \cup rotted')
    BY <2>1, ByteFacts, FileFacts DEF RecOK
  <2>3. fs[f].at # "final" /\ fs[f] # HeldRec(f[2])
    BY <1>1 DEF At, HeldRec
  <2>4. Mono BY <1>1 DEF Mono
  <2>5. fs' = [fs EXCEPT ![f] = r] BY <1>1 DEF r
  <2>6. Calm BY <2>1, <2>2, <2>3, <2>4, <2>5, CalmOne
  <2>7. fs'[f] = r BY <1>0, <2>5
  <2>8. QED BY <1>0, <1>1, <2>1, <2>6, <2>7 DEF BeginWrite
<1>2. CASE /\ At(f) = "temp" /\ Data(f) = bytes
           /\ adopted' = IF fs[f].safe < Len(bytes) THEN adopted \cup {f} ELSE adopted
           /\ pc' = "rename" /\ fs' = fs
  <2>1. Mono BY <1>2 DEF Mono
  <2>2. Calm BY <1>2, <2>1, CalmSame
  <2>3. fs[f].safe = Len(bytes) \/ f \in adopted'
    <3>1. fs[f].safe \in Nat /\ fs[f].safe <= Len(bytes) /\ Len(bytes) \in Nat
      BY <1>0, <1>2 DEF RecOK, FileRec, Data
    <3>2. QED BY <1>2, <3>1
  <2>4. adopted' \subseteq File BY <1>0, <1>2
  <2>5. QED BY <1>2, <2>2, <2>3, <2>4 DEF BeginWrite, At, Data
<1>3. QED BY <1>1, <1>2 DEF BeginWrite

\* A write has just begun, and everything is as atomic_write needs it.
LEMMA WriteBegun ==
    ASSUME pc' \in {"fill", "rename"}, fs'[cur'.file].at = "temp",
           pc' = "fill" => fs'[cur'.file].safe = 0,
           pc' = "rename" => /\ fs'[cur'.file].data = cur'.bytes
                             /\ \/ fs'[cur'.file].safe = Len(cur'.bytes)
                                \/ cur'.file \in adopted' \cup rotted',
           WritesSegment' \/ WritesReplicaAck' \/ WritesAck' \/ WritesCatalogAck'
    PROVE  Writes'
BY DEF Writes, At, Data, Excused

\* A receipt or an acknowledgement is written for the first segment of the drain.
LEMMA ReceiptBegun ==
    ASSUME SpInv, todo # {}, todo' = todo, NEW f \in File \ Bulk, BeginWrite(f, <<First>>),
           rotted' = rotted, unsettled' = unsettled,
           \/ f = RepAck(SegId[First]) /\ Safe(Rep(First))
           \/ f = AckFile(SegId[First]) /\ Safe(Rep(First)) /\ Anchored(SegId[First])
           \/ f = CatAck(SegId[First])
    PROVE  Calm /\ Calls' /\ Writes' /\ adopted' \subseteq File
<1>1. First \in Closure /\ SegId[First] \in Id BY FirstIn, FileFacts DEF SpInv, Calls
<1>2. <<First>> \in Seq(Cell) /\ Len(<<First>>) = SizeOf(f) BY <1>1, ByteFacts, FileFacts
<1>3. /\ Calm /\ pc' \in {"fill", "rename"} /\ cur' = [file |-> f, bytes |-> <<First>>]
      /\ fs'[f].at = "temp" /\ adopted' \subseteq File
      /\ pc' = "fill" => fs'[f].safe = 0
      /\ pc' = "rename" => /\ fs'[f].data = <<First>>
                           /\ fs'[f].safe = Len(<<First>>) \/ f \in adopted' \cup rotted'
  BY <1>2, BeginWriteCalm
<1>4. First' = First BY DEF First
<1>5. /\ Safe(Rep(First)) => Safe(Rep(First))' /\ (Anchored(SegId[First]) => Anchored(SegId[First])')
  BY <1>1, <1>3, <1>4, CalmKept DEF Calm, Steady, Anchored, Safe, Excused
<1>6. WritesReplicaAck' \/ WritesAck' \/ WritesCatalogAck'
  BY <1>3, <1>4, <1>5 DEF WritesReplicaAck, WritesAck, WritesCatalogAck
<1>7. cur'.file = f /\ cur'.bytes = <<First>> BY <1>3
<1>8. Writes' BY <1>3, <1>6, <1>7, WriteBegun
<1>9. Calls'
  <2>1. \A c \in todo' : Kept(c)' BY <1>3, CalmKept DEF SpInv, Calls, Calm, Steady
  <2>2. QED BY <1>3, <1>7, <2>1 DEF SpInv, Calls, WritePcs, DrainPcs
<1>10. QED BY <1>3, <1>8, <1>9

-----------------------------------------------------------------------------
(* fsutil.rs                                                                 *)

\* A step of a write that changes the file's record to another under the
\* temporary name.
LEMMA TempStep ==
    ASSUME SpInv, cur.file \in File, At(cur.file) = "temp", NEW r, r.at = "temp",
           fs' = [fs EXCEPT ![cur.file] = r], Mono,
           RecOK(cur.file, r, cur.file \in adopted' \cup rotted')
    PROVE  Calm /\ fs'[cur.file] = r
<1>1. fs[cur.file].at = "temp" BY DEF At
<1>2. fs[cur.file] # HeldRec(cur.file[2]) BY <1>1 DEF HeldRec
<1>3. Calm BY <1>1, <1>2, CalmOne
<1>4. QED BY <1>3, OneFile

\* The call stays the same write.
LEMMA SameWrite ==
    ASSUME SpInv, Steady, pc \in WritePcs, pc' \in WritePcs, UNCHANGED <<todo, cur>>
    PROVE  /\ Calls'
           /\ WritesSegment => WritesSegment'
           /\ WritesReplica => WritesReplica'
           /\ WritesReplicaAck => WritesReplicaAck'
           /\ WritesAck => WritesAck'
           /\ WritesCatalogAck => WritesCatalogAck'
<1>1. First' = First BY DEF First
<1>2. \A c \in todo : c \in Closure /\ Kept(c)' BY CalmKept DEF SpInv, Calls, Calm, Steady
<1>3. todo # {} => /\ First \in Closure /\ SegId[First] \in Id
                   /\ (Safe(Rep(First)) => Safe(Rep(First))')
                   /\ (Anchored(SegId[First]) => Anchored(SegId[First])')
  <2> SUFFICES ASSUME todo # {}
               PROVE  /\ First \in Closure /\ SegId[First] \in Id
                      /\ (Safe(Rep(First)) => Safe(Rep(First))')
                      /\ (Anchored(SegId[First]) => Anchored(SegId[First])')
    OBVIOUS
  <2>1. First \in Closure /\ SegId[First] \in Id BY FirstIn, FileFacts DEF SpInv, Calls
  <2>2. PICK d \in Closure : d = First BY <2>1
  <2>3. (Safe(Rep(d)) => Safe(Rep(d))') /\ (Anchored(SegId[d]) => Anchored(SegId[d])')
    BY <2>1, <2>2, CalmKept DEF Calm, Steady
  <2>4. (Safe(Rep(First)) => Safe(Rep(First))') BY <1>1, <2>2, <2>3 DEF Safe, Excused, HeldRec, Exact, Rep
  <2>5. (Anchored(SegId[First]) => Anchored(SegId[First])') BY <1>1, <2>2, <2>3 DEF Anchored, RepAck
  <2>6. QED BY <2>1, <2>4, <2>5
<1>4. Calls' BY <1>2 DEF SpInv, Calls, WritePcs, DrainPcs
<1>5. QED BY <1>1, <1>3, <1>4
          DEF WritesSegment, WritesReplica, WritesReplicaAck, WritesAck, WritesCatalogAck

LEMMA WriteFacts ==
    ASSUME SpInv, pc \in WritePcs
    PROVE  /\ cur.file \in File /\ cur.bytes \in Seq(Cell) /\ Len(cur.bytes) = SizeOf(cur.file)
           /\ Len(cur.bytes) \in Nat
           /\ cur.file \in Bulk => cur.bytes = Exact(cur.file[2])
<1>1. cur.file \in File BY DEF SpInv, Calls
<1>2. CASE WritesSegment
  <2>1. PICK c \in Closure : cur = [file |-> Seg(c), bytes |-> Exact(c)]
    BY <1>2 DEF WritesSegment
  <2>2. cur.file = Seg(c) /\ cur.bytes = Exact(c) BY <2>1
  <2>3. QED BY <1>1, <2>2, FileFacts, ByteFacts
<1>3. ASSUME todo # {} PROVE First \in Closure /\ SegId[First] \in Id
  BY <1>3, FirstIn, FileFacts DEF SpInv, Calls
<1>4. CASE WritesReplica
  <2>1. cur.file = Rep(First) /\ cur.bytes = Exact(First) /\ First \in Closure
    BY <1>3, <1>4 DEF WritesReplica
  <2>2. QED BY <1>1, <2>1, FileFacts, ByteFacts
<1>5. CASE WritesReplicaAck \/ WritesAck \/ WritesCatalogAck
  <2>1. /\ cur.bytes = <<First>> /\ First \in Closure /\ SegId[First] \in Id
        /\ cur.file \in {RepAck(SegId[First]), AckFile(SegId[First]), CatAck(SegId[First])}
    BY <1>3, <1>5 DEF WritesReplicaAck, WritesAck, WritesCatalogAck
  <2>2. cur.file \notin Bulk BY <2>1, FileFacts
  <2>3. QED BY <1>1, <2>1, <2>2, FileFacts, ByteFacts
<1>6. QED BY <1>2, <1>4, <1>5 DEF SpInv, Writes

LEMMA FillKeeps == ASSUME SpInv, Fill PROVE SpInv'
<1>1. /\ pc = "fill" /\ pc' = "fsync" /\ UNCHANGED <<quar, todo, cur, catalog>>
      /\ UNCHANGED <<told, adopted, rotted, unsettled, breaks, power>>
  BY DEF Fill, histVars
<1>2. pc \in WritePcs /\ pc' \in WritePcs BY <1>1 DEF WritePcs
<1> DEFINE f == cur.file
           r == [fs[f] EXCEPT !.data = cur.bytes]
<1>3. f \in File /\ cur.bytes \in Seq(Cell) /\ Len(cur.bytes) = SizeOf(f) BY <1>2, WriteFacts
<1>4. At(f) = "temp" /\ fs[f].safe = 0 BY <1>1 DEF SpInv, Writes
<1>5. RecOK(f, fs[f], Excused(f)) /\ fs[f] \in FileRec BY <1>3 DEF SpInv, FilesOK, RecOK
<1>6. /\ r \in FileRec /\ r.at = "temp" /\ r.dur = fs[f].dur /\ r.safe = 0 /\ r.data = cur.bytes
  BY <1>3, <1>4, <1>5 DEF FileRec, At
<1>7. fs' = [fs EXCEPT ![f] = r] BY DEF Fill
<1> HIDE DEF r
<1>8. RecOK(f, r, f \in adopted' \cup rotted')
  BY <1>3, <1>4, <1>5, <1>6, FileFacts DEF RecOK, At
<1>9. Mono BY <1>1 DEF Mono
<1>10. Calm /\ fs'[f] = r BY <1>3, <1>4, <1>6, <1>7, <1>8, <1>9, TempStep
<1>11. Reports' BY <1>1, <1>10, CalmReports
<1>12. Steady BY <1>10 DEF Calm
<1>13. Calls' BY <1>1, <1>2, <1>12, SameWrite
<1>14. Writes'
  BY <1>1, <1>2, <1>6, <1>10, <1>12, SameWrite DEF SpInv, Writes, At, Data
<1>15. FilesOK' /\ Counted' BY <1>1, <1>12 DEF Steady, SpInv, Counted
<1>16. QED BY <1>11, <1>13, <1>14, <1>15 DEF SpInv

LEMMA FsyncKeeps == ASSUME SpInv, Fsync PROVE SpInv'
<1>1. /\ pc = "fsync" /\ pc' = "rename" /\ UNCHANGED <<quar, todo, cur, catalog>>
      /\ UNCHANGED <<told, adopted, rotted, unsettled, breaks, power>>
  BY DEF Fsync, histVars
<1>2. pc \in WritePcs /\ pc' \in WritePcs BY <1>1 DEF WritePcs
<1> DEFINE f == cur.file
           r == [fs[f] EXCEPT !.safe = Len(Data(f))]
<1>3. /\ f \in File /\ cur.bytes \in Seq(Cell) /\ Len(cur.bytes) = SizeOf(f)
      /\ Len(cur.bytes) \in Nat
  BY <1>2, WriteFacts
<1>4. At(f) = "temp" /\ Data(f) = cur.bytes BY <1>1 DEF SpInv, Writes
<1>5. RecOK(f, fs[f], Excused(f)) /\ fs[f] \in FileRec BY <1>3 DEF SpInv, FilesOK, RecOK
<1>6. /\ r \in FileRec /\ r.at = "temp" /\ r.dur = fs[f].dur /\ r.safe = Len(cur.bytes)
      /\ r.data = cur.bytes
  BY <1>3, <1>4, <1>5 DEF FileRec, At, Data
<1>7. fs' = [fs EXCEPT ![f] = r] BY DEF Fsync
<1> HIDE DEF r
<1>8. RecOK(f, r, f \in adopted' \cup rotted')
  BY <1>3, <1>4, <1>5, <1>6, FileFacts DEF RecOK, At
<1>9. Mono BY <1>1 DEF Mono
<1>10. Calm /\ fs'[f] = r BY <1>3, <1>4, <1>6, <1>7, <1>8, <1>9, TempStep
<1>11. Reports' BY <1>1, <1>10, CalmReports
<1>12. Steady BY <1>10 DEF Calm
<1>13. Calls' BY <1>1, <1>2, <1>12, SameWrite
<1>14. Writes'
  BY <1>1, <1>2, <1>6, <1>10, <1>12, SameWrite DEF SpInv, Writes, At, Data
<1>15. FilesOK' /\ Counted' BY <1>1, <1>12 DEF Steady, SpInv, Counted
<1>16. QED BY <1>11, <1>13, <1>14, <1>15 DEF SpInv

\* A receipt appears by its rename, and it is for bytes that are there.
LEMMA RenameKeeps == ASSUME SpInv, Rename PROVE SpInv'
<1>1. /\ pc = "rename" /\ pc' = "dirsync" /\ UNCHANGED <<quar, todo, cur, catalog>>
      /\ UNCHANGED <<told, adopted, rotted, unsettled, breaks, power>>
  BY DEF Rename, histVars
<1>2. pc \in WritePcs /\ pc' \in WritePcs BY <1>1 DEF WritePcs
<1> DEFINE f == cur.file
           r == [fs[f] EXCEPT !.at = "final"]
<1>3. /\ f \in File /\ cur.bytes \in Seq(Cell) /\ Len(cur.bytes) = SizeOf(f)
      /\ Len(cur.bytes) \in Nat /\ f \in Bulk => cur.bytes = Exact(f[2])
  BY <1>2, WriteFacts
<1>4. /\ At(f) = "temp" /\ Data(f) = cur.bytes
      /\ fs[f].safe = Len(cur.bytes) \/ Excused(f)
  BY <1>1 DEF SpInv, Writes
<1>5. RecOK(f, fs[f], Excused(f)) /\ fs[f] \in FileRec BY <1>3 DEF SpInv, FilesOK, RecOK
<1>6. /\ r \in FileRec /\ r.at = "final" /\ r.dur = fs[f].dur /\ r.safe = fs[f].safe
      /\ r.data = cur.bytes
  BY <1>3, <1>4, <1>5 DEF FileRec, At, Data, Places
<1>7. fs' = [fs EXCEPT ![f] = r] BY DEF Rename
<1> HIDE DEF r
<1>8. RecOK(f, r, f \in adopted' \cup rotted')
  BY <1>1, <1>3, <1>4, <1>5, <1>6, FileFacts DEF RecOK, At, Data, Excused
<1>9. Mono BY <1>1 DEF Mono
<1>10. FilesOK' /\ fs'[f] = r /\ \A g \in File : g # f => fs'[g] = fs[g]
  BY <1>3, <1>7, <1>8, <1>9, OneFile
<1>11. Steady
  <2>1. fs[f].at # "final" BY <1>4 DEF At
  <2>2. \A g \in Bulk : Safe(g) => Safe(g)'
    BY <1>1, <1>10, <2>1, FileFacts DEF Safe, Excused, HeldRec
  <2>3. \A i \in Id : Anchored(i) => Anchored(i)' BY <1>10, <2>1, FileFacts DEF Anchored
  <2>4. QED BY <1>9, <1>10, <2>2, <2>3 DEF Steady
<1>12. Calls' BY <1>1, <1>2, <1>11, SameWrite
<1>13. Writes'
  BY <1>1, <1>2, <1>6, <1>10, <1>11, SameWrite DEF SpInv, Writes, At, Data
<1>14. Reports'
  <2>1. \A c \in told' : Safe(Seg(c))' BY <1>1, <1>11, CalmKept DEF SpInv, Reports, Counted
  <2>2. ASSUME todo # {} PROVE First \in todo /\ First \in Closure /\ Kept(First)
    BY <2>2, FirstIn DEF SpInv, Calls
  <2>3. ASSUME NEW i \in Id, f = AckFile(i)
        PROVE  /\ todo # {} /\ i = SegId[First] /\ cur.bytes = <<First>>
               /\ Safe(Rep(First)) /\ Anchored(i)
    <3>1. f[1] = "ack" /\ f[2] = i BY <2>3, FileFacts
    <3>2. WritesAck
      <4>1. ~WritesSegment
        <5> SUFFICES ASSUME NEW c \in Closure, cur.file = Seg(c) PROVE FALSE
          BY DEF WritesSegment
        <5>1. QED BY <3>1, FileFacts
      <4>2. ~WritesReplica /\ ~WritesReplicaAck /\ ~WritesCatalogAck
        BY <2>2, <3>1, FileFacts DEF WritesReplica, WritesReplicaAck, WritesCatalogAck
      <4>3. QED BY <1>2, <4>1, <4>2 DEF SpInv, Writes
    <3>3. /\ todo # {} /\ f = AckFile(SegId[First]) /\ cur.bytes = <<First>>
          /\ Safe(Rep(First)) /\ Anchored(SegId[First])
      BY <3>2 DEF WritesAck
    <3>4. QED BY <2>2, <3>1, <3>3, FileFacts
  <2>4. ASSUME NEW i \in Id, f = CatAck(i)
        PROVE  todo # {} /\ cur.bytes = <<First>>
    <3>1. f[1] = "catAck" /\ f[2] = i BY <2>4, FileFacts
    <3>2. WritesCatalogAck
      <4>1. ~WritesSegment
        <5> SUFFICES ASSUME NEW c \in Closure, cur.file = Seg(c) PROVE FALSE
          BY DEF WritesSegment
        <5>1. QED BY <3>1, FileFacts
      <4>2. ~WritesReplica /\ ~WritesReplicaAck /\ ~WritesAck
        BY <2>2, <3>1, FileFacts DEF WritesReplica, WritesReplicaAck, WritesAck
      <4>3. QED BY <1>2, <4>1, <4>2 DEF SpInv, Writes
    <3>3. QED BY <3>2 DEF WritesCatalogAck
  <2>5. \A i \in Id : At(AckFile(i))' = "final" => Anchored(i)'
    <3> SUFFICES ASSUME NEW i \in Id, At(AckFile(i))' = "final" PROVE Anchored(i)' OBVIOUS
    <3>1. CASE f = AckFile(i) BY <1>11, <2>3, <3>1 DEF Steady
    <3>2. CASE f # AckFile(i)
      <4>1. At(AckFile(i)) = "final" BY <1>10, <3>2, FileFacts DEF At
      <4>2. QED BY <1>11, <4>1 DEF Steady, SpInv, Reports
    <3>3. QED BY <3>1, <3>2
  <2>6. ASSUME NEW c \in Closure
        PROVE  Recorded(AckFile(SegId[c]), c)' => Safe(Rep(c))' /\ Kept(c)'
    <3> SUFFICES ASSUME Recorded(AckFile(SegId[c]), c)' PROVE Safe(Rep(c)) /\ Kept(c)
      BY <1>11, CalmKept
    <3>0. SegId[c] \in Id /\ AckFile(SegId[c]) \in File BY FileFacts
    <3>1. CASE f = AckFile(SegId[c])
      <4>1. cur.bytes = <<c>> BY <1>6, <1>10, <3>1 DEF Recorded, Data
      <4>2. cur.bytes = <<First>> /\ todo # {} /\ Safe(Rep(First)) BY <2>3, <3>0, <3>1
      <4>3. c = First BY <4>1, <4>2
      <4>4. QED BY <2>2, <4>2, <4>3
    <3>2. CASE f # AckFile(SegId[c])
      <4>1. Recorded(AckFile(SegId[c]), c) BY <1>10, <3>0, <3>2 DEF Recorded, At, Data
      <4>2. QED BY <4>1 DEF SpInv, Reports
    <3>3. QED BY <3>1, <3>2
  <2>7. ASSUME NEW c \in Closure
        PROVE  Recorded(CatAck(SegId[c]), c)' => Kept(c)'
    <3> SUFFICES ASSUME Recorded(CatAck(SegId[c]), c)' PROVE Kept(c)
      BY <1>11, CalmKept
    <3>0. SegId[c] \in Id /\ CatAck(SegId[c]) \in File BY FileFacts
    <3>1. CASE f = CatAck(SegId[c])
      <4>1. cur.bytes = <<c>> BY <1>6, <1>10, <3>1 DEF Recorded, Data
      <4>2. cur.bytes = <<First>> /\ todo # {} BY <2>4, <3>0, <3>1
      <4>3. c = First BY <4>1, <4>2
      <4>4. QED BY <2>2, <4>2, <4>3
    <3>2. CASE f # CatAck(SegId[c])
      <4>1. Recorded(CatAck(SegId[c]), c) BY <1>10, <3>0, <3>2 DEF Recorded, At, Data
      <4>2. QED BY <4>1 DEF SpInv, Reports
    <3>3. QED BY <3>1, <3>2
  <2>8. QED BY <2>1, <2>5, <2>6, <2>7 DEF Reports
<1>15. Counted' BY <1>1 DEF SpInv, Counted
<1>16. QED BY <1>10, <1>12, <1>13, <1>14, <1>15 DEF SpInv

-----------------------------------------------------------------------------
(* spool.rs                                                                  *)

LEMMA IdleKeeps ==
    ASSUME pc' = "idle", todo' = {}, cur'.file \in File PROVE Calls' /\ Writes'
BY DEF Calls, Writes, WritePcs, DrainPcs

\* A synced file under its final name is held.
LEMMA SyncSafe ==
    ASSUME SpInv, Mono, NEW kinds, fs' = Synced(fs, kinds),
           NEW f \in Bulk, f[1] \in kinds, fs[f].at = "final"
    PROVE  Safe(f)'
<1>1. f \in File BY FileFacts
<1>2. RecOK(f, fs[f], Excused(f)) BY <1>1 DEF SpInv, FilesOK
<1>3. CASE Excused(f) BY <1>3 DEF Safe, Excused, Mono
<1>4. CASE ~Excused(f)
  <2>1. fs[f] \in FileRec /\ fs[f].data = Exact(f[2]) /\ fs[f].safe = SegLen
    BY <1>2, <1>4 DEF RecOK
  <2>2. fs'[f] = [fs[f] EXCEPT !.dur = "final"] BY <1>1, CalmSync
  <2>3. fs'[f] = HeldRec(f[2]) BY <2>1, <2>2 DEF FileRec, HeldRec
  <2>4. QED BY <2>3 DEF Safe, HeldRec
<1>5. QED BY <1>3, <1>4

\* A corrupt ready segment is quarantined while no call is in progress.
LEMMA CorruptReadyKeeps ==
    ASSUME SpInv, pc = "idle", NEW c \in Closure, Corrupt(Seg(c)), Quarantined(Seg(c)),
           UNCHANGED <<callVars, catalog, histVars>>
    PROVE  SpInv'
<1>1. /\ pc' = "idle" /\ todo' = {} /\ cur' = cur /\ cur.file \in File
      /\ UNCHANGED <<catalog, told, adopted, rotted, unsettled, breaks, power>>
  BY DEF callVars, histVars, SpInv, Calls
<1>2. Mono BY <1>1 DEF Mono
<1>3. Seg(c) \in Bulk BY FileFacts
<1>4. Calm /\ quar' \in [File -> 0..SegLen] BY <1>2, <1>3, CorruptNotHeld, CalmQuarantine
<1>5. Reports' BY <1>1, <1>4, CalmReports
<1>6. Calls' /\ Writes' BY <1>1, IdleKeeps
<1>7. FilesOK' BY <1>4 DEF Calm, Steady
<1>8. Counted' BY <1>1, <1>4 DEF SpInv, Counted
<1>9. QED BY <1>5, <1>6, <1>7, <1>8 DEF SpInv

LEMMA AppendIdempotentKeeps ==
    ASSUME SpInv, NEW c \in Closure, AppendIdempotent(c) PROVE SpInv'
<1>1. /\ pc = "idle" /\ ReadyFor(SegId[c]) = {c} /\ fs' = Synced(fs, {"seg"})
      /\ told' = told \cup {c} /\ UNCHANGED <<quar, pc, todo, cur>>
      /\ UNCHANGED <<catalog, adopted, rotted, unsettled, breaks, power>>
  BY DEF AppendIdempotent, callVars
<1>2. Mono BY <1>1 DEF Mono
<1>3. Calm BY <1>1, <1>2, CalmSync
<1>4. Safe(Seg(c))'
  <2>1. fs[Seg(c)].at = "final" BY <1>1 DEF ReadyFor, At
  <2>2. QED BY <1>1, <1>2, <2>1, SyncSafe, FileFacts
<1>5. Reports' BY <1>1, <1>3, <1>4, CalmReports
<1>6. Calls' /\ Writes' BY <1>1, IdleKeeps DEF SpInv, Calls
<1>7. FilesOK' BY <1>3 DEF Calm, Steady
<1>8. Counted' BY <1>1 DEF SpInv, Counted
<1>9. QED BY <1>5, <1>6, <1>7, <1>8 DEF SpInv

LEMMA AppendNewKeeps ==
    ASSUME SpInv, NEW c \in Closure, AppendNew(c) PROVE SpInv'
<1>1. /\ pc = "idle" /\ BeginWrite(Seg(c), Exact(c))
      /\ UNCHANGED <<quar, todo, catalog, told, rotted, unsettled, breaks, power>>
  BY DEF AppendNew
<1>2. todo = {} BY <1>1 DEF SpInv, Calls
<1>3. Seg(c) \in File /\ SizeOf(Seg(c)) = SegLen BY FileFacts
<1>4. /\ Calm /\ pc' \in {"fill", "rename"} /\ cur' = [file |-> Seg(c), bytes |-> Exact(c)]
      /\ fs'[Seg(c)].at = "temp" /\ adopted' \subseteq File
      /\ pc' = "fill" => fs'[Seg(c)].safe = 0
      /\ pc' = "rename" => /\ fs'[Seg(c)].data = Exact(c)
                           /\ \/ fs'[Seg(c)].safe = Len(Exact(c))
                              \/ Seg(c) \in adopted' \cup rotted'
  BY <1>1, <1>3, ByteFacts, BeginWriteCalm
<1>5. cur'.file = Seg(c) /\ cur'.bytes = Exact(c) BY <1>4
<1>6. WritesSegment' BY <1>1, <1>2, <1>4 DEF WritesSegment, Seg, Exact
<1>7. Writes' BY <1>4, <1>5, <1>6, WriteBegun
<1>8. Calls' BY <1>1, <1>2, <1>3, <1>4, <1>5 DEF Calls, WritePcs, DrainPcs
<1>9. Reports' BY <1>1, <1>4, CalmReports
<1>10. FilesOK' BY <1>4 DEF Calm, Steady
<1>11. Counted' BY <1>1, <1>4 DEF SpInv, Counted
<1>12. QED BY <1>7, <1>8, <1>9, <1>10, <1>11 DEF SpInv

LEMMA AppendDoneKeeps == ASSUME SpInv, AppendDone PROVE SpInv'
<1>1. /\ pc = "dirsync" /\ cur.file[1] = "seg" /\ fs' = Synced(fs, {"seg"})
      /\ told' = told \cup {cur.file[2]} /\ Return
      /\ UNCHANGED <<quar, catalog, adopted, rotted, unsettled, breaks, power>>
  BY DEF AppendDone
<1>2. Mono BY <1>1 DEF Mono
<1>3. Calm BY <1>1, <1>2, CalmSync
<1>4. PICK c \in Closure : cur.file = Seg(c)
  BY <1>1, FileFacts DEF SpInv, Calls, File, Seg
<1>5. cur.file[2] = c /\ fs[Seg(c)].at = "final"
  BY <1>1, <1>4, FileFacts DEF SpInv, Writes, At
<1>6. Safe(Seg(c))' BY <1>1, <1>2, <1>5, SyncSafe, FileFacts
<1>7. Reports' BY <1>1, <1>3, <1>5, <1>6, CalmReports
<1>8. Calls' /\ Writes' BY <1>1, ReturnKeeps
<1>9. FilesOK' BY <1>3 DEF Calm, Steady
<1>10. Counted' BY <1>1, <1>5 DEF SpInv, Counted
<1>11. QED BY <1>7, <1>8, <1>9, <1>10 DEF SpInv

\* A drain lists what it can read; what is not durable yet is noted.
LEMMA DrainKeeps ==
    ASSUME SpInv, CanList, todo' = Listed, pc' \in {"admit", "replicate"},
           unsettled' = unsettled \cup Unsettled,
           UNCHANGED <<fs, quar, cur, catalog, told, adopted, rotted, breaks, power>>
    PROVE  SpInv'
<1>1. Mono BY DEF Mono
<1>2. Calm BY <1>1, CalmSame
<1>3. Reports' BY <1>2, CalmReports
<1>4. todo' # {} /\ todo' \subseteq Closure BY DEF CanList, Listed
<1>5. \A c \in todo' : Kept(c)'
  <2> SUFFICES ASSUME NEW c \in Listed PROVE Kept(c)' OBVIOUS
  <2>1. c \in Closure /\ fs[Seg(c)].at = "final" BY DEF Listed, At
  <2>2. RecOK(Seg(c), fs[Seg(c)], Excused(Seg(c))) BY <2>1, FileFacts DEF SpInv, FilesOK
  <2>3. CASE Excused(Seg(c)) BY <2>3 DEF Kept, Safe, Excused
  <2>4. CASE fs[Seg(c)].dur # "final" BY <2>4 DEF Kept, Unsettled
  <2>5. CASE ~Excused(Seg(c)) /\ fs[Seg(c)].dur = "final"
    <3>1. fs[Seg(c)] \in FileRec /\ fs[Seg(c)].data = Exact(c) /\ fs[Seg(c)].safe = SegLen
      BY <2>1, <2>2, <2>5, FileFacts DEF RecOK
    <3>2. fs[Seg(c)] = HeldRec(c) BY <2>1, <2>5, <3>1 DEF FileRec, HeldRec
    <3>3. QED BY <2>1, <3>2, FileFacts DEF Kept, Safe, HeldRec, Seg
  <2>6. QED BY <2>3, <2>4, <2>5
<1>6. Calls' BY <1>4, <1>5 DEF SpInv, Calls, DrainPcs
<1>7. Writes' BY DEF Writes, WritePcs
<1>8. FilesOK' BY <1>2 DEF Calm, Steady
<1>9. Counted' BY DEF SpInv, Counted, Unsettled, Listed
<1>10. QED BY <1>3, <1>6, <1>7, <1>8, <1>9 DEF SpInv

\* A calm step that ends the call.
LEMMA CalmReturn ==
    ASSUME SpInv, Calm, Return, told' = told, Counted' PROVE SpInv'
<1>1. Reports' BY CalmReports
<1>2. Calls' /\ Writes' BY ReturnKeeps
<1>3. QED BY <1>1, <1>2 DEF SpInv, Calm, Steady

LEMMA ReadFailsKeeps == ASSUME SpInv, ReadFails PROVE SpInv'
<1>1. /\ pc \in {"send", "record", "admit", "recordCatalog"}
      /\ Corrupt(Seg(First)) /\ Quarantined(Seg(First)) /\ Return
      /\ UNCHANGED <<catalog, told, adopted, rotted, unsettled, breaks, power>>
  BY DEF ReadFails, histVars
<1>2. Mono BY <1>1 DEF Mono
<1>3. First \in Closure BY <1>1, FirstIn DEF SpInv, Calls, DrainPcs
<1>4. Seg(First) \in Bulk BY <1>3, FileFacts
<1>5. Calm /\ quar' \in [File -> 0..SegLen]
  BY <1>1, <1>2, <1>4, CorruptNotHeld, CalmQuarantine
<1>6. Counted' BY <1>1, <1>5 DEF SpInv, Counted
<1>7. QED BY <1>1, <1>5, <1>6, CalmReturn

LEMMA RecordReceiptKeeps ==
    ASSUME SpInv, todo # {}, NEW f \in File \ Bulk, NEW going \in {"replicate", "admit"},
           RecordReceipt(f, going),
           \/ f = AckFile(SegId[First]) /\ Safe(Rep(First)) /\ Anchored(SegId[First])
           \/ f = CatAck(SegId[First])
    PROVE  SpInv'
<1>0. UNCHANGED <<quar, catalog, told, rotted, unsettled, breaks, power>>
  BY DEF RecordReceipt
<1>1. CASE At(f) # "final" /\ BeginWrite(f, <<First>>) /\ todo' = todo
  <2>1. Calm /\ Calls' /\ Writes' /\ adopted' \subseteq File BY <1>0, <1>1, ReceiptBegun
  <2>2. Reports' BY <1>0, <2>1, CalmReports
  <2>3. Counted' BY <1>0, <2>1 DEF SpInv, Counted
  <2>4. QED BY <2>1, <2>2, <2>3 DEF SpInv, Calm, Steady
<1>2. CASE Return /\ fs' = fs /\ adopted' = adopted
  <2>1. Mono BY <1>0, <1>2 DEF Mono
  <2>2. Calm BY <1>2, <2>1, CalmSame
  <2>3. Counted' BY <1>0, <1>2 DEF SpInv, Counted
  <2>4. QED BY <1>0, <1>2, <2>2, <2>3, CalmReturn
<1>3. CASE fs' = Synced(fs, {f[1]}) /\ NextSegment(going) /\ adopted' = adopted
  <2>1. Mono BY <1>0, <1>3 DEF Mono
  <2>2. Calm BY <1>3, <2>1, CalmSync
  <2>3. Reports' BY <1>0, <2>2, CalmReports
  <2>4. Calls' /\ Writes' BY <1>3, <2>2, NextSegmentKeeps
  <2>5. Counted' BY <1>0, <1>3 DEF SpInv, Counted
  <2>6. QED BY <2>2, <2>3, <2>4, <2>5 DEF SpInv, Calm, Steady
<1>4. QED BY <1>1, <1>2, <1>3 DEF RecordReceipt

LEMMA ReceiptDoneKeeps ==
    ASSUME SpInv, NEW kind, NEW going \in {"replicate", "admit"}, ReceiptDone(kind, going)
    PROVE  SpInv'
<1>1. /\ fs' = Synced(fs, {kind}) /\ NextSegment(going)
      /\ UNCHANGED <<quar, catalog, told, adopted, rotted, unsettled, breaks, power>>
  BY DEF ReceiptDone, histVars
<1>2. Mono BY <1>1 DEF Mono
<1>3. Calm BY <1>1, <1>2, CalmSync
<1>4. Reports' BY <1>1, <1>3, CalmReports
<1>5. Calls' /\ Writes' BY <1>1, <1>3, NextSegmentKeeps
<1>6. Counted' BY <1>1 DEF SpInv, Counted
<1>7. QED BY <1>3, <1>4, <1>5, <1>6 DEF SpInv, Calm, Steady

-----------------------------------------------------------------------------
(* transport.rs and replica.rs                                               *)

\* A drain goes on with the same segment.
LEMMA DrainStep ==
    ASSUME SpInv, Steady, todo' = todo, todo # {}, NEW d, d = First,
           pc' \in DrainPcs \ {"partialSync", "complete"}, cur'.file \in File,
           pc' = "send" => fs'[Rep(d)].at # "final",
           pc' \in {"persistAck", "record"} => Safe(Rep(d))',
           pc' = "record" => Anchored(SegId[d])'
    PROVE  Calls' /\ Writes'
<1>1. First' = d BY DEF First
<1>2. todo' \subseteq Closure /\ \A c \in todo' : Kept(c)' BY CalmKept DEF SpInv, Calls
<1>3. pc' \in {"persistAck", "record"} => Safe(Rep(First))'
  BY <1>1 DEF Safe, Excused, HeldRec, Exact, Rep
<1>4. pc' = "record" => Anchored(SegId[First])' BY <1>1 DEF Anchored, RepAck
<1>5. pc' = "send" => At(Rep(First))' # "final" BY <1>1 DEF At, Rep
<1>6. Calls' BY <1>2, <1>3, <1>4, <1>5 DEF Calls, DrainPcs
<1>7. Writes' BY DEF Writes, WritePcs, DrainPcs
<1>8. QED BY <1>6, <1>7

\* A drain is in progress, with its first segment.
LEMMA DrainFacts ==
    ASSUME SpInv, pc \in DrainPcs
    PROVE  /\ todo # {} /\ First \in Closure /\ SegId[First] \in Id /\ cur.file \in File
           /\ Rep(First) \in Bulk /\ RepAck(SegId[First]) \in File
           /\ AckFile(SegId[First]) \in File \ Bulk /\ CatAck(SegId[First]) \in File \ Bulk
<1>1. todo # {} /\ First \in Closure /\ cur.file \in File BY FirstIn DEF SpInv, Calls
<1>2. QED BY <1>1, FileFacts

LEMMA AdmitKeeps == ASSUME SpInv, Admit PROVE SpInv'
<1>1. /\ pc = "admit" /\ UNCHANGED <<fs, quar, told, adopted, rotted, unsettled, breaks, power>>
  BY DEF Admit, histVars
<1>2. todo # {} /\ First \in Closure /\ cur.file \in File BY <1>1, DrainFacts DEF DrainPcs
<1>3. Mono BY <1>1 DEF Mono
<1>4. Calm /\ Steady BY <1>1, <1>3, CalmSame DEF Calm
<1>5. Reports' BY <1>1, <1>4, CalmReports
<1>6. Calls' /\ Writes'
  <2>1. CASE NextSegment("admit") BY <1>4, <2>1, NextSegmentKeeps
  <2>2. CASE pc' = "recordCatalog" /\ UNCHANGED <<todo, cur>>
    BY <1>2, <1>4, <2>2, DrainStep DEF DrainPcs
  <2>3. QED BY <2>1, <2>2 DEF Admit
<1>7. catalog' \subseteq Closure BY <1>2 DEF Admit, SpInv, Counted
<1>8. Counted' BY <1>1, <1>7 DEF SpInv, Counted
<1>9. QED BY <1>4, <1>5, <1>6, <1>8 DEF SpInv, Steady

LEMMA ResumeAckedKeeps == ASSUME SpInv, ResumeAcked PROVE SpInv'
<1> DEFINE c == First
           ack == RepAck(SegId[c])
           good == Data(ack) = <<c>> /\ RepReady(SegId[c]) = {c}
<1>1. /\ pc = "replicate" /\ At(ack) = "final"
      /\ UNCHANGED <<catalog, told, adopted, rotted, unsettled, breaks, power>>
  BY DEF ResumeAcked, histVars
<1>2. /\ todo # {} /\ First \in Closure /\ SegId[First] \in Id /\ cur.file \in File
      /\ Rep(First) \in Bulk /\ ack \in File
  BY <1>1, DrainFacts DEF DrainPcs
<1>3. Mono BY <1>1 DEF Mono
<1>4. CASE Corrupt(Rep(c)) /\ Quarantined(Rep(c)) /\ Return
  <2>1. Calm /\ quar' \in [File -> 0..SegLen]
    BY <1>2, <1>3, <1>4, CorruptNotHeld, CalmQuarantine
  <2>2. Counted' BY <1>1, <2>1 DEF SpInv, Counted
  <2>3. QED BY <1>1, <1>4, <2>1, <2>2, CalmReturn
<1>5. CASE fs' = Synced(fs, {"repAck"}) /\ quar' = quar /\ Return
  <2>1. Calm BY <1>3, <1>5, CalmSync
  <2>2. Counted' BY <1>1, <1>5 DEF SpInv, Counted
  <2>3. QED BY <1>1, <1>5, <2>1, <2>2, CalmReturn
<1>6. CASE /\ good /\ fs' = Synced(fs, {"repAck", "rep"}) /\ quar' = quar
           /\ pc' = "record" /\ UNCHANGED <<todo, cur>>
  <2>1. /\ Calm /\ \A f \in File : f[1] \in {"repAck", "rep"} => fs'[f] = [fs[f] EXCEPT !.dur = fs[f].at]
    BY <1>3, <1>6, CalmSync
  <2>2. PICK d \in Closure : d = First BY <1>2
  <2>3. Safe(Rep(d))'
    <3>1. fs[Rep(d)].at = "final" BY <1>6, <2>2 DEF RepReady, At
    <3>2. QED BY <1>3, <1>6, <3>1, SyncSafe, FileFacts
  <2>4. Anchored(SegId[d])'
    <3>1. RepAck(SegId[d]) \in File /\ RepAck(SegId[d])[1] = "repAck" BY FileFacts
    <3>2. fs[RepAck(SegId[d])] \in FileRec /\ fs[RepAck(SegId[d])].at = "final"
      BY <1>1, <2>2, <3>1 DEF SpInv, FilesOK, At
    <3>3. fs'[RepAck(SegId[d])] = [fs[RepAck(SegId[d])] EXCEPT !.dur = "final"]
      BY <2>1, <3>1, <3>2
    <3>4. fs'[RepAck(SegId[d])].at = "final" /\ fs'[RepAck(SegId[d])].dur = "final"
      BY <3>2, <3>3 DEF FileRec
    <3>5. QED BY <3>4 DEF Anchored, RepAck
  <2>5. Reports' BY <1>1, <2>1, CalmReports
  <2>6. Steady BY <2>1 DEF Calm
  <2>7. Calls' /\ Writes' BY <1>2, <1>6, <2>2, <2>3, <2>4, <2>6, DrainStep DEF DrainPcs
  <2>8. Counted' BY <1>1, <1>6 DEF SpInv, Counted
  <2>9. QED BY <2>5, <2>6, <2>7, <2>8 DEF SpInv, Steady
<1>7. QED BY <1>4, <1>5, <1>6 DEF ResumeAcked

\* Ready bytes of another closure are pushed out only while the replica has
\* acknowledged none.
LEMMA ResumeReadyKeeps == ASSUME SpInv, ResumeReady PROVE SpInv'
<1>1. /\ pc = "replicate" /\ At(RepAck(SegId[First])) # "final"
      /\ UNCHANGED <<catalog, told, adopted, rotted, unsettled, breaks, power>>
  BY DEF ResumeReady, histVars
<1>2. /\ todo # {} /\ First \in Closure /\ SegId[First] \in Id /\ cur.file \in File
      /\ Rep(First) \in Bulk
  BY <1>1, DrainFacts DEF DrainPcs
<1>3. Mono BY <1>1 DEF Mono
<1>4. CASE Return /\ UNCHANGED <<fs, quar>>
  <2>1. Calm BY <1>3, <1>4, CalmSame
  <2>2. Counted' BY <1>1, <1>4 DEF SpInv, Counted
  <2>3. QED BY <1>1, <1>4, <2>1, <2>2, CalmReturn
<1>5. CASE /\ RepReady(SegId[First]) = {First} /\ fs' = Synced(fs, {"rep"}) /\ pc' = "persistAck"
           /\ UNCHANGED <<quar, todo, cur>>
  <2>1. Calm /\ Steady BY <1>3, <1>5, CalmSync DEF Calm
  <2>2. PICK d \in Closure : d = First BY <1>2
  <2>3. Safe(Rep(d))'
    <3>1. fs[Rep(d)].at = "final" BY <1>5, <2>2 DEF RepReady, At
    <3>2. QED BY <1>3, <1>5, <3>1, SyncSafe, FileFacts
  <2>4. Reports' BY <1>1, <2>1, CalmReports
  <2>5. Calls' /\ Writes' BY <1>2, <1>5, <2>1, <2>2, <2>3, DrainStep DEF DrainPcs
  <2>6. Counted' BY <1>1, <1>5 DEF SpInv, Counted
  <2>7. QED BY <2>1, <2>4, <2>5, <2>6 DEF SpInv, Steady
<1>6. CASE \E d \in Closure : RepReady(SegId[First]) = {d} /\ Quarantined(Rep(d)) /\ Return
  <2>1. PICK d \in Closure : RepReady(SegId[First]) = {d} /\ Quarantined(Rep(d)) /\ Return
    BY <1>6
  <2>2. SegId[d] = SegId[First] /\ d \in Closure BY <2>1 DEF RepReady
  <2>3. Rep(d) \in Bulk /\ Rep(d) \in File /\ SizeOf(Rep(d)) = SegLen BY FileFacts
  <2>4. RecOK(Rep(d), NoFile, Rep(d) \in adopted' \cup rotted')
    BY <2>3, ByteFacts DEF RecOK
  <2>5. FilesOK' /\ \A g \in File : g # Rep(d) => fs'[g] = fs[g]
    BY <1>3, <2>1, <2>3, <2>4, OneFile DEF Quarantined
  <2>6. At(AckFile(SegId[d])) # "final"
    BY <1>1, <1>2, <2>2 DEF SpInv, Reports, Anchored, At
  <2>7. \A e \in Closure : Seg(e) \in File /\ Seg(e) # Rep(d) /\ (e # d => Rep(e) # Rep(d))
    BY FileFacts DEF Seg, Rep
  <2>8. \A i \in Id : /\ RepAck(i) # Rep(d) /\ AckFile(i) # Rep(d) /\ CatAck(i) # Rep(d)
                      /\ RepAck(i) \in File /\ AckFile(i) \in File /\ CatAck(i) \in File
    BY <2>3, FileFacts
  <2>9. \A e \in Closure : (Safe(Seg(e)) => Safe(Seg(e))') /\ (Kept(e) => Kept(e)')
    BY <1>1, <2>5, <2>7 DEF Safe, Kept, Excused, HeldRec
  <2>10. \A e \in Closure : e # d /\ Safe(Rep(e)) => Safe(Rep(e))'
    BY <1>1, <2>5, <2>7, FileFacts DEF Safe, Excused, HeldRec
  <2>11. Reports'
    <3>1. \A e \in told' : Safe(Seg(e))' BY <1>1, <2>9 DEF SpInv, Reports, Counted
    <3>2. \A i \in Id : At(AckFile(i))' = "final" => Anchored(i)'
      BY <2>5, <2>8 DEF SpInv, Reports, At, Anchored
    <3>3. ASSUME NEW e \in Closure
          PROVE  /\ Recorded(AckFile(SegId[e]), e)' => Recorded(AckFile(SegId[e]), e)
                 /\ Recorded(CatAck(SegId[e]), e)' => Recorded(CatAck(SegId[e]), e)
      BY <2>5, <2>8, FileFacts DEF Recorded, At, Data
    <3>4. ~Recorded(AckFile(SegId[d]), d) BY <2>6 DEF Recorded
    <3>5. ASSUME NEW e \in Closure
          PROVE  /\ Recorded(AckFile(SegId[e]), e)' => Safe(Rep(e))' /\ Kept(e)'
                 /\ Recorded(CatAck(SegId[e]), e)' => Kept(e)'
      BY <2>9, <2>10, <3>3, <3>4 DEF SpInv, Reports
    <3>6. QED BY <3>1, <3>2, <3>5 DEF Reports
  <2>12. quar' \in [File -> 0..SegLen]
    <3>1. Len(Data(Rep(d))) \in 0..SegLen
      <4>1. RecOK(Rep(d), fs[Rep(d)], Excused(Rep(d))) BY <2>3 DEF SpInv, FilesOK
      <4>2. QED BY <2>3, <4>1, ByteFacts DEF RecOK, FileRec, Data
    <3>2. QED BY <2>1, <2>3, <3>1 DEF Quarantined, SpInv, Counted
  <2>13. Counted' BY <1>1, <2>12 DEF SpInv, Counted
  <2>14. QED BY <2>1, <2>5, <2>11, <2>13, ReturnKeeps DEF SpInv
<1>7. QED BY <1>4, <1>5, <1>6 DEF ResumeReady

LEMMA PersistAckKeeps == ASSUME SpInv, PersistAck PROVE SpInv'
<1>1. pc = "persistAck" /\ UNCHANGED <<quar, catalog, told, rotted, unsettled, breaks, power>>
  BY DEF PersistAck
<1>2. todo # {} /\ First \in Closure /\ SegId[First] \in Id BY <1>1, DrainFacts DEF DrainPcs
<1>3. RepAck(SegId[First]) \in File \ Bulk BY <1>2, FileFacts
<1>4. Safe(Rep(First)) BY <1>1 DEF SpInv, Calls
<1>5. CASE BeginWrite(RepAck(SegId[First]), <<First>>) /\ todo' = todo
  <2>1. Calm /\ Calls' /\ Writes' /\ adopted' \subseteq File
    BY <1>1, <1>2, <1>3, <1>4, <1>5, ReceiptBegun
  <2>2. Reports' BY <1>1, <2>1, CalmReports
  <2>3. Counted' BY <1>1, <2>1 DEF SpInv, Counted
  <2>4. QED BY <2>1, <2>2, <2>3 DEF SpInv, Calm, Steady
<1>6. CASE Return /\ UNCHANGED <<fs, adopted>>
  <2>1. Mono BY <1>1, <1>6 DEF Mono
  <2>2. Calm BY <1>6, <2>1, CalmSame
  <2>3. Counted' BY <1>1, <1>6 DEF SpInv, Counted
  <2>4. QED BY <1>1, <1>6, <2>2, <2>3, CalmReturn
<1>7. QED BY <1>5, <1>6 DEF PersistAck

LEMMA ResumePartialKeeps == ASSUME SpInv, ResumePartial PROVE SpInv'
<1>1. /\ pc = "replicate" /\ RepReady(SegId[First]) = {}
      /\ UNCHANGED <<fs, quar, catalog, told, adopted, rotted, unsettled, breaks, power>>
  BY DEF ResumePartial, histVars
<1>2. todo # {} /\ First \in Closure /\ cur.file \in File BY <1>1, DrainFacts DEF DrainPcs
<1>3. Mono BY <1>1 DEF Mono
<1>4. Calm /\ Steady BY <1>1, <1>3, CalmSame DEF Calm
<1>5. Counted' BY <1>1 DEF SpInv, Counted
<1>6. CASE Return BY <1>1, <1>4, <1>5, <1>6, CalmReturn
<1>7. CASE pc' = "send" /\ UNCHANGED <<todo, cur>>
  <2>1. fs'[Rep(First)].at # "final" BY <1>1, <1>2 DEF RepReady, At
  <2>2. Calls' /\ Writes' BY <1>2, <1>4, <1>7, <2>1, DrainStep DEF DrainPcs
  <2>3. Reports' BY <1>1, <1>4, CalmReports
  <2>4. QED BY <1>4, <1>5, <2>2, <2>3 DEF SpInv, Steady
<1>8. QED BY <1>6, <1>7 DEF ResumePartial

LEMMA SendRefusedKeeps == ASSUME SpInv, SendRefused PROVE SpInv'
<1>1. /\ Return /\ UNCHANGED <<fs, quar, catalog, told, adopted, rotted, unsettled, breaks, power>>
  BY DEF SendRefused, histVars
<1>2. Mono BY <1>1 DEF Mono
<1>3. Calm BY <1>1, <1>2, CalmSame
<1>4. Counted' BY <1>1 DEF SpInv, Counted
<1>5. QED BY <1>1, <1>3, <1>4, CalmReturn

\* A drain goes on with the partial file of its segment.
LEMMA PartialStep ==
    ASSUME SpInv, Steady, todo' = todo, todo # {}, NEW d \in Closure, d = First,
           pc' \in {"partialSync", "complete"}, cur' = [file |-> Rep(d), bytes |-> Exact(d)],
           fs'[Rep(d)].at = "temp",
           pc' = "complete" => \/ fs'[Rep(d)].safe = SegLen /\ Len(fs'[Rep(d)].data) = SegLen
                               \/ Rep(d) \in adopted' \cup rotted'
    PROVE  Calls' /\ Writes'
<1>1. First' = d BY DEF First
<1>2. todo' \subseteq Closure /\ \A c \in todo' : Kept(c)' BY CalmKept DEF SpInv, Calls
<1>3. cur'.file = Rep(d) /\ cur'.bytes = Exact(d) /\ Rep(d) \in File BY FileFacts
<1>4. Calls' BY <1>2, <1>3 DEF Calls, DrainPcs
<1>5. WritesReplica' BY <1>1 DEF WritesReplica, Rep, Exact
<1>6. Writes' BY <1>3, <1>5 DEF Writes, WritePcs, At, Data, Excused
<1>7. QED BY <1>4, <1>6

LEMMA SendChunkKeeps == ASSUME SpInv, SendChunk PROVE SpInv'
<1>1. /\ pc = "send" /\ Len(Data(Rep(First))) < SegLen
      /\ fs' = [fs EXCEPT ![Rep(First)].at = "temp", ![Rep(First)].data = Append(@, First)]
      /\ pc' = "partialSync" /\ cur' = [file |-> Rep(First), bytes |-> Exact(First)]
      /\ UNCHANGED <<quar, todo, catalog, told, adopted, rotted, unsettled, breaks, power>>
  BY DEF SendChunk, histVars
<1>2. todo # {} /\ First \in Closure BY <1>1, DrainFacts DEF DrainPcs
<1>3. PICK d \in Closure : d = First BY <1>2
<1>4. Rep(d) \in File /\ Rep(d) \in Bulk /\ SizeOf(Rep(d)) = SegLen BY FileFacts
<1>5. RecOK(Rep(d), fs[Rep(d)], Excused(Rep(d))) /\ fs \in [File -> FileRec] /\ fs[Rep(d)] \in FileRec
  BY <1>4 DEF SpInv, FilesOK
<1>6. fs[Rep(d)].at # "final" BY <1>1, <1>3 DEF SpInv, Calls, At
<1> DEFINE r == [fs[Rep(d)] EXCEPT !.at = "temp", !.data = Append(fs[Rep(d)].data, d)]
<1>7. /\ r \in FileRec /\ r.at = "temp" /\ r.dur = fs[Rep(d)].dur /\ r.safe = fs[Rep(d)].safe
      /\ r.data = Append(fs[Rep(d)].data, d)
  <2>1. d \in Cell /\ "temp" \in Places BY DEF Cell, Places
  <2>2. fs[Rep(d)].data \in Seq(Cell) BY <1>5 DEF FileRec
  <2>3. Append(fs[Rep(d)].data, d) \in Seq(Cell) BY <2>1, <2>2
  <2>4. PICK b \in Seq(Cell) : b = Append(fs[Rep(d)].data, d) BY <2>3
  <2>5. r = [fs[Rep(d)] EXCEPT !.at = "temp", !.data = b] BY <2>4
  <2> HIDE DEF r
  <2>6. r \in FileRec /\ r.at = "temp" /\ r.dur = fs[Rep(d)].dur /\ r.safe = fs[Rep(d)].safe /\ r.data = b
    BY <1>5, <2>1, <2>5 DEF FileRec
  <2>7. QED BY <2>4, <2>6
<1>8. fs' = [fs EXCEPT ![Rep(d)] = r] BY <1>1, <1>3, <1>4, <1>5 DEF FileRec
<1> HIDE DEF r
<1>9. Mono BY <1>1 DEF Mono
<1>10. RecOK(Rep(d), r, Rep(d) \in adopted' \cup rotted')
  <2>1. /\ fs[Rep(d)].data \in Seq(Cell) /\ Len(fs[Rep(d)].data) \in Nat
        /\ fs[Rep(d)].safe \in Nat /\ d \in Cell
    BY <1>5 DEF FileRec, Cell
  <2>2. Len(r.data) = Len(fs[Rep(d)].data) + 1 BY <1>7, <2>1
  <2>3. r.safe <= Len(r.data) /\ Len(r.data) <= SegLen
    BY <1>1, <1>3, <1>5, <1>7, <2>1, <2>2, ByteFacts DEF RecOK, Data
  <2>4. QED BY <1>4, <1>5, <1>6, <1>7, <2>3 DEF RecOK
<1>11. fs[Rep(d)] # HeldRec(Rep(d)[2]) BY <1>6 DEF HeldRec
<1>12. Calm BY <1>4, <1>8, <1>9, <1>10, <1>11, CalmOne
<1>13. fs'[Rep(d)] = r BY <1>4, <1>5, <1>8
<1>14. Steady BY <1>12 DEF Calm
<1>15. cur' = [file |-> Rep(d), bytes |-> Exact(d)] BY <1>1, <1>3
<1>16. Calls' /\ Writes' BY <1>1, <1>2, <1>3, <1>7, <1>13, <1>14, <1>15, PartialStep
<1>17. Reports' BY <1>1, <1>12, CalmReports
<1>18. Counted' BY <1>1 DEF SpInv, Counted
<1>19. QED BY <1>14, <1>16, <1>17, <1>18 DEF SpInv, Steady

LEMMA PartialSyncKeeps == ASSUME SpInv, PartialSync PROVE SpInv'
<1>1. /\ pc = "partialSync" /\ fs' = [fs EXCEPT ![cur.file].safe = Len(Data(cur.file))]
      /\ pc' = IF Len(Data(cur.file)) < SegLen THEN "replicate" ELSE "complete"
      /\ UNCHANGED <<quar, todo, cur, catalog, told, adopted, rotted, unsettled, breaks, power>>
  BY DEF PartialSync, histVars
<1>2. todo # {} /\ First \in Closure BY <1>1, DrainFacts DEF DrainPcs
<1>3. PICK d \in Closure : d = First BY <1>2
<1>4. /\ cur = [file |-> Rep(d), bytes |-> Exact(d)] /\ At(cur.file) = "temp"
  BY <1>1, <1>3 DEF SpInv, Writes, WritesReplica
<1>5. cur.file = Rep(d) /\ fs[Rep(d)].at = "temp" BY <1>4 DEF At
<1>6. Rep(d) \in File /\ Rep(d) \in Bulk /\ SizeOf(Rep(d)) = SegLen BY FileFacts
<1>7. RecOK(Rep(d), fs[Rep(d)], Excused(Rep(d))) /\ fs \in [File -> FileRec] /\ fs[Rep(d)] \in FileRec
  BY <1>6 DEF SpInv, FilesOK
<1> DEFINE r == [fs[Rep(d)] EXCEPT !.safe = Len(fs[Rep(d)].data)]
<1>8. Len(fs[Rep(d)].data) \in Nat /\ Len(fs[Rep(d)].data) <= SegLen
  BY <1>6, <1>7 DEF FileRec, RecOK
<1>9. /\ r \in FileRec /\ r.at = "temp" /\ r.dur = fs[Rep(d)].dur /\ r.safe = Len(fs[Rep(d)].data)
      /\ r.data = fs[Rep(d)].data
  BY <1>5, <1>7, <1>8 DEF FileRec
<1>10. fs' = [fs EXCEPT ![Rep(d)] = r] BY <1>1, <1>5 DEF Data
<1> HIDE DEF r
<1>11. Mono BY <1>1 DEF Mono
<1>12. RecOK(Rep(d), r, Rep(d) \in adopted' \cup rotted')
  BY <1>5, <1>6, <1>7, <1>8, <1>9 DEF RecOK
<1>13. Calm /\ fs'[cur.file] = r BY <1>4, <1>5, <1>6, <1>9, <1>10, <1>11, <1>12, TempStep
<1>14. Steady BY <1>13 DEF Calm
<1>15. Calls' /\ Writes'
  <2>1. CASE pc' = "complete"
    <3>1. Len(fs[Rep(d)].data) = SegLen BY <1>1, <1>5, <1>8, <2>1, ByteFacts DEF Data
    <3>2. fs'[Rep(d)].at = "temp" /\ fs'[Rep(d)].safe = SegLen /\ Len(fs'[Rep(d)].data) = SegLen
      BY <1>5, <1>9, <1>13, <3>1
    <3>3. cur' = [file |-> Rep(d), bytes |-> Exact(d)] BY <1>1, <1>4
    <3>4. QED BY <1>1, <1>2, <1>3, <1>14, <2>1, <3>2, <3>3, PartialStep
  <2>2. CASE pc' = "replicate"
    BY <1>1, <1>2, <1>5, <1>6, <1>14, <2>2, DrainStep DEF DrainPcs
  <2>3. QED BY <1>1, <2>1, <2>2
<1>16. Reports' BY <1>1, <1>13, CalmReports
<1>17. Counted' BY <1>1 DEF SpInv, Counted
<1>18. QED BY <1>14, <1>15, <1>16, <1>17 DEF SpInv, Steady

\* The bytes an earlier call left are taken over as they are.
LEMMA SendOverlapKeeps == ASSUME SpInv, SendOverlap PROVE SpInv'
<1>1. /\ pc = "send" /\ Len(Data(Rep(First))) = SegLen
      /\ adopted' = IF fs[Rep(First)].safe < SegLen THEN adopted \cup {Rep(First)} ELSE adopted
      /\ pc' = "complete" /\ cur' = [file |-> Rep(First), bytes |-> Exact(First)]
      /\ UNCHANGED <<fs, quar, todo, catalog, told, rotted, unsettled, breaks, power>>
  BY DEF SendOverlap
<1>2. todo # {} /\ First \in Closure BY <1>1, DrainFacts DEF DrainPcs
<1>3. PICK d \in Closure : d = First BY <1>2
<1>4. Rep(d) \in File BY FileFacts
<1>5. RecOK(Rep(d), fs[Rep(d)], Excused(Rep(d))) /\ fs[Rep(d)] \in FileRec
  BY <1>4 DEF SpInv, FilesOK
<1>6. fs[Rep(d)].at # "final" BY <1>1, <1>3 DEF SpInv, Calls, At
<1>7. Len(fs[Rep(d)].data) = SegLen BY <1>1, <1>3 DEF Data
<1>8. fs[Rep(d)].at = "temp"
  <2>1. fs[Rep(d)] # NoFile BY <1>7, ByteFacts
  <2>2. QED BY <1>5, <1>6, <2>1 DEF RecOK, FileRec, Places
<1>9. fs[Rep(d)].safe = SegLen \/ Rep(d) \in adopted'
  <2>1. fs[Rep(d)].safe \in Nat /\ fs[Rep(d)].safe <= SegLen BY <1>5, <1>7 DEF RecOK, FileRec
  <2>2. QED BY <1>1, <1>3, <2>1, ByteFacts
<1>10. Mono BY <1>1 DEF Mono
<1>11. Calm /\ Steady BY <1>1, <1>10, CalmSame DEF Calm
<1>12. cur' = [file |-> Rep(d), bytes |-> Exact(d)] BY <1>1, <1>3
<1>13. Calls' /\ Writes' BY <1>1, <1>2, <1>3, <1>7, <1>8, <1>9, <1>11, <1>12, PartialStep
<1>14. Reports' BY <1>1, <1>11, CalmReports
<1>15. Counted' BY <1>1, <1>3, <1>4 DEF SpInv, Counted
<1>16. QED BY <1>11, <1>13, <1>14, <1>15 DEF SpInv, Steady

LEMMA CompleteKeeps == ASSUME SpInv, Complete PROVE SpInv'
<1>1. /\ pc = "complete"
      /\ UNCHANGED <<catalog, told, adopted, rotted, unsettled, breaks, power>>
  BY DEF Complete, histVars
<1>2. /\ todo # {} /\ First \in Closure /\ Rep(First) \in Bulk /\ cur.file \in File
  BY <1>1, DrainFacts DEF DrainPcs
<1>3. /\ WritesReplica /\ At(cur.file) = "temp"
      /\ \/ fs[cur.file].safe = SegLen /\ Len(Data(cur.file)) = SegLen
         \/ Excused(cur.file)
  BY <1>1 DEF SpInv, Writes
<1>4. cur.file = Rep(First) /\ cur.bytes = Exact(First) BY <1>3 DEF WritesReplica
<1>5. Mono BY <1>1 DEF Mono
<1>6. CASE Quarantined(cur.file) /\ Return
  <2>1. fs[cur.file] # HeldRec(cur.file[2]) BY <1>3 DEF At, HeldRec
  <2>2. Calm /\ quar' \in [File -> 0..SegLen]
    BY <1>2, <1>4, <1>5, <1>6, <2>1, CalmQuarantine
  <2>3. Counted' BY <1>1, <2>2 DEF SpInv, Counted
  <2>4. QED BY <1>1, <1>6, <2>2, <2>3, CalmReturn
<1>7. CASE Data(cur.file) = cur.bytes /\ pc' = "rename" /\ UNCHANGED <<fs, quar, todo, cur>>
  <2>1. Calm /\ Steady BY <1>5, <1>7, CalmSame DEF Calm
  <2>2. Reports' BY <1>1, <2>1, CalmReports
  <2>3. \A c \in todo' : Kept(c)' BY <1>7, <2>1, CalmKept DEF SpInv, Calls
  <2>4. Calls' BY <1>7, <2>3 DEF SpInv, Calls, WritePcs, DrainPcs
  <2>5. First' = First BY <1>7 DEF First
  <2>6. WritesReplica' BY <1>3, <1>7, <2>5 DEF WritesReplica
  <2>7. Len(cur.bytes) = SegLen BY <1>2, <1>4, ByteFacts
  <2>8. Writes' BY <1>1, <1>3, <1>7, <2>6, <2>7 DEF Writes, At, Data, Excused
  <2>9. Counted' BY <1>1, <1>7 DEF SpInv, Counted
  <2>10. QED BY <2>1, <2>2, <2>4, <2>8, <2>9 DEF SpInv, Steady
<1>8. QED BY <1>6, <1>7 DEF Complete

\* Which write ends.
LEMMA EndsWrite ==
    ASSUME SpInv, pc = "dirsync"
    PROVE  /\ cur.file[1] = "rep" => WritesReplica
           /\ cur.file[1] = "repAck" => WritesReplicaAck
<1>1. WritesSegment => cur.file[1] = "seg"
  <2> SUFFICES ASSUME NEW c \in Closure, cur.file = Seg(c) PROVE cur.file[1] = "seg"
    BY DEF WritesSegment
  <2>1. QED BY FileFacts
<1>2. ASSUME todo # {} PROVE First \in Closure /\ SegId[First] \in Id
  BY <1>2, FirstIn, FileFacts DEF SpInv, Calls
<1>3. WritesReplica => cur.file[1] = "rep" BY <1>2, FileFacts DEF WritesReplica
<1>4. WritesReplicaAck => cur.file[1] = "repAck" BY <1>2, FileFacts DEF WritesReplicaAck
<1>5. WritesAck => cur.file[1] = "ack" BY <1>2, FileFacts DEF WritesAck
<1>6. WritesCatalogAck => cur.file[1] = "catAck" BY <1>2, FileFacts DEF WritesCatalogAck
<1>7. WritesSegment \/ WritesReplicaAck \/ WritesAck \/ WritesCatalogAck \/ WritesReplica
  BY DEF SpInv, Writes, WritePcs
<1>8. QED BY <1>1, <1>3, <1>4, <1>5, <1>6, <1>7

LEMMA ReplicaReadyKeeps == ASSUME SpInv, ReplicaReady PROVE SpInv'
<1>1. /\ pc = "dirsync" /\ cur.file[1] = "rep" /\ fs' = Synced(fs, {"rep"})
      /\ pc' = "persistAck" /\ cur' = NoWrite
      /\ UNCHANGED <<quar, todo, catalog, told, adopted, rotted, unsettled, breaks, power>>
  BY DEF ReplicaReady, histVars
<1>2. WritesReplica BY <1>1, EndsWrite
<1>3. todo # {} /\ cur.file = Rep(First) BY <1>2 DEF WritesReplica
<1>4. First \in Closure BY <1>3, FirstIn DEF SpInv, Calls
<1>5. PICK d \in Closure : d = First BY <1>4
<1>6. Mono BY <1>1 DEF Mono
<1>7. Calm /\ Steady BY <1>1, <1>6, CalmSync DEF Calm
<1>8. Safe(Rep(d))'
  <2>1. fs[Rep(d)].at = "final" BY <1>1, <1>3, <1>5 DEF SpInv, Writes, At
  <2>2. QED BY <1>1, <1>6, <2>1, SyncSafe, FileFacts
<1>9. Calls' /\ Writes'
  BY <1>1, <1>3, <1>5, <1>7, <1>8, NoWriteFile, DrainStep DEF DrainPcs
<1>10. Reports' BY <1>1, <1>7, CalmReports
<1>11. Counted' BY <1>1 DEF SpInv, Counted
<1>12. QED BY <1>7, <1>9, <1>10, <1>11 DEF SpInv, Steady

\* The replica's acknowledgement is durable before the drain records it.
LEMMA ReplicaAckDoneKeeps == ASSUME SpInv, ReplicaAckDone PROVE SpInv'
<1>1. /\ pc = "dirsync" /\ cur.file[1] = "repAck" /\ fs' = Synced(fs, {"repAck"})
      /\ pc' = "record" /\ cur' = NoWrite
      /\ UNCHANGED <<quar, todo, catalog, told, adopted, rotted, unsettled, breaks, power>>
  BY DEF ReplicaAckDone, histVars
<1>2. WritesReplicaAck BY <1>1, EndsWrite
<1>3. todo # {} /\ cur.file = RepAck(SegId[First]) /\ Safe(Rep(First))
  BY <1>2 DEF WritesReplicaAck
<1>4. First \in Closure BY <1>3, FirstIn DEF SpInv, Calls
<1>5. PICK d \in Closure : d = First BY <1>4
<1>6. Mono BY <1>1 DEF Mono
<1>7. /\ Calm /\ Steady
      /\ \A f \in File : f[1] \in {"repAck"} => fs'[f] = [fs[f] EXCEPT !.dur = fs[f].at]
  BY <1>1, <1>6, CalmSync DEF Calm
<1>8. Safe(Rep(d))' BY <1>3, <1>5, <1>7, CalmKept
<1>9. Anchored(SegId[d])'
  <2>1. RepAck(SegId[d]) \in File /\ RepAck(SegId[d])[1] = "repAck" BY FileFacts
  <2>2. fs[RepAck(SegId[d])] \in FileRec /\ fs[RepAck(SegId[d])].at = "final"
    BY <1>1, <1>3, <1>5, <2>1 DEF SpInv, FilesOK, Writes, At
  <2>3. fs'[RepAck(SegId[d])] = [fs[RepAck(SegId[d])] EXCEPT !.dur = "final"]
    BY <1>7, <2>1, <2>2
  <2>4. fs'[RepAck(SegId[d])].at = "final" /\ fs'[RepAck(SegId[d])].dur = "final"
    BY <2>2, <2>3 DEF FileRec
  <2>5. QED BY <2>4 DEF Anchored, RepAck
<1>10. Calls' /\ Writes'
  BY <1>1, <1>3, <1>5, <1>7, <1>8, <1>9, NoWriteFile, DrainStep DEF DrainPcs
<1>11. Reports' BY <1>1, <1>7, CalmReports
<1>12. Counted' BY <1>1 DEF SpInv, Counted
<1>13. QED BY <1>7, <1>10, <1>11, <1>12 DEF SpInv, Steady

LEMMA RecordKeeps == ASSUME SpInv, RecordRemoteAck \/ RecordCatalogReceipt PROVE SpInv'
<1>1. CASE RecordRemoteAck
  <2>1. pc = "record" /\ RecordReceipt(AckFile(SegId[First]), "replicate")
    BY <1>1 DEF RecordRemoteAck
  <2>2. todo # {} /\ AckFile(SegId[First]) \in File \ Bulk BY <2>1, DrainFacts DEF DrainPcs
  <2>3. Safe(Rep(First)) /\ Anchored(SegId[First]) BY <2>1 DEF SpInv, Calls
  <2>4. QED BY <2>1, <2>2, <2>3, RecordReceiptKeeps
<1>2. CASE RecordCatalogReceipt
  <2>1. pc = "recordCatalog" /\ RecordReceipt(CatAck(SegId[First]), "admit")
    BY <1>2 DEF RecordCatalogReceipt
  <2>2. todo # {} /\ CatAck(SegId[First]) \in File \ Bulk BY <2>1, DrainFacts DEF DrainPcs
  <2>3. QED BY <2>1, <2>2, RecordReceiptKeeps
<1>3. QED BY <1>1, <1>2

-----------------------------------------------------------------------------
(* What may go wrong.                                                        *)

\* A kill or an I/O error: the write may have got any part of its bytes out.
LEMMA BreakKeeps == ASSUME SpInv, Break PROVE SpInv'
<1>1. /\ breaks < MaxBreaks /\ breaks' = breaks + 1 /\ Return
      /\ UNCHANGED <<quar, catalog, told, adopted, rotted, unsettled, power>>
  BY DEF Break
<1>2. Mono BY <1>1 DEF Mono
<1>3. Counted'
  <2>1. breaks' \in 0..MaxBreaks
    <3>1. breaks \in Nat /\ MaxBreaks \in Nat BY SpoolBounds DEF SpInv, Counted
    <3>2. QED BY <1>1, <3>1
  <2>2. QED BY <1>1, <2>1 DEF SpInv, Counted
<1>4. Calm
  <2>1. CASE fs' = fs BY <1>2, <2>1, CalmSame
  <2>2. CASE /\ pc = "fill"
             /\ \E n \in 0..Len(cur.bytes) :
                   fs' = [fs EXCEPT ![cur.file].data = SubSeq(cur.bytes, 1, n)]
    <3>1. PICK n \in 0..Len(cur.bytes) :
             fs' = [fs EXCEPT ![cur.file].data = SubSeq(cur.bytes, 1, n)]
      BY <2>2
    <3>2. /\ cur.file \in File /\ cur.bytes \in Seq(Cell) /\ Len(cur.bytes) = SizeOf(cur.file)
          /\ Len(cur.bytes) \in Nat
      BY <2>2, WriteFacts DEF WritePcs
    <3>3. At(cur.file) = "temp" /\ fs[cur.file].safe = 0 BY <2>2 DEF SpInv, Writes
    <3>4. SubSeq(cur.bytes, 1, n) \in Seq(Cell) /\ Len(SubSeq(cur.bytes, 1, n)) = n
      BY <3>2
    <3>5. PICK b \in Seq(Cell) : b = SubSeq(cur.bytes, 1, n) BY <3>4
    <3>6. Len(b) = n /\ n \in Nat /\ n <= SizeOf(cur.file) BY <3>1, <3>2, <3>4, <3>5
    <3> DEFINE r == [fs[cur.file] EXCEPT !.data = b]
    <3>7. /\ RecOK(cur.file, fs[cur.file], Excused(cur.file)) /\ fs[cur.file] \in FileRec
      BY <3>2 DEF SpInv, FilesOK
    <3>8. /\ r \in FileRec /\ r.at = "temp" /\ r.dur = fs[cur.file].dur /\ r.safe = 0 /\ r.data = b
      BY <3>3, <3>7 DEF FileRec, At
    <3>9. fs' = [fs EXCEPT ![cur.file] = r] BY <3>1, <3>5
    <3> HIDE DEF r
    <3>10. RecOK(cur.file, r, cur.file \in adopted' \cup rotted')
      BY <3>3, <3>6, <3>7, <3>8 DEF RecOK, At
    <3>11. QED BY <1>2, <3>2, <3>3, <3>8, <3>9, <3>10, TempStep
  <2>3. QED BY <2>1, <2>2 DEF Break
<1>5. QED BY <1>1, <1>3, <1>4, CalmReturn

\* What the medium may have of a file: no more than was written, and all that
\* was synced.
LEMMA MediumFacts ==
    ASSUME NEW r \in FileRec, r.safe <= Len(r.data), NEW d \in OnMedium(r)
    PROVE  /\ d \in Seq(Cell) /\ Len(d) \in Nat /\ r.safe <= Len(d) /\ Len(d) <= Len(r.data)
           /\ \A k \in 1..Len(d) : d[k] = r.data[k] \/ (k > r.safe /\ d[k] = "bad")
           /\ r.safe = Len(r.data) => d = r.data
<1>1. r.data \in Seq(Cell) /\ Len(r.data) \in Nat /\ r.safe \in Nat BY DEF FileRec
<1>2. /\ d \in UNION {[1..n -> Closure \cup {"bad"}] : n \in r.safe..Len(r.data)}
      /\ \A k \in DOMAIN d : d[k] = r.data[k] \/ (k > r.safe /\ d[k] = "bad")
  BY DEF OnMedium
<1>3. PICK n \in r.safe..Len(r.data) : d \in [1..n -> Cell] BY <1>2 DEF Cell
<1>4. n \in Nat /\ r.safe <= n /\ n <= Len(r.data) BY <1>1, <1>3
<1>5. d \in Seq(Cell) /\ Len(d) = n /\ DOMAIN d = 1..n BY <1>3, <1>4
<1>6. \A k \in 1..Len(d) : d[k] = r.data[k] \/ (k > r.safe /\ d[k] = "bad") BY <1>2, <1>5
<1>7. ASSUME r.safe = Len(r.data) PROVE d = r.data
  <2>1. n = Len(r.data) BY <1>1, <1>4, <1>7
  <2>2. \A k \in 1..n : d[k] = r.data[k] BY <1>1, <1>4, <1>5, <1>6, <1>7
  <2>3. QED BY <1>1, <1>5, <2>1, <2>2
<1>8. QED BY <1>4, <1>5, <1>6, <1>7

\* What one file is after a power loss.
LEMMA PowerRec ==
    ASSUME NEW f \in File, NEW r, NEW ex \in BOOLEAN, RecOK(f, r, ex), NEW q \in AfterPower(r)
    PROVE  /\ RecOK(f, q, ex)
           /\ q.at = "final" => r.at = "final"
           /\ r.at = "final" /\ r.dur = "final" => q.at = "final" /\ q.dur = "final"
           /\ \A c \in Closure : r = HeldRec(c) => q = HeldRec(c)
           /\ f \notin Bulk /\ q.at = "final" => \A c \in Closure : q.data = <<c>> => r.data = <<c>>
<1>1. /\ r \in FileRec /\ r.safe <= Len(r.data) /\ Len(r.data) <= SizeOf(f)
      /\ r.at = "none" => r = NoFile
      /\ r.dur = "final" => r.at = "final"
      /\ f \in Bulk /\ r.at = "final" => ex \/ (r.data = Exact(f[2]) /\ r.safe = SegLen)
  BY DEF RecOK
<1>2. r.data \in Seq(Cell) /\ Len(r.data) \in Nat /\ r.safe \in Nat /\ r.at \in Places /\ r.dur \in Places
  BY <1>1 DEF FileRec
<1>3. CASE q = NoFile /\ (r.at = "none" \/ r.dur = "none")
  <2>1. q \in FileRec /\ q.at = "none" /\ q.dur = "none" /\ q.safe = 0 /\ q.data = <<>> /\ Len(q.data) = 0
    BY <1>3, ByteFacts
  <2>2. RecOK(f, q, ex) BY <1>3, <2>1, FileFacts DEF RecOK
  <2>3. \A c \in Closure : r # HeldRec(c) BY <1>3 DEF HeldRec
  <2>4. QED BY <1>3, <2>1, <2>2, <2>3
<1>4. CASE \E p \in {r.at, r.dur}, d \in OnMedium(r) :
              p # "none" /\ q = [at |-> p, dur |-> p, data |-> d, safe |-> Len(d)]
  <2>1. PICK p \in {r.at, r.dur}, d \in OnMedium(r) :
              p # "none" /\ q = [at |-> p, dur |-> p, data |-> d, safe |-> Len(d)]
    BY <1>4
  <2>2. /\ d \in Seq(Cell) /\ Len(d) \in Nat /\ r.safe <= Len(d) /\ Len(d) <= Len(r.data)
        /\ \A k \in 1..Len(d) : d[k] = r.data[k] \/ (k > r.safe /\ d[k] = "bad")
        /\ r.safe = Len(r.data) => d = r.data
    BY <1>1, MediumFacts
  <2>3. q.at = p /\ q.dur = p /\ q.data = d /\ q.safe = Len(d) BY <2>1
  <2>4. q \in FileRec BY <1>2, <2>1, <2>2 DEF FileRec
  <2>5. Len(d) <= SizeOf(f) BY <1>1, <1>2, <2>2, FileFacts
  <2>6. p = "final" => r.at = "final" BY <1>1, <2>1
  <2>7. ASSUME f \in Bulk, r.at = "final", ~ex PROVE d = Exact(f[2]) /\ Len(d) = SegLen
    <3>1. r.data = Exact(f[2]) /\ r.safe = SegLen BY <1>1, <2>7
    <3>2. Len(r.data) = SegLen BY <2>7, <3>1, ByteFacts, FileFacts
    <3>3. QED BY <2>2, <3>1, <3>2
  <2>8. RecOK(f, q, ex)
    <3>1. q.safe <= Len(q.data) BY <2>2, <2>3
    <3>2. f \in Bulk /\ q.at = "final" => ex \/ (q.data = Exact(f[2]) /\ q.safe = SegLen)
      BY <2>3, <2>6, <2>7
    <3>3. QED BY <2>1, <2>3, <2>4, <2>5, <3>1, <3>2 DEF RecOK
  <2>9. ASSUME NEW c \in Closure, r = HeldRec(c) PROVE q = HeldRec(c)
    <3>1. r.at = "final" /\ r.dur = "final" /\ r.data = Exact(c) /\ r.safe = SegLen
      BY <2>9 DEF HeldRec
    <3>2. p = "final" /\ d = Exact(c) /\ Len(d) = SegLen BY <2>1, <2>2, <3>1, ByteFacts
    <3>3. QED BY <2>1, <3>2 DEF HeldRec
  <2>10. ASSUME f \notin Bulk, NEW c \in Closure, q.data = <<c>> PROVE r.data = <<c>>
    <3>1. Len(d) = 1 /\ d[1] = c BY <2>3, <2>10
    <3>2. Len(r.data) = 1 BY <1>1, <1>2, <2>2, <2>10, <3>1, FileFacts
    <3>3. c # "bad" BY SpoolBounds
    <3>4. 1 \in 1..Len(d) BY <3>1
    <3>5. r.data[1] = c BY <2>2, <3>1, <3>3, <3>4
    <3>6. QED BY <1>2, <3>2, <3>5
  <2>11. QED BY <2>1, <2>3, <2>6, <2>8, <2>9, <2>10
<1>5. QED
  <2>1. r.at = "none" => q = NoFile BY DEF AfterPower
  <2>2. r.at # "none" =>
          \E p \in {r.at, r.dur}, d \in OnMedium(r) :
             q = IF p = "none" THEN NoFile ELSE [at |-> p, dur |-> p, data |-> d, safe |-> Len(d)]
    BY DEF AfterPower
  <2>3. QED BY <1>3, <1>4, <2>1, <2>2

LEMMA PowerLossKeeps == ASSUME SpInv, PowerLoss PROVE SpInv'
<1> DEFINE open == {f \in File : AfterPower(fs[f]) # {fs[f]}}
<1>1. /\ power < MaxPower /\ power' = power + 1 /\ Return
      /\ UNCHANGED <<quar, catalog, told, adopted, rotted, unsettled, breaks>>
  BY DEF PowerLoss
<1>2. Mono BY <1>1 DEF Mono
<1>3. PICK g \in [open -> UNION {AfterPower(fs[f]) : f \in open}] :
         /\ \A f \in open : g[f] \in AfterPower(fs[f])
         /\ fs' = [f \in File |-> IF f \in open THEN g[f] ELSE fs[f]]
  BY DEF PowerLoss
<1>4. \A f \in File : fs'[f] \in AfterPower(fs[f])
  <2> SUFFICES ASSUME NEW f \in File PROVE fs'[f] \in AfterPower(fs[f]) OBVIOUS
  <2>1. CASE f \in open
    <3>1. fs'[f] = g[f] BY <1>3, <2>1
    <3>2. QED BY <1>3, <2>1, <3>1
  <2>2. CASE f \notin open
    <3>1. fs'[f] = fs[f] BY <1>3, <2>2
    <3>2. AfterPower(fs[f]) = {fs[f]} BY <2>2
    <3>3. QED BY <3>1, <3>2
  <2>3. QED BY <2>1, <2>2
<1>5. fs' = [f \in File |-> fs'[f]] BY <1>3
<1> HIDE DEF open
<1>6. ASSUME NEW f \in File
      PROVE  /\ RecOK(f, fs'[f], f \in adopted' \cup rotted')
             /\ fs'[f].at = "final" => fs[f].at = "final"
             /\ fs[f].at = "final" /\ fs[f].dur = "final" => fs'[f].at = "final" /\ fs'[f].dur = "final"
             /\ \A c \in Closure : fs[f] = HeldRec(c) => fs'[f] = HeldRec(c)
             /\ f \notin Bulk /\ fs'[f].at = "final" =>
                   \A c \in Closure : fs'[f].data = <<c>> => fs[f].data = <<c>>
  <2>1. RecOK(f, fs[f], f \in adopted' \cup rotted')
    BY <1>1 DEF SpInv, FilesOK, Excused
  <2>2. (f \in adopted' \cup rotted') \in BOOLEAN OBVIOUS
  <2>3. fs'[f] \in AfterPower(fs[f]) BY <1>4
  <2>4. QED BY <2>1, <2>2, <2>3, PowerRec
<1>7. fs' \in [File -> FileRec] BY <1>5, <1>6 DEF RecOK
<1>8. FilesOK' BY <1>6, <1>7 DEF FilesOK, Excused
<1>9. \A f \in Bulk : Safe(f) => Safe(f)'
  BY <1>1, <1>6, FileFacts DEF Safe, Excused, HeldRec
<1>10. \A i \in Id : Anchored(i) => Anchored(i)' BY <1>6, FileFacts DEF Anchored
<1>11. Calm BY <1>2, <1>6, <1>8, <1>9, <1>10 DEF Calm, Steady
<1>12. Counted'
  <2>1. power' \in 0..MaxPower
    <3>1. power \in Nat /\ MaxPower \in Nat BY SpoolBounds DEF SpInv, Counted
    <3>2. QED BY <1>1, <3>1
  <2>2. QED BY <1>1, <2>1 DEF SpInv, Counted
<1>13. QED BY <1>1, <1>11, <1>12, CalmReturn

\* The call in progress does not notice a file that keeps its name.
LEMMA SameCall ==
    ASSUME SpInv, Steady, UNCHANGED <<pc, todo, cur>>,
           \A g \in File : fs'[g].at = fs[g].at /\ (fs[g].at # "final" => fs'[g] = fs[g])
    PROVE  Calls' /\ Writes'
<1>1. First' = First BY DEF First
<1>2. \A c \in todo : c \in Closure /\ Kept(c)' BY CalmKept DEF SpInv, Calls
<1>3. ASSUME todo # {}
      PROVE  /\ At(Rep(First))' = At(Rep(First))
             /\ Safe(Rep(First)) => Safe(Rep(First))'
             /\ Anchored(SegId[First]) => Anchored(SegId[First])'
  <2>1. First \in Closure BY <1>3, FirstIn DEF SpInv, Calls
  <2>2. PICK d \in Closure : d = First BY <2>1
  <2>3. Rep(d) \in File /\ SegId[d] \in Id BY FileFacts
  <2>4. /\ Safe(Rep(d)) => Safe(Rep(d))'
        /\ Anchored(SegId[d]) => Anchored(SegId[d])'
        /\ At(Rep(d))' = At(Rep(d))
    BY <2>3, CalmKept DEF Steady, At
  <2>5. Safe(Rep(First)) => Safe(Rep(First))'
    BY <1>1, <2>2, <2>4 DEF Safe, Excused, HeldRec, Exact, Rep
  <2>6. Anchored(SegId[First]) => Anchored(SegId[First])' BY <1>1, <2>2, <2>4 DEF Anchored, RepAck
  <2>7. At(Rep(First))' = At(Rep(First)) BY <1>1, <2>2, <2>4 DEF At, Rep
  <2>8. QED BY <2>5, <2>6, <2>7
<1>4. Calls' BY <1>2, <1>3 DEF SpInv, Calls, DrainPcs
<1>5. /\ WritesSegment => WritesSegment'
      /\ WritesReplica => WritesReplica'
      /\ WritesReplicaAck => WritesReplicaAck'
      /\ WritesAck => WritesAck'
      /\ WritesCatalogAck => WritesCatalogAck'
  BY <1>1, <1>3 DEF WritesSegment, WritesReplica, WritesReplicaAck, WritesAck, WritesCatalogAck
<1>6. cur.file \in File /\ cur' = cur BY DEF SpInv, Calls
<1>7. Excused(cur.file) => Excused(cur.file)' BY <1>6 DEF Excused, Steady, Mono
<1>8. At(cur.file) = "temp" => fs'[cur.file] = fs[cur.file] BY <1>6 DEF At
<1>9. fs'[cur.file].at = fs[cur.file].at BY <1>6
<1>10. Writes' BY <1>5, <1>6, <1>7, <1>8, <1>9 DEF SpInv, Writes, At, Data
<1>11. QED BY <1>4, <1>10

\* A ready file rots; whoever relied on it is excused.
LEMMA RotKeeps == ASSUME SpInv, Rot PROVE SpInv'
<1>1. PICK f \in {"seg", "rep"} \X Closure, k \in 1..SegLen :
         /\ At(f) = "final" /\ ~Corrupt(f)
         /\ fs' = [fs EXCEPT ![f].data[k] = "bad"] /\ rotted' = rotted \cup {f}
  BY DEF Rot
<1>2. UNCHANGED <<quar, pc, todo, cur, catalog, told, adopted, unsettled, breaks, power>>
  BY DEF Rot, callVars
<1>3. f \in Bulk /\ f \in File /\ SizeOf(f) = SegLen BY FileFacts DEF Bulk
<1>4. /\ RecOK(f, fs[f], Excused(f)) /\ fs[f] \in FileRec /\ fs \in [File -> FileRec]
  BY <1>3 DEF SpInv, FilesOK
<1>5. PICK c \in Closure : fs[f].data = Exact(c) BY <1>1 DEF Corrupt, Data
<1>6. [fs[f].data EXCEPT ![k] = "bad"] \in [1..SegLen -> Cell]
  BY <1>5 DEF Exact, Cell
<1>7. PICK b \in [1..SegLen -> Cell] : b = [fs[f].data EXCEPT ![k] = "bad"] BY <1>6
<1>8. b \in Seq(Cell) /\ Len(b) = SegLen BY ByteFacts
<1> DEFINE r == [fs[f] EXCEPT !.data = b]
<1>9. /\ r \in FileRec /\ r.at = "final" /\ r.dur = fs[f].dur /\ r.safe = fs[f].safe /\ r.data = b
  BY <1>1, <1>4, <1>8 DEF FileRec, At
<1>10. fs' = [fs EXCEPT ![f] = r] BY <1>1, <1>7
<1> HIDE DEF r
<1>11. Len(fs[f].data) = SegLen BY <1>5, ByteFacts
<1>12. RecOK(f, r, f \in adopted' \cup rotted')
  BY <1>1, <1>3, <1>4, <1>8, <1>9, <1>11, ByteFacts DEF RecOK
<1>13. Mono BY <1>1, <1>2 DEF Mono
<1>14. f \in adopted' \cup rotted' BY <1>1
<1>15. Calm BY <1>3, <1>10, <1>12, <1>13, <1>14, CalmOne
<1>16. fs'[f] = r /\ \A g \in File : g # f => fs'[g] = fs[g]
  BY <1>3, <1>10, <1>12, <1>13, OneFile
<1>17. \A g \in File : fs'[g].at = fs[g].at /\ (fs[g].at # "final" => fs'[g] = fs[g])
  BY <1>1, <1>9, <1>16 DEF At
<1>18. Steady BY <1>15 DEF Calm
<1>19. Calls' /\ Writes' BY <1>2, <1>17, <1>18, SameCall
<1>20. Reports' BY <1>2, <1>15, CalmReports
<1>21. Counted' BY <1>1, <1>2, <1>3 DEF SpInv, Counted
<1>22. QED BY <1>18, <1>19, <1>20, <1>21 DEF SpInv, Steady

-----------------------------------------------------------------------------
(* The invariant holds, and what it says.                                    *)

LEMMA SpInvInit == Init => SpInv
<1> SUFFICES ASSUME Init PROVE SpInv OBVIOUS
<1>1. /\ pc = "idle" /\ todo = {} /\ cur = NoWrite /\ catalog = {} /\ told = {} /\ adopted = {}
      /\ rotted = {} /\ unsettled = {} /\ breaks = 0 /\ power = 0
      /\ quar = [f \in File |-> 0] /\ fs = [f \in File |-> NoFile]
  BY DEF Init
<1>2. \A f \in File : RecOK(f, NoFile, Excused(f)) BY ByteFacts, FileFacts DEF RecOK
<1>3. FilesOK BY <1>1, <1>2, ByteFacts DEF FilesOK
<1>4. Reports
  <2>1. \A f \in File : At(f) # "final" BY <1>1, ByteFacts DEF At
  <2>2. QED BY <1>1, <2>1, FileFacts DEF Reports, Recorded
<1>5. Calls BY <1>1, NoWriteFile DEF Calls, DrainPcs
<1>6. Writes BY <1>1 DEF Writes, WritePcs
<1>7. Counted BY <1>1, SpoolBounds DEF Counted
<1>8. QED BY <1>3, <1>4, <1>5, <1>6, <1>7 DEF SpInv

LEMMA SpInvKept == SpInv /\ [Next]_vars => SpInv'
<1> SUFFICES ASSUME SpInv, [Next]_vars PROVE SpInv' OBVIOUS
<1>1. ASSUME NEW c \in Closure, AppendCorrupt(c) PROVE SpInv'
  <2>1. PICK d \in ReadyFor(SegId[c]) : Corrupt(Seg(d)) /\ Quarantined(Seg(d))
    BY <1>1 DEF AppendCorrupt
  <2>2. d \in Closure BY DEF ReadyFor
  <2>3. pc = "idle" /\ UNCHANGED <<callVars, catalog, histVars>> BY <1>1 DEF AppendCorrupt
  <2>4. QED BY <2>1, <2>2, <2>3, CorruptReadyKeeps
<1>2. CASE ListCorrupt
  <2>1. PICK c \in Closure : Corrupt(Seg(c)) /\ Quarantined(Seg(c)) BY <1>2 DEF ListCorrupt
  <2>2. pc = "idle" /\ UNCHANGED <<callVars, catalog, histVars>> BY <1>2 DEF ListCorrupt
  <2>3. QED BY <2>1, <2>2, CorruptReadyKeeps
<1>3. CASE \E c \in Closure : AppendCall(c)
  BY <1>1, <1>3, AppendIdempotentKeeps, AppendNewKeeps DEF AppendCall
<1>4. CASE DrainReplica \/ DrainCatalog BY <1>4, DrainKeeps DEF DrainReplica, DrainCatalog
<1>5. CASE RemoteAckDone BY <1>5, ReceiptDoneKeeps DEF RemoteAckDone
<1>6. CASE CatalogAckDone BY <1>6, ReceiptDoneKeeps DEF CatalogAckDone
<1>7. CASE Step
  BY <1>5, <1>6, <1>7, FillKeeps, FsyncKeeps, RenameKeeps, AppendDoneKeeps, ReadFailsKeeps,
     RecordKeeps, AdmitKeeps, ResumeAckedKeeps, ResumeReadyKeeps, PersistAckKeeps,
     ResumePartialKeeps, SendRefusedKeeps, SendChunkKeeps, PartialSyncKeeps, SendOverlapKeeps,
     CompleteKeeps, ReplicaReadyKeeps, ReplicaAckDoneKeeps
     DEF Step
<1>8. CASE UNCHANGED vars
  <2>1. /\ fs' = fs /\ UNCHANGED <<quar, catalog, pc, todo, cur>>
        /\ UNCHANGED <<told, adopted, rotted, unsettled, breaks, power>>
    BY <1>8 DEF vars, callVars, histVars
  <2>2. Mono BY <2>1 DEF Mono
  <2>3. Calm /\ Steady BY <2>1, <2>2, CalmSame DEF Calm
  <2>4. Calls' /\ Writes' BY <2>1, <2>3, SameCall
  <2>5. Reports' BY <2>1, <2>3, CalmReports
  <2>6. Counted' BY <2>1 DEF SpInv, Counted
  <2>7. QED BY <2>3, <2>4, <2>5, <2>6 DEF SpInv, Steady
<1>9. QED BY <1>2, <1>3, <1>4, <1>7, <1>8, BreakKeeps, PowerLossKeeps, RotKeeps DEF Next

LEMMA SpInvHolds == Spec => []SpInv
<1>1. Init => SpInv BY SpInvInit
<1>2. SpInv /\ [Next]_vars => SpInv' BY SpInvKept
<1>3. QED BY <1>1, <1>2, PTL DEF Spec

\* Every variable has its type, and no file is more durable than it is long,
\* whatever the disk does between two steps of a call.
THEOREM SpoolTypes == Spec => []SpoolTypeOK
<1>1. SpInv => SpoolTypeOK
  <2> SUFFICES ASSUME SpInv PROVE SpoolTypeOK OBVIOUS
  <2>1. ASSUME NEW f \in File
        PROVE  /\ fs[f].at \in {"none", "temp", "final"} /\ fs[f].dur \in {"none", "temp", "final"}
               /\ fs[f].data \in Seq(Cell) /\ fs[f].safe \in 0..Len(fs[f].data)
    <3>1. RecOK(f, fs[f], Excused(f)) BY DEF SpInv, FilesOK
    <3>2. QED BY <3>1 DEF RecOK, FileRec, Places
  <2>2. QED BY <2>1 DEF SpoolTypeOK, SpInv, Counted, Calls
<1>2. QED BY <1>1, SpInvHolds, PTL

\* What append_segment and an ACK reported durable stays durable through every
\* kill, I/O error and power loss: rot, and bytes that a retry took over
\* unsynced, are the only ways to lose it.
THEOREM ReportsAreDurable == Spec => []ReceiptsHold
<1>1. SpInv => ReceiptsHold
  <2> SUFFICES ASSUME SpInv, NEW c \in Closure
               PROVE  /\ c \in told => Held(Seg(c), c) \/ Seg(c) \in adopted \cup rotted
                      /\ Recorded(AckFile(SegId[c]), c)
                            => Held(Rep(c), c) \/ Rep(c) \in adopted \cup rotted
    BY DEF ReceiptsHold
  <2>1. Seg(c)[2] = c /\ Rep(c)[2] = c BY FileFacts
  <2>2. QED BY <2>1 DEF SpInv, Reports, Safe, Excused, Held, HeldRec
<1>2. QED BY <1>1, SpInvHolds, PTL

\* A receipt the spool keeps, of the replica or of the catalog, is for bytes
\* the spool keeps, unless the drain listed them before their name was durable.
THEOREM ReceiptsAreBacked == Spec => []ReceiptsMatchSpool
<1>1. SpInv => ReceiptsMatchSpool
  <2> SUFFICES ASSUME SpInv, NEW c \in Closure
               PROVE  \/ ~Recorded(AckFile(SegId[c]), c) /\ ~Recorded(CatAck(SegId[c]), c)
                      \/ Held(Seg(c), c)
                      \/ Seg(c) \in adopted \cup rotted \/ c \in unsettled
    BY DEF ReceiptsMatchSpool
  <2>1. Seg(c)[2] = c BY FileFacts
  <2>2. QED BY <2>1 DEF SpInv, Reports, Kept, Safe, Excused, Held, HeldRec
<1>2. QED BY <1>1, SpInvHolds, PTL

-----------------------------------------------------------------------------
(* Sums. What a fold over a finite set comes to needs an induction over its  *)
(* subsets; it is done by a smallest counterexample, which WFMin provides.   *)

\* A nonempty set of subsets of a finite set has a smallest one.
LEMMA LeastSet ==
    ASSUME NEW S, IsFiniteSet(S), NEW C \in SUBSET (SUBSET S), C # {}
    PROVE  \E T \in C : \A U \in C : U \subseteq T => U = T
<1>1. IsWellFoundedOn(StrictSubsetOrdering(S), SUBSET S)
  BY FS_StrictSubsetOrderingWellFounded, FS_FiniteSubsetsOfFinite, Zenon
<1> DEFINE R == StrictSubsetOrdering(S)
<1>2. \A T, U \in SUBSET S : U \subseteq T /\ U # T => <<U, T>> \in R
  BY DEF StrictSubsetOrdering
<1> HIDE DEF R
<1>3. PICK T \in C : \A U \in C : ~(<<U, T>> \in R)
  <2>1. IsWellFoundedOn(R, SUBSET S) BY <1>1 DEF R
  <2>2. QED BY <2>1, WFMin
<1>4. QED BY <1>2, <1>3

\* How the fold behind a sum recurs: over subsets, a chosen member at a time.
Pick(s) == CHOOSE x \in s : TRUE
Recurs(w, S, g) ==
    g = [s \in SUBSET S |-> IF s = {} THEN 0 ELSE w[Pick(s)] + g[s \ {Pick(s)}]]
Iter(w, S) == CHOOSE g : Recurs(w, S, g)

LEMMA SumIsIter == ASSUME NEW w, NEW S PROVE SumFunctionOnSet(w, S) = Iter(w, S)[S]
BY DEF SumFunctionOnSet, FoldFunctionOnSet, MapThenFoldSet, Iter, Recurs, Pick

LEMMA PickIn == ASSUME NEW s, s # {} PROVE Pick(s) \in s
BY DEF Pick

LEMMA RecursAt ==
    ASSUME NEW w, NEW S, NEW g, Recurs(w, S, g), NEW s \in SUBSET S
    PROVE  g[s] = IF s = {} THEN 0 ELSE w[Pick(s)] + g[s \ {Pick(s)}]
BY DEF Recurs

\* Two such folds agree where both are defined.
LEMMA RecursAgree ==
    ASSUME NEW w, NEW S, NEW T, NEW g, NEW h, IsFiniteSet(T),
           Recurs(w, S, g), Recurs(w, T, h), T \subseteq S
    PROVE  \A s \in SUBSET T : g[s] = h[s]
<1> DEFINE C == {s \in SUBSET T : g[s] # h[s]}
<1> SUFFICES ASSUME C # {} PROVE FALSE OBVIOUS
<1>1. PICK s \in C : \A u \in C : u \subseteq s => u = s
  <2>1. C \in SUBSET (SUBSET T) OBVIOUS
  <2> HIDE DEF C
  <2>2. QED BY <2>1, LeastSet
<1>2. s # {} BY <1>1, RecursAt
<1>3. Pick(s) \in s BY <1>2, PickIn
<1>4. s \ {Pick(s)} \in SUBSET T /\ s \ {Pick(s)} \subseteq s /\ s \ {Pick(s)} # s BY <1>3
<1>5. g[s \ {Pick(s)}] = h[s \ {Pick(s)}] BY <1>1, <1>4
<1>6. s \in SUBSET S /\ s \in SUBSET T OBVIOUS
<1>7. g[s] = w[Pick(s)] + g[s \ {Pick(s)}] BY <1>2, <1>6, RecursAt
<1>8. h[s] = w[Pick(s)] + h[s \ {Pick(s)}] BY <1>2, <1>6, RecursAt
<1>9. g[s] = h[s] BY <1>5, <1>7, <1>8
<1>10. QED BY <1>1, <1>9

\* What the fold of a set is, in terms of the fold of what is left of it.
LEMMA IterLeft ==
    ASSUME NEW w, NEW S, IsFiniteSet(S), S # {}, NEW T, T = S \ {Pick(S)},
           Recurs(w, S, Iter(w, S)), Recurs(w, T, Iter(w, T))
    PROVE  Iter(w, S)[S] = w[Pick(S)] + Iter(w, T)[T]
<1>1. IsFiniteSet(T) /\ T \subseteq S BY FS_Subset
<1>2. Iter(w, S)[T] = Iter(w, T)[T] BY <1>1, RecursAgree
<1>3. S \in SUBSET S OBVIOUS
<1>4. QED BY <1>2, <1>3, RecursAt

\* The fold is defined on every finite set.
LEMMA IterRecurs == ASSUME NEW w, NEW S, IsFiniteSet(S) PROVE Recurs(w, S, Iter(w, S))
<1> DEFINE C == {T \in SUBSET S : ~Recurs(w, T, Iter(w, T))}
<1> SUFFICES ASSUME C # {} PROVE FALSE OBVIOUS
<1>1. PICK T \in C : \A U \in C : U \subseteq T => U = T
  <2>1. C \in SUBSET (SUBSET S) OBVIOUS
  <2> HIDE DEF C
  <2>2. QED BY <2>1, LeastSet
<1> DEFINE Left(s) == s \ {Pick(s)}
           Entry(s) == Iter(w, s)[s]
           h == [s \in SUBSET T |-> IF s = {} THEN 0 ELSE w[Pick(s)] + Entry(Left(s))]
<1>2. \A s : s # {} => Pick(s) \in s BY PickIn
<1>3. \A U \in SUBSET T : U # T => Recurs(w, U, Iter(w, U)) /\ IsFiniteSet(U)
  BY <1>1, FS_Subset
<1>4. ASSUME NEW s \in SUBSET T, s # {} PROVE h[Left(s)] = Entry(Left(s))
  <2>1. Left(s) \in SUBSET T /\ Left(s) # T BY <1>2, <1>4
  <2> DEFINE u == Left(s)
  <2>2. CASE u = {}
    <3>1. Entry(u) = 0 BY <1>3, <2>1, <2>2, RecursAt
    <3>2. h[u] = 0 BY <2>1, <2>2
    <3>3. QED BY <3>1, <3>2
  <2>3. CASE u # {}
    <3>1. Left(u) \in SUBSET u /\ Left(u) \in SUBSET T /\ Left(u) # T BY <2>1, <2>3
    <3>2. Recurs(w, u, Iter(w, u)) /\ Recurs(w, Left(u), Iter(w, Left(u))) /\ IsFiniteSet(u)
      BY <1>3, <2>1, <3>1
    <3>3. Entry(u) = w[Pick(u)] + Entry(Left(u)) BY <2>3, <3>2, IterLeft
    <3>4. h[u] = w[Pick(u)] + Entry(Left(u)) BY <2>1, <2>3
    <3>5. QED BY <3>3, <3>4
  <2>4. QED BY <2>2, <2>3
<1>5. Recurs(w, T, h)
  <2>1. h = [s \in SUBSET T |-> IF s = {} THEN 0 ELSE w[Pick(s)] + h[Left(s)]]
    <3>1. \A s \in SUBSET T : (IF s = {} THEN 0 ELSE w[Pick(s)] + Entry(Left(s)))
                              = (IF s = {} THEN 0 ELSE w[Pick(s)] + h[Left(s)])
      BY <1>4
    <3> HIDE DEF Entry, Left
    <3>2. QED BY <3>1
  <2>2. QED BY <2>1 DEF Recurs
<1>6. Recurs(w, T, Iter(w, T)) BY <1>5 DEF Iter
<1>7. QED BY <1>1, <1>6

-----------------------------------------------------------------------------
LEMMA SumEmpty == ASSUME NEW w PROVE SumFunctionOnSet(w, {}) = 0
<1>1. IsFiniteSet({}) BY FS_EmptySet
<1>2. QED BY <1>1, IterRecurs, SumIsIter, RecursAt

LEMMA SumPick ==
    ASSUME NEW w, NEW S, IsFiniteSet(S), S # {}
    PROVE  SumFunctionOnSet(w, S) = w[Pick(S)] + SumFunctionOnSet(w, S \ {Pick(S)})
<1> DEFINE T == S \ {Pick(S)}
<1>1. IsFiniteSet(T) /\ T \subseteq S BY FS_Subset
<1>2. Recurs(w, S, Iter(w, S)) /\ Recurs(w, T, Iter(w, T)) BY <1>1, IterRecurs
<1>3. QED BY <1>2, IterLeft, SumIsIter

\* A sum of integers is an integer.
LEMMA SumInt ==
    ASSUME NEW w, NEW S, IsFiniteSet(S), \A x \in S : w[x] \in Int
    PROVE  SumFunctionOnSet(w, S) \in Int
<1> DEFINE C == {T \in SUBSET S : SumFunctionOnSet(w, T) \notin Int}
<1> SUFFICES ASSUME C # {} PROVE FALSE OBVIOUS
<1>1. PICK T \in C : \A U \in C : U \subseteq T => U = T
  <2>1. C \in SUBSET (SUBSET S) OBVIOUS
  <2> HIDE DEF C
  <2>2. QED BY <2>1, LeastSet
<1>2. T # {}
  <2>1. 0 \in Int OBVIOUS
  <2>2. QED BY <1>1, <2>1, SumEmpty
<1> DEFINE U == T \ {Pick(T)}
<1>3. Pick(T) \in T /\ U \in SUBSET S /\ IsFiniteSet(T) BY <1>2, PickIn, FS_Subset
<1>4. SumFunctionOnSet(w, U) \in Int BY <1>1, <1>3
<1>5. SumFunctionOnSet(w, T) = w[Pick(T)] + SumFunctionOnSet(w, U) BY <1>2, <1>3, SumPick
<1>6. QED BY <1>1, <1>3, <1>4, <1>5

\* Whichever member is taken out first.
LEMMA SumTake ==
    ASSUME NEW w, NEW S, IsFiniteSet(S), \A x \in S : w[x] \in Int
    PROVE  \A x \in S : SumFunctionOnSet(w, S) = w[x] + SumFunctionOnSet(w, S \ {x})
<1> DEFINE Sum(T) == SumFunctionOnSet(w, T)
           Any(T) == \A x \in T : Sum(T) = w[x] + Sum(T \ {x})
           C == {T \in SUBSET S : ~Any(T)}
<1> SUFFICES ASSUME C # {} PROVE FALSE OBVIOUS
<1>1. PICK T \in C : \A U \in C : U \subseteq T => U = T
  <2>1. C \in SUBSET (SUBSET S) OBVIOUS
  <2> HIDE DEF C
  <2>2. QED BY <2>1, LeastSet
<1>2. PICK x \in T : Sum(T) # w[x] + Sum(T \ {x}) BY <1>1
<1> DEFINE p == Pick(T)
<1>3. T # {} /\ p \in T /\ IsFiniteSet(T) /\ T \subseteq S BY <1>2, PickIn, FS_Subset
<1>4. Sum(T) = w[p] + Sum(T \ {p}) BY <1>3, SumPick
<1> HIDE DEF Sum
<1>5. p # x BY <1>2, <1>4
<1>6. \A y \in T : Any(T \ {y})
  <2> SUFFICES ASSUME NEW y \in T PROVE Any(T \ {y}) OBVIOUS
  <2>1. T \ {y} \in SUBSET S /\ T \ {y} \subseteq T /\ T \ {y} # T BY <1>3
  <2>2. QED BY <1>1, <2>1
<1>7. Sum(T \ {p}) = w[x] + Sum((T \ {p}) \ {x}) BY <1>3, <1>5, <1>6
<1>8. Sum(T \ {x}) = w[p] + Sum((T \ {x}) \ {p}) BY <1>3, <1>5, <1>6
<1>9. Sum(T \ {x}) = w[p] + Sum((T \ {p}) \ {x})
  <2>1. (T \ {p}) \ {x} = (T \ {x}) \ {p} OBVIOUS
  <2>2. QED BY <1>8, <2>1
<1>10. Sum((T \ {p}) \ {x}) \in Int
  <2>1. IsFiniteSet((T \ {p}) \ {x}) /\ (T \ {p}) \ {x} \subseteq S BY <1>3, FS_Subset
  <2>2. QED BY <2>1, SumInt DEF Sum
<1>11. w[p] \in Int /\ w[x] \in Int BY <1>3
<1> HIDE DEF p
<1>12. Sum(T) = w[x] + Sum(T \ {x}) BY <1>4, <1>7, <1>9, <1>10, <1>11
<1>13. QED BY <1>2, <1>12

\* Sums of what is no greater, member by member, are no greater.
LEMMA SumLeq ==
    ASSUME NEW w, NEW v, NEW S, IsFiniteSet(S),
           \A x \in S : w[x] \in Int /\ v[x] \in Int /\ w[x] <= v[x]
    PROVE  SumFunctionOnSet(w, S) <= SumFunctionOnSet(v, S)
<1> DEFINE C == {T \in SUBSET S : ~(SumFunctionOnSet(w, T) <= SumFunctionOnSet(v, T))}
<1> SUFFICES ASSUME C # {} PROVE FALSE OBVIOUS
<1>1. PICK T \in C : \A U \in C : U \subseteq T => U = T
  <2>1. C \in SUBSET (SUBSET S) OBVIOUS
  <2> HIDE DEF C
  <2>2. QED BY <2>1, LeastSet
<1>2. T # {}
  <2>1. 0 <= 0 OBVIOUS
  <2>2. QED BY <1>1, <2>1, SumEmpty
<1> DEFINE p == Pick(T)
           U == T \ {p}
<1>3. p \in T /\ U \in SUBSET S /\ IsFiniteSet(T) /\ IsFiniteSet(U) BY <1>2, PickIn, FS_Subset
<1>4. /\ SumFunctionOnSet(w, T) = w[p] + SumFunctionOnSet(w, U)
      /\ SumFunctionOnSet(v, T) = v[p] + SumFunctionOnSet(v, U)
  BY <1>2, <1>3, SumPick
<1>5. SumFunctionOnSet(w, U) \in Int /\ SumFunctionOnSet(v, U) \in Int BY <1>3, SumInt
<1>6. SumFunctionOnSet(w, U) <= SumFunctionOnSet(v, U) BY <1>1, <1>3
<1> HIDE DEF U, p
<1>7. w[p] \in Int /\ v[p] \in Int /\ w[p] <= v[p] BY <1>3
<1>8. SumFunctionOnSet(w, T) <= SumFunctionOnSet(v, T) BY <1>4, <1>5, <1>6, <1>7
<1>9. QED BY <1>1, <1>8

\* A sum of zeros.
LEMMA SumZero ==
    ASSUME NEW w, NEW S, IsFiniteSet(S), \A x \in S : w[x] = 0
    PROVE  SumFunctionOnSet(w, S) = 0
<1> DEFINE C == {T \in SUBSET S : SumFunctionOnSet(w, T) # 0}
<1> SUFFICES ASSUME C # {} PROVE FALSE OBVIOUS
<1>1. PICK T \in C : \A U \in C : U \subseteq T => U = T
  <2>1. C \in SUBSET (SUBSET S) OBVIOUS
  <2> HIDE DEF C
  <2>2. QED BY <2>1, LeastSet
<1>2. T # {} BY <1>1, SumEmpty
<1> DEFINE U == T \ {Pick(T)}
<1>3. Pick(T) \in T /\ U \in SUBSET S /\ IsFiniteSet(T) BY <1>2, PickIn, FS_Subset
<1>4. SumFunctionOnSet(w, U) = 0 BY <1>1, <1>3
<1>5. SumFunctionOnSet(w, T) = w[Pick(T)] + SumFunctionOnSet(w, U) BY <1>2, <1>3, SumPick
<1>6. QED BY <1>1, <1>3, <1>4, <1>5

\* A part of a sum of naturals is no greater than the sum.
LEMMA SumPart ==
    ASSUME NEW w, NEW S, IsFiniteSet(S), \A x \in S : w[x] \in Nat, NEW P \in SUBSET S
    PROVE  SumFunctionOnSet(w, P) <= SumFunctionOnSet(w, S)
<1> DEFINE C == {T \in SUBSET S : P \subseteq T
                                  /\ ~(SumFunctionOnSet(w, P) <= SumFunctionOnSet(w, T))}
<1> SUFFICES ASSUME C # {} PROVE FALSE OBVIOUS
<1>1. PICK T \in C : \A U \in C : U \subseteq T => U = T
  <2>1. C \in SUBSET (SUBSET S) OBVIOUS
  <2> HIDE DEF C
  <2>2. QED BY <2>1, LeastSet
<1>2. IsFiniteSet(P) /\ IsFiniteSet(T) /\ T \subseteq S BY FS_Subset
<1>3. SumFunctionOnSet(w, P) \in Int BY <1>2, SumInt
<1>4. P # T BY <1>1, <1>3
<1>5. PICK x \in T : x \notin P BY <1>1, <1>4
<1> DEFINE U == T \ {x}
<1>6. U \in SUBSET S /\ P \subseteq U /\ U # T /\ IsFiniteSet(U) BY <1>1, <1>2, <1>5, FS_Subset
<1>7. SumFunctionOnSet(w, T) = w[x] + SumFunctionOnSet(w, U) BY <1>2, SumTake
<1>8. SumFunctionOnSet(w, P) <= SumFunctionOnSet(w, U) BY <1>1, <1>6
<1>9. SumFunctionOnSet(w, U) \in Int BY <1>6, SumInt
<1> HIDE DEF U
<1>10. w[x] \in Nat BY <1>2
<1>11. SumFunctionOnSet(w, P) <= SumFunctionOnSet(w, T) BY <1>3, <1>7, <1>8, <1>9, <1>10
<1>12. QED BY <1>1, <1>11

\* One term grows by at most n and no other grows: so does the sum.
LEMMA SumGrows ==
    ASSUME NEW w, NEW v, NEW S, IsFiniteSet(S), \A x \in S : w[x] \in Int /\ v[x] \in Int,
           NEW y \in S, NEW n \in Int, v[y] <= w[y] + n, \A x \in S : x # y => v[x] <= w[x]
    PROVE  SumFunctionOnSet(v, S) <= SumFunctionOnSet(w, S) + n
<1> DEFINE U == S \ {y}
<1>1. IsFiniteSet(U) BY FS_Subset
<1>2. /\ SumFunctionOnSet(w, S) = w[y] + SumFunctionOnSet(w, U)
      /\ SumFunctionOnSet(v, S) = v[y] + SumFunctionOnSet(v, U)
  BY SumTake
<1>3. SumFunctionOnSet(v, U) <= SumFunctionOnSet(w, U) BY <1>1, SumLeq
<1>4. SumFunctionOnSet(w, U) \in Int /\ SumFunctionOnSet(v, U) \in Int BY <1>1, SumInt
<1> HIDE DEF U
<1>5. QED BY <1>2, <1>3, <1>4

-----------------------------------------------------------------------------
(* The control reserve.                                                      *)

\* The segments of evidence, and what is charged for a file: a segment whose
\* bytes are being written counts as whole from the moment it was reserved.
Evidence == {Seg(c) : c \in Closure \ Control}
Charged == [f \in File |-> IF pc = "fill" /\ cur.file = f THEN SegLen + quar[f] ELSE Bytes[f]]
ReserveInv == SumFunctionOnSet(Charged, Evidence) <= MaxTotal - ControlReserve

LEMMA EvidenceFacts ==
    /\ IsFiniteSet(File) /\ IsFiniteSet(Evidence) /\ Evidence \subseteq Bulk /\ Bulk \subseteq File
    /\ \A f \in Evidence : f[1] = "seg"
    /\ \A c \in Closure : Seg(c) \in Evidence => c \notin Control
<1>1. IsFiniteSet(Closure) BY SpoolBounds
<1>2. IsFiniteSet(Id)
  <2>1. SegId \in Surjection(Closure, Id) BY SpoolBounds DEF Surjection, Id
  <2>2. QED BY <1>1, <2>1, FS_Surjection
<1>3. IsFiniteSet({"seg", "rep"}) /\ IsFiniteSet({"repAck", "ack", "catAck"})
  <2>1. IsFiniteSet({}) BY FS_EmptySet
  <2>2. IsFiniteSet({} \cup {"seg"}) BY <2>1, FS_AddElement
  <2>3. IsFiniteSet(({} \cup {"seg"}) \cup {"rep"}) BY <2>2, FS_AddElement
  <2>4. IsFiniteSet({} \cup {"repAck"}) BY <2>1, FS_AddElement
  <2>5. IsFiniteSet(({} \cup {"repAck"}) \cup {"ack"}) BY <2>4, FS_AddElement
  <2>6. IsFiniteSet((({} \cup {"repAck"}) \cup {"ack"}) \cup {"catAck"}) BY <2>5, FS_AddElement
  <2>7. /\ ({} \cup {"seg"}) \cup {"rep"} = {"seg", "rep"}
        /\ (({} \cup {"repAck"}) \cup {"ack"}) \cup {"catAck"} = {"repAck", "ack", "catAck"}
    OBVIOUS
  <2>8. QED BY <2>3, <2>6, <2>7
<1>4. IsFiniteSet({"seg", "rep"} \X Closure) /\ IsFiniteSet({"repAck", "ack", "catAck"} \X Id)
  BY <1>1, <1>2, <1>3, FS_Product
<1>5. IsFiniteSet(File) BY <1>4, FS_Union DEF File
<1>6. Evidence \subseteq Bulk /\ Bulk \subseteq File BY FileFacts DEF Evidence
<1>7. IsFiniteSet(Evidence) BY <1>5, <1>6, FS_Subset
<1>8. \A f \in Evidence : f[1] = "seg" BY FileFacts DEF Evidence
<1>9. \A c \in Closure : Seg(c) \in Evidence => c \notin Control BY FileFacts DEF Evidence
<1>10. QED BY <1>5, <1>6, <1>7, <1>8, <1>9

\* The sizes of files are numbers, and what is charged covers them.
Measured ==
    /\ \A f \in File : /\ Bytes[f] = Len(fs[f].data) + quar[f]
                       /\ Bytes[f] \in Nat /\ quar[f] \in Nat /\ Len(fs[f].data) \in Nat
    /\ \A f \in Evidence : /\ Charged[f] \in Nat /\ Bytes[f] <= Charged[f]
                           /\ Bytes[f] <= SegLen + quar[f]

LEMMA MeasuredNow == SpInv => Measured
<1> SUFFICES ASSUME SpInv PROVE Measured OBVIOUS
<1>1. ASSUME NEW f \in File
      PROVE  /\ Len(fs[f].data) \in Nat /\ Len(fs[f].data) <= SizeOf(f) /\ quar[f] \in Nat
  <2>1. RecOK(f, fs[f], Excused(f)) BY DEF SpInv, FilesOK
  <2>2. QED BY <2>1, ByteFacts DEF RecOK, FileRec, SpInv, Counted
<1>2. \A f \in File : /\ Bytes[f] = Len(fs[f].data) + quar[f]
                      /\ Bytes[f] \in Nat /\ quar[f] \in Nat /\ Len(fs[f].data) \in Nat
  BY <1>1 DEF Bytes, Data
<1>3. ASSUME NEW f \in Evidence
      PROVE  Charged[f] \in Nat /\ Bytes[f] <= Charged[f] /\ Bytes[f] <= SegLen + quar[f]
  <2>1. f \in File /\ SizeOf(f) = SegLen BY EvidenceFacts, FileFacts
  <2>2. Bytes[f] <= SegLen + quar[f] /\ SegLen \in Nat BY <1>1, <1>2, <2>1, ByteFacts
  <2>3. Charged[f] = IF pc = "fill" /\ cur.file = f THEN SegLen + quar[f] ELSE Bytes[f]
    BY <2>1 DEF Charged
  <2>4. QED BY <1>2, <2>1, <2>2, <2>3
<1>4. QED BY <1>2, <1>3 DEF Measured

LEMMA MeasuredNext == SpInv' => Measured'
BY MeasuredNow, PTL

\* No charge grows.
LEMMA ChargesKept ==
    ASSUME ReserveInv,
           \A f \in Evidence : Charged[f] \in Int /\ Charged'[f] \in Int /\ Charged'[f] <= Charged[f]
    PROVE  ReserveInv'
<1>1. SumFunctionOnSet(Charged', Evidence) <= SumFunctionOnSet(Charged, Evidence)
  BY EvidenceFacts, SumLeq
<1>2. SumFunctionOnSet(Charged', Evidence) \in Int /\ SumFunctionOnSet(Charged, Evidence) \in Int
  BY EvidenceFacts, SumInt
<1>3. MaxTotal - ControlReserve \in Int BY SpoolBounds
<1>4. SumFunctionOnSet(Charged', Evidence) <= MaxTotal - ControlReserve
  BY <1>1, <1>2, <1>3 DEF ReserveInv
<1>5. QED BY <1>4 DEF ReserveInv

\* What is charged does not grow by a step after which no evidence is being
\* written, if no file takes more than was charged for it.
LEMMA ChargeKept ==
    ASSUME SpInv, SpInv', ReserveInv, pc' # "fill" \/ cur'.file \notin Evidence,
           \A f \in Evidence : Bytes'[f] <= Charged[f]
    PROVE  ReserveInv'
<1>1. \A f \in Evidence : Charged'[f] = Bytes'[f]
  BY EvidenceFacts DEF Charged
<1>2. \A f \in Evidence : Charged[f] \in Int /\ Charged'[f] \in Int /\ Charged'[f] <= Charged[f]
  BY <1>1, EvidenceFacts, MeasuredNow, MeasuredNext DEF Measured
<1>3. QED BY <1>2, ChargesKept

\* No evidence grows.
Lighter == \A f \in Evidence : Len(fs'[f].data) + quar'[f] <= Len(fs[f].data) + quar[f]

LEMMA LighterKept ==
    ASSUME SpInv, SpInv', ReserveInv, pc' # "fill" \/ cur'.file \notin Evidence, Lighter
    PROVE  ReserveInv'
<1>1. \A f \in Evidence : Bytes'[f] <= Bytes[f]
  BY EvidenceFacts, MeasuredNow, MeasuredNext DEF Lighter, Measured
<1>2. \A f \in Evidence : Bytes'[f] <= Charged[f]
  BY <1>1, EvidenceFacts, MeasuredNow, MeasuredNext DEF Measured
<1>3. QED BY <1>2, ChargeKept

LEMMA LighterSame ==
    ASSUME SpInv, SpInv', quar' = quar,
           \A f \in Evidence : Len(fs'[f].data) <= Len(fs[f].data)
    PROVE  Lighter
<1>1. \A f \in Evidence : /\ Len(fs[f].data) \in Nat /\ Len(fs'[f].data) \in Nat
                          /\ quar[f] \in Nat
  BY EvidenceFacts, MeasuredNow, MeasuredNext DEF Measured
<1>2. QED BY <1>1 DEF Lighter

LEMMA LighterSync ==
    ASSUME SpInv, NEW kinds, fs' = Synced(fs, kinds), quar' = quar PROVE Lighter
<1>1. fs \in [File -> FileRec] BY DEF SpInv, FilesOK
<1>2. \A f \in File : fs'[f].data = fs[f].data BY <1>1 DEF Synced, FileRec
<1>3. QED BY <1>2, EvidenceFacts, MeasuredNow DEF Lighter, Measured

LEMMA LighterQuarantine ==
    ASSUME SpInv, NEW f \in File, Quarantined(f) PROVE Lighter
<1>1. fs \in [File -> FileRec] /\ quar \in [File -> 0..SegLen] BY DEF SpInv, FilesOK, Counted
<1>2. \A g \in File : g # f => fs'[g] = fs[g] /\ quar'[g] = quar[g]
  BY <1>1 DEF Quarantined
<1>3. fs'[f] = NoFile /\ quar'[f] = Len(fs[f].data) BY <1>1 DEF Quarantined, Data
<1>4. Len(fs'[f].data) = 0 BY <1>3, ByteFacts
<1>5. Len(fs'[f].data) + quar'[f] <= Len(fs[f].data) + quar[f] BY <1>3, <1>4, MeasuredNow DEF Measured
<1>6. QED BY <1>2, <1>5, EvidenceFacts, MeasuredNow DEF Lighter, Measured

LEMMA LighterOther ==
    ASSUME SpInv, NEW f \in File \ Evidence, \A g \in File : g # f => fs'[g] = fs[g],
           quar' = quar
    PROVE  Lighter
BY EvidenceFacts, MeasuredNow DEF Lighter, Measured

LEMMA ReceiptIsNoEvidence == \A f \in File \ Bulk : f \in File \ Evidence
BY EvidenceFacts

LEMMA RepIsNoEvidence == \A c \in Closure : Rep(c) \in File \ Evidence
BY EvidenceFacts, FileFacts

\* A write of anything but evidence begins.
LEMMA BeginOther ==
    ASSUME SpInv, SpInv', ReserveInv, NEW f \in File \ Evidence, NEW bytes,
           BeginWrite(f, bytes), quar' = quar
    PROVE  ReserveInv'
<1>1. fs' = fs \/ fs' = [fs EXCEPT ![f] = [NoFile EXCEPT !.at = "temp"]] BY DEF BeginWrite
<1>2. fs \in [File -> FileRec] BY DEF SpInv, FilesOK
<1>3. \A g \in File : g # f => fs'[g] = fs[g] BY <1>1, <1>2
<1>4. cur'.file = f BY DEF BeginWrite
<1>5. QED BY <1>3, <1>4, LighterOther, LighterKept

\* The write of a segment: its bytes were charged when it began.
LEMMA FillReserve == ASSUME SpInv, SpInv', ReserveInv, Fill PROVE ReserveInv'
<1>1. /\ pc = "fill" /\ pc' = "fsync" /\ quar' = quar
      /\ fs' = [fs EXCEPT ![cur.file].data = cur.bytes]
  BY DEF Fill
<1>2. fs \in [File -> FileRec] BY DEF SpInv, FilesOK
<1>3. \A g \in File : g # cur.file => fs'[g] = fs[g] BY <1>1, <1>2
<1>4. ASSUME NEW f \in Evidence PROVE Bytes'[f] <= Charged[f]
  <2>1. f \in File BY EvidenceFacts
  <2>2. CASE f = cur.file
    <3>1. Charged[f] = SegLen + quar[f] BY <1>1, <2>1, <2>2 DEF Charged
    <3>2. Bytes'[f] <= SegLen + quar'[f] BY MeasuredNext DEF Measured
    <3>3. QED BY <1>1, <3>1, <3>2
  <2>3. CASE f # cur.file
    <3>1. Bytes'[f] = Bytes[f] BY <1>1, <1>3, <2>1, <2>3, MeasuredNow, MeasuredNext DEF Measured
    <3>2. QED BY <3>1, MeasuredNow DEF Measured
  <2>4. QED BY <2>2, <2>3
<1>5. QED BY <1>1, <1>4, ChargeKept

\* A call is cut short: whatever part of the bytes is there was charged.
LEMMA BreakReserve == ASSUME SpInv, SpInv', ReserveInv, Break PROVE ReserveInv'
<1>1. pc' = "idle" /\ quar' = quar BY DEF Break, Return
<1>2. fs \in [File -> FileRec] BY DEF SpInv, FilesOK
<1>3. CASE fs' = fs
  <2>1. \A f \in Evidence : Len(fs'[f].data) <= Len(fs[f].data)
    BY <1>3, EvidenceFacts, MeasuredNow DEF Measured
  <2>2. QED BY <1>1, <2>1, LighterSame, LighterKept
<1>4. CASE pc = "fill" /\ \E n \in 0..Len(cur.bytes) :
                              fs' = [fs EXCEPT ![cur.file].data = SubSeq(cur.bytes, 1, n)]
  <2>1. \A g \in File : g # cur.file => fs'[g] = fs[g] BY <1>2, <1>4
  <2>2. ASSUME NEW f \in Evidence PROVE Bytes'[f] <= Charged[f]
    <3>1. f \in File BY EvidenceFacts
    <3>2. CASE f = cur.file
      <4>1. Charged[f] = SegLen + quar[f] BY <1>4, <3>1, <3>2 DEF Charged
      <4>2. Bytes'[f] <= SegLen + quar'[f] BY MeasuredNext DEF Measured
      <4>3. QED BY <1>1, <4>1, <4>2
    <3>3. CASE f # cur.file
      <4>1. Bytes'[f] = Bytes[f] BY <1>1, <2>1, <3>1, <3>3, MeasuredNow, MeasuredNext DEF Measured
      <4>2. QED BY <4>1, MeasuredNow DEF Measured
    <3>4. QED BY <3>2, <3>3
  <2>3. QED BY <1>1, <2>2, ChargeKept
<1>5. QED BY <1>3, <1>4 DEF Break

\* The append of evidence is charged at once, and reserve left room for it; the
\* append of a control segment charges no evidence.
LEMMA AppendNewReserve ==
    ASSUME SpInv, SpInv', ReserveInv, NEW c \in Closure, AppendNew(c) PROVE ReserveInv'
<1>1. /\ pc = "idle" /\ BeginWrite(Seg(c), Exact(c)) /\ quar' = quar
      /\ At(Seg(c)) = "none" => Reserve(c)
  BY DEF AppendNew
<1>2. Seg(c) \in File /\ fs \in [File -> FileRec] BY FileFacts DEF SpInv, FilesOK
<1>3. CASE Seg(c) \notin Evidence BY <1>1, <1>2, <1>3, BeginOther
<1>4. CASE fs' = fs /\ pc' = "rename"
  <2>1. \A f \in Evidence : Len(fs'[f].data) <= Len(fs[f].data)
    BY <1>4, EvidenceFacts, MeasuredNow DEF Measured
  <2>2. QED BY <1>1, <1>4, <2>1, LighterSame, LighterKept
<1>5. CASE /\ Seg(c) \in Evidence /\ At(Seg(c)) = "none" /\ pc' = "fill"
           /\ fs' = [fs EXCEPT ![Seg(c)] = [NoFile EXCEPT !.at = "temp"]]
  <2> DEFINE local == {f \in File : f[1] \in {"seg", "ack", "catAck"}}
             e == Seg(c)
  <2>1. c \notin Control BY <1>5, EvidenceFacts
  <2>2. SumFunctionOnSet(Bytes, local) + SegLen <= MaxTotal - ControlReserve
    BY <1>1, <1>5, <2>1 DEF Reserve, UsedBytes
  <2>3. IsFiniteSet(local) /\ Evidence \subseteq local /\ local \subseteq File
    BY EvidenceFacts, FS_Subset
  <2>4. \A f \in local : Bytes[f] \in Nat BY <2>3, MeasuredNow DEF Measured
  <2> HIDE DEF local
  <2>5. SumFunctionOnSet(Bytes, Evidence) <= SumFunctionOnSet(Bytes, local)
    BY <2>3, <2>4, SumPart
  <2>6. cur'.file = e BY <1>1 DEF BeginWrite
  <2>7. ASSUME NEW f \in Evidence
        PROVE  /\ Charged'[f] \in Int /\ Bytes[f] \in Int
               /\ f # e => Charged'[f] <= Bytes[f]
               /\ f = e => Charged'[f] <= Bytes[f] + SegLen
    <3>1. f \in File /\ Charged'[f] \in Nat /\ Bytes[f] \in Nat /\ SegLen \in Nat
      BY EvidenceFacts, MeasuredNow, MeasuredNext, ByteFacts DEF Measured
    <3>2. CASE f = e
      <4>1. Charged'[f] = SegLen + quar[f] BY <1>1, <1>5, <2>6, <3>1, <3>2 DEF Charged
      <4>2. quar[f] <= Bytes[f] /\ quar[f] \in Nat BY <3>1, MeasuredNow DEF Measured
      <4>3. QED BY <3>1, <3>2, <4>1, <4>2
    <3>3. CASE f # e
      <4>1. Charged'[f] = Bytes'[f] BY <2>6, <3>1, <3>3 DEF Charged
      <4>2. fs'[f] = fs[f] BY <1>2, <1>5, <3>1, <3>3
      <4>3. Bytes'[f] = Bytes[f] BY <1>1, <3>1, <4>2, MeasuredNow, MeasuredNext DEF Measured
      <4>4. QED BY <3>1, <3>3, <4>1, <4>3
    <3>4. QED BY <3>2, <3>3
  <2>8. e \in Evidence /\ SegLen \in Int BY <1>5, ByteFacts
  <2> HIDE DEF e
  <2>9. SumFunctionOnSet(Charged', Evidence) <= SumFunctionOnSet(Bytes, Evidence) + SegLen
    BY <2>7, <2>8, EvidenceFacts, SumGrows
  <2>10. /\ SumFunctionOnSet(Charged', Evidence) \in Int
         /\ SumFunctionOnSet(Bytes, Evidence) \in Int /\ SumFunctionOnSet(Bytes, local) \in Int
    BY <2>3, <2>4, <2>7, EvidenceFacts, SumInt
  <2>11. MaxTotal - ControlReserve \in Int BY SpoolBounds
  <2>12. SumFunctionOnSet(Charged', Evidence) <= MaxTotal - ControlReserve
    BY <2>2, <2>5, <2>8, <2>9, <2>10, <2>11
  <2>13. QED BY <2>12 DEF ReserveInv
<1>6. QED BY <1>1, <1>3, <1>4, <1>5 DEF BeginWrite

\* A power loss leaves no file longer than it was.
LEMMA PowerLossReserve == ASSUME SpInv, SpInv', ReserveInv, PowerLoss PROVE ReserveInv'
<1> DEFINE open == {f \in File : AfterPower(fs[f]) # {fs[f]}}
<1>1. PICK g \in [open -> UNION {AfterPower(fs[f]) : f \in open}] :
         /\ \A f \in open : g[f] \in AfterPower(fs[f])
         /\ fs' = [f \in File |-> IF f \in open THEN g[f] ELSE fs[f]]
  BY DEF PowerLoss
<1>2. pc' = "idle" /\ quar' = quar BY DEF PowerLoss, Return
<1>3. ASSUME NEW f \in File PROVE Len(fs'[f].data) <= Len(fs[f].data)
  <2>1. Len(fs[f].data) \in Nat /\ fs[f].safe \in Nat /\ fs[f] \in FileRec
    BY MeasuredNow DEF Measured, SpInv, FilesOK, FileRec
  <2>2. CASE f \notin open BY <1>1, <2>1, <2>2
  <2>3. CASE f \in open
    <3>1. fs'[f] \in AfterPower(fs[f]) BY <1>1, <2>3
    <3>2. CASE fs'[f] = NoFile BY <2>1, <3>2, ByteFacts
    <3>3. CASE \E d \in OnMedium(fs[f]) : fs'[f].data = d
      <4>1. PICK d \in OnMedium(fs[f]) : fs'[f].data = d BY <3>3
      <4>2. PICK n \in fs[f].safe..Len(fs[f].data) : d \in [1..n -> Closure \cup {"bad"}]
        BY <4>1 DEF OnMedium
      <4>3. n \in Nat /\ n <= Len(fs[f].data) BY <2>1, <4>2
      <4>4. Len(d) = n BY <4>2, <4>3
      <4>5. QED BY <4>1, <4>3, <4>4
    <3>4. QED BY <3>1, <3>2, <3>3 DEF AfterPower
  <2>4. QED BY <2>2, <2>3
<1>4. Lighter BY <1>2, <1>3, EvidenceFacts, LighterSame
<1>5. QED BY <1>2, <1>4, LighterKept

\* A ready file rots in place.
LEMMA RotReserve == ASSUME SpInv, SpInv', ReserveInv, Rot PROVE ReserveInv'
<1>1. PICK f \in {"seg", "rep"} \X Closure, k \in 1..SegLen :
         At(f) = "final" /\ ~Corrupt(f) /\ fs' = [fs EXCEPT ![f].data[k] = "bad"]
  BY DEF Rot
<1>2. UNCHANGED <<quar, pc, cur>> BY DEF Rot, callVars
<1>3. fs \in [File -> FileRec] /\ f \in File BY FileFacts DEF SpInv, FilesOK, Bulk
<1>4. PICK c \in Closure : fs[f].data = Exact(c) BY <1>1 DEF Corrupt, Data
<1>5. fs'[f].data = [fs[f].data EXCEPT ![k] = "bad"] BY <1>1, <1>3 DEF FileRec
<1>6. fs'[f].data \in [1..SegLen -> Cell] BY <1>4, <1>5 DEF Exact, Cell
<1>7. Len(fs'[f].data) = SegLen /\ Len(fs[f].data) = SegLen BY <1>4, <1>6, ByteFacts
<1>8. \A g \in File : g # f => fs'[g] = fs[g] BY <1>1, <1>3
<1>9. \A g \in Evidence : Len(fs'[g].data) = Len(fs[g].data) BY <1>7, <1>8, EvidenceFacts
<1>10. \A g \in Evidence : Bytes'[g] = Bytes[g] /\ Charged'[g] = Charged[g]
  BY <1>2, <1>9, EvidenceFacts, MeasuredNow, MeasuredNext DEF Measured, Charged
<1>11. \A g \in Evidence : Charged'[g] \in Int /\ Charged[g] \in Int /\ Charged'[g] <= Charged[g]
  BY <1>10, MeasuredNow DEF Measured
<1>12. QED BY <1>11, ChargesKept

\* The other steps of a call take a segment's bytes nowhere but to quarantine.
LEMMA StepReserve == ASSUME SpInv, SpInv', ReserveInv, Step PROVE ReserveInv'
<1>1. ASSUME pc' # "fill", fs' = fs, quar' = quar PROVE ReserveInv'
  <2>1. \A f \in Evidence : Len(fs'[f].data) <= Len(fs[f].data)
    BY <1>1, EvidenceFacts, MeasuredNow DEF Measured
  <2>2. QED BY <1>1, <2>1, LighterSame, LighterKept
<1>2. ASSUME pc' # "fill", NEW kinds, fs' = Synced(fs, kinds), quar' = quar PROVE ReserveInv'
  BY <1>2, LighterSync, LighterKept
<1>3. ASSUME pc' # "fill", NEW f \in File, Quarantined(f) PROVE ReserveInv'
  BY <1>3, LighterQuarantine, LighterKept
<1>4. fs \in [File -> FileRec] BY DEF SpInv, FilesOK
<1>5. pc \in DrainPcs => First \in Closure /\ SegId[First] \in Id BY DrainFacts
<1>6. CASE Fill BY <1>6, FillReserve
<1>7. CASE Fsync \/ Rename \/ PartialSync
  <2>1. cur.file \in File /\ pc' # "fill" /\ quar' = quar
    BY <1>7 DEF Fsync, Rename, PartialSync, SpInv, Calls
  <2>2. \A f \in File : fs'[f].data = fs[f].data
    BY <1>4, <1>7 DEF Fsync, Rename, PartialSync, FileRec
  <2>3. \A f \in Evidence : Len(fs'[f].data) <= Len(fs[f].data)
    BY <2>2, EvidenceFacts, MeasuredNow DEF Measured
  <2>4. QED BY <2>1, <2>3, LighterSame, LighterKept
<1>8. CASE AppendDone \/ RemoteAckDone \/ CatalogAckDone \/ ReplicaReady \/ ReplicaAckDone
  <2>1. pc' # "fill" /\ quar' = quar /\ \E kinds : fs' = Synced(fs, kinds)
    BY <1>8 DEF AppendDone, RemoteAckDone, CatalogAckDone, ReceiptDone, ReplicaReady,
                ReplicaAckDone, Return, NextSegment
  <2>2. QED BY <1>2, <2>1
<1>9. CASE ReadFails
  <2>1. pc \in DrainPcs /\ pc' # "fill" /\ Quarantined(Seg(First))
    BY <1>9 DEF ReadFails, Return, DrainPcs
  <2>2. Seg(First) \in File BY <1>5, <2>1, FileFacts
  <2>3. QED BY <1>3, <2>1, <2>2
<1>10. ASSUME NEW f \in File \ Bulk, NEW going \in {"replicate", "admit"}, RecordReceipt(f, going)
       PROVE  ReserveInv'
  <2>1. quar' = quar BY <1>10 DEF RecordReceipt
  <2>2. CASE BeginWrite(f, <<First>>) BY <2>1, <2>2, ReceiptIsNoEvidence, BeginOther
  <2>3. CASE pc' # "fill" /\ (fs' = fs \/ fs' = Synced(fs, {f[1]}))
    BY <1>1, <1>2, <2>1, <2>3
  <2>4. QED BY <1>10, <2>2, <2>3 DEF RecordReceipt, Return, NextSegment
<1>11. CASE RecordRemoteAck \/ RecordCatalogReceipt
  <2>1. pc \in DrainPcs BY <1>11 DEF RecordRemoteAck, RecordCatalogReceipt, DrainPcs
  <2>2. AckFile(SegId[First]) \in File \ Bulk /\ CatAck(SegId[First]) \in File \ Bulk
    BY <1>5, <2>1, FileFacts
  <2>3. QED BY <1>10, <1>11, <2>2 DEF RecordRemoteAck, RecordCatalogReceipt
<1>12. CASE Admit \/ ResumePartial \/ SendRefused \/ SendOverlap
  <2>1. pc' # "fill" /\ fs' = fs /\ quar' = quar
    BY <1>12 DEF Admit, ResumePartial, SendRefused, SendOverlap, Return, NextSegment
  <2>2. QED BY <1>1, <2>1
<1>13. CASE ResumeAcked
  <2>1. /\ pc \in DrainPcs /\ pc' # "fill"
        /\ \/ Quarantined(Rep(First))
           \/ quar' = quar /\ \E kinds : fs' = Synced(fs, kinds)
    BY <1>13 DEF ResumeAcked, Return, DrainPcs
  <2>2. Rep(First) \in File BY <1>5, <2>1, FileFacts
  <2>3. QED BY <1>2, <1>3, <2>1, <2>2
<1>14. CASE ResumeReady
  <2>1. /\ pc' # "fill"
        /\ \/ fs' = fs /\ quar' = quar
           \/ quar' = quar /\ \E kinds : fs' = Synced(fs, kinds)
           \/ \E d \in Closure : Quarantined(Rep(d))
    BY <1>14 DEF ResumeReady, Return
  <2>2. \A d \in Closure : Rep(d) \in File BY FileFacts
  <2>3. QED BY <1>1, <1>2, <1>3, <2>1, <2>2
<1>15. CASE PersistAck
  <2>1. pc \in DrainPcs /\ quar' = quar BY <1>15 DEF PersistAck, DrainPcs
  <2>2. RepAck(SegId[First]) \in File \ Bulk BY <1>5, <2>1, FileFacts
  <2>3. CASE BeginWrite(RepAck(SegId[First]), <<First>>)
    BY <2>1, <2>2, <2>3, ReceiptIsNoEvidence, BeginOther
  <2>4. CASE pc' # "fill" /\ fs' = fs BY <1>1, <2>1, <2>4
  <2>5. QED BY <1>15, <2>3, <2>4 DEF PersistAck, Return
<1>16. CASE SendChunk
  <2>1. pc \in DrainPcs /\ pc' # "fill" /\ quar' = quar BY <1>16 DEF SendChunk, DrainPcs
  <2>2. Rep(First) \in File \ Evidence BY <1>5, <2>1, RepIsNoEvidence
  <2>3. \A g \in File : g # Rep(First) => fs'[g] = fs[g] BY <1>4, <1>16 DEF SendChunk
  <2>4. QED BY <2>1, <2>2, <2>3, LighterOther, LighterKept
<1>17. CASE Complete
  <2>1. /\ cur.file \in File /\ pc' # "fill"
        /\ Quarantined(cur.file) \/ (fs' = fs /\ quar' = quar)
    BY <1>17 DEF Complete, Return, SpInv, Calls
  <2>2. QED BY <1>1, <1>3, <2>1
<1>18. QED
  BY <1>6, <1>7, <1>8, <1>9, <1>11, <1>12, <1>13, <1>14, <1>15, <1>16, <1>17 DEF Step

LEMMA ReserveInvKept == SpInv /\ SpInv' /\ ReserveInv /\ [Next]_vars => ReserveInv'
<1> SUFFICES ASSUME SpInv, SpInv', ReserveInv, [Next]_vars PROVE ReserveInv' OBVIOUS
<1>1. ASSUME NEW d \in Closure, Quarantined(Seg(d)), UNCHANGED callVars, pc = "idle"
      PROVE  ReserveInv'
  <2>1. Seg(d) \in File /\ pc' # "fill" BY <1>1, FileFacts DEF callVars
  <2>2. QED BY <1>1, <2>1, LighterQuarantine, LighterKept
<1>2. ASSUME NEW c \in Closure, AppendCall(c) PROVE ReserveInv'
  <2>1. CASE AppendCorrupt(c)
    <3>1. PICK d \in ReadyFor(SegId[c]) : Quarantined(Seg(d)) BY <2>1 DEF AppendCorrupt
    <3>2. d \in Closure /\ pc = "idle" /\ UNCHANGED callVars
      BY <2>1 DEF ReadyFor, AppendCorrupt
    <3>3. QED BY <1>1, <3>1, <3>2
  <2>2. CASE AppendIdempotent(c)
    <3>1. pc' # "fill" /\ fs' = Synced(fs, {"seg"}) /\ quar' = quar
      BY <2>2 DEF AppendIdempotent, callVars
    <3>2. QED BY <3>1, LighterSync, LighterKept
  <2>3. CASE AppendNew(c) BY <2>3, AppendNewReserve
  <2>4. QED BY <1>2, <2>1, <2>2, <2>3 DEF AppendCall
<1>3. CASE ListCorrupt
  <2>1. PICK c \in Closure : Quarantined(Seg(c)) BY <1>3 DEF ListCorrupt
  <2>2. pc = "idle" /\ UNCHANGED callVars BY <1>3 DEF ListCorrupt
  <2>3. QED BY <1>1, <2>1, <2>2
<1>4. CASE DrainReplica \/ DrainCatalog
  <2>1. pc' # "fill" /\ fs' = fs /\ quar' = quar BY <1>4 DEF DrainReplica, DrainCatalog
  <2>2. \A f \in Evidence : Len(fs'[f].data) <= Len(fs[f].data)
    BY <2>1, EvidenceFacts, MeasuredNow DEF Measured
  <2>3. QED BY <2>1, <2>2, LighterSame, LighterKept
<1>5. CASE UNCHANGED vars
  <2>1. UNCHANGED <<fs, quar, pc, cur>> BY <1>5 DEF vars, callVars
  <2>2. Charged' = Charged BY <2>1 DEF Charged, Bytes, Data
  <2>3. QED BY <2>2 DEF ReserveInv
<1>6. QED
  BY <1>2, <1>3, <1>4, <1>5, StepReserve, BreakReserve, PowerLossReserve, RotReserve DEF Next

\* Evidence never takes the control reserve, whatever is cut short, retried,
\* quarantined or lost to a power failure on the way.
THEOREM ReserveIsLeft == Spec => []EvidenceLeavesReserve
<1>1. Init => ReserveInv
  <2> SUFFICES ASSUME Init PROVE ReserveInv OBVIOUS
  <2>1. SpInv BY SpInvInit
  <2>2. \A f \in Evidence : f \in File /\ Charged[f] = 0
    BY EvidenceFacts, ByteFacts DEF Init, Charged, Bytes, Data
  <2>3. SumFunctionOnSet(Charged, Evidence) <= 0 BY <2>2, EvidenceFacts, SumZero
  <2>4. SumFunctionOnSet(Charged, Evidence) \in Int BY <2>2, EvidenceFacts, SumInt
  <2>5. MaxTotal - ControlReserve \in Int /\ 0 <= MaxTotal - ControlReserve BY SpoolBounds
  <2>6. QED BY <2>3, <2>4, <2>5 DEF ReserveInv
<1>2. SpInv /\ SpInv' /\ ReserveInv /\ [Next]_vars => ReserveInv' BY ReserveInvKept
<1>3. SpInv /\ ReserveInv => EvidenceLeavesReserve
  <2> SUFFICES ASSUME SpInv, ReserveInv PROVE EvidenceLeavesReserve OBVIOUS
  <2>1. \A f \in Evidence : Bytes[f] \in Int /\ Charged[f] \in Int /\ Bytes[f] <= Charged[f]
    BY EvidenceFacts, MeasuredNow DEF Measured
  <2>2. SumFunctionOnSet(Bytes, Evidence) <= SumFunctionOnSet(Charged, Evidence)
    BY <2>1, EvidenceFacts, SumLeq
  <2>3. /\ SumFunctionOnSet(Bytes, Evidence) \in Int
        /\ SumFunctionOnSet(Charged, Evidence) \in Int
    BY <2>1, EvidenceFacts, SumInt
  <2>4. MaxTotal - ControlReserve \in Int BY SpoolBounds
  <2>5. SumFunctionOnSet(Bytes, Evidence) <= MaxTotal - ControlReserve
    BY <2>2, <2>3, <2>4 DEF ReserveInv
  <2>6. QED BY <2>5 DEF EvidenceLeavesReserve, Evidence
<1>4. QED BY <1>1, <1>2, <1>3, SpInvHolds, PTL DEF Spec

=============================================================================
