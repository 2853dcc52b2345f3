------------------------------- MODULE Spool -------------------------------
(***************************************************************************)
(* joshi-spool: the local segment spool (spool.rs), the replica that takes  *)
(* exact bytes in resumable chunks (replica.rs), the write that both build  *)
(* on (fsutil.rs), and the two drains of joshi-supervisor that copy ready   *)
(* segments to the replica and to the catalog (transport.rs).               *)
(*                                                                          *)
(* Both roots have one writer, and neither LocalSpool nor Replica keeps     *)
(* anything in memory: what a method returns depends only on the files. So  *)
(* the state is the files, with what the process sees (at, data) and what   *)
(* the medium already holds (dur, safe) apart, and one call in progress.    *)
(*                                                                          *)
(* A closure is one exact encoded segment: two closures of one segment ID   *)
(* are the same occurrence with different bytes. A segment is SegLen cells  *)
(* of its closure, an acknowledgement one cell; "bad" is a cell of garbage. *)
(* Encryption and nonces, the entry bounds and the replica's generation are *)
(* left out, and quarantine (rename, two syncs, the reason file) is a step. *)
(***************************************************************************)
EXTENDS Integers, Sequences, FiniteSets, FiniteSetsExt

CONSTANTS
    Closure,        \* exact segments that may be appended
    SegId,          \* [Closure -> Nat]: segment identity, in listing order
    Control,        \* the closures without an evidence_batch entry
    SegLen,         \* cells of a segment; a transfer chunk is one cell
    MaxTotal,       \* SpoolConfig.max_total_bytes
    ReplicaTotal,   \* ReplicaConfig.max_total_bytes
    ControlReserve, \* SpoolConfig.control_reserve_bytes
    MaxBreaks,      \* calls that may be cut short by a kill or an I/O error
    MaxPower,       \* power losses
    MaxRot          \* ready files that may rot on the medium

Id == {SegId[c] : c \in Closure}

ASSUME SpoolBounds ==
    /\ Closure # {} /\ IsFiniteSet(Closure) /\ "bad" \notin Closure
    /\ SegId \in [Closure -> Nat] /\ Control \subseteq Closure
    /\ SegLen \in Nat \ {0} /\ MaxTotal \in Nat /\ ControlReserve \in Nat
    /\ ControlReserve < MaxTotal /\ ReplicaTotal \in Nat
    /\ MaxBreaks \in Nat /\ MaxPower \in Nat /\ MaxRot \in Nat

\* The files of both roots. An acknowledgement is named by the segment ID.
Seg(c) == <<"seg", c>>              \* local   ready/
Rep(c) == <<"rep", c>>              \* replica partial/ then ready/
RepAck(i) == <<"repAck", i>>        \* replica acks/
AckFile(i) == <<"ack", i>>          \* local   acks/
CatAck(i) == <<"catAck", i>>        \* local   catalog_acks/
File == ({"seg", "rep"} \X Closure) \cup ({"repAck", "ack", "catAck"} \X Id)

VARIABLES
    fs,       \* the files under their temporary or final name
    quar,     \* cells in quarantine/, by the file they were
    pc, todo, \* the call in progress, and the listed segments its drain has left
    cur,      \* [file, bytes] of the write in progress
    catalog,  \* the catalog's admitted closures
    told,     \* history: closures an append reported durable
    adopted,  \* history: files completed from bytes an earlier call never synced
    rotted,   \* history: files that rotted
    unsettled,\* history: closures drained while their ready name was not durable
    breaks, power

callVars == <<pc, todo, cur>>
histVars == <<told, adopted, rotted, unsettled, breaks, power>>
vars == <<fs, quar, catalog, callVars, histVars>>

Exact(c) == [n \in 1..SegLen |-> c]
NoFile == [at |-> "none", dur |-> "none", data |-> <<>>, safe |-> 0]
NoWrite == [file |-> Seg(CHOOSE c \in Closure : TRUE), bytes |-> <<>>]
At(f) == fs[f].at
Data(f) == fs[f].data

Init ==
    /\ fs = [f \in File |-> NoFile] /\ quar = [f \in File |-> 0]
    /\ pc = "idle" /\ todo = {} /\ cur = NoWrite /\ catalog = {}
    /\ told = {} /\ adopted = {} /\ rotted = {} /\ unsettled = {}
    /\ breaks = 0 /\ power = 0

-----------------------------------------------------------------------------
(* fsutil.rs                                                                *)

\* sync_directory on the directory that holds the files of these kinds.
Synced(files, kinds) ==
    [f \in File |-> IF f[1] \in kinds THEN [files[f] EXCEPT !.dur = files[f].at] ELSE files[f]]

\* A call ends: Ok or an error the caller sees.
Return == pc' = "idle" /\ todo' = {} /\ cur' = NoWrite

\* atomic_write, entry: a left-over equal temporary file is taken as it is.
BeginWrite(f, bytes) ==
    /\ cur' = [file |-> f, bytes |-> bytes]
    /\ \/ /\ At(f) = "none"
          /\ fs' = [fs EXCEPT ![f] = [NoFile EXCEPT !.at = "temp"]]
          /\ pc' = "fill" /\ UNCHANGED adopted
       \/ /\ At(f) = "temp" /\ Data(f) = bytes
          /\ adopted' = IF fs[f].safe < Len(bytes) THEN adopted \cup {f} ELSE adopted
          /\ pc' = "rename" /\ UNCHANGED fs

\* The temporary file is there with other bytes: an integrity error.
WriteConflict(f, bytes) == At(f) = "temp" /\ Data(f) # bytes

Fill ==
    /\ pc = "fill"
    /\ fs' = [fs EXCEPT ![cur.file].data = cur.bytes]
    /\ pc' = "fsync"
    /\ UNCHANGED <<quar, todo, cur, catalog, histVars>>

\* Mutant: the file is renamed before its bytes are on the medium.
FsyncSkipped ==
    /\ pc = "fsync" /\ pc' = "rename"
    /\ UNCHANGED <<fs, quar, todo, cur, catalog, histVars>>

\* Mutant: the mark of what is synced does not follow the file's length.
FsyncMarksSegment ==
    /\ pc = "fsync"
    /\ fs' = [fs EXCEPT ![cur.file].safe = SegLen]
    /\ pc' = "rename"
    /\ UNCHANGED <<quar, todo, cur, catalog, histVars>>

Fsync ==
    /\ pc = "fsync"
    /\ fs' = [fs EXCEPT ![cur.file].safe = Len(Data(cur.file))]
    /\ pc' = "rename"
    /\ UNCHANGED <<quar, todo, cur, catalog, histVars>>

Rename ==
    /\ pc = "rename"
    /\ fs' = [fs EXCEPT ![cur.file].at = "final"]
    /\ pc' = "dirsync"
    /\ UNCHANGED <<quar, todo, cur, catalog, histVars>>

-----------------------------------------------------------------------------
(* spool.rs                                                                 *)

ReadyFor(i) == {c \in Closure : SegId[c] = i /\ At(Seg(c)) = "final"}
Corrupt(f) == At(f) = "final" /\ Data(f) \notin {Exact(c) : c \in Closure}

\* quarantine: the bytes leave ready/ and still count against the budget.
Quarantined(f) ==
    /\ fs' = [fs EXCEPT ![f] = NoFile]
    /\ quar' = [quar EXCEPT ![f] = Len(Data(f))]

\* What a file takes on disk, its quarantined copy included.
Bytes == [f \in File |-> Len(Data(f)) + quar[f]]

\* directory_bytes over the local root: pending, ready, receipts, quarantine.
UsedBytes == SumFunctionOnSet(Bytes, {f \in File : f[1] \in {"seg", "ack", "catAck"}})

\* Mutant: reserve counts the ready segments only.
ReserveReadyOnly(c) ==
    SegLen * (1 + Cardinality({d \in Closure : At(Seg(d)) = "final"}))
        <= MaxTotal - (IF c \in Control THEN 0 ELSE ControlReserve)

Reserve(c) ==
    UsedBytes + SegLen <= MaxTotal - (IF c \in Control THEN 0 ELSE ControlReserve)

\* append_segment. The errors that change nothing (the ID is ready with other
\* bytes, the pending bytes conflict, the budget is spent) are stuttering steps.
AppendCorrupt(c) ==
    /\ pc = "idle"
    /\ \E d \in ReadyFor(SegId[c]) : Corrupt(Seg(d)) /\ Quarantined(Seg(d))
    /\ UNCHANGED <<callVars, catalog, histVars>>

\* Mutant: the idempotent answer does not sync the directory again.
IdempotentUnsynced(c) ==
    /\ pc = "idle" /\ ReadyFor(SegId[c]) = {c} /\ ~Corrupt(Seg(c))
    /\ told' = told \cup {c}
    /\ UNCHANGED <<fs, quar, callVars, catalog, adopted, rotted, unsettled, breaks, power>>

AppendIdempotent(c) ==
    /\ pc = "idle" /\ ReadyFor(SegId[c]) = {c} /\ ~Corrupt(Seg(c))
    /\ fs' = Synced(fs, {"seg"})
    /\ told' = told \cup {c}
    /\ UNCHANGED <<quar, callVars, catalog, adopted, rotted, unsettled, breaks, power>>

AppendNew(c) ==
    /\ pc = "idle" /\ ReadyFor(SegId[c]) = {}
    /\ At(Seg(c)) = "none" => Reserve(c)
    /\ BeginWrite(Seg(c), Exact(c))
    /\ UNCHANGED <<quar, todo, catalog, told, rotted, unsettled, breaks, power>>

AppendDone ==
    /\ pc = "dirsync" /\ cur.file[1] = "seg"
    /\ fs' = Synced(fs, {"seg"})
    /\ told' = told \cup {cur.file[2]}
    /\ Return
    /\ UNCHANGED <<quar, catalog, adopted, rotted, unsettled, breaks, power>>

\* list_segments: a corrupt file is quarantined and the caller gets the error.
ListCorrupt ==
    /\ pc = "idle"
    /\ \E c \in Closure : Corrupt(Seg(c)) /\ Quarantined(Seg(c))
    /\ UNCHANGED <<callVars, catalog, histVars>>

Listed == {c \in Closure : At(Seg(c)) = "final"}
CanList == pc = "idle" /\ Listed # {} /\ \A c \in Closure : ~Corrupt(Seg(c))

\* The first segment in listing order.
First == CHOOSE c \in todo : \A d \in todo : SegId[c] <= SegId[d]

\* The next segment of the drain, or the end of it.
NextSegment(going) ==
    LET left == todo \ {First}
    IN /\ todo' = left
       /\ pc' = IF left = {} THEN "idle" ELSE going
       /\ cur' = NoWrite

\* The drain reads its segment again and finds it corrupt: that ends it.
ReadFails ==
    /\ pc \in {"send", "record", "admit", "recordCatalog"}
    /\ Corrupt(Seg(First)) /\ Quarantined(Seg(First))
    /\ Return
    /\ UNCHANGED <<catalog, histVars>>

\* record_remote_ack and record_catalog_receipt: atomic_idempotent_json on the
\* receipt named by the segment ID.
RecordReceipt(f, going) ==
    LET c == First IN
    /\ ~Corrupt(Seg(c))
    /\ \/ /\ At(f) = "final"
          /\ IF Data(f) = <<c>>
                THEN fs' = Synced(fs, {f[1]}) /\ NextSegment(going)
                ELSE UNCHANGED fs /\ Return
          /\ UNCHANGED adopted
       \/ /\ At(f) # "final" /\ ~WriteConflict(f, <<c>>)
          /\ BeginWrite(f, <<c>>) /\ UNCHANGED todo
       \/ WriteConflict(f, <<c>>) /\ Return /\ UNCHANGED <<fs, adopted>>
    /\ UNCHANGED <<quar, catalog, told, rotted, unsettled, breaks, power>>

RecordRemoteAck == pc = "record" /\ RecordReceipt(AckFile(SegId[First]), "replicate")
RecordCatalogReceipt == pc = "recordCatalog" /\ RecordReceipt(CatAck(SegId[First]), "admit")

ReceiptDone(kind, going) ==
    /\ pc = "dirsync" /\ cur.file[1] = kind
    /\ fs' = Synced(fs, {kind})
    /\ NextSegment(going)
    /\ UNCHANGED <<quar, catalog, histVars>>

RemoteAckDone == ReceiptDone("ack", "replicate")
CatalogAckDone == ReceiptDone("catAck", "admit")

-----------------------------------------------------------------------------
(* transport.rs: CatalogTransport.drain                                     *)

Unsettled == {c \in Listed : fs[Seg(c)].dur # "final"}

DrainCatalog ==
    /\ CanList /\ todo' = Listed /\ pc' = "admit"
    /\ unsettled' = unsettled \cup Unsettled
    /\ UNCHANGED <<fs, quar, cur, catalog, told, adopted, rotted, breaks, power>>

\* sink.admit commits before the receipt is recorded; control is only retained.
Admit ==
    /\ pc = "admit" /\ ~Corrupt(Seg(First))
    /\ IF First \in Control
          THEN NextSegment("admit") /\ UNCHANGED catalog
          ELSE pc' = "recordCatalog" /\ catalog' = catalog \cup {First} /\ UNCHANGED <<todo, cur>>
    /\ UNCHANGED <<fs, quar, histVars>>

-----------------------------------------------------------------------------
(* replica.rs and transport.rs: ReplicaTransport.drain                      *)

DrainReplica ==
    /\ CanList /\ todo' = Listed /\ pc' = "replicate"
    /\ unsettled' = unsettled \cup Unsettled
    /\ UNCHANGED <<fs, quar, cur, catalog, told, adopted, rotted, breaks, power>>

RepReady(i) == {c \in Closure : SegId[c] = i /\ At(Rep(c)) = "final"}
RepPartial(i) == {c \in Closure : SegId[c] = i /\ At(Rep(c)) = "temp"}

\* resume_state when an ACK is there: it counts only while the exact ready
\* bytes are there too. A conflicting or unsupported ACK is an error.
ResumeAcked ==
    LET c == First
        ack == RepAck(SegId[c])
        good == Data(ack) = <<c>> /\ RepReady(SegId[c]) = {c}
    IN /\ pc = "replicate" /\ At(ack) = "final"
       /\ IF good /\ Corrupt(Rep(c))
             THEN Quarantined(Rep(c)) /\ Return
             ELSE /\ fs' = Synced(fs, IF good THEN {"repAck", "rep"} ELSE {"repAck"})
                  /\ UNCHANGED quar
                  /\ IF good THEN pc' = "record" /\ UNCHANGED <<todo, cur>> ELSE Return
       /\ UNCHANGED <<catalog, histVars>>

\* resume_state when only ready bytes are there: verified, and ready/ synced.
\* Ready bytes of another closure fail the same verification.
ResumeReady ==
    LET c == First
        there == RepReady(SegId[c])
    IN /\ pc = "replicate" /\ At(RepAck(SegId[c])) # "final" /\ there # {}
       /\ \/ Cardinality(there) > 1 /\ Return /\ UNCHANGED <<fs, quar>>
          \/ /\ there = {c} /\ ~Corrupt(Rep(c))
             /\ fs' = Synced(fs, {"rep"}) /\ pc' = "persistAck"
             /\ UNCHANGED <<quar, todo, cur>>
          \/ \E d \in Closure : /\ there = {d} /\ (d # c \/ Corrupt(Rep(d)))
                                /\ Quarantined(Rep(d)) /\ Return
       /\ UNCHANGED <<catalog, histVars>>

\* persist_ack
PersistAck ==
    LET c == First
        ack == RepAck(SegId[c])
    IN /\ pc = "persistAck"
       /\ \/ BeginWrite(ack, <<c>>) /\ UNCHANGED todo
          \/ WriteConflict(ack, <<c>>) /\ Return /\ UNCHANGED <<fs, adopted>>
       /\ UNCHANGED <<quar, catalog, told, rotted, unsettled, breaks, power>>

\* resume_state says how long the partial file is; one of other bytes is a
\* Conflict. A complete partial file is sent its last cell again.
ResumePartial ==
    /\ pc = "replicate"
    /\ At(RepAck(SegId[First])) # "final" /\ RepReady(SegId[First]) = {}
    /\ IF RepPartial(SegId[First]) \subseteq {First}
          THEN pc' = "send" /\ UNCHANGED <<todo, cur>>
          ELSE Return
    /\ UNCHANGED <<fs, quar, catalog, histVars>>

\* directory_bytes over the replica's root.
ReplicaBytes == SumFunctionOnSet(Bytes, {f \in File : f[1] \in {"rep", "repAck"}})

\* apply_chunk refuses: the overlap differs, or the replica's budget is spent.
SendRefused ==
    LET kept == Data(Rep(First)) IN
    /\ pc = "send" /\ ~Corrupt(Seg(First))
    /\ IF Len(kept) = SegLen THEN kept[SegLen] # First ELSE ReplicaBytes >= ReplicaTotal
    /\ Return
    /\ UNCHANGED <<fs, quar, catalog, histVars>>

\* apply_chunk: the next cell is appended to the partial file.
SendChunk ==
    LET c == First IN
    /\ pc = "send" /\ ~Corrupt(Seg(c))
    /\ Len(Data(Rep(c))) < SegLen /\ ReplicaBytes < ReplicaTotal
    /\ fs' = [fs EXCEPT ![Rep(c)].at = "temp", ![Rep(c)].data = Append(@, c)]
    /\ pc' = "partialSync" /\ cur' = [file |-> Rep(c), bytes |-> Exact(c)]
    /\ UNCHANGED <<quar, todo, catalog, histVars>>

PartialSync ==
    LET f == cur.file IN
    /\ pc = "partialSync"
    /\ fs' = [fs EXCEPT ![f].safe = Len(Data(f))]
    /\ pc' = IF Len(Data(f)) < SegLen THEN "replicate" ELSE "complete"
    /\ UNCHANGED <<quar, todo, cur, catalog, histVars>>

\* Mutant: a complete partial file is sent a chunk past its end, and refuses it.
SendPastEnd ==
    /\ pc = "send" /\ ~Corrupt(Seg(First)) /\ Len(Data(Rep(First))) = SegLen
    /\ Return /\ UNCHANGED <<fs, quar, catalog, histVars>>

\* A complete partial file left by an earlier call: the chunk repeats its last
\* cell, the suffix is empty and nothing is written or synced.
SendOverlap ==
    LET c == First
        f == Rep(First)
    IN /\ pc = "send" /\ ~Corrupt(Seg(c))
       /\ Len(Data(f)) = SegLen /\ Data(f)[SegLen] = c
       /\ adopted' = IF fs[f].safe < SegLen THEN adopted \cup {f} ELSE adopted
       /\ pc' = "complete" /\ cur' = [file |-> f, bytes |-> Exact(c)]
       /\ UNCHANGED <<fs, quar, todo, catalog, told, rotted, unsettled, breaks, power>>

\* verify_exact of the completed bytes, before the rename to ready/.
Complete ==
    /\ pc = "complete"
    /\ IF Data(cur.file) = cur.bytes
          THEN pc' = "rename" /\ UNCHANGED <<fs, quar, todo, cur>>
          ELSE Quarantined(cur.file) /\ Return
    /\ UNCHANGED <<catalog, histVars>>

\* Both directories are synced before persist_ack.
ReplicaReady ==
    /\ pc = "dirsync" /\ cur.file[1] = "rep"
    /\ fs' = Synced(fs, {"rep"})
    /\ pc' = "persistAck" /\ cur' = NoWrite
    /\ UNCHANGED <<quar, todo, catalog, histVars>>

ReplicaAckDone ==
    /\ pc = "dirsync" /\ cur.file[1] = "repAck"
    /\ fs' = Synced(fs, {"repAck"})
    /\ pc' = "record" /\ cur' = NoWrite
    /\ UNCHANGED <<quar, todo, catalog, histVars>>

-----------------------------------------------------------------------------
(* What may go wrong. A kill and an I/O error both cut the call short and   *)
(* keep the page cache; a power loss leaves of every file what the medium   *)
(* has, and of what was not synced any part of it.                          *)

Break ==
    /\ pc # "idle" /\ breaks < MaxBreaks
    /\ breaks' = breaks + 1
    /\ \/ pc # "fill" /\ UNCHANGED fs
       \/ /\ pc = "fill"
          /\ \E n \in 0..Len(cur.bytes) :
                fs' = [fs EXCEPT ![cur.file].data = SubSeq(cur.bytes, 1, n)]
    /\ Return
    /\ UNCHANGED <<quar, catalog, told, adopted, rotted, unsettled, power>>

\* Contents the medium may have for a file whose cells after safe were cached.
OnMedium(r) ==
    {d \in UNION {[1..n -> Closure \cup {"bad"}] : n \in r.safe..Len(r.data)} :
        \A k \in DOMAIN d : d[k] = r.data[k] \/ (k > r.safe /\ d[k] = "bad")}

AfterPower(r) ==
    IF r.at = "none" THEN {NoFile}
    ELSE {IF p = "none" THEN NoFile ELSE [at |-> p, dur |-> p, data |-> d, safe |-> Len(d)] :
             p \in {r.at, r.dur}, d \in OnMedium(r)}

PowerLoss ==
    LET open == {f \in File : AfterPower(fs[f]) # {fs[f]}}
    IN /\ power < MaxPower /\ power' = power + 1
       /\ \E g \in [open -> UNION {AfterPower(fs[f]) : f \in open}] :
             /\ \A f \in open : g[f] \in AfterPower(fs[f])
             /\ fs' = [f \in File |-> IF f \in open THEN g[f] ELSE fs[f]]
       /\ Return
       /\ UNCHANGED <<quar, catalog, told, adopted, rotted, unsettled, breaks>>

Rot ==
    /\ Cardinality(rotted) < MaxRot
    /\ \E f \in {"seg", "rep"} \X Closure, k \in 1..SegLen :
          /\ f \notin rotted /\ At(f) = "final" /\ ~Corrupt(f)
          /\ fs' = [fs EXCEPT ![f].data[k] = "bad"]
          /\ rotted' = rotted \cup {f}
    /\ UNCHANGED <<quar, callVars, catalog, told, adopted, unsettled, breaks, power>>

-----------------------------------------------------------------------------
AppendCall(c) == AppendCorrupt(c) \/ AppendIdempotent(c) \/ AppendNew(c)

\* The steps of a call once it is under way.
Step ==
    \/ Fill \/ Fsync \/ Rename \/ AppendDone \/ ReadFails
    \/ RecordRemoteAck \/ RemoteAckDone \/ RecordCatalogReceipt \/ CatalogAckDone \/ Admit
    \/ ResumeAcked \/ ResumeReady \/ PersistAck \/ ResumePartial \/ SendRefused \/ SendChunk \/ PartialSync \/ SendOverlap
    \/ Complete \/ ReplicaReady \/ ReplicaAckDone

Next ==
    \/ \E c \in Closure : AppendCall(c)
    \/ Step \/ ListCorrupt \/ DrainReplica \/ DrainCatalog
    \/ Break \/ PowerLoss \/ Rot

Spec == Init /\ [][Next]_vars

\* A call under way goes on until it returns, and the drain is run again and
\* again: whoever owns the spool owes its replica every ready segment.
FairSpec == Spec /\ WF_vars(Step) /\ SF_vars(DrainReplica) /\ SF_vars(ListCorrupt)

-----------------------------------------------------------------------------
Cell == Closure \cup {"bad"}

\* Every variable has its type, and no file is more durable than it is long.
SpoolTypeOK ==
    /\ \A f \in File :
          /\ fs[f].at \in {"none", "temp", "final"} /\ fs[f].dur \in {"none", "temp", "final"}
          /\ fs[f].data \in Seq(Cell) /\ fs[f].safe \in 0..Len(fs[f].data)
    /\ quar \in [File -> 0..SegLen]
    /\ todo \subseteq Closure /\ catalog \subseteq Closure /\ cur.file \in File
    /\ told \subseteq Closure /\ unsettled \subseteq Closure
    /\ adopted \subseteq File /\ rotted \subseteq File
    /\ breaks \in 0..MaxBreaks /\ power \in 0..MaxPower

\* The exact bytes are under the final name, and on the medium under it.
Held(f, c) ==
    fs[f] = [at |-> "final", dur |-> "final", data |-> Exact(c), safe |-> SegLen]

Recorded(f, c) == At(f) = "final" /\ Data(f) = <<c>>

\* What append_segment and an ACK report is durable: the exact bytes are on the
\* medium whatever is killed or loses power. The two ways out are rot, and bytes
\* that a retry took over from a call that had not synced them.
ReceiptsHold ==
    \A c \in Closure :
        /\ c \in told => Held(Seg(c), c) \/ Seg(c) \in adopted \cup rotted
        /\ Recorded(AckFile(SegId[c]), c) => Held(Rep(c), c) \/ Rep(c) \in adopted \cup rotted

\* A receipt the spool keeps, of the replica or of the catalog, is for bytes the
\* spool keeps: no drain acknowledges a segment that a power loss takes back,
\* but for one listed while its ready name was not yet durable.
ReceiptsMatchSpool ==
    \A c \in Closure :
        \/ ~Recorded(AckFile(SegId[c]), c) /\ ~Recorded(CatAck(SegId[c]), c)
        \/ Held(Seg(c), c)
        \/ Seg(c) \in adopted \cup rotted \/ c \in unsettled

\* The reserve is never evidence's: what evidence takes on disk, the pending
\* files no retry completed and the quarantined copies included, leaves
\* control_reserve_bytes of max_total_bytes.
EvidenceLeavesReserve ==
    SumFunctionOnSet(Bytes, {Seg(c) : c \in Closure \ Control}) <= MaxTotal - ControlReserve

\* The drain cannot get past one of these: a receipt's pending file that is not
\* the receipt, or a complete partial file whose last cell is wrong.
Wedged ==
    \/ \E i \in Id, k \in {"ack", "repAck"} :
          At(<<k, i>>) # "none" /\ Data(<<k, i>>) \notin {<<c>> : c \in Closure}
    \/ \E c \in Closure : /\ At(Rep(c)) = "temp" /\ Len(Data(Rep(c))) = SegLen
                          /\ Data(Rep(c))[SegLen] # c

\* Every segment reported durable is acknowledged by the replica in the end,
\* however its transfer is cut short. The ways out: bytes were lost (rotted, or
\* taken over unsynced), a drain sent a segment whose name was not durable,
\* or a fault left one of the files no retry repairs.
Replicated ==
    \A c \in Closure :
        c \in told ~> \/ Recorded(AckFile(SegId[c]), c)
                     \/ adopted \cup rotted # {} \/ unsettled # {}
                     \/ Wedged

=============================================================================
