---------------------------- MODULE LogStorePosix ----------------------------
(***************************************************************************)
(* The flat-file log backend of src/src/raft_server_backend_posix.c        *)
(* (ribPosix).  The log file is a sequence of RAFT_ENTRY_SIZE blocks:      *)
(* blocks 0 and 1 hold the log header, block idx + 2 holds entry idx.     *)
(* The file is opened O_SYNC, so a pwrite that returned is on disk;       *)
(* entries are fsynced as well.  Every write is a partial block (entry    *)
(* header plus data), so the file ends inside its last block.             *)
(*                                                                         *)
(* A write is two steps, its start and its return; a crash in between     *)
(* leaves the block as it was or torn (short or failing its CRC).        *)
(* An ftruncate followed by the crash may or may not have reached the     *)
(* disk before the fsync.                                                 *)
(*                                                                         *)
(* The raft core that calls the backend is not in this repository; its    *)
(* part is modelled from the spec: a header write pre-increments rlh_seqno *)
(* (raft_server_log_header_write_prep), a start runs rib_backend_setup     *)
(* and then rib_header_load, and entries are appended at the index after  *)
(* the last one, which after a start is ri_entries_detected_at_startup.   *)
(***************************************************************************)
EXTENDS Naturals, Sequences, TLC

CONSTANTS
    Voter,      \* peers a vote can go to
    Nil,        \* the null uuid
    MaxTerm,    \* bound on the terms written
    MaxIdx      \* bound on the entries appended

VARIABLES
    pxFile,     \* the log file: one record per block
    pxAfter,    \* the file as the write or truncate in progress leaves it
    pxHdr,      \* ri_log_hdr: seqno, term, voted_for
    pxPc,       \* "down" | "init" | "up" | "writing" | "failed"
    pxOp,       \* the operation in progress: "none" | "init" | "hdr" | "ent" | "trunc"
    pxNext,     \* the core's next entry index
    pxDetected  \* ri_entries_detected_at_startup

pxVars == <<pxFile, pxAfter, pxHdr, pxPc, pxOp, pxNext, pxDetected>>

NumLogHeaders == 2

\* Block contents: a header block, an entry block, a torn block (a short
\* read or a CRC mismatch) and the zeroes of a hole.
HdrRec(sq, t, v) == [seqno |-> sq, term |-> t, votedFor |-> v]
HdrBlk(h)    == [kind |-> "hdr"] @@ h
EntBlk(i, t) == [kind |-> "ent", idx |-> i, term |-> t]
TornBlk      == [kind |-> "torn"]
ZeroBlk      == [kind |-> "zero"]

Seqno == 0..(MaxTerm + 3)
HdrSet == [seqno : Seqno, term : 0..MaxTerm, votedFor : Voter \cup {Nil}]
Block == {HdrBlk(h) : h \in HdrSet}
           \cup {EntBlk(i, t) : i \in 0..MaxIdx, t \in 0..MaxTerm}
           \cup {TornBlk, ZeroBlk}

PxTypeOK ==
    /\ pxFile \in Seq(Block)
    /\ pxAfter \in Seq(Block)
    /\ pxHdr \in HdrSet
    /\ pxPc \in {"down", "init", "up", "writing", "failed"}
    /\ pxOp \in {"none", "init", "hdr", "ent", "trunc"}
    /\ pxNext \in 0..MaxIdx
    /\ pxDetected \in 0..(MaxIdx + 1)

\* rsbr_entry_idx_to_phys_idx, as a position of the sequence (from 1).
PhysPos(idx) == idx + NumLogHeaders + 1

\* io_pwrite of one block at position p: past the end of the file the gap
\* reads as zeroes.
PWrite(f, p, b) ==
    IF p <= Len(f) THEN [f EXCEPT ![p] = b]
    ELSE f \o [k \in 1..(p - Len(f) - 1) |-> ZeroBlk] \o <<b>>

\* Mutant of NumEntriesCalc: without the MAX(0, ...) clamp.
NumEntriesCalcNoClamp(f) == Len(f) - NumLogHeaders

\* Mutant of NumEntriesCalc: the partial last block is not rounded up.
NumEntriesCalcNoRoundUp(f) ==
    IF Len(f) > NumLogHeaders + 1 THEN Len(f) - NumLogHeaders - 1 ELSE 0

\* rsbp_num_entries_calc: blocks in the file, the partial last one
\* rounded up, less the two header blocks.
NumEntriesCalc(f) ==
    IF Len(f) > NumLogHeaders THEN Len(f) - NumLogHeaders ELSE 0

\* The header blocks rsbp_header_load accepts: read in full, CRC good.
ValidHdrSlots(f) ==
    {i \in 0..(NumLogHeaders - 1) : i + 1 <= Len(f) /\ f[i + 1].kind = "hdr"}

\* Mutant of HeaderLoad: the valid block with the smaller seqno wins.
HeaderLoadOldest(f) ==
    LET S == ValidHdrSlots(f)
        best == IF 0 \in S /\ (1 \notin S \/ f[2].seqno >= f[1].seqno)
                THEN 0 ELSE 1
    IN HdrRec(f[best + 1].seqno, f[best + 1].term, f[best + 1].votedFor)

\* rsbp_header_load: the valid block with the larger seqno, the first one
\* on a tie.
HeaderLoad(f) ==
    LET S == ValidHdrSlots(f)
        best == IF 0 \in S /\ (1 \notin S \/ f[2].seqno <= f[1].seqno)
                THEN 0 ELSE 1
    IN HdrRec(f[best + 1].seqno, f[best + 1].term, f[best + 1].votedFor)

\* rsbp_header_write: the header goes to block rlh_seqno % 2.
HeaderWritePos(h) == (h.seqno % NumLogHeaders) + 1

\* The file does not exist yet.
PxInit ==
    /\ pxFile = <<>>
    /\ pxAfter = <<>>
    /\ pxHdr = HdrRec(0, 0, Nil)
    /\ pxPc = "down"
    /\ pxOp = "none"
    /\ pxNext = 0
    /\ pxDetected = 0

\* rsbp_setup and rsbp_log_file_setup: open (O_CREAT), fstat; an empty
\* file goes on to rsbp_setup_initialize_headers (memset of ri_log_hdr,
\* magic set).  Otherwise rsbp_num_entries_calc sets
\* ri_entries_detected_at_startup and the core loads the header, and a
\* file with no valid header block fails the start (EBADMSG); the process
\* is started again and fails the same way.
PxStart ==
    /\ pxPc \in {"down", "failed"}
    /\ IF pxFile = <<>>
          THEN /\ pxPc' = "init"
               /\ pxHdr' = HdrRec(0, 0, Nil)
               /\ UNCHANGED <<pxNext, pxDetected>>
          ELSE /\ pxDetected' = NumEntriesCalc(pxFile)
               /\ IF ValidHdrSlots(pxFile) # {}
                     THEN /\ pxPc' = "up"
                          /\ pxHdr' = HeaderLoad(pxFile)
                          /\ pxNext' = NumEntriesCalc(pxFile)
                     ELSE /\ pxPc' = "failed"
                          /\ UNCHANGED <<pxHdr, pxNext>>
    /\ UNCHANGED <<pxFile, pxAfter, pxOp>>

\* The start of a write or truncate that leaves the file as f.
BeginWrite(f, op) ==
    /\ pxAfter' = f
    /\ UNCHANGED pxFile
    /\ pxOp' = op
    /\ pxPc' = "writing"

\* One iteration of rsbp_setup_initialize_headers: rsbp_header_write of
\* ri_log_hdr as it is (seqno 0, then 1), to block seqno % 2.
InitHeaderWrite ==
    /\ pxPc = "init"
    /\ BeginWrite(PWrite(pxFile, HeaderWritePos(pxHdr), HdrBlk(pxHdr)), "init")
    /\ UNCHANGED <<pxHdr, pxNext, pxDetected>>

\* Mutant of VoteWrite: the block is picked from the seqno before the
\* increment, so the newest header is overwritten in place.
VoteWriteSameBlock(t, v) ==
    /\ pxPc = "up"
    /\ t > pxHdr.term
    /\ LET h == HdrRec(pxHdr.seqno + 1, t, v)
       IN /\ pxHdr' = h
          /\ BeginWrite(PWrite(pxFile, HeaderWritePos(pxHdr), HdrBlk(h)), "hdr")
    /\ UNCHANGED <<pxNext, pxDetected>>

\* The core's vote: raft_server_log_header_write_prep raises rlh_seqno and
\* sets a higher term and the candidate, then rsbp_header_write.
VoteWrite(t, v) ==
    /\ pxPc = "up"
    /\ t > pxHdr.term
    /\ LET h == HdrRec(pxHdr.seqno + 1, t, v)
       IN /\ pxHdr' = h
          /\ BeginWrite(PWrite(pxFile, HeaderWritePos(h), HdrBlk(h)), "hdr")
    /\ UNCHANGED <<pxNext, pxDetected>>

\* rsbp_entry_write of the core's next entry, in the current term, at the
\* block of its index; pwrite and fsync.
EntryWrite ==
    /\ pxPc = "up"
    /\ pxNext < MaxIdx
    /\ BeginWrite(PWrite(pxFile, PhysPos(pxNext), EntBlk(pxNext, pxHdr.term)),
                  "ent")
    /\ UNCHANGED <<pxHdr, pxNext, pxDetected>>

\* rsbp_log_truncate(idx): ftruncate at the offset of block idx + 2, then
\* fsync; entries idx and later are gone.
LogTruncate(i) ==
    /\ pxPc = "up"
    /\ i < pxNext
    /\ BeginWrite(SubSeq(pxFile, 1, PhysPos(i) - 1), "trunc")
    /\ UNCHANGED <<pxHdr, pxNext, pxDetected>>

\* The pwrite (and fsync) returns.  The second write of
\* rsbp_setup_initialize_headers ends the setup: rsbp_num_entries_calc,
\* then the core's header load.
WriteEnd ==
    /\ pxPc = "writing"
    /\ pxFile' = pxAfter
    /\ pxAfter' = <<>>
    /\ pxOp' = "none"
    /\ CASE pxOp = "init" /\ pxHdr.seqno + 1 < NumLogHeaders ->
              /\ pxHdr' = [pxHdr EXCEPT !.seqno = @ + 1]
              /\ pxPc' = "init"
              /\ UNCHANGED <<pxNext, pxDetected>>
         [] pxOp = "init" ->
              /\ pxDetected' = NumEntriesCalc(pxAfter)
              /\ pxNext' = NumEntriesCalc(pxAfter)
              /\ pxHdr' = HeaderLoad(pxAfter)
              /\ pxPc' = "up"
         [] pxOp = "ent" ->
              /\ pxNext' = pxNext + 1
              /\ pxPc' = "up"
              /\ UNCHANGED <<pxHdr, pxDetected>>
         [] pxOp = "trunc" ->
              /\ pxNext' = NumEntriesCalc(pxAfter)
              /\ pxPc' = "up"
              /\ UNCHANGED <<pxHdr, pxDetected>>
         [] OTHER ->
              /\ pxPc' = "up"
              /\ UNCHANGED <<pxHdr, pxNext, pxDetected>>

\* What the disk may hold after a crash during the operation in progress:
\* the old contents or, for a write, its block torn.  (A crash after the
\* operation reached the disk is WriteEnd followed by PxCrash.)
CrashOutcomes ==
    LET p == IF pxOp = "ent" THEN PhysPos(pxNext) ELSE HeaderWritePos(pxHdr)
    IN {pxFile}
         \cup (IF pxOp = "trunc" THEN {} ELSE {PWrite(pxFile, p, TornBlk)})

\* The process stops; an operation in progress is cut short.
PxCrash ==
    /\ pxPc \in {"init", "up", "writing"}
    /\ pxFile' \in IF pxPc = "writing" THEN CrashOutcomes ELSE {pxFile}
    /\ pxPc' = "down"
    /\ pxAfter' = <<>>
    /\ pxOp' = "none"
    /\ UNCHANGED <<pxHdr, pxNext, pxDetected>>

PxNext ==
    \/ PxStart
    \/ InitHeaderWrite
    \/ \E t \in 1..MaxTerm, v \in Voter : VoteWrite(t, v)
    \/ EntryWrite
    \/ \E i \in 0..(MaxIdx - 1) : LogTruncate(i)
    \/ WriteEnd
    \/ PxCrash

PxSpec == PxInit /\ [][PxNext]_pxVars

-----------------------------------------------------------------------------
(* Properties.                                                             *)

\* A running server's ri_log_hdr is what rsbp_header_load returns from the
\* disk: the seqno parity keeps the last header written whole, whatever
\* header write, initialisation or crash came before.
PxLoadedHeaderIsLatest ==
    pxPc = "up" => (ValidHdrSlots(pxFile) # {} /\ HeaderLoad(pxFile) = pxHdr)

\* The two header blocks of the file implement the abstract header, as
\* the raft.c header blocks and the RocksDB header key do.
APX == INSTANCE AbstractHeader
         WITH created <- ValidHdrSlots(pxFile) # {},
              disk <- IF ValidHdrSlots(pxFile) = {}
                      THEN [term |-> 0, votedFor |-> Nil]
                      ELSE [term |-> HeaderLoad(pxFile).term,
                            votedFor |-> HeaderLoad(pxFile).votedFor],
              running <- pxPc \in {"init", "up", "writing"}

PxHeaderRefinement == APX!ASpec

\* Entries are written once (spec, "Lifecycles"): a write issued by a
\* running server never lands on a block that holds a whole entry; only
\* rsbp_log_truncate removes one.  It rests on
\* ri_entries_detected_at_startup (rsbp_num_entries_calc rounding the
\* partial last block up) naming the block after the last one.
AppendNeverOverwrites ==
    (pxPc = "writing" /\ pxOp # "trunc") =>
        \A p \in 1..Len(pxFile) :
            pxFile[p].kind = "ent" =>
                p <= Len(pxAfter) /\ pxAfter[p] = pxFile[p]

====
