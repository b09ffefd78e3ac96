----------------------------- MODULE LogHeader -----------------------------
(***************************************************************************)
(* The persisted raft log header of src/src/raft.c: two header blocks at   *)
(* the start of the log file, written alternately (block = rlh_seqno % 2)  *)
(* so that a torn write leaves the other block valid, and loaded by        *)
(* picking the valid block with the larger seqno.                          *)
(*                                                                         *)
(* A header write is two steps: raft_server_log_header_write updates       *)
(* ri_log_hdr and starts the pwrite of the block (WriteBegin); the pwrite  *)
(* and fsync complete (WriteEnd).  The process may crash between the two;  *)
(* the block is then torn and fails its CRC on the next load.  A crash     *)
(* loses ri_log_hdr; the next start re-runs raft_server_log_file_setup and *)
(* raft_server_header_load.                                                *)
(***************************************************************************)
EXTENDS Naturals, TLC

CONSTANTS
    Voter,      \* peers a vote can go to
    Nil,        \* the null uuid
    MaxTerm     \* bound on the terms written

VARIABLES
    block,      \* the two header blocks on disk
    mem,        \* ri_log_hdr: seqno, term, voted_for
    pc,         \* "down" | "up" | "writing" | "failed" (start gave EBADMSG)
    fileEmpty,  \* st_size == 0: the log file was just created
    initLeft    \* header writes raft_server_log_file_setup_init_header has left

vars == <<block, mem, pc, fileEmpty, initLeft>>

Slots == {0, 1}
Seqno == 0..(MaxTerm + 3)
BlockState == {"zero", "torn", "ok"}

Hdr(sq, t, v) == [seqno |-> sq, term |-> t, votedFor |-> v]
ZeroBlock == [st |-> "zero"] @@ Hdr(0, 0, Nil)

TypeOK ==
    /\ block \in [Slots -> [st : BlockState, seqno : Seqno, term : 0..MaxTerm,
                            votedFor : Voter \cup {Nil}]]
    /\ mem \in [seqno : Seqno, term : 0..MaxTerm, votedFor : Voter \cup {Nil}]
    /\ pc \in {"down", "up", "writing", "failed"}
    /\ fileEmpty \in BOOLEAN
    /\ initLeft \in 0..2

\* The blocks that pass raft_server_entry_read: magic, slot and CRC checks.
ValidSlots == {i \in Slots : block[i].st = "ok"}

\* Mutant of HeaderLoad: the valid block with the smaller seqno wins.
HeaderLoadOldest ==
    LET best == IF /\ 0 \in ValidSlots
                   /\ (1 \notin ValidSlots \/ block[1].seqno >= block[0].seqno)
                THEN 0 ELSE 1
    IN Hdr(block[best].seqno, block[best].term, block[best].votedFor)

\* raft_server_header_load: the valid block with the largest seqno; the
\* first block wins a tie.  NoValid when neither block is valid (EBADMSG).
HeaderLoad ==
    LET best == IF /\ 0 \in ValidSlots
                   /\ (1 \notin ValidSlots \/ block[1].seqno <= block[0].seqno)
                THEN 0 ELSE 1
    IN Hdr(block[best].seqno, block[best].term, block[best].votedFor)

\* The process has not run yet and the log file does not exist.
Init ==
    /\ block = [i \in Slots |-> ZeroBlock]
    /\ mem = Hdr(0, 0, Nil)
    /\ pc = "down"
    /\ fileEmpty = TRUE
    /\ initLeft = 0

\* raft_server_log_file_setup followed by raft_server_log_load: a new file
\* gets its two header writes (init_header, memset of ri_log_hdr first); an
\* existing one is loaded, and main() exits when no block is valid.  A
\* process that exited that way is started again and fails the same way.
Start ==
    /\ pc \in {"down", "failed"}
    /\ IF fileEmpty
          THEN /\ pc' = "up"
               /\ mem' = Hdr(0, 0, Nil)
               /\ initLeft' = 2
          ELSE IF ValidSlots # {}
          THEN /\ pc' = "up"
               /\ mem' = HeaderLoad
               /\ UNCHANGED initLeft
          ELSE /\ pc' = "failed"
               /\ UNCHANGED <<mem, initLeft>>
    /\ UNCHANGED <<block, fileEmpty>>

\* Mutant of LogHeaderWrite: the block is chosen from the seqno before the
\* increment, i.e. the block holding the current header is overwritten.
LogHeaderWriteSameBlock(t, v) ==
    /\ mem' = Hdr(mem.seqno + 1, t, v)
    /\ block' = [block EXCEPT ![mem.seqno % 2].st = "torn"]
    /\ pc' = "writing"
    /\ fileEmpty' = FALSE

\* raft_server_log_header_write: seqno++, term and voted_for into
\* ri_log_hdr, then the pwrite of block seqno % 2 starts.
LogHeaderWrite(t, v) ==
    /\ mem' = Hdr(mem.seqno + 1, t, v)
    /\ block' = [block EXCEPT ![(mem.seqno + 1) % 2].st = "torn"]
    /\ pc' = "writing"
    /\ fileEmpty' = FALSE

\* One of the two writes of raft_server_log_file_setup_init_header:
\* {term 0, null uuid}.
InitHeaderWrite ==
    /\ pc = "up"
    /\ initLeft > 0
    /\ LogHeaderWrite(0, Nil)
    /\ UNCHANGED initLeft

\* Mutant of VoteWrite: a write of the current term is let through, as the
\* FATAL_IF of raft_server_log_header_write would.
VoteWriteSameTerm(t, v) ==
    /\ pc = "up"
    /\ initLeft = 0
    /\ t >= mem.term
    /\ LogHeaderWrite(t, v)
    /\ UNCHANGED initLeft

\* A vote stored by vote_for_self or the vote-request handler; both pass a
\* term above the current one (sync_vote_choice and vote_request_decide).
VoteWrite(t, v) ==
    /\ pc = "up"
    /\ initLeft = 0
    /\ t > mem.term
    /\ LogHeaderWrite(t, v)
    /\ UNCHANGED initLeft

\* raft_server_entry_write returns: the whole block is on disk and synced.
WriteEnd ==
    /\ pc = "writing"
    /\ block' = [block EXCEPT ![mem.seqno % 2] = [st |-> "ok"] @@ mem]
    /\ pc' = "up"
    /\ initLeft' = IF initLeft > 0 THEN initLeft - 1 ELSE 0
    /\ UNCHANGED <<mem, fileEmpty>>

\* The process dies; a block being written is left torn.
Crash ==
    /\ pc \in {"up", "writing"}
    /\ pc' = "down"
    /\ initLeft' = 0
    /\ UNCHANGED <<block, mem, fileEmpty>>

Next ==
    \/ Start
    \/ InitHeaderWrite
    \/ \E t \in 1..MaxTerm, v \in Voter : VoteWrite(t, v)
    \/ WriteEnd
    \/ Crash

\* The supervisor restarts a stopped server, the setup code runs to the
\* end, and a started write completes unless the process crashes.
Spec == Init /\ [][Next]_vars /\ WF_vars(Start) /\ WF_vars(InitHeaderWrite)
                              /\ WF_vars(WriteEnd)

-----------------------------------------------------------------------------
(* Properties.                                                             *)

\* After setup has written at least one block, a running server's
\* ri_log_hdr is exactly what raft_server_header_load would return from the
\* disk: no write it made is lost and no torn block is preferred, whatever
\* crash came before.
LoadedHeaderIsLatest ==
    (pc = "up" /\ initLeft < 2) => (ValidSlots # {} /\ HeaderLoad = mem)

\* The two blocks implement the abstract header: reading the disk at any
\* moment (HeaderLoad) gives a record that is created once, only moves to
\* higher terms, and survives torn writes and crashes.
AH == INSTANCE AbstractHeader
        WITH created <- ValidSlots # {},
             disk <- IF ValidSlots = {} THEN [term |-> 0, votedFor |-> Nil]
                     ELSE [term |-> HeaderLoad.term, votedFor |-> HeaderLoad.votedFor],
             running <- pc \in {"up", "writing"}

HeaderRefinement == AH!ASpec

\* Under the same restarts, the server always comes back up: a crash
\* between the creation of the log file and the end of its header writes
\* must not keep it down for good.
HeaderLiveness == AH!ALiveSpec

====
