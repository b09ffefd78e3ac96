----------------------------- MODULE LogStoreKV -----------------------------
(***************************************************************************)
(* The RocksDB raft log backend, src/src/raft_server_backend_rocksdb.c.    *)
(* The log is a set of keys in one database, ordered bytewise:             *)
(*   "a0_hdr.<raft>__<peer>"   the log header {term, voted_for}            *)
(*   "a1_hdr.UUID", "a1_hdr.last_applied", "a1_hdr.last_sync"              *)
(*   "e0.%016zue", "e0.%016zuh" entry i and its header ('e' < 'h')         *)
(*   "z0_last.<raft>__<peer>"  the sentinel written at creation            *)
(* Each operation is one rocksdb_write of a write batch, atomic.  A batch  *)
(* written with the sync option is durable with the whole WAL before it;   *)
(* one written without it survives a crash of the process (it is in the    *)
(* OS page cache) but only a prefix of the unsynced batches survives a     *)
(* power loss.                                                             *)
(*                                                                         *)
(* Entry keys are modelled as <<i, 0>> (the 'e' key) and <<i, 1>> (the 'h' *)
(* key), ordered lexicographically as the zero-padded index and suffix     *)
(* order them; the a0/a1/z0 keys are fields of the store record.  Entry    *)
(* contents, checksums and write supplements are left out.                 *)
(***************************************************************************)
EXTENDS Integers, Sequences, SequencesExt

CONSTANTS
    Voter,       \* peers a vote can go to
    Nil,         \* the null uuid
    MaxTerm,     \* bound on the terms written
    MaxIdx,      \* entries 0..MaxIdx-1 can be written
    MaxWal,      \* bound on the unsynced batches held in the WAL
    SyncWrites   \* raft_server_does_synchronous_writes(ri)

VARIABLES
    kvDurable,   \* the store as of the last synced WAL write
    kvWal,       \* batches written without sync since then, in order
    kvDb,        \* the db/ directory has been created
    kvPc,        \* "down" | "created" | "inited" | "up" | "failed"
    kvMem        \* ri_log_hdr, the next entry index, ri_last_applied_idx

kvVars == <<kvDurable, kvWal, kvDb, kvPc, kvMem>>

Idx == 0..(MaxIdx - 1)
Key == Idx \X {0, 1}
EKey(i) == <<i, 0>>
HKey(i) == <<i, 1>>
\* Everything from a key up to (not including) "z0_last.": past any entry.
SentinelKey == <<MaxIdx, 0>>

KeyLT(a, b) == a[1] < b[1] \/ (a[1] = b[1] /\ a[2] < b[2])

Header == [term : 0..MaxTerm, votedFor : Voter \cup {Nil}]
\* No a0_hdr key (rsbr_header_load gives ENOENT).
NoHdr == [term |-> -1, votedFor |-> Nil]
ZeroHdr == [term |-> 0, votedFor |-> Nil]

\* ents: the entry keys; hdr: the a0_hdr value; applied: the last_applied
\* value (-1 when the key is absent); init: z0_last and a1_hdr.UUID exist.
Store == [ents : SUBSET Key, hdr : Header \cup {NoHdr},
          applied : -1..(MaxIdx - 1), init : BOOLEAN]
EmptyStore == [ents |-> {}, hdr |-> NoHdr, applied |-> -1, init |-> FALSE]

Batch == [op : {"init", "sync"}]
    \cup [op : {"entry", "trunc", "reap", "apply"}, idx : 0..MaxIdx]
    \cup [op : {"hdr"}, hdr : Header]

Mem == [hdr : Header \cup {NoHdr}, next : 0..MaxIdx, applied : -1..(MaxIdx - 1),
        lowest : -1..(MaxIdx - 1)]
MemZero == [hdr |-> NoHdr, next |-> 0, applied |-> -1, lowest |-> -1]

KVTypeOK ==
    /\ kvDurable \in Store
    /\ kvWal \in Seq(Batch) /\ Len(kvWal) <= MaxWal
    /\ kvDb \in BOOLEAN
    /\ kvPc \in {"down", "created", "inited", "up", "failed"}
    /\ kvMem \in Mem

\* rocksdb_writebatch_delete_range: the keys in [lo, hi).
DeleteRange(S, lo, hi) == {k \in S : KeyLT(k, lo) \/ ~KeyLT(k, hi)}

\* Mutant of LogReap: the end key is the header key of entry_idx, so that
\* entry's 'e' key goes and its 'h' key stays.
ReapEndHeaderKey(S, i) == DeleteRange(S, EKey(0), HKey(i))

\* rsbr_log_reap: delete-range [e0.<0>e, e0.<idx>e).
LogReap(S, i) == DeleteRange(S, EKey(0), EKey(i))

\* The effect of one batch on the store.  "entry": rsbr_entry_write puts
\* the 'h' and the 'e' key; "trunc": rsbr_log_truncate deletes
\* [e0.<idx>e, z0_last.); "apply": rsb_sm_apply_add_last_applied_kv;
\* "hdr": rsbr_header_write; "init": the first batch of rsbr_init_header;
\* "sync": rsbr_sync puts a1_hdr.last_sync, which no reader uses.
ApplyBatch(s, b) ==
    CASE b.op = "entry" -> [s EXCEPT !.ents = @ \cup {HKey(b.idx), EKey(b.idx)}]
      [] b.op = "trunc" -> [s EXCEPT !.ents = DeleteRange(@, EKey(b.idx), SentinelKey)]
      [] b.op = "reap"  -> [s EXCEPT !.ents = LogReap(@, b.idx)]
      [] b.op = "apply" -> [s EXCEPT !.applied = b.idx]
      [] b.op = "hdr"   -> [s EXCEPT !.hdr = b.hdr]
      [] b.op = "init"  -> [s EXCEPT !.init = TRUE]
      [] OTHER          -> s

ApplyAll(s, bs) == FoldLeft(ApplyBatch, s, bs)

\* What a read of the database returns: the durable store and every batch
\* written after it.
Cur == ApplyAll(kvDurable, kvWal)

\* A write with rir_writeoptions_sync: it and the WAL before it are durable.
SyncWrite(b) ==
    /\ kvDurable' = ApplyAll(kvDurable, Append(kvWal, b))
    /\ kvWal' = <<>>

\* A write with rir_writeoptions_async.
AsyncWrite(b) ==
    /\ Len(kvWal) < MaxWal
    /\ kvWal' = Append(kvWal, b)
    /\ UNCHANGED kvDurable

-----------------------------------------------------------------------------
(* The startup scan of rsbr_setup.                                         *)

\* The entry key just below "z0_last.", where rsbr_num_entries_calc steps
\* back to from its seek.
LastKey(S) == CHOOSE k \in S : \A j \in S : ~KeyLT(k, j)

\* rsbr_num_entries_calc: seek "z0_last.", step back; an "a1_hdr." key
\* there means no entries (0), an "e0." key gives its index + 1.
NumEntriesCalc(s) == IF s.ents = {} THEN 0 ELSE LastKey(s.ents)[1] + 1

\* rsb_sm_get_instance_uuid: rsbr_get_exact_val_size of the a1_hdr.UUID
\* key; its absence is a FATAL_IF, which stops the server.
InstanceUuidPresent(s) == s.init

\* rsbr_header_load: the a0_hdr.<raft>_<peer> key read into ri_log_hdr,
\* NoHdr (ENOENT) when absent.  The magic check (EBADMSG) never fails on a
\* header that rsbr_header_write stored.
HeaderLoad(s) == s.hdr

\* rsb_sm_get_last_applied_kv_idx: the last_applied key, when present,
\* sets the last applied index; ENOENT leaves it at -1.
LastAppliedKvIdx(s) == s.applied

\* The first key at or after a key of the store, in key order.
FirstKey(S) == CHOOSE k \in S : \A j \in S : ~KeyLT(j, k)

\* Mutant of LowestEntryGet: the iterator is stepped backwards from
\* z0_last., so the newest entry is taken for the lowest.
LowestEntryGetPrev(s) == IF s.ents = {} THEN -1 ELSE LastKey(s.ents)[1]

\* rsbr_lowest_entry_get: seek a1_hdr., step forward past the a1_hdr keys
\* to the first key; z0_last. means no entries (-1), an e0. key gives its
\* index (e0.<i>e sorts before e0.<i>h).
LowestEntryGet(s) == IF s.ents = {} THEN -1 ELSE FirstKey(s.ents)[1]

\* rsbr_setup from rsb_sm_get_instance_uuid on, then the header load of the
\* raft start: a missing UUID or header stops the server; otherwise
\* ri_entries_detected_at_startup, rsbr_lowest_entry_get (which finds an
\* 'e' key whenever the count is positive) and, for a PERSISTENT_APP
\* store, the last applied index.
Scan(s) ==
    IF ~InstanceUuidPresent(s) \/ HeaderLoad(s) = NoHdr
    THEN /\ kvPc' = "failed"
         /\ kvMem' = MemZero
    ELSE /\ kvPc' = "up"
         /\ kvMem' = [hdr |-> HeaderLoad(s), next |-> NumEntriesCalc(s),
                      applied |-> LastAppliedKvIdx(s),
                      lowest |-> IF NumEntriesCalc(s) > 0 THEN LowestEntryGet(s)
                                 ELSE -1]

-----------------------------------------------------------------------------
(* Actions.                                                                *)

\* The process has not run and the db/ directory does not exist.
KVInit ==
    /\ kvDurable = EmptyStore
    /\ kvWal = <<>>
    /\ kvDb = FALSE
    /\ kvPc = "down"
    /\ kvMem = MemZero

\* rsbr_setup: the open without create_if_missing fails on a missing
\* database, which is then created (and rsbr_init_header follows);
\* an existing one is scanned.  A server that failed is started again.
Setup ==
    /\ kvPc \in {"down", "failed"}
    /\ IF kvDb
          THEN Scan(kvDurable)
          ELSE /\ kvPc' = "created"
               /\ UNCHANGED kvMem
    /\ kvDb' = TRUE
    /\ UNCHANGED <<kvDurable, kvWal>>

\* rsbr_init_header, first batch: memset of ri_log_hdr, then the
\* z0_last and a1_hdr.UUID keys, synced.
InitBatch ==
    /\ kvPc = "created"
    /\ SyncWrite([op |-> "init"])
    /\ kvPc' = "inited"
    /\ kvMem' = [MemZero EXCEPT !.hdr = ZeroHdr]
    /\ UNCHANGED kvDb

\* rsbr_init_header ends with rsbr_header_write of the zeroed header; the
\* rest of rsbr_setup then scans the new store.
InitHeader ==
    /\ kvPc = "inited"
    /\ SyncWrite([op |-> "hdr", hdr |-> kvMem.hdr])
    /\ Scan(ApplyAll(kvDurable, Append(kvWal, [op |-> "hdr", hdr |-> kvMem.hdr])))
    /\ UNCHANGED kvDb

\* Mutant of VoteWrite: the header batch written with the async option.
VoteWriteAsync(t, v) ==
    /\ kvPc = "up"
    /\ t > kvMem.hdr.term
    /\ AsyncWrite([op |-> "hdr", hdr |-> [term |-> t, votedFor |-> v]])
    /\ kvMem' = [kvMem EXCEPT !.hdr = [term |-> t, votedFor |-> v]]
    /\ UNCHANGED <<kvDb, kvPc>>

\* rsbr_header_write of a vote; the raft core passes a term above the
\* current one.  Log header writes are always synchronous.
VoteWrite(t, v) ==
    /\ kvPc = "up"
    /\ t > kvMem.hdr.term
    /\ SyncWrite([op |-> "hdr", hdr |-> [term |-> t, votedFor |-> v]])
    /\ kvMem' = [kvMem EXCEPT !.hdr = [term |-> t, votedFor |-> v]]
    /\ UNCHANGED <<kvDb, kvPc>>

\* rsbr_entry_write of the next entry: its 'h' and 'e' keys in one batch,
\* synced only when the instance does synchronous writes.
EntryWrite ==
    /\ kvPc = "up"
    /\ kvMem.next < MaxIdx
    /\ LET b == [op |-> "entry", idx |-> kvMem.next]
       IN IF SyncWrites THEN SyncWrite(b) ELSE AsyncWrite(b)
    /\ kvMem' = [kvMem EXCEPT !.next = @ + 1]
    /\ UNCHANGED <<kvDb, kvPc>>

\* Mutant of SmApply: an entry not yet written may be applied.
SmApplyPastNext ==
    /\ kvPc = "up"
    /\ kvMem.applied < kvMem.next
    /\ AsyncWrite([op |-> "apply", idx |-> kvMem.applied + 1])
    /\ kvMem' = [kvMem EXCEPT !.applied = @ + 1]
    /\ UNCHANGED <<kvDb, kvPc>>

\* rsbr_sm_apply_opt after the core applied its next entry: the
\* last_applied key, never synced (the entry is re-applied after a loss).
SmApply ==
    /\ kvPc = "up"
    /\ kvMem.applied + 1 < kvMem.next
    /\ AsyncWrite([op |-> "apply", idx |-> kvMem.applied + 1])
    /\ kvMem' = [kvMem EXCEPT !.applied = @ + 1]
    /\ UNCHANGED <<kvDb, kvPc>>

\* rsbr_log_truncate of the unapplied suffix from index i, synced.
LogTruncate(i) ==
    /\ kvPc = "up"
    /\ kvMem.applied < i /\ i < kvMem.next
    /\ SyncWrite([op |-> "trunc", idx |-> i])
    /\ kvMem' = [kvMem EXCEPT !.next = i]
    /\ UNCHANGED <<kvDb, kvPc>>

\* rsbr_log_reap from the checkpoint thread, on its own write batch,
\* synced; the code asserts only entry_idx >= 0.  The caller (the raft
\* core, not in this repository) reaps checkpoint + 1 after a checkpoint
\* taken at an applied index, so i is at most the applied index + 1.
Reap(i) ==
    /\ kvPc = "up"
    /\ i <= kvMem.applied + 1
    /\ SyncWrite([op |-> "reap", idx |-> i])
    /\ UNCHANGED <<kvDb, kvPc, kvMem>>

\* rsbr_sync from the sync thread: a synced put of a1_hdr.last_sync.
Sync ==
    /\ kvPc = "up"
    /\ kvWal # <<>>
    /\ SyncWrite([op |-> "sync"])
    /\ UNCHANGED <<kvDb, kvPc, kvMem>>

\* The process dies: its unsynced batches are already in the OS and stay.
KVCrash ==
    /\ kvPc \in {"created", "inited", "up"}
    /\ kvDurable' = Cur
    /\ kvWal' = <<>>
    /\ kvPc' = "down"
    /\ kvMem' = MemZero
    /\ UNCHANGED kvDb

\* The machine loses power: a prefix of the unsynced batches survives.
PowerLoss ==
    /\ kvPc \in {"created", "inited", "up"}
    /\ \E k \in 0..Len(kvWal) :
          kvDurable' = ApplyAll(kvDurable, SubSeq(kvWal, 1, k))
    /\ kvWal' = <<>>
    /\ kvPc' = "down"
    /\ kvMem' = MemZero
    /\ UNCHANGED kvDb

KVNext ==
    \/ Setup
    \/ InitBatch
    \/ InitHeader
    \/ \E t \in 1..MaxTerm, v \in Voter : VoteWrite(t, v)
    \/ EntryWrite
    \/ SmApply
    \/ \E i \in Idx : LogTruncate(i)
    \/ \E i \in Idx : Reap(i)
    \/ Sync
    \/ KVCrash
    \/ PowerLoss

KVSpec == KVInit /\ [][KVNext]_kvVars

-----------------------------------------------------------------------------
(* Properties.                                                             *)

\* The entry indices present in a store.
EntryIdxs(s) == {k[1] : k \in s.ents}

\* Whatever a crash or power loss leaves, the store holds a gap-free run of
\* entries, each with both its 'h' and its 'e' key: what
\* rsbr_lowest_entry_get and rsbr_num_entries_calc assume when they read
\* only the two ends, after any interleaving of entry writes, truncations,
\* reaps from the checkpoint thread and losses of unsynced batches.
EntriesContiguous ==
    \A s \in {kvDurable, Cur} :
        \A i \in EntryIdxs(s) :
            /\ {EKey(i), HKey(i)} \subseteq s.ents
            /\ i + 1 < NumEntriesCalc(s) => i + 1 \in EntryIdxs(s)

\* A running server's next entry index is the count rsbr_num_entries_calc
\* would give from the store it reads, and its last applied entry is below
\* it: what the startup scan after a crash or power loss relies on, since
\* the keys are the only record of the log's extent.  A reap that takes
\* every entry key (a checkpoint at the last entry) breaks it.
NextIndexFollowsLog ==
    kvPc = "up" =>
        /\ NumEntriesCalc(Cur) = kvMem.next
        /\ kvMem.applied < kvMem.next

\* No entry of the store lies below ri_lowest_idx.  rsbr_setup computes
\* it once, from the first e0. key, and nothing in the backend moves it
\* afterwards, while entries are written, truncated and reaped: a reap
\* (below the last applied index) only raises the real lowest entry, and a
\* truncation cuts only above the applied index, which the store kept in
\* order with the entries whatever crash or power loss came between.
LowestIdxBelowEntries ==
    kvPc = "up" => \A i \in EntryIdxs(Cur) : kvMem.lowest <= i

\* The a0_hdr key implements the abstract header: what a read of the
\* database returns is created once, only moves to higher terms, and is
\* never moved back by a crash or a power loss.
AKV == INSTANCE AbstractHeader
         WITH created <- Cur.hdr # NoHdr,
              disk <- IF Cur.hdr = NoHdr THEN ZeroHdr ELSE Cur.hdr,
              running <- kvPc \in {"created", "inited", "up"}

KVHeaderRefinement == AKV!ASpec

====
