---------------------------- MODULE MC_LogStores ----------------------------
(* The log stores a raft server can run on: the header blocks of raft.c's  *)
(* own log file (LogHeader), the RocksDB backend (LogStoreKV) and the      *)
(* POSIX flat-file backend (LogStorePosix), each with its own crashes,     *)
(* and the checkpoint thread of the RocksDB backend (KVCheckpoint), which  *)
(* reads nothing of the store but its newest synced index and so is        *)
(* checked against its own model of that index.  A server uses one store  *)
(* (ri_backend is set once), and the stores share no state, so the        *)
(* initial state picks one part and only that part steps: every behaviour *)
(* of each is explored, and the state space is the sum of the parts       *)
(* rather than their product.  Two voters and terms up to 4; four entries *)
(* and three unsynced batches, enough for a reap, a truncation and a      *)
(* power loss to meet unsynced entries and last_applied writes, for a     *)
(* torn entry to be followed by more appends, and for checkpoints of      *)
(* several indices to be interrupted and retried.                         *)
EXTENDS LogHeader

CONSTANTS v1, v2, MaxIdx, MaxWal, SyncWrites

VARIABLES kvDurable, kvWal, kvDb, kvPc, kvMem,
          ckSync, ckUp, ckTmp, ckFinal, ckPc, ckIdx, ckLast, ckDone,
          pxFile, pxAfter, pxHdr, pxPc, pxOp, pxNext, pxDetected,
          store

KV == INSTANCE LogStoreKV

CK == INSTANCE KVCheckpoint

PX == INSTANCE LogStorePosix

kvVars == <<kvDurable, kvWal, kvDb, kvPc, kvMem>>

ckVars == <<ckSync, ckUp, ckTmp, ckFinal, ckPc, ckIdx, ckLast, ckDone>>

pxVars == <<pxFile, pxAfter, pxHdr, pxPc, pxOp, pxNext, pxDetected>>

allVars == <<vars, kvVars, pxVars, ckVars, store>>

MCVoter == {v1, v2}

MCSymmetry == Permutations(MCVoter)

StoresInit ==
    /\ Init /\ KV!KVInit /\ PX!PxInit /\ CK!CkInit
    /\ store \in {"raftc", "rocksdb", "posix", "checkpoint"}

StoresNext ==
    \/ store = "raftc" /\ Next /\ UNCHANGED <<kvVars, pxVars, ckVars, store>>
    \/ store = "rocksdb" /\ KV!KVNext /\ UNCHANGED <<vars, pxVars, ckVars, store>>
    \/ store = "posix" /\ PX!PxNext /\ UNCHANGED <<vars, kvVars, ckVars, store>>
    \/ store = "checkpoint" /\ CK!CkNext /\ UNCHANGED <<vars, kvVars, pxVars, store>>

StoresSpec == StoresInit /\ [][StoresNext]_allVars

\* Type of the RocksDB backend's state.
KVTypeOK == KV!KVTypeOK

\* The RocksDB entry keys form a gap-free run of paired 'h'/'e' keys in
\* every store a restart can find (rsbr_log_reap, rsbr_log_truncate,
\* rsbr_entry_write under power loss).
EntriesContiguous == KV!EntriesContiguous

\* The core's next index matches rsbr_num_entries_calc on the store, as
\* the spec's reap contract needs (after reap(100), "lowest_entry_index()
\* returns 100", so the log keeps its numbering).  Checked by its own run
\* with the caller's reap bound, reap(checkpoint + 1).
NextIndexFollowsLog == KV!NextIndexFollowsLog

\* No RocksDB entry lies below the ri_lowest_idx rsbr_lowest_entry_get
\* gave at startup, after any reap, truncation, crash or power loss.
LowestIdxBelowEntries == KV!LowestIdxBelowEntries

\* The a0_hdr key behaves as the abstract header (rsbr_header_write).
KVHeaderRefinement == KV!KVHeaderRefinement

\* Type of the checkpoint thread's state.
CkTypeOK == CK!CkTypeOK

\* A final checkpoint path holds a complete checkpoint, and one
\* rsbr_checkpoint returned stays (rsbr_checkpoint, rsbr_move_item_to_trash).
CheckpointDurable == CK!CheckpointDurable

\* Type of the POSIX backend's state.
PxTypeOK == PX!PxTypeOK

\* ri_log_hdr of a running server is what rsbp_header_load reads back.
PxLoadedHeaderIsLatest == PX!PxLoadedHeaderIsLatest

\* The POSIX header blocks behave as the abstract header.
PxHeaderRefinement == PX!PxHeaderRefinement

\* No write of the POSIX backend lands on a whole entry
\* (rsbp_num_entries_calc, rsbp_entry_write, rsbp_log_truncate).
AppendNeverOverwrites == PX!AppendNeverOverwrites
====
