----------------------------- MODULE KVCheckpoint -----------------------------
(***************************************************************************)
(* The checkpoint thread of the RocksDB backend: rsbr_checkpoint           *)
(* (src/src/raft_server_backend_rocksdb.c) with the trash move of          *)
(* rsbr_move_item_to_trash, called by the checkpoint thread and by         *)
(* rsbr_bulk_recover_prepare.                                              *)
(*                                                                         *)
(* A checkpoint of synced index i is made in chkpt/self/.in-progress_<db>_ *)
(* <peer>_<i> and renamed to chkpt/self/<db>_<peer>_<i> when complete.  A  *)
(* stale in-progress directory of the same index is first moved to         *)
(* trash/<uuid>/ (mkdirat, then renameat).  Every step is a point where    *)
(* the process can die; mkdirat and rename are taken to be atomic and to   *)
(* persist once they return.  rocksdb_checkpoint_create writes its         *)
(* directory over time: "partial" until it returns.  What the trash holds, *)
(* empty trash directories and the directory names are left out.          *)
(*                                                                         *)
(* rsbr_checkpoint reads one thing of the log: the newest synced entry     *)
(* (RI_NEHDR_SYNC), kept by a raft core that is not in this repository.    *)
(* The raft thread is therefore modelled by what it does to that index:    *)
(* synced appends raise it, truncations lower it, and the process dies     *)
(* and is started again.                                                   *)
(***************************************************************************)
EXTENDS Integers

CONSTANTS
    MaxIdx       \* entries 0..MaxIdx-1 can be written

VARIABLES
    ckSync,    \* the newest synced entry index, -1 for none
    ckUp,      \* the process runs
    ckTmp,     \* per index: the in-progress directory: "none"|"partial"|"complete"
    ckFinal,   \* per index: the final directory: "none"|"partial"|"complete"
    ckPc,      \* the checkpoint thread's place in rsbr_checkpoint
    ckIdx,     \* its sync_idx
    ckLast,    \* ri_checkpoint_last_idx
    ckDone     \* history: indices rsbr_checkpoint returned as made

ckVars == <<ckSync, ckUp, ckTmp, ckFinal, ckPc, ckIdx, ckLast, ckDone>>

Idx == 0..(MaxIdx - 1)

DirSt == {"none", "partial", "complete"}

CkTypeOK ==
    /\ ckSync \in Idx \cup {-1}
    /\ ckUp \in BOOLEAN
    /\ ckTmp \in [Idx -> DirSt]
    /\ ckFinal \in [Idx -> DirSt]
    /\ ckPc \in {"idle", "trashMkdir", "trashRename", "create", "creating",
                 "rename"}
    /\ ckIdx \in Idx
    /\ ckLast \in Idx \cup {-1}
    /\ ckDone \subseteq Idx

\* raft_server_get_current_raft_entry_index(ri, RI_NEHDR_SYNC).
SyncIdx == ckSync

CkInit ==
    /\ ckSync = -1
    /\ ckUp = TRUE
    /\ ckTmp = [i \in Idx |-> "none"]
    /\ ckFinal = [i \in Idx |-> "none"]
    /\ ckPc = "idle"
    /\ ckIdx = 0
    /\ ckLast = -1
    /\ ckDone = {}

\* Mutant of CkBegin: sync_idx < 0 is not refused (neither the ENODATA
\* return nor the EINVAL of rsbr_checkpoint_path_build).
CkBeginNoEmptyCheck ==
    /\ ckUp /\ ckPc = "idle"
    /\ SyncIdx # ckLast
    /\ ckIdx' = SyncIdx
    /\ ckPc' = "create"
    /\ UNCHANGED <<ckSync, ckUp, ckTmp, ckFinal, ckLast, ckDone>>

\* rsbr_checkpoint up to its stat() calls: ENODATA on an empty log,
\* EALREADY for the index of the last checkpoint or when the final path
\* exists (no step); a stale in-progress path goes to trash first.
CkBegin ==
    /\ ckUp /\ ckPc = "idle"
    /\ SyncIdx >= 0 /\ SyncIdx # ckLast
    /\ ckTmp[SyncIdx] # "none" \/ ckFinal[SyncIdx] = "none"
    /\ ckIdx' = SyncIdx
    /\ ckPc' = IF ckTmp[SyncIdx] # "none" THEN "trashMkdir" ELSE "create"
    /\ UNCHANGED <<ckSync, ckUp, ckTmp, ckFinal, ckLast, ckDone>>

\* rsbr_move_item_to_trash: mkdirat of trash/<uuid>.
CkTrashMkdir ==
    /\ ckUp /\ ckPc = "trashMkdir"
    /\ ckPc' = "trashRename"
    /\ UNCHANGED <<ckSync, ckUp, ckTmp, ckFinal, ckIdx, ckLast, ckDone>>

\* rsbr_move_item_to_trash: renameat into it; then the stat of the final
\* path (EALREADY when it exists).
CkTrashRename ==
    /\ ckUp /\ ckPc = "trashRename"
    /\ ckTmp' = [ckTmp EXCEPT ![ckIdx] = "none"]
    /\ ckPc' = IF ckFinal[ckIdx] # "none" THEN "idle" ELSE "create"
    /\ UNCHANGED <<ckSync, ckUp, ckFinal, ckIdx, ckLast, ckDone>>

\* Mutant of CkCreate: the checkpoint is created at the final path and not
\* renamed.
CkCreateInFinal ==
    /\ ckUp /\ ckPc = "create"
    /\ ckFinal' = [ckFinal EXCEPT ![ckIdx] = "partial"]
    /\ ckPc' = "creating"
    /\ UNCHANGED <<ckSync, ckUp, ckTmp, ckIdx, ckLast, ckDone>>

\* rocksdb_checkpoint_object_create and rocksdb_checkpoint_create begin
\* writing the in-progress directory.
CkCreate ==
    /\ ckUp /\ ckPc = "create"
    /\ ckTmp' = [ckTmp EXCEPT ![ckIdx] = "partial"]
    /\ ckPc' = "creating"
    /\ UNCHANGED <<ckSync, ckUp, ckFinal, ckIdx, ckLast, ckDone>>

\* rocksdb_checkpoint_create returns: done, or an error (-ENOMEM) that
\* leaves what it wrote.
CkCreateEnd ==
    /\ ckUp /\ ckPc = "creating"
    /\ \/ /\ ckTmp' = [ckTmp EXCEPT ![ckIdx] = "complete"]
          /\ ckPc' = "rename"
       \/ /\ ckPc' = "idle"
          /\ UNCHANGED ckTmp
    /\ UNCHANGED <<ckSync, ckUp, ckFinal, ckIdx, ckLast, ckDone>>

\* rename() to the final path; rsbr_checkpoint returns sync_idx, which the
\* caller keeps as ri_checkpoint_last_idx.
CkRename ==
    /\ ckUp /\ ckPc = "rename"
    /\ ckFinal' = [ckFinal EXCEPT ![ckIdx] = ckTmp[ckIdx]]
    /\ ckTmp' = [ckTmp EXCEPT ![ckIdx] = "none"]
    /\ ckPc' = "idle"
    /\ ckLast' = ckIdx
    /\ ckDone' = ckDone \cup {ckIdx}
    /\ UNCHANGED <<ckSync, ckUp, ckIdx>>

CkStep ==
    \/ CkBegin \/ CkTrashMkdir \/ CkTrashRename
    \/ CkCreate \/ CkCreateEnd \/ CkRename

-----------------------------------------------------------------------------
(* The raft thread, as the checkpoint sees it.                             *)

\* An entry is written and synced (a synchronous rsbr_entry_write, or
\* rsbr_sync after asynchronous ones).
SyncedAppend ==
    /\ ckUp /\ ckSync < MaxIdx - 1
    /\ ckSync' = ckSync + 1
    /\ UNCHANGED <<ckUp, ckTmp, ckFinal, ckPc, ckIdx, ckLast, ckDone>>

\* rsbr_log_truncate from index i: the newest entry is then i - 1.
SyncedTruncate(i) ==
    /\ ckUp /\ i <= ckSync
    /\ ckSync' = i - 1
    /\ UNCHANGED <<ckUp, ckTmp, ckFinal, ckPc, ckIdx, ckLast, ckDone>>

\* The process dies: the checkpoint thread dies with it, in memory state
\* (ri_checkpoint_last_idx) is lost; the directories stay.
CkCrash ==
    /\ ckUp
    /\ ckUp' = FALSE
    /\ ckPc' = "idle"
    /\ ckLast' = -1
    /\ UNCHANGED <<ckSync, ckTmp, ckFinal, ckIdx, ckDone>>

\* The server is started again and its threads with it.
CkRestart ==
    /\ ~ckUp
    /\ ckUp' = TRUE
    /\ UNCHANGED <<ckSync, ckTmp, ckFinal, ckPc, ckIdx, ckLast, ckDone>>

CkNext ==
    \/ CkStep
    \/ SyncedAppend
    \/ \E i \in Idx : SyncedTruncate(i)
    \/ CkCrash
    \/ CkRestart

CkSpec == CkInit /\ [][CkNext]_ckVars

-----------------------------------------------------------------------------
(* Properties.                                                             *)

\* The rename makes a checkpoint appear at its final path only when it is
\* complete, so a final path that exists holds a valid checkpoint (the
\* comment at the stat() of chkpt_path), and a checkpoint rsbr_checkpoint
\* returned as made stays there: no crash at any step of a later
\* checkpoint, and no trash move of a stale in-progress directory, takes
\* it away.
CheckpointDurable ==
    /\ \A i \in Idx : ckFinal[i] \in {"none", "complete"}
    /\ \A i \in ckDone : ckFinal[i] = "complete"

====
