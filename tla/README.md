# TLA+ models of niova-core (raft server, log, client runtime)

This directory holds TLA+ models of the C sources under `src/src/`. Each
model is written from the code, and TLC checks it. `PROJECT.json` lists
the components, the TLC runs, the mutants that show each property can
fail, the map from every definition to the source lines it models, the
findings, and the hazards.

## The system

| Part | Source | What it does | State that matters |
|---|---|---|---|
| Raft server core | `raft.c` | A single-threaded epoll loop per peer. A timerfd fires the election timeout (followers and candidates) or the heartbeat (leader). UDP datagrams carry vote requests and replies, and append requests and replies. | `ri_state`; `ri_log_hdr` {term, seqno, voted_for}; candidate vote table; leader next_idx/prev_term |
| Log header | `raft.c`, `raft_server_backend_posix.c` | Two header blocks at the start of the log file, written alternately (`seqno % 2`) and synchronously. On load, the valid block with the larger seqno wins. | the two blocks; the in-memory header |
| Log entries | `raft.c`, both backends | Entries are written once with pwrite+fsync. `next_entry_is_valid` requires index+1 and a non-decreasing term. A scan at start-up finds the newest valid entry. Entries can be truncated and reaped. | log file blocks, `ri_newest_entry_hdr` |
| POSIX backend | `raft_server_backend_posix.c` | One flat file opened O_SYNC: two header blocks (block `seqno % 2`), then one block per entry at `(idx + 2) * BS`. Start-up sizes the file to count entries, truncation is `ftruncate` + `fsync`. | file blocks, `ri_log_hdr`, next index |
| RocksDB backend | `raft_server_backend_rocksdb.c` | Entries and the header are stored as keys (`a0_hdr.*`, `e0.<idx>e/h`, `z0_last`). It adds checkpoints (a tmp dir renamed into place), reap by delete-range, and a bulk recovery whose import and finalize steps are stubs. | keys, checkpoint directories, marker set |
| epoll manager | `epoll_mgr.c` | Handles are added and deleted from the poll thread or from other threads. A destroy list is reaped by the poll thread. An optional ref callback tracks handle lifetime. | active list, destroy list, installed/destroying flags, num_handles |
| Raft client | `raft_client.c` | A table of ref-counted sub-apps (pending requests), a send queue, a retry timer, and leader viability from pings. It also does reply completion (ready/completing/cancel), blocking waits with a timeout, and cancellation. The file is work in progress. | sub-app refcounts and flags, send queue, leader alive count |
| vblkdev handles | `vblkdev_handle.c` | A ref-counted registry of block-device handles in a tree under a lock. | tree, refcounts, handle count |
| UUIDs, queue macros, headers | `niosd_uuid.c`, `include/*.h` | Library code and declarations. | none |

How the parts interact: the raft core writes its header through the log
header code and stores entries through a backend (posix or RocksDB). Every
fd (timerfd, UDP sockets, client event pipes) is registered with the epoll
manager. The raft client runs the same epoll loop on the client side. Its
user threads block on a sub-app until the loop completes the reply.

## Modules

| Module | Models | Correspondence |
|---|---|---|
| `RaftElection` | raft.c election | VARIABLES are the `ri_state`, `ri_log_hdr` (in memory: `term`, `votedFor`; on disk: `pTerm`, `pVotedFor`), `ri_candidate`, `ri_leader` fields of each peer, plus the set of datagrams in flight. The actions are `BecomeCandidate` (timerfd_cb → become_candidate), `IssueHeartbeat`, `HandleVoteRequest`, `HandleVoteReply`, `HandleAppendRequest` and `Restart` (main → log_load). |
| `MC_RaftElection` | model values for three peers (or two) | Every peer's newest entry header is the null one (see the abstractions); symmetry on the peers. |
| `MC_RaftStepDown` | RaftElection plus a history variable | `heard`: the newest append term each peer has handled. Used only to state the step-down rule. |
| `LogHeader` | raft.c header blocks | `block[0..1]` (zero/torn/ok plus contents), `mem` = `ri_log_hdr`, `pc`. The actions are `Start` (log_file_setup + header_load), `InitHeaderWrite`, `VoteWrite` (log_header_write), `WriteEnd` (pwrite+fsync returns) and `Crash`. |
| `EpollMgr` | epoll_mgr.c | Per handle: `installing`, `installed`, `destroying` (the `eph_*` flags), membership of `epm_active_list`/`epm_destroy_list` and of the kernel's interest list, the user refs taken through `eph_ref_cb`; `numHandles` = `epm_num_handles`. Each handle has an owner thread (`opc`): `AddBegin`/`AddCtl`/`AddEnd` are the three parts of `epoll_handle_add` around the unlocked `epoll_ctl`; `OwnerDel` and `DelComplete` are `epoll_handle_del` and its inline `del_complete`. The poll thread: `Wait` (epoll_wait), `Dispatch` (the unlocked `eph_installed` test), `Callback`/`CallbackDel` (the callback, which may delete a handle on the poll thread) and `Reap`. |
| `RaftClient` | raft_client.c request path | `sa[i]`: the fields of the i-th sub-app object (incarnation) of one key: tree membership, refcount, `rcrh_*` flags, blocking, callback, timeout, error. Three threads: the submitter (`Submit`, `Enqueue`, `WaitDone`, `WaitTimeout`, `TimeoutCancel`, `Finish`), a canceller (`CancelBegin`, `CancelSet`) and the epoll thread (`Timer`, `Sender`, the four outcomes of `reply_complete`'s locked section, `ReplyCopy`, `ReplyNotify`). `replies[i]` counts the server's replies to msg id i. History variables: `creatorHeld`, `cbCount`. Leader discovery: `target` = `ri_csn_leader`, `li` = {`rci_leader_csn`, `rci_leader_alive_cnt`, `rci_leader_is_viable`}, `pings[p]` = ping replies in flight from peer p. `TimerPing` (the not-viable branch of the timer: `set_ping_target` plus a ping), `PingReply` (`process_ping_reply` with `reset_leader_info`/`progress_leader_info`, one of ok/EAGAIN/ENOENT/other error), `Redirect` (`update_leader_from_redirect`) and `ReplyNotFromLeader` (the sender check of `recv_handler`). A request's RPC is addressed to `target` when it is submitted (`sa.dest`). The helpers the actions share are operators on one sub-app record, named after their functions: `SubAppConstruct`, `SubAppAdd`, `RpcRequestNew` and `RequestHandleInit` (the submit), `SendQueueAdd`, `SendQueueRemovePrep` and `SendQueueRemoveDone` (the send queue), `RpcLaunch`, `SubAppWake`, `SubAppDone` and `Put`. |
| `LogStoreKV` | raft_server_backend_rocksdb.c | The store as a record: the set of entry keys (`<<i,0>>` for `e0.<i>e`, `<<i,1>>` for `e0.<i>h`, ordered as the zero-padded keys are), the `a0_hdr` header, `a1_hdr.last_applied`, and the `z0_last`/`a1_hdr.UUID` pair. `kvDurable` is the store as of the last synced write and `kvWal` the unsynced batches after it; a read sees both (`Cur`). The actions are `Setup` (open, or create), `InitBatch` and `InitHeader` (the two synced writes of `rsbr_init_header`, then the startup scan `Scan`: `InstanceUuidPresent`, `HeaderLoad`, `rsbr_num_entries_calc`, `LowestEntryGet` for `ri_lowest_idx`, `LastAppliedKvIdx`), `VoteWrite` (`rsbr_header_write`), `EntryWrite`, `SmApply` (`rsbr_sm_apply_opt`, never synced), `LogTruncate`, `Reap`, `Sync`, `KVCrash` (unsynced batches survive) and `PowerLoss` (a prefix of them survives). |
| `LogStorePosix` | raft_server_backend_posix.c | `pxFile` is the file as it is durable: a sequence of blocks (header record, entry {idx, term}, torn, zero). `pxAfter` is what the file becomes when the write in progress returns, `pxOp` which write that is. `pxHdr` = `ri_log_hdr`, `pxNext` the core's next index, `pxDetected` = `ri_entries_detected_at_startup`. The actions are `PxStart` (`rsbp_log_file_setup`: `rsbp_num_entries_calc` and `rsbp_header_load`, or header init on an empty file), `InitHeaderWrite`, `VoteWrite` (`rsbp_header_write` at `seqno % 2`), `EntryWrite` (`rsbp_entry_write` at `PhysPos`), `LogTruncate` (`rsbp_log_truncate`), `WriteEnd` and `PxCrash` (the write is lost or leaves a torn block; a truncate is lost or done). |
| `KVCheckpoint` | raft_server_backend_rocksdb.c checkpoint thread | Per index, the in-progress directory `ckTmp` and the final one `ckFinal` (none, partial, complete); the thread's place in `rsbr_checkpoint` (`ckPc`), its `sync_idx` (`ckIdx`), `ri_checkpoint_last_idx` (`ckLast`) and the indices it returned as made (`ckDone`). The actions are `CkBegin` (the ENODATA/EALREADY checks and the stat of the in-progress path), `CkTrashMkdir`/`CkTrashRename` (`rsbr_move_item_to_trash`, then the stat of the final path), `CkCreate` and `CkCreateEnd` (`rocksdb_checkpoint_create` writing, then returning or failing) and `CkRename`. The raft thread is modelled by what it does to the synced index (`SyncedAppend`, `SyncedTruncate`), and the process by `CkCrash`/`CkRestart`. |
| `MC_LogStores` | the three log stores and the checkpoint thread | The initial state picks one part (`store`: raft.c's header blocks, RocksDB, POSIX, or the RocksDB checkpoint thread), because `ri_backend` is set once and the parts share no state (the checkpoint thread reads only the synced index, which `KVCheckpoint` models itself); only that part then steps, with its own crashes. |
| `VblkdevHandle` | vblkdev_handle.c | `vbhTree` (id → handle), `obj[o]` = {state, `vbh_id`, `vbh_ref`} of each object `niova_malloc` can return, `vbhNumHandles`, `vbhInitialized`; per thread its place in `vbh_get`/`vbh_put` (`tpc`), the id, the handle held and `vbh_already` (`dup`). The actions are `Get` (the locked lookup), `AddAlloc`/`AddNoMem` (`vbh_new` outside the lock), `AddInsert` (the locked `RB_INSERT` and count), `AddDupFree` (destroy of the loser of a concurrent add), `Put` (the locked decrement and `RB_REMOVE`), `Destroy` (after the unlock) and `SubsystemDestroy`. |
| `MC_EpollVbh` | epoll manager and vblkdev registry | `EpollMgr` and an instance of `VblkdevHandle` interleaved: the two run in the same process and share no state. |
| `AbstractHeader` | the header's promise | An atomic register {term, voted_for} that is created once, only moves to higher terms, and lives in a process that stops and restarts. `LogHeader` is checked to implement it (`HeaderRefinement`) under the mapping "what `raft_server_header_load` would return now", and `LogStoreKV` (`KVHeaderRefinement`) under "what a read of the `a0_hdr` key returns now", and `LogStorePosix` (`PxHeaderRefinement`) under "what `rsbp_header_load` would return from the durable file now". |

Abstractions:
- Every message field that a handler reads is kept. The UUIDs become model values. Logging is left out.
- A datagram is never removed from the network when it is handled, so every message can be duplicated and reordered. For the safety properties checked here, a lost message is the same as one that is never handled.
- Timer expiry is a nondeterministic choice. An I/O error on the timerfd only rearms the timer and changes no modelled state.
- The log of each peer is a constant, and in every run it is empty (`ri_newest_entry_hdr` null: index -1, term 0). That is the only state raft.c can run in. No caller writes an entry: there is no client request path, and the append reply handler is `#if 0`. `raft_server_entry_init` would store the physical index in `reh_index`, which `read_server_entry_validate` rejects (EBADSLT), so `raft_server_entries_scan` never adopts an entry. And a non-null entry header, which carries `RAFT_ENTRY_MAGIC`, fails the assertion of `raft_server_entry_header_is_null` the first time the current entry index is read.
- epoll: `epoll_ctl` may fail on ADD; DEL is taken to succeed (its rc is only logged). A handle's fd is ready at any time, so `Wait` returns any subset of the interest list of the allowed size.
- Client: one key, because the bugs found are per sub-app; other keys appear only as `OtherEnqueue`, the ev_pipe poke of another request's enqueue. A freed object keeps its fields, one of the outcomes of a use after free. NIOVA_ASSERT/FATAL_IF set `aborted`, after which nothing runs. raft_client.c does not compile as written; where a line is garbled (`match->`, `rci->rcrh_cancel`, lookup by the uninitialised `sa` in `request_cancel`) the model follows its evident intent. Condition-variable waits proceed once their condition holds (no lost wakeups).
- RocksDB: each `rocksdb_write` is an atomic batch. A synced write makes the whole WAL before it durable. An unsynced write survives a process crash (it is in the OS) and is lost on power loss only with every later unsynced batch. The raft core that calls the backend is not in this repository: the model's callers write the next entry, apply the next written entry, truncate only unapplied entries, and reap (checkpoint thread) up to the spec's `reap(checkpoint + 1)` after a checkpoint at an applied index, i.e. below the last applied index + 1. Write supplements, entry contents, reads and column families are left out.
- Checkpoints: `mkdirat` and `rename` are atomic and durable once they return; `rocksdb_checkpoint_create` fills its directory over time, so a crash or an error leaves it partial. A checkpoint's contents and the directory names are left out, and so is what the trash holds. `ri_checkpoint_last_idx` and the synced index belong to the raft core, which is not in this repository: the caller keeps the returned index, and the synced index rises by appends and falls by truncations (spec-modelled).
- POSIX: the file is opened O_SYNC, so a pwrite that returned is durable; one interrupted by a crash leaves the old block or a torn one (or, at the end of the file, a torn tail that `st_size` counts). `ftruncate` followed by `fsync` is lost or done. The caller of the backend is not in this repository: the model's caller raises `rlh_seqno` and the term before `rsbp_header_write` (spec-modelled), appends at the next index with the header's term, and truncates below it.
- vblkdev: a freed handle object keeps its fields and is not allocated again, so a use after free is visible as a use of a "freed" object. A failed NIOVA_ASSERT sets `vbhAborted`.
- A torn block stands for any partial pwrite. It fails the CRC, or the short-read assert in raft_server_entry_read; either way the block is not valid.

## Runs

| Run | Bounds | Shows |
|---|---|---|
| `raft_crash` | 2 peers, MaxTerm 3, 2 restarts, no symmetry (≈159K states, ~9 s) | `LeaderHoldsOwnVote`, `CandidateStateConsistent`, `GrantPersistedBeforeReply` and `PersistedVoteStable` hold in every interleaving of duplicated and reordered datagrams, and across restarts that drop an in-memory term. Three peers with a restart exceed the run's time; the three-peer case without restarts is explored by the two violation runs below. |
| `raft_election_safety` | 3 peers, MaxTerm 2, no restarts, symmetry | **Violation**: two leaders in term 2. A YES granted in term 1 arrives late and is counted in term 2 (8 states). |
| `raft_step_down` | 3 peers, MaxTerm 2, no restarts | **Violation**: a leader handles a term-2 heartbeat and stays leader of term 1 (spec scenario 2). |
| `log_header` | `MC_LogStores`: 2 voters, MaxTerm 4, crashes anywhere, symmetry on voters; RocksDB with 4 entries, 3 unsynced batches, asynchronous entry writes, power loss; POSIX with 4 entries; checkpoints of 4 indices (≈276K states, ~45 s) | `LoadedHeaderIsLatest` and `HeaderRefinement`: torn writes never lose a completed header or move it backwards. `EntriesContiguous` and `KVHeaderRefinement`: after any crash or power loss the entry keys are a gap-free paired run, and the header key never moves back. `LowestIdxBelowEntries`: no entry key lies below the `ri_lowest_idx` that `rsbr_lowest_entry_get` gave at startup, although nothing moves that index as entries are reaped, truncated and appended. `PxLoadedHeaderIsLatest` and `PxHeaderRefinement`: the same for the POSIX header blocks. `AppendNeverOverwrites`: with `rsbp_num_entries_calc`'s rounding, no entry write or header write of the POSIX backend ever lands on a whole entry, after any sequence of torn appends, truncations and restarts. `CheckpointDurable`: a final checkpoint path only ever holds a complete checkpoint, and one `rsbr_checkpoint` returned stays, whatever crash, failed create or trash move interrupts later checkpoints. |
| `kv_reap_all` | as log_header | **Violation** of `NextIndexFollowsLog`: an entry written and applied, then the `reap(applied + 1)` a checkpoint at that entry leads to, deletes every entry key, and `rsbr_num_entries_calc` gives 0 for a core whose next index is 1 (7 states). |
| `log_header_liveness` | MaxTerm 2, no symmetry | **Violation** of `HeaderLiveness`: a crash during the first header write of a new log file keeps the peer down for good. |
| `epoll` | `MC_EpollVbh`: 2 handles (h1 with a ref callback), NumEvents 2; vblkdev with 2 threads, 1 id, 3 objects (≈433K states, ~10 s) | `NumHandlesConsistent`, `EpollSetMatchesRefs`, `StaleEventSkipped`: failed adds undo the list entry and the ref; an event of a handle deleted by an earlier callback of the same batch is skipped. `TreeHoldsLive`: every handle a lookup can reach is live and referenced, whatever the interleaving of gets, concurrent adds and puts. |
| `epoll_del_race` | 2 handles, no ref callbacks | **Violation** of `NoCallbackAfterDel`: the poll thread tests `eph_installed`, another thread's delete completes and returns, then the callback runs. |
| `epoll_deferred_del` | h1 with a ref callback, weak fairness of every thread | **Violation** of `DeletedHandleReleased`: the deferred delete is never completed. |
| `raft_client` | 2 submits, 1 cancel, 2 replies per request, blocking and non-blocking; 2 peers, NpingsUntilViable 1, 2 pings, 1 redirect, symmetry on peers (≈5M states, ~70 s) | `CallbackAtMostOnce`, `NoCopyAfterCancel`. |
| `raft_client_refs` | 1 blocking submit, no cancel | **Violation** of `RefCountMatchesHolders`: a second reply leaks a reference. |
| `raft_client_uaf` | 1 blocking submit, 1 cancel | **Violation** of `NoUseAfterFree`: the cancel frees the sub-app under the submitter. |

Why these bounds are enough: two leaders in one term needs three peers
and two terms, which MaxTerm 2 gives (the two violation runs). With two peers, a majority is both, so each election still needs a vote request and a granted reply per term, and split candidacies, late replies and duplicated requests still occur. A restart that forgets an in-memory
term needs a NO reply from a higher term, and then another candidacy,
which MaxTerm 3 with two peers gives. A header torn at either block, at
setup and later, needs at least two vote writes after setup, which
MaxTerm 4 gives. The epoll races need one handle per thread and a batch
of two events, where the first callback deletes the second handle. The
client needs two replies to one msg id (the leak), a second submit that
can receive the first request's reply (msg-id mismatch), and one cancel.
Viability with NpingsUntilViable 1 needs two good ping replies, which
MaxPings 2 allows; a redirect and a second peer let a late reply come
from a former target. In the RocksDB store, three entries let a reap, an
applied entry and an unapplied suffix coexist, and two unsynced batches
let a power loss keep an entry write and lose the last_applied write after
it (or keep both); four entries and three batches add a truncation below
an applied suffix. In the POSIX file, four entries let a torn append be
followed by further appends, a truncation and a restart that counts the
torn block. Checkpoints of four indices let the synced index move up and back while a checkpoint is in progress, and let a crash leave an in-progress directory at one index that a later checkpoint of the same index must move aside. The vblkdev registry needs two threads on one id for the
concurrent add, and a third object for a re-add after the last put.

Fairness: `LogHeader` assumes weak fairness of `Start`, of
`InitHeaderWrite` and of `WriteEnd`. A supervisor restarts a stopped
server, `main()` runs its setup to the end, and a pwrite that has started
returns unless the process dies. The raft runs check only safety, so they
assume no fairness. The election timeout is random and does not guarantee
progress. `EpollMgr` assumes weak fairness of every poll-thread step and
of an owner thread that is inside `epoll_handle_add` or `epoll_handle_del`:
the poll loop runs for ever, and a call that has started returns. The
client runs check only safety, with CHECK_DEADLOCK FALSE, because the
application stops after MaxSubmits submits.

## Findings

1. **Stale vote counted** (`raft.c:1536`). `raft_server_process_vote_reply`
   never compares the reply with the current candidacy. A late YES from an
   earlier term completes a majority, which gives two leaders in one term.
2. **No step-down on a newer term** (`raft.c:1879`). Only a candidate is
   demoted by an append from a newer term. A leader stays leader, and a
   follower keeps its old term.
3. **Log that cannot be recovered** (`raft.c:834`). If the process crashes
   inside `raft_server_log_file_setup_init_header`, the file is non-empty
   but holds no valid header. From then on, `raft_server_header_load`
   returns EBADMSG at every start.

4. **Callback after delete** (`epoll_mgr.c:285`). The poll thread tests
   `eph_installed` and calls `eph_cb` without the mutex. A delete that
   another thread completes between the test and the call returns 0 before
   the callback runs.
5. **Deferred delete never completed** (`epoll_mgr.c:223`). A delete of a
   handle with a ref callback from a thread other than the poll thread only
   signals the poll thread. Nothing puts the handle on `epm_destroy_list`,
   so it stays installed, its callback keeps running, and its ref is never
   released.
6. **Leaked reference on a duplicate reply** (`raft_client.c:1264`).
   `reply_complete` returns without a put when the request is already
   ready. The sub-app is never freed and its key is refused (EALREADY) for
   good.
7. **Cancel frees a request under its submitter** (`raft_client.c:1097`).
   `request_cancel` puts the lookup reference and the creation reference.
   A blocking submit still owns the creation reference, so it then uses
   freed memory and puts it again.
8. **Reaping every entry loses the log's numbering**
   (`raft_server_backend_rocksdb.c:844`). A reap after a checkpoint at the
   last entry deletes every entry key. `rsbr_num_entries_calc` and
   `rsbr_lowest_entry_get` read only the entry keys, so they give 0 and -1,
   and a restart numbers the log from 0 again, below the stored
   last_applied index. Spec scenario 6 expects the lowest entry index to be
   the reap point.

Also seen, listed as hazards without a run:
- A crash between the creation of the RocksDB database and
  `rsbr_init_header`'s first batch leaves a database without
  `a1_hdr.UUID`; every later start aborts in `rsb_sm_get_instance_uuid`.
- `request_handle_init`'s memset makes every submit fail the enqueue
  assert (`raft_client.c:976`).
- A timed-out request that completed reports ETIMEDOUT.
- Cancelling a non-blocking request before its reply aborts in `destruct`.
- A canceller waiting on `completing` for a non-blocking request is never
  woken.
- POSIX: a crash during `rsbp_entry_write` leaves a torn block that
  `rsbp_num_entries_calc` counts as an entry (`raft_server_backend_posix.c:402`);
  nothing removes it. A crash during the first header write leaves a file
  that never starts again, as in finding 3.
- vblkdev: two threads that add the same absent id share one reference
  (`vblkdev_handle.c:131`); the first put frees the handle under the
  second holder. `vbhNumHandles` also counts the discarded handle.
- Checkpoints (`raft_server_backend_rocksdb.c:1013`): the synced index is read before the database is copied, so a truncation in between gives a checkpoint named `sync_idx` that lacks entries up to it. An in-progress directory left by a crash at another index is never moved to trash (`:1053`), while the spec says stale ones are moved at startup. `rsbr_checkpoint_path_build` and `rsbr_move_item_to_trash` test `snprintf` with `rc > len`, missing a result of exactly `len`.
- Retries requeued by the timer are sent only when another enqueue pokes
  the ev_pipe.

## Plan (remaining work, in order)

The run budget (12) is used up. The hazards still without a property are
code defects whose properties fail in the current code, so each needs a
violation run of its own, or a run that replaces a weaker one.

1. Client: the ETIMEDOUT-after-completion error (`raft_client.c:1212`),
   the abort on cancelling a non-blocking request (`:341`), and
   condition-variable wakeups, so that the canceller that is never woken
   (`:1045`) shows as a deadlock.
2. Checkpoint contents: record in `KVCheckpoint` which entries a
   checkpoint holds, to state that the checkpoint of index i holds the
   entries up to i (violated by the truncation race above).
3. Compose `RaftElection` with `LogHeader` (the persisted header as the
   two-block store). Today the two are joined through `AbstractHeader`:
   `LogHeader` refines it, and `RaftElection`'s `pTerm`/`pVotedFor` is that
   abstract header.

## Not modelled

- `niosd_uuid.c` generates UUIDs; `include/queue.h` holds the BSD list
  macros. `tcp_mgr.h`, `io.h` and `util.h` contain only declarations and
  macros.
- The socket, getopt and configuration setup in `main()` is pure I/O.
- raft.c's `raft_server_entries_scan` and its entry checks are dead code
  in this version: nothing writes an entry to raft.c's own log file, so
  the scan always sees zero entries. The backends' entry paths are
  modelled instead.
- RocksDB recovery: the recovery-marker path code is `#if 0`, so no marker
  is ever made, and `rsbr_bulk_recover_import`/`_finalize` are stubs that
  return 0. Only `rsbr_bulk_recover_prepare` does work: a checkpoint
  tolerating EALREADY and ENODATA, which is `KVCheckpoint`.
- raft_client.c's instance table (`raft_client_instance_assign`,
  `_lookup`, `_release`, `raft_client_init`, `raft_client_destroy`) and the
  client thread set-up. These are start-up and shutdown code. As written
  they do not compile: `assign` returns the undeclared `rcih`, and
  `raft_client_thread` declares `rc` twice. The evident intent has defects
  that a reader sees without a model. The assign loop never breaks, so it
  takes every free slot. A calloc failure returns with `raftClientMutex`
  held. The request path above is modelled for one instance.
- raft_client.c's `raft_client_sub_app_may_add_new` is never called, so
  the sub-app cap is not enforced; there is nothing to model.
- CRC computation and the RocksDB key formatting are data. A block's CRC
  is modelled only as valid or torn.
