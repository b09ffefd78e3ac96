----------------------------- MODULE RaftClient -----------------------------
(***************************************************************************)
(* The request path of src/src/raft_client.c for one sub-app key (rncui):  *)
(* an application thread submitting requests, a second application thread *)
(* cancelling them, and the client's epoll thread, which runs the retry    *)
(* timer (check_pending_requests), the sender (evp callback) and the reply *)
(* handler.  Each submit allocates a new sub-app object ("incarnation"),   *)
(* kept in a ref-counted tree until its last reference is put.             *)
(*                                                                         *)
(* Freed objects keep their last field values: a thread that uses a freed *)
(* object reads what was there, which is one outcome of the use after free *)
(* the code allows.  Every send of a request may get a reply from the     *)
(* server, up to MaxReplies per msg id; replies are delivered in any order *)
(* and at any later time.                                                  *)
(***************************************************************************)
EXTENDS Naturals, Integers

CONSTANTS
    MaxSubmits,       \* incarnations (submits) the application makes
    MaxCancels,       \* raft_client_request_cancel calls
    Modes,            \* subset of BOOLEAN: the block argument of submits
    HandleInitMemset, \* TRUE: request_handle_init memsets the whole handle
    MaxReplies,       \* replies the server sends per incarnation
    Peer,             \* the raft peers (ri_csn_raft_peers)
    NoPeer,           \* a NULL ctl_svc_node pointer
    NpingsUntilViable,\* raftClientNpingsUntilViable
    MaxPings,         \* pings the timer sends in a behaviour
    MaxRedirects      \* redirect replies the servers send in a behaviour

Ids == 1..MaxSubmits
NoId == 0

VARIABLES
    sa,           \* sa[i]: the fields of incarnation i
    submits,      \* incarnations created so far
    cancels,      \* cancel calls made so far
    apc, acur,    \* submitting thread: pc and incarnation
    cpc, ccur,    \* cancelling thread: pc and incarnation
    epc, ecur,    \* epoll thread (reply handler): pc and incarnation
    evp,          \* the ev_pipe has been notified and not yet drained
    replies,      \* replies[i]: replies to msg id i in the network
    creatorHeld,  \* history: the creation reference has not been put yet
    cbCount,      \* history: times the async callback ran
    aborted,      \* a NIOVA_ASSERT or FATAL_IF fired
    target,       \* ri_csn_leader: where requests and pings are sent
    li,           \* rci_leader_csn, rci_leader_alive_cnt, rci_leader_is_viable
    pings,        \* pings[p]: ping replies from p in the network
    pingsSent,    \* pings sent so far
    redirects     \* redirects received so far

leaderVars == <<target, li, pings, pingsSent, redirects>>
vars == <<sa, submits, cancels, apc, acur, cpc, ccur, epc, ecur, evp, replies,
          creatorHeld, cbCount, aborted, leaderVars>>

Error == {"none", "app", "canceled", "timedout"}

SubApp == [inTree : BOOLEAN, alive : BOOLEAN, refs : -2..(4 + MaxReplies), rpc : BOOLEAN,
           initializing : BOOLEAN, sendq : BOOLEAN, ready : BOOLEAN,
           completing : BOOLEAN, cancel : BOOLEAN, cbExec : BOOLEAN,
           blocking : BOOLEAN, cb : BOOLEAN, timed : BOOLEAN, error : Error,
           dest : Peer \cup {NoPeer}]

Unused == [inTree |-> FALSE, alive |-> FALSE, refs |-> 0, rpc |-> FALSE,
           initializing |-> FALSE, sendq |-> FALSE, ready |-> FALSE,
           completing |-> FALSE, cancel |-> FALSE, cbExec |-> FALSE,
           blocking |-> FALSE, cb |-> FALSE, timed |-> FALSE, error |-> "none",
           dest |-> NoPeer]

TypeOK ==
    /\ sa \in [Ids -> SubApp]
    /\ submits \in 0..MaxSubmits /\ cancels \in 0..MaxCancels
    /\ apc \in {"idle", "enqueue", "wait", "tcancel", "finish"}
    /\ cpc \in {"idle", "wait"}
    /\ epc \in {"idle", "copy", "notify"}
    /\ {acur, ccur, ecur} \subseteq Ids \cup {NoId}
    /\ evp \in BOOLEAN /\ replies \in [Ids -> 0..MaxReplies]
    /\ creatorHeld \in [Ids -> BOOLEAN] /\ cbCount \in [Ids -> 0..3]
    /\ aborted \in BOOLEAN
    /\ target \in Peer \cup {NoPeer}
    /\ li \in [csn : Peer \cup {NoPeer}, alive : 0..MaxPings, viable : BOOLEAN]
    /\ pings \in [Peer -> 0..MaxPings] /\ pingsSent \in 0..MaxPings
    /\ redirects \in 0..MaxRedirects

Init ==
    /\ sa = [i \in Ids |-> Unused]
    /\ submits = 0 /\ cancels = 0
    /\ apc = "idle" /\ acur = NoId
    /\ cpc = "idle" /\ ccur = NoId
    /\ epc = "idle" /\ ecur = NoId
    /\ evp = FALSE /\ replies = [i \in Ids |-> 0]
    /\ creatorHeld = [i \in Ids |-> FALSE] /\ cbCount = [i \in Ids |-> 0]
    /\ aborted = FALSE
    /\ target = NoPeer
    /\ li = [csn |-> NoPeer, alive |-> 0, viable |-> FALSE]
    /\ pings = [p \in Peer |-> 0] /\ pingsSent = 0 /\ redirects = 0

\* The incarnation the tree holds for the key, if any (RT_LOOKUP).
InTree == {i \in Ids : sa[i].inTree}

\* RT_PUT: drop one reference; at zero the object leaves the tree and
\* raft_client_sub_app_destruct runs, whose FATAL_IF requires the async
\* callback, when there is one, to have been issued.
Put(r) == [r EXCEPT !.refs = @ - 1,
                    !.inTree = @ /\ r.refs # 1,
                    !.alive = @ /\ r.refs # 1]
DestructFatal(r) == r.alive /\ r.refs = 1 /\ r.cb /\ ~r.cbExec

\* raft_client_async_cb_issue: cb_exec is tested and set under the lock,
\* and the callback runs when this caller was the one to set it.
CbIssue(r) == [r EXCEPT !.cbExec = TRUE]

\* Mutant of CbRuns: the callback runs without the cb_exec test.
CbRunsUnguarded(r) == r.cb

CbRuns(r) == ~r.cbExec /\ r.cb

B2N(b) == IF b THEN 1 ELSE 0

\* raft_client_sub_app_done: the caller's put; the object may live on
\* until the other holders put theirs.
SubAppDone(r) == Put(r)

\* raft_client_sub_app_construct: a zeroed object, initializing, so that
\* the timer callback leaves it alone until the submit is complete.
SubAppConstruct == [Unused EXCEPT !.alive = TRUE, !.initializing = TRUE]

\* raft_client_sub_app_add: RT_GET_ADD inserts the new object into the
\* tree with the caller's reference.
SubAppAdd(r) == [r EXCEPT !.inTree = TRUE, !.refs = 1]

\* raft_client_sub_app_rpc_request_new: the RPC is allocated and addressed
\* by rpc_msg_init to the current leader, then hung on rcrh_rpc.
RpcRequestNew(r, dest) == [r EXCEPT !.rpc = TRUE, !.dest = dest]

\* raft_client_request_handle_init: the memset of the handle, then the
\* submit's arguments.  With HandleInitMemset the memset also clears the
\* rcrh_rpc and rcrh_initializing set before it.
RequestHandleInit(r, b, cb, timed) ==
    [r EXCEPT !.rpc = @ /\ ~HandleInitMemset,
              !.initializing = @ /\ ~HandleInitMemset,
              !.blocking = b, !.cb = cb, !.timed = timed]

\* raft_client_request_send_queue_add_locked: the sendq bit and the
\* queue's reference (callers hold !sendq and !initializing).
SendQueueAdd(r) == [r EXCEPT !.sendq = TRUE, !.refs = @ + 1]

\* raft_client_request_send_queue_remove_prep_locked: off the queue, and
\* ESTALE (no RPC is sent) when cancelled, ready or completing.
SendQueueRemovePrep(r) == [r EXCEPT !.sendq = FALSE]
SendQueueStale(r) == r.cancel \/ r.ready \/ r.completing

\* raft_client_request_send_queue_remove_done: the queue's put.
SendQueueRemoveDone(r) == Put(r)

\* raft_client_sub_app_wake: rcrh_ready set and the waiters broadcast.
SubAppWake(r) == [r EXCEPT !.ready = TRUE]

-----------------------------------------------------------------------------
(* The submitting application thread: raft_client_request_submit          *)

\* sub_app_add (RT_GET_ADD of a new entry, one reference, initializing),
\* rpc_request_new and request_handle_init.  An existing entry for the key
\* gives EALREADY and changes nothing; a non-blocking request needs a
\* callback.  rpc_msg_init addresses the RPC to ri_csn_leader and fails
\* (EINVAL) while there is none.  With HandleInitMemset the memset of
\* request_handle_init also clears rcrh_rpc and rcrh_initializing.
Submit ==
    /\ ~aborted /\ apc = "idle" /\ submits < MaxSubmits /\ InTree = {}
    /\ target # NoPeer
    /\ \E b \in Modes, cb \in BOOLEAN, timed \in BOOLEAN :
          /\ b \/ cb
          /\ b \/ ~timed
          /\ sa' = [sa EXCEPT ![submits + 1] =
                      RequestHandleInit(RpcRequestNew(SubAppAdd(SubAppConstruct),
                                                      target), b, cb, timed)]
    /\ submits' = submits + 1
    /\ acur' = submits + 1 /\ apc' = "enqueue"
    /\ creatorHeld' = [creatorHeld EXCEPT ![submits + 1] = TRUE]
    /\ UNCHANGED <<cancels, cpc, ccur, epc, ecur, evp, replies, cbCount,
                   aborted>>
    /\ UNCHANGED leaderVars

\* rpc_request_new fails (ENOMEM, or EINVAL from rpc_msg_init without a
\* leader; submit returns ENOMEM for both): the put frees the new entry.
SubmitNoMem ==
    /\ ~aborted /\ apc = "idle" /\ submits < MaxSubmits /\ InTree = {}
    /\ submits' = submits + 1
    /\ UNCHANGED <<sa, cancels, apc, acur, cpc, ccur, epc, ecur, evp, replies,
                   creatorHeld, cbCount, aborted>>
    /\ UNCHANGED leaderVars

\* request_submit_enqueue: asserts rcrh_initializing, clears it and puts
\* the entry on the send queue with a second reference, then pokes the
\* ev_pipe.  A non-blocking submit returns here.
Enqueue ==
    /\ ~aborted /\ apc = "enqueue"
    /\ IF ~sa[acur].initializing
          THEN /\ aborted' = TRUE
               /\ UNCHANGED <<sa, apc, acur, evp>>
          ELSE /\ sa' = [sa EXCEPT ![acur] =
                            SendQueueAdd([sa[acur] EXCEPT !.initializing = FALSE])]
               /\ evp' = TRUE
               /\ apc' = IF sa[acur].blocking THEN "wait" ELSE "idle"
               /\ acur' = IF sa[acur].blocking THEN acur ELSE NoId
               /\ UNCHANGED aborted
    /\ UNCHANGED <<submits, cancels, cpc, ccur, epc, ecur, replies,
                   creatorHeld, cbCount>>
    /\ UNCHANGED leaderVars

\* sub_app_wait returns: the condition (ready, or cancel when a timeout
\* was given) holds.
WaitDone ==
    /\ ~aborted /\ apc = "wait"
    /\ sa[acur].ready \/ (sa[acur].timed /\ sa[acur].cancel)
    /\ apc' = "finish"
    /\ UNCHANGED <<sa, submits, cancels, acur, cpc, ccur, epc, ecur, evp,
                   replies, creatorHeld, cbCount, aborted>>
    /\ UNCHANGED leaderVars

\* NIOVA_TIMEDWAIT_COND returns ETIMEDOUT with the condition still false.
WaitTimeout ==
    /\ ~aborted /\ apc = "wait"
    /\ sa[acur].timed /\ ~sa[acur].ready /\ ~sa[acur].cancel
    /\ apc' = "tcancel"
    /\ UNCHANGED <<sa, submits, cancels, acur, cpc, ccur, epc, ecur, evp,
                   replies, creatorHeld, cbCount, aborted>>
    /\ UNCHANGED leaderVars

\* cancel_pending_req(wakeup = false) after the timeout: wait while the
\* reply is being copied, set cancel unless the reply made it ready; then
\* rcrh_error becomes ETIMEDOUT unless already set.
TimeoutCancel ==
    /\ ~aborted /\ apc = "tcancel"
    /\ ~sa[acur].completing
    /\ sa' = [sa EXCEPT ![acur].cancel = @ \/ ~sa[acur].ready,
                        ![acur].error = IF @ = "none" THEN "timedout" ELSE @]
    /\ apc' = "finish"
    /\ UNCHANGED <<submits, cancels, acur, cpc, ccur, epc, ecur, evp, replies,
                   creatorHeld, cbCount, aborted>>
    /\ UNCHANGED leaderVars

\* async_cb_issue, then sub_app_done: the submitter's put.
Finish ==
    /\ ~aborted /\ apc = "finish"
    /\ LET r == CbIssue(sa[acur])
       IN /\ sa' = [sa EXCEPT ![acur] = SubAppDone(r)]
          /\ cbCount' = [cbCount EXCEPT ![acur] = @ + B2N(CbRuns(sa[acur]))]
          /\ aborted' = DestructFatal(r)
    /\ creatorHeld' = [creatorHeld EXCEPT ![acur] = FALSE]
    /\ apc' = "idle" /\ acur' = NoId
    /\ UNCHANGED <<submits, cancels, cpc, ccur, epc, ecur, evp, replies>>
    /\ UNCHANGED leaderVars

-----------------------------------------------------------------------------
(* The cancelling application thread: raft_client_request_cancel          *)

\* sub_app_lookup takes a reference; a request without an rpc returns
\* EINPROGRESS without putting it.
CancelBegin ==
    /\ ~aborted /\ cpc = "idle" /\ cancels < MaxCancels
    /\ \E i \in InTree :
          /\ sa' = [sa EXCEPT ![i].refs = @ + 1]
          /\ cpc' = IF sa[i].rpc THEN "wait" ELSE "idle"
          /\ ccur' = IF sa[i].rpc THEN i ELSE NoId
    /\ cancels' = cancels + 1
    /\ UNCHANGED <<submits, apc, acur, epc, ecur, evp, replies, creatorHeld,
                   cbCount, aborted>>
    /\ UNCHANGED leaderVars

\* Mutant of CancelSet: cancel does not wait for a copy in progress.
CancelSetNoWait ==
    /\ ~aborted /\ cpc = "wait"
    /\ LET r1 == [sa[ccur] EXCEPT !.cancel = @ \/ ~sa[ccur].ready]
           r2 == Put(r1)
       IN /\ sa' = [sa EXCEPT ![ccur] = SubAppDone(r2)]
          /\ aborted' = (DestructFatal(r1) \/ DestructFatal(r2))
    /\ creatorHeld' = [creatorHeld EXCEPT ![ccur] = FALSE]
    /\ cpc' = "idle" /\ ccur' = NoId
    /\ UNCHANGED <<submits, cancels, apc, acur, epc, ecur, evp, replies,
                   cbCount>>
    /\ UNCHANGED leaderVars

\* cancel_pending_req(wakeup = true): once no reply is being copied, set
\* cancel unless the request is ready; then sub_app_put and sub_app_done.
CancelSet ==
    /\ ~aborted /\ cpc = "wait"
    /\ ~sa[ccur].completing
    /\ LET r1 == [sa[ccur] EXCEPT !.cancel = @ \/ ~sa[ccur].ready]
           r2 == Put(r1)
       IN /\ sa' = [sa EXCEPT ![ccur] = SubAppDone(r2)]
          /\ aborted' = (DestructFatal(r1) \/ DestructFatal(r2))
    /\ creatorHeld' = [creatorHeld EXCEPT ![ccur] = FALSE]
    /\ cpc' = "idle" /\ ccur' = NoId
    /\ UNCHANGED <<submits, cancels, apc, acur, epc, ecur, evp, replies,
                   cbCount>>
    /\ UNCHANGED leaderVars

-----------------------------------------------------------------------------
(* The client's epoll thread                                               *)

\* check_pending_requests (timerfd_cb with a viable leader): an entry that
\* is neither queued nor initializing and whose retry time has passed is
\* queued with a reference.  Its cnt is never incremented, so the ev_pipe
\* is not poked.
Timer ==
    /\ ~aborted /\ epc = "idle" /\ li.viable
    /\ \E i \in InTree :
          /\ ~sa[i].sendq /\ ~sa[i].initializing
          /\ sa' = [sa EXCEPT ![i] = SendQueueAdd(sa[i])]
    /\ UNCHANGED <<submits, cancels, apc, acur, cpc, ccur, epc, ecur, evp,
                   replies, creatorHeld, cbCount, aborted>>
    /\ UNCHANGED leaderVars

\* The ev_pipe is poked by the enqueue of another sub-app's request.
OtherEnqueue ==
    /\ ~aborted /\ ~evp
    /\ evp' = TRUE
    /\ UNCHANGED <<sa, submits, cancels, apc, acur, cpc, ccur, epc, ecur,
                   replies, creatorHeld, cbCount, aborted>>
    /\ UNCHANGED leaderVars

\* raft_client_rpc_launch: raft_net_send_client_msg of the request's RPC;
\* the server answers it with one more reply (a send beyond MaxReplies is
\* lost, as a failed send is only logged).
RpcLaunch(i) ==
    IF replies[i] = MaxReplies THEN replies ELSE [replies EXCEPT ![i] = @ + 1]

\* Mutant of Sender: the send queue's reference is not put.
SenderNoPut ==
    /\ ~aborted /\ epc = "idle" /\ evp
    /\ evp' = FALSE
    /\ \/ \E i \in Ids :
            /\ sa[i].sendq
            /\ LET r == SendQueueRemovePrep(sa[i])
                   stale == SendQueueStale(r)
               IN /\ sa' = [sa EXCEPT ![i] = r]
                  /\ replies' = IF stale THEN replies ELSE RpcLaunch(i)
                  /\ UNCHANGED aborted
       \/ /\ \A i \in Ids : ~sa[i].sendq
          /\ UNCHANGED <<sa, aborted, replies>>
    /\ UNCHANGED <<submits, cancels, apc, acur, cpc, ccur, epc, ecur,
                   creatorHeld, cbCount>>
    /\ UNCHANGED leaderVars

\* evp_cb -> rpc_sender -> sendq_dequeue_head_and_send: the head leaves the
\* queue; unless it is cancelled, ready or completing its RPC is sent (and
\* the server may reply); then the queue's reference is put.
Sender ==
    /\ ~aborted /\ epc = "idle" /\ evp
    /\ evp' = FALSE
    /\ \/ \E i \in Ids :
            /\ sa[i].sendq
            /\ LET r == SendQueueRemovePrep(sa[i])
                   stale == SendQueueStale(r)
               IN /\ sa' = [sa EXCEPT ![i] = SendQueueRemoveDone(r)]
                  /\ aborted' = DestructFatal(r)
                  /\ replies' = IF stale THEN replies ELSE RpcLaunch(i)
       \/ /\ \A i \in Ids : ~sa[i].sendq
          /\ UNCHANGED <<sa, aborted, replies>>
    /\ UNCHANGED <<submits, cancels, apc, acur, cpc, ccur, epc, ecur,
                   creatorHeld, cbCount>>
    /\ UNCHANGED leaderVars

\* The server a request was addressed to at submit time answers it.  The
\* udp_recv_handler drops every message while ri_csn_leader is NULL, and
\* process_reply drops a reply whose sender is not ri_csn_leader.
FromLeader(m) == sa[m].dest = target

ReplyNotFromLeader(m) ==
    /\ ~aborted /\ epc = "idle" /\ replies[m] > 0 /\ ~FromLeader(m)
    /\ replies' = [replies EXCEPT ![m] = @ - 1]
    /\ UNCHANGED <<sa, submits, cancels, apc, acur, cpc, ccur, epc, ecur, evp,
                   creatorHeld, cbCount, aborted, leaderVars>>

\* reply_complete: sub_app_lookup of the reply's key takes a reference.
\* A reply whose msg id is not the entry's is put back.
ReplyMismatch(m) ==
    /\ ~aborted /\ epc = "idle" /\ replies[m] > 0 /\ FromLeader(m)
    /\ \E i \in InTree :
          /\ ~sa[i].rpc \/ m # i
          /\ sa' = [sa EXCEPT ![i] = Put([sa[i] EXCEPT !.refs = @ + 1])]
    /\ replies' = [replies EXCEPT ![m] = @ - 1]
    /\ UNCHANGED <<submits, cancels, apc, acur, cpc, ccur, epc, ecur, evp,
                   creatorHeld, cbCount, aborted>>
    /\ UNCHANGED leaderVars

\* A reply for an entry that is already ready (or completing): the handler
\* unlocks and returns, keeping the lookup's reference.
ReplyDuplicate(m) ==
    /\ ~aborted /\ epc = "idle" /\ replies[m] > 0 /\ FromLeader(m)
    /\ m \in InTree /\ sa[m].rpc
    /\ sa[m].ready \/ sa[m].completing
    /\ sa' = [sa EXCEPT ![m].refs = @ + 1]
    /\ replies' = [replies EXCEPT ![m] = @ - 1]
    /\ UNCHANGED <<submits, cancels, apc, acur, cpc, ccur, epc, ecur, evp,
                   creatorHeld, cbCount, aborted>>
    /\ UNCHANGED leaderVars

\* A reply for a cancelled entry: the reply buffer is no longer the
\* client's; rcrh_error becomes ECANCELED unless set.
ReplyCanceled(m) ==
    /\ ~aborted /\ epc = "idle" /\ replies[m] > 0 /\ FromLeader(m)
    /\ m \in InTree /\ sa[m].rpc
    /\ ~sa[m].ready /\ ~sa[m].completing /\ sa[m].cancel
    /\ sa' = [sa EXCEPT ![m].refs = @ + 1,
                        ![m].error = IF @ = "none" THEN "canceled" ELSE @]
    /\ replies' = [replies EXCEPT ![m] = @ - 1]
    /\ epc' = "notify" /\ ecur' = m
    /\ UNCHANGED <<submits, cancels, apc, acur, cpc, ccur, evp, creatorHeld,
                   cbCount, aborted>>
    /\ UNCHANGED leaderVars

\* The reply is accepted: rcrh_error is the app error (or E2BIG), and
\* completing is set when there is data to copy; then the lock is dropped.
ReplyAccept(m) ==
    /\ ~aborted /\ epc = "idle" /\ replies[m] > 0 /\ FromLeader(m)
    /\ m \in InTree /\ sa[m].rpc
    /\ ~sa[m].ready /\ ~sa[m].completing /\ ~sa[m].cancel
    /\ \E copy \in BOOLEAN :
          sa' = [sa EXCEPT ![m].refs = @ + 1, ![m].completing = copy,
                           ![m].error = IF copy THEN "none" ELSE "app"]
    /\ replies' = [replies EXCEPT ![m] = @ - 1]
    /\ epc' = "copy" /\ ecur' = m
    /\ UNCHANGED <<submits, cancels, apc, acur, cpc, ccur, evp, creatorHeld,
                   cbCount, aborted>>
    /\ UNCHANGED leaderVars

\* The memcpy into the reply buffer outside the lock, then, under the
\* lock, completing is cleared and ready set.
ReplyCopy ==
    /\ ~aborted /\ epc = "copy"
    /\ sa' = [sa EXCEPT ![ecur].completing = FALSE, ![ecur].ready = TRUE]
    /\ epc' = "notify"
    /\ UNCHANGED <<submits, cancels, apc, acur, cpc, ccur, ecur, evp, replies,
                   creatorHeld, cbCount, aborted>>
    /\ UNCHANGED leaderVars

\* A blocking request's waiter is woken (sub_app_wake sets ready and
\* broadcasts); otherwise the async callback is issued.  Then sub_app_done.
ReplyNotify ==
    /\ ~aborted /\ epc = "notify"
    /\ LET r == IF sa[ecur].blocking THEN SubAppWake(sa[ecur])
                ELSE CbIssue(sa[ecur])
       IN /\ sa' = [sa EXCEPT ![ecur] = SubAppDone(r)]
          /\ aborted' = DestructFatal(r)
          /\ cbCount' = [cbCount EXCEPT ![ecur] =
                           @ + B2N(~sa[ecur].blocking /\ CbRuns(sa[ecur]))]
    /\ epc' = "idle" /\ ecur' = NoId
    /\ UNCHANGED <<submits, cancels, apc, acur, cpc, ccur, evp, replies,
                   creatorHeld>>
    /\ UNCHANGED leaderVars

-----------------------------------------------------------------------------
(* Leader discovery on the epoll thread: timerfd_cb without a viable       *)
(* leader, ping replies and redirects (raft_client_udp_recv_handler)       *)

PingErr == {"ok", "EAGAIN", "ENOENT", "EOTHER"}

\* Mutant of ResetLeaderInfo: the viability flag is left as it was.
ResetLeaderInfoKeepViable(r, nullify) ==
    [r EXCEPT !.csn = IF nullify THEN NoPeer ELSE @, !.alive = 0]

\* raft_client_instance_reset_leader_info
ResetLeaderInfo(r, nullify) ==
    [r EXCEPT !.csn = IF nullify THEN NoPeer ELSE @, !.alive = 0,
              !.viable = FALSE]

\* raft_client_instance_progress_leader_info: ignored when another peer is
\* the leader; the first success names the leader; viable once the count
\* exceeds raftClientNpingsUntilViable.
ProgressLeaderInfo(r, s) ==
    IF r.csn # NoPeer /\ r.csn # s THEN r
    ELSE [r EXCEPT !.alive = @ + 1,
                   !.csn = IF @ = NoPeer THEN s ELSE @,
                   !.viable = @ \/ r.alive + 1 > NpingsUntilViable]

\* raft_client_process_ping_reply: a sender other than rci_leader_csn
\* first forgets the leader; then the reply's sys_error is applied.
ProcessPingReply(r, s, err) ==
    LET r1 == IF s # r.csn THEN ResetLeaderInfo(r, TRUE) ELSE r
    IN CASE err = "ok"     -> ProgressLeaderInfo(r1, s)
         [] err = "EAGAIN" -> ResetLeaderInfo(r1, FALSE)
         [] err = "ENOENT" -> ResetLeaderInfo(r1, TRUE)
         [] OTHER          -> r1

\* timerfd_cb without a viable leader: set_ping_target, then
\* ping_raft_service.  A missing or stale target (raft_net_comm_recency, a
\* matter of timing) is replaced by the most recently responsive peer (any
\* peer); leader viability is already false.  The ping goes to the target
\* (a send beyond MaxPings is lost).
TimerPing ==
    /\ ~aborted /\ epc = "idle" /\ ~li.viable
    /\ \E t \in Peer :
          /\ target' = t
          /\ pings' = IF pingsSent < MaxPings THEN [pings EXCEPT ![t] = @ + 1]
                      ELSE pings
    /\ pingsSent' = IF pingsSent < MaxPings THEN pingsSent + 1 ELSE pingsSent
    /\ UNCHANGED <<li, redirects>>
    /\ UNCHANGED <<sa, submits, cancels, apc, acur, cpc, ccur, epc, ecur, evp,
                   replies, creatorHeld, cbCount, aborted>>

\* A ping reply from p with the server's sys_error.
PingReply(p, err) ==
    /\ ~aborted /\ epc = "idle" /\ pings[p] > 0 /\ target # NoPeer
    /\ pings' = [pings EXCEPT ![p] = @ - 1]
    /\ li' = ProcessPingReply(li, p, err)
    /\ UNCHANGED <<target, pingsSent, redirects>>
    /\ UNCHANGED <<sa, submits, cancels, apc, acur, cpc, ccur, epc, ecur, evp,
                   replies, creatorHeld, cbCount, aborted>>

\* update_leader_from_redirect: raft_net_apply_leader_redirect makes the
\* named peer ri_csn_leader; viability and rci_leader_csn are untouched.
Redirect(q) ==
    /\ ~aborted /\ epc = "idle" /\ target # NoPeer /\ redirects < MaxRedirects
    /\ target' = q
    /\ redirects' = redirects + 1
    /\ UNCHANGED <<li, pings, pingsSent>>
    /\ UNCHANGED <<sa, submits, cancels, apc, acur, cpc, ccur, epc, ecur, evp,
                   replies, creatorHeld, cbCount, aborted>>

Next ==
    \/ Submit \/ SubmitNoMem \/ Enqueue \/ WaitDone \/ WaitTimeout
    \/ TimeoutCancel \/ Finish
    \/ CancelBegin \/ CancelSet
    \/ Timer \/ OtherEnqueue \/ Sender
    \/ \E m \in Ids : \/ ReplyMismatch(m) \/ ReplyDuplicate(m)
                      \/ ReplyCanceled(m) \/ ReplyAccept(m)
    \/ \E m \in Ids : ReplyNotFromLeader(m)
    \/ ReplyCopy \/ ReplyNotify
    \/ TimerPing
    \/ \E p \in Peer, err \in PingErr : PingReply(p, err)
    \/ \E q \in Peer : Redirect(q)

Spec == Init /\ [][Next]_vars

-----------------------------------------------------------------------------
(* Properties.                                                             *)

\* The async callback of a request runs at most once, whichever of the
\* submitter, the reply handler (for each duplicate reply of a cancelled
\* request) and the timeout path reaches raft_client_async_cb_issue.
CallbackAtMostOnce == \A i \in Ids : cbCount[i] <= 1

\* The reply handler copies into the application's reply buffer only while
\* the request is not cancelled: a cancel waits out a copy in progress, and
\* a reply for a cancelled request leaves the buffer alone.
NoCopyAfterCancel ==
    (epc = "copy" /\ sa[ecur].completing) => ~sa[ecur].cancel

\* No thread works on a sub-app that has been freed, and no reference is
\* put twice: the submitter until its sub_app_done, the canceller and the
\* reply handler while they hold their lookup reference.
NoUseAfterFree ==
    /\ apc \in {"enqueue", "wait", "tcancel", "finish"} => sa[acur].alive
    /\ cpc = "wait" => sa[ccur].alive
    /\ epc # "idle" => sa[ecur].alive
    /\ \A i \in Ids : sa[i].refs >= 0

\* The reference count of a live sub-app is exactly the number of holders:
\* the creation reference until the submitter's (or a canceller's)
\* sub_app_done, the send queue, and the lookups of the canceller and of
\* the reply handler in progress.
RefCountMatchesHolders ==
    \A i \in Ids : sa[i].alive =>
        sa[i].refs = B2N(creatorHeld[i]) + B2N(sa[i].sendq)
                     + B2N(cpc = "wait" /\ ccur = i)
                     + B2N(epc # "idle" /\ ecur = i)

====
