------------------------------ MODULE EpollMgr ------------------------------
(***************************************************************************)
(* The epoll manager of src/src/epoll_mgr.c.  One poll thread runs         *)
(* epoll_mgr_wait_and_process_events in a loop; each handle has an owner   *)
(* thread that calls epoll_handle_add and epoll_handle_del on it.  A       *)
(* callback, run on the poll thread, may itself delete handles.            *)
(*                                                                         *)
(* epoll_handle_add drops epm_mutex around epoll_ctl, so it is three       *)
(* steps.  The poll thread reads eph_installed and then calls eph_cb       *)
(* without the mutex, so dispatch is two steps.  del_complete's epoll_ctl  *)
(* DEL, num_handles-- and eph_installed = 0 are one step: the only reader  *)
(* that could tell them apart is the dispatch check, which sees either     *)
(* the old or the new eph_installed.                                       *)
(***************************************************************************)
EXTENDS Naturals, FiniteSets

CONSTANTS
    Handle,     \* the epoll handles
    RefCb,      \* handles whose eph_ref_cb is set
    CbDel,      \* handles that a callback may delete (on the poll thread)
    OwnerDeletes, \* TRUE when owner threads call epoll_handle_del
    NumEvents,  \* epollMgrNumEvents
    None

ASSUME RefCb \subseteq Handle /\ CbDel \subseteq Handle /\ None \notin Handle
\* epoll_handle_del_complete asserts !eph_ref_cb on the poll thread, so a
\* callback deleting a ref-counted handle aborts; the model leaves it out.
ASSUME CbDel \cap RefCb = {}

VARIABLES
    opc,          \* owner thread: "idle" | "ctl" | "ctlOk" | "ctlErr" | "delComplete"
    installing,   \* eph_installing
    installed,    \* eph_installed
    destroying,   \* eph_destroying
    active,       \* epm_active_list
    destroyList,  \* epm_destroy_list
    inEpoll,      \* the kernel's interest list of epm_epfd
    numHandles,   \* epm_num_handles
    refs,         \* user references taken through eph_ref_cb
    ppc,          \* poll thread: "wait" | "dispatch"
    batch,        \* events returned by epoll_wait and not yet dispatched
    cur,          \* handle whose eph_installed was read as set, cb not yet called
    delReturned,  \* history: epoll_handle_del returned 0, not re-added since
    pollDeleted   \* history: deleted by a callback, not re-added since

vars == <<opc, installing, installed, destroying, active, destroyList, inEpoll,
          numHandles, refs, ppc, batch, cur, delReturned, pollDeleted>>

TypeOK ==
    /\ opc \in [Handle -> {"idle", "ctl", "ctlOk", "ctlErr", "delComplete"}]
    /\ installing \in [Handle -> BOOLEAN]
    /\ installed \in [Handle -> BOOLEAN]
    /\ destroying \in [Handle -> BOOLEAN]
    /\ active \subseteq Handle /\ destroyList \subseteq Handle
    /\ inEpoll \subseteq Handle
    /\ numHandles \in 0..Cardinality(Handle)
    /\ refs \in [Handle -> Nat]
    /\ ppc \in {"wait", "dispatch"}
    /\ batch \subseteq Handle
    /\ cur \in Handle \cup {None}
    /\ delReturned \subseteq Handle /\ pollDeleted \subseteq Handle

\* epoll_mgr_setup and epoll_handle_init: empty lists, no handle installed.
Init ==
    /\ opc = [h \in Handle |-> "idle"]
    /\ installing = [h \in Handle |-> FALSE]
    /\ installed = [h \in Handle |-> FALSE]
    /\ destroying = [h \in Handle |-> FALSE]
    /\ active = {} /\ destroyList = {} /\ inEpoll = {}
    /\ numHandles = 0
    /\ refs = [h \in Handle |-> 0]
    /\ ppc = "wait" /\ batch = {} /\ cur = None
    /\ delReturned = {} /\ pollDeleted = {}

-----------------------------------------------------------------------------
(* epoll_handle_add                                                        *)

\* The EALREADY check, the user ref taken in advance, and the first locked
\* section: insert into the active list with eph_installing set.
AddBegin(h) ==
    /\ opc[h] = "idle"
    /\ ~installed[h] /\ ~installing[h]
    /\ refs' = [refs EXCEPT ![h] = IF h \in RefCb THEN @ + 1 ELSE @]
    /\ active' = active \cup {h}
    /\ installing' = [installing EXCEPT ![h] = TRUE]
    /\ opc' = [opc EXCEPT ![h] = "ctl"]
    /\ delReturned' = delReturned \ {h}
    /\ pollDeleted' = pollDeleted \ {h}
    /\ UNCHANGED <<installed, destroying, destroyList, inEpoll, numHandles,
                   ppc, batch, cur>>

\* epoll_ctl(EPOLL_CTL_ADD) outside the mutex; it may fail.
AddCtl(h) ==
    /\ opc[h] = "ctl"
    /\ \/ /\ inEpoll' = inEpoll \cup {h}
          /\ opc' = [opc EXCEPT ![h] = "ctlOk"]
       \/ /\ opc' = [opc EXCEPT ![h] = "ctlErr"]
          /\ UNCHANGED inEpoll
    /\ UNCHANGED <<installing, installed, destroying, active, destroyList,
                   numHandles, refs, ppc, batch, cur, delReturned, pollDeleted>>

\* Mutant of AddEnd: num_handles is counted whatever epoll_ctl returned.
AddEndCountAlways(h) ==
    /\ opc[h] \in {"ctlOk", "ctlErr"}
    /\ installing' = [installing EXCEPT ![h] = FALSE]
    /\ numHandles' = numHandles + 1
    /\ IF opc[h] = "ctlOk"
          THEN /\ installed' = [installed EXCEPT ![h] = TRUE]
               /\ UNCHANGED <<active, refs>>
          ELSE /\ active' = active \ {h}
               /\ refs' = [refs EXCEPT ![h] = IF h \in RefCb THEN @ - 1 ELSE @]
               /\ UNCHANGED installed
    /\ opc' = [opc EXCEPT ![h] = "idle"]
    /\ UNCHANGED <<destroying, destroyList, inEpoll, ppc, batch, cur,
                   delReturned, pollDeleted>>

\* Mutant of AddEnd: the user ref is kept when epoll_ctl failed.
AddEndKeepRef(h) ==
    /\ opc[h] \in {"ctlOk", "ctlErr"}
    /\ installing' = [installing EXCEPT ![h] = FALSE]
    /\ IF opc[h] = "ctlOk"
          THEN /\ installed' = [installed EXCEPT ![h] = TRUE]
               /\ numHandles' = numHandles + 1
               /\ UNCHANGED active
          ELSE /\ active' = active \ {h}
               /\ UNCHANGED <<installed, numHandles>>
    /\ UNCHANGED refs
    /\ opc' = [opc EXCEPT ![h] = "idle"]
    /\ UNCHANGED <<destroying, destroyList, inEpoll, ppc, batch, cur,
                   delReturned, pollDeleted>>

\* The second locked section: clear eph_installing, then either remove
\* from the active list (and release the user ref) or count the handle.
AddEnd(h) ==
    /\ opc[h] \in {"ctlOk", "ctlErr"}
    /\ installing' = [installing EXCEPT ![h] = FALSE]
    /\ IF opc[h] = "ctlOk"
          THEN /\ installed' = [installed EXCEPT ![h] = TRUE]
               /\ numHandles' = numHandles + 1
               /\ UNCHANGED <<active, refs>>
          ELSE /\ active' = active \ {h}
               /\ refs' = [refs EXCEPT ![h] = IF h \in RefCb THEN @ - 1 ELSE @]
               /\ UNCHANGED <<installed, numHandles>>
    /\ opc' = [opc EXCEPT ![h] = "idle"]
    /\ UNCHANGED <<destroying, destroyList, inEpoll, ppc, batch, cur,
                   delReturned, pollDeleted>>

-----------------------------------------------------------------------------
(* epoll_handle_del and epoll_handle_del_complete                          *)

\* What epoll_handle_del_complete does once its EAGAIN check passes:
\* epoll_ctl(EPOLL_CTL_DEL), num_handles--, eph_installed = 0, and the user
\* ref released through eph_ref_cb.
Uninstall(h) ==
    /\ inEpoll' = inEpoll \ {h}
    /\ numHandles' = numHandles - 1
    /\ installed' = [installed EXCEPT ![h] = FALSE]
    /\ refs' = [refs EXCEPT ![h] = IF h \in RefCb THEN @ - 1 ELSE @]

\* epoll_handle_del on the owner thread.  EAGAIN when not installed and
\* ENOENT when not on the active list; otherwise the handle is marked
\* destroying and unlinked.  Without a ref callback it completes here;
\* with one it only signals the poll thread and returns 0.
OwnerDel(h) ==
    /\ OwnerDeletes
    /\ opc[h] = "idle"
    /\ installed[h] /\ h \in active
    /\ destroying' = [destroying EXCEPT ![h] = TRUE]
    /\ active' = active \ {h}
    /\ IF h \notin RefCb
          THEN /\ opc' = [opc EXCEPT ![h] = "delComplete"]
               /\ UNCHANGED delReturned
          ELSE /\ delReturned' = delReturned \cup {h}
               /\ UNCHANGED opc
    /\ UNCHANGED <<installing, installed, destroyList, inEpoll, numHandles,
                   refs, ppc, batch, cur, pollDeleted>>

\* Mutant of DelComplete: num_handles is not decremented.
DelCompleteNoCount(h) ==
    /\ opc[h] = "delComplete"
    /\ IF installed[h] /\ destroying[h]
          THEN /\ inEpoll' = inEpoll \ {h}
               /\ installed' = [installed EXCEPT ![h] = FALSE]
               /\ refs' = [refs EXCEPT ![h] = IF h \in RefCb THEN @ - 1 ELSE @]
               /\ UNCHANGED numHandles
          ELSE UNCHANGED <<inEpoll, numHandles, installed, refs>>
    /\ opc' = [opc EXCEPT ![h] = "idle"]
    /\ delReturned' = delReturned \cup {h}
    /\ UNCHANGED <<installing, destroying, active, destroyList, ppc, batch,
                   cur, pollDeleted>>

\* epoll_handle_del_complete called from epoll_handle_del on the owner
\* thread; epoll_handle_del then returns its rc (0).
DelComplete(h) ==
    /\ opc[h] = "delComplete"
    /\ IF installed[h] /\ destroying[h]
          THEN Uninstall(h)
          ELSE UNCHANGED <<inEpoll, numHandles, installed, refs>>
    /\ opc' = [opc EXCEPT ![h] = "idle"]
    /\ delReturned' = delReturned \cup {h}
    /\ UNCHANGED <<installing, destroying, active, destroyList, ppc, batch,
                   cur, pollDeleted>>

-----------------------------------------------------------------------------
(* epoll_mgr_wait_and_process_events on the poll thread                    *)

\* epoll_wait: up to MAX(1, MIN(epollMgrNumEvents, num_handles)) ready
\* handles of the interest list, or none on a timeout or signal.
Wait ==
    /\ ppc = "wait"
    /\ \E ev \in SUBSET inEpoll :
          /\ Cardinality(ev) <= IF numHandles < NumEvents
                                   THEN IF numHandles < 1 THEN 1 ELSE numHandles
                                   ELSE NumEvents
          /\ batch' = ev
    /\ ppc' = "dispatch"
    /\ UNCHANGED <<opc, installing, installed, destroying, active, destroyList,
                   inEpoll, numHandles, refs, cur, delReturned, pollDeleted>>

\* Mutant of Dispatch: eph_installed is not checked before the call.
DispatchNoCheck(h) ==
    /\ ppc = "dispatch" /\ cur = None
    /\ h \in batch
    /\ batch' = batch \ {h}
    /\ cur' = h
    /\ UNCHANGED <<opc, installing, installed, destroying, active, destroyList,
                   inEpoll, numHandles, refs, ppc, delReturned, pollDeleted>>

\* The next event of the batch: its eph_installed is read without the
\* mutex, and the callback is called only when it is set.
Dispatch(h) ==
    /\ ppc = "dispatch" /\ cur = None
    /\ h \in batch
    /\ batch' = batch \ {h}
    /\ cur' = IF installed[h] THEN h ELSE None
    /\ UNCHANGED <<opc, installing, installed, destroying, active, destroyList,
                   inEpoll, numHandles, refs, ppc, delReturned, pollDeleted>>

\* eph_cb runs and returns without touching the manager.
Callback ==
    /\ cur # None
    /\ cur' = None
    /\ UNCHANGED <<opc, installing, installed, destroying, active, destroyList,
                   inEpoll, numHandles, refs, ppc, batch, delReturned,
                   pollDeleted>>

\* eph_cb calls epoll_handle_del(g) on the poll thread: complete_here is
\* always set there, so a handle found on the active list is uninstalled
\* before the callback returns.
CallbackDel(g) ==
    /\ cur # None
    /\ cur' = None
    /\ IF installed[g] /\ g \in active
          THEN /\ destroying' = [destroying EXCEPT ![g] = TRUE]
               /\ active' = active \ {g}
               /\ Uninstall(g)
               /\ pollDeleted' = pollDeleted \cup {g}
          ELSE UNCHANGED <<destroying, active, inEpoll, numHandles, installed,
                           refs, pollDeleted>>
    /\ UNCHANGED <<opc, installing, destroyList, ppc, batch, delReturned>>

\* The batch is done: epoll_mgr_reap_destroy_list completes every handle
\* on the destroy list, then the loop calls epoll_wait again.
Reap ==
    /\ ppc = "dispatch" /\ batch = {} /\ cur = None
    /\ destroyList' = {}
    /\ LET done == {h \in destroyList : installed[h] /\ destroying[h]}
       IN /\ installed' = [h \in Handle |-> installed[h] /\ h \notin done]
          /\ inEpoll' = inEpoll \ done
          /\ numHandles' = numHandles - Cardinality(done)
          /\ refs' = [h \in Handle |->
                        IF h \in done \cap RefCb THEN refs[h] - 1 ELSE refs[h]]
    /\ ppc' = "wait"
    /\ UNCHANGED <<opc, installing, destroying, active, batch, cur,
                   delReturned, pollDeleted>>

Next ==
    \/ \E h \in Handle :
          \/ AddBegin(h) \/ AddCtl(h) \/ AddEnd(h)
          \/ OwnerDel(h) \/ DelComplete(h)
          \/ Dispatch(h)
    \/ Wait
    \/ Callback
    \/ \E g \in CbDel : CallbackDel(g)
    \/ Reap

\* The poll thread loops forever, and an owner thread that has entered
\* epoll_handle_add or epoll_handle_del runs it to the end.
Fairness ==
    /\ WF_vars(Wait) /\ WF_vars(Callback) /\ WF_vars(Reap)
    /\ \A h \in Handle : /\ WF_vars(Dispatch(h))
                         /\ WF_vars(AddCtl(h)) /\ WF_vars(AddEnd(h))
                         /\ WF_vars(DelComplete(h))

Spec == Init /\ [][Next]_vars /\ Fairness

-----------------------------------------------------------------------------
(* Properties.                                                             *)

\* epm_num_handles, which sizes the epoll_wait batch and is asserted
\* positive before every decrement, counts exactly the installed handles,
\* whatever the interleaving of adds, failed adds and deletes.
NumHandlesConsistent == numHandles = Cardinality({h \in Handle : installed[h]})

\* Between operations of its owner, a handle is in the kernel's interest
\* list exactly when eph_installed is set, and the user ref taken through
\* eph_ref_cb is held exactly while it is: a failed epoll_ctl gives the ref
\* back and a completed delete releases it.
EpollSetMatchesRefs ==
    \A h \in Handle : opc[h] = "idle" =>
        /\ (h \in inEpoll) = installed[h]
        /\ refs[h] = IF h \in RefCb /\ installed[h] THEN 1 ELSE 0

\* An event that epoll_wait returned for a handle that an earlier callback
\* of the same batch deleted is skipped: its callback does not run.
StaleEventSkipped == cur # None => cur \notin pollDeleted

\* Once epoll_handle_del has returned 0 on another thread, the handle's
\* callback does not run any more (its owner may then free it).
NoCallbackAfterDel == cur # None => cur \notin delReturned

\* A handle whose epoll_handle_del returned 0 is eventually taken out of the
\* epoll set and its user ref released, so that it can be freed or added
\* again.
DeletedHandleReleased ==
    \A h \in Handle : h \in delReturned ~> (~installed[h] /\ refs[h] = 0)

====
