----------------------------- MODULE MC_EpollVbh -----------------------------
(* The epoll manager of MC_EpollMgr (two handles, their owner threads and  *)
(* the poll thread) beside the vblkdev handle registry: two threads that   *)
(* get, add and put one id, with three handle objects to allocate (two     *)
(* concurrent adds of the id and a re-add after the last put).             *)
EXTENDS EpollMgr

CONSTANTS h1, h2, t1, t2, i1, o1, o2, o3, NoObj

VARIABLES vbhTree, obj, vbhNumHandles, vbhInitialized, tpc, tid, held, dup,
          vbhAborted

MCHandle == {h1, h2}

VB == INSTANCE VblkdevHandle
        WITH Thread <- {t1, t2}, Id <- {i1}, Obj <- {o1, o2, o3}

vbhVars == <<vbhTree, obj, vbhNumHandles, vbhInitialized, tpc, tid, held, dup,
             vbhAborted>>

RuntimeInit == Init /\ VB!VbhInit

RuntimeNext ==
    \/ Next /\ UNCHANGED vbhVars
    \/ VB!VbhNext /\ UNCHANGED vars

RuntimeSpec == RuntimeInit /\ [][RuntimeNext]_<<vars, vbhVars>>

\* Type of the registry's state (vbh_ref, vbhNumHandles, the tree).
VbhTypeOK == VB!VbhTypeOK

\* vbh_lookup_locked only ever reaches live, referenced handles
\* (vbh_put's unlink and last reference drop share one locked section).
TreeHoldsLive == VB!TreeHoldsLive
====
