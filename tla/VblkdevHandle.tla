---------------------------- MODULE VblkdevHandle ----------------------------
(***************************************************************************)
(* The virtual block device handle registry of src/src/vblkdev_handle.c:  *)
(* a red-black tree of handles keyed by id, under vbhSubsysLock, each     *)
(* handle reference counted (vbh_ref), and the count vbhNumHandles.       *)
(*                                                                         *)
(* Threads call vbh_get(id, add) and later vbh_put on what it returned.   *)
(* vbh_get looks the id up under the lock, drops the lock, and on a miss  *)
(* calls vbh_add, which allocates and initialises a handle outside the    *)
(* lock and inserts it under the lock; a second thread can insert the     *)
(* same id in between.  vbh_put drops the reference under the lock and,   *)
(* at zero, removes the handle from the tree and destroys it after the    *)
(* unlock.  A handle is one of the objects Obj; a freed object keeps its  *)
(* fields (a later use reads them) and is not handed out again.           *)
(* NIOVA_ASSERT failures set vbhAborted, after which nothing runs.        *)
(***************************************************************************)
EXTENDS Integers, FiniteSets

CONSTANTS
    Thread,     \* callers of vbh_get / vbh_put
    Id,         \* vblkdev ids
    Obj,        \* the handle objects niova_malloc can return
    NoObj       \* NULL

VARIABLES
    vbhTree,         \* id -> the handle in vbhTree, or NoObj
    obj,             \* per object: st ("unused"|"init"|"live"|"freed"), id, ref
    vbhNumHandles,   \* vbhNumHandles
    vbhInitialized,  \* vbhInitialized
    tpc,             \* per thread: where it is in vbh_get / vbh_put
    tid,             \* per thread: the id passed to vbh_get
    held,            \* per thread: the handle it got (or is adding)
    dup,             \* per thread: vbh_already of vbh_add
    vbhAborted       \* a NIOVA_ASSERT failed

vbhVars == <<vbhTree, obj, vbhNumHandles, vbhInitialized, tpc, tid, held, dup,
             vbhAborted>>

ThreadPc == {"idle", "adding", "inserting", "dupfree", "holding", "destroying"}

VbhTypeOK ==
    /\ vbhTree \in [Id -> Obj \cup {NoObj}]
    /\ obj \in [Obj -> [st : {"unused", "init", "live", "freed"}, id : Id,
                        ref : -1..Cardinality(Thread)]]
    /\ vbhNumHandles \in 0..Cardinality(Obj)
    /\ vbhInitialized \in BOOLEAN
    /\ tpc \in [Thread -> ThreadPc]
    /\ tid \in [Thread -> Id]
    /\ held \in [Thread -> Obj \cup {NoObj}]
    /\ dup \in [Thread -> Obj \cup {NoObj}]
    /\ vbhAborted \in BOOLEAN

AnyId == CHOOSE i \in Id : TRUE

\* vbh_subsystem_init has run; no thread is inside the registry.
VbhInit ==
    /\ vbhTree = [i \in Id |-> NoObj]
    /\ obj = [o \in Obj |-> [st |-> "unused", id |-> AnyId, ref |-> 0]]
    /\ vbhNumHandles = 0
    /\ vbhInitialized = TRUE
    /\ tpc = [t \in Thread |-> "idle"]
    /\ tid = [t \in Thread |-> AnyId]
    /\ held = [t \in Thread |-> NoObj]
    /\ dup = [t \in Thread |-> NoObj]
    /\ vbhAborted = FALSE

Running == vbhInitialized /\ ~vbhAborted

\* vbh_get's locked vbh_lookup_locked: a hit asserts vbh_ref > 0 and
\* takes a reference; a miss with add set goes on to vbh_add.  (A miss
\* without add returns NULL and changes nothing.)
Get(t, i) ==
    /\ Running
    /\ tpc[t] = "idle"
    /\ tid' = [tid EXCEPT ![t] = i]
    /\ LET o == vbhTree[i] IN
       IF o # NoObj
       THEN IF obj[o].ref > 0
            THEN /\ obj' = [obj EXCEPT ![o].ref = @ + 1]
                 /\ held' = [held EXCEPT ![t] = o]
                 /\ tpc' = [tpc EXCEPT ![t] = "holding"]
                 /\ UNCHANGED vbhAborted
            ELSE /\ vbhAborted' = TRUE
                 /\ UNCHANGED <<obj, held, tpc>>
       ELSE /\ tpc' = [tpc EXCEPT ![t] = "adding"]
            /\ UNCHANGED <<obj, held, vbhAborted>>
    /\ UNCHANGED <<vbhTree, vbhNumHandles, vbhInitialized, dup>>

\* vbh_add: vbh_new and vbh_init outside the lock (vbh_ref = 0).
AddAlloc(t) ==
    /\ Running
    /\ tpc[t] = "adding"
    /\ \E o \in Obj :
          /\ obj[o].st = "unused"
          /\ obj' = [obj EXCEPT ![o] = [st |-> "init", id |-> tid[t], ref |-> 0]]
          /\ held' = [held EXCEPT ![t] = o]
    /\ tpc' = [tpc EXCEPT ![t] = "inserting"]
    /\ UNCHANGED <<vbhTree, vbhNumHandles, vbhInitialized, tid, dup, vbhAborted>>

\* niova_malloc fails: vbh_add and vbh_get return NULL.
AddNoMem(t) ==
    /\ Running
    /\ tpc[t] = "adding"
    /\ tpc' = [tpc EXCEPT ![t] = "idle"]
    /\ UNCHANGED <<vbhTree, obj, vbhNumHandles, vbhInitialized, tid, held, dup,
                   vbhAborted>>

\* vbh_add's locked section: RB_INSERT, vbh_ref = 1 when it went in, and
\* vbh_num_handles_inc in either case.
AddInsert(t) ==
    /\ Running
    /\ tpc[t] = "inserting"
    /\ LET o == held[t]
           already == vbhTree[tid[t]]
       IN /\ IF already = NoObj
                THEN /\ vbhTree' = [vbhTree EXCEPT ![tid[t]] = o]
                     /\ obj' = [obj EXCEPT ![o].st = "live", ![o].ref = 1]
                     /\ tpc' = [tpc EXCEPT ![t] = "holding"]
                ELSE /\ tpc' = [tpc EXCEPT ![t] = "dupfree"]
                     /\ UNCHANGED <<vbhTree, obj>>
          /\ dup' = [dup EXCEPT ![t] = already]
    /\ vbhNumHandles' = vbhNumHandles + 1
    /\ UNCHANGED <<vbhInitialized, tid, held, vbhAborted>>

\* vbh_add after the unlock, when the id was already there: vbh_destroy
\* of the new handle (vbh_ref is 0), and vbh_already is returned.
AddDupFree(t) ==
    /\ Running
    /\ tpc[t] = "dupfree"
    /\ obj' = [obj EXCEPT ![held[t]].st = "freed"]
    /\ held' = [held EXCEPT ![t] = dup[t]]
    /\ tpc' = [tpc EXCEPT ![t] = "holding"]
    /\ UNCHANGED <<vbhTree, vbhNumHandles, vbhInitialized, tid, dup, vbhAborted>>

\* Mutant of Put: vbh_num_handles_dec on every put, not only at zero.
PutDecAlways(t) ==
    /\ Running
    /\ tpc[t] = "holding"
    /\ obj' = [obj EXCEPT ![held[t]].ref = @ - 1]
    /\ vbhNumHandles' = vbhNumHandles - 1
    /\ tpc' = [tpc EXCEPT ![t] = "idle"]
    /\ UNCHANGED <<vbhTree, vbhInitialized, tid, held, dup, vbhAborted>>

\* Mutant of Put: the handle is destroyed at zero without RB_REMOVE.
PutNoRemove(t) ==
    /\ Running
    /\ tpc[t] = "holding"
    /\ LET o == held[t] IN
       IF obj[o].ref - 1 < 0
       THEN /\ vbhAborted' = TRUE
            /\ UNCHANGED <<vbhTree, obj, vbhNumHandles, tpc>>
       ELSE /\ obj' = [obj EXCEPT ![o].ref = @ - 1]
            /\ tpc' = [tpc EXCEPT ![t] = IF obj[o].ref = 1 THEN "destroying" ELSE "idle"]
            /\ UNCHANGED <<vbhTree, vbhNumHandles, vbhAborted>>
    /\ UNCHANGED <<vbhInitialized, tid, held, dup>>

\* vbh_put's locked section: vbh_ref-- and its assert; at zero RB_REMOVE,
\* whose result must be the handle itself (a handle that is not in the
\* tree fails the assert: RB_REMOVE of a node not linked in is undefined),
\* and vbh_num_handles_dec with its assert.
Put(t) ==
    /\ Running
    /\ tpc[t] = "holding"
    /\ LET o == held[t]
           i == obj[o].id
       IN CASE obj[o].ref - 1 < 0 ->
                 /\ vbhAborted' = TRUE
                 /\ UNCHANGED <<vbhTree, obj, vbhNumHandles, tpc>>
            [] obj[o].ref = 1 /\ (vbhTree[i] # o \/ vbhNumHandles = 0) ->
                 /\ vbhAborted' = TRUE
                 /\ UNCHANGED <<vbhTree, obj, vbhNumHandles, tpc>>
            [] obj[o].ref = 1 ->
                 /\ obj' = [obj EXCEPT ![o].ref = 0]
                 /\ vbhTree' = [vbhTree EXCEPT ![i] = NoObj]
                 /\ vbhNumHandles' = vbhNumHandles - 1
                 /\ tpc' = [tpc EXCEPT ![t] = "destroying"]
                 /\ UNCHANGED vbhAborted
            [] OTHER ->
                 /\ obj' = [obj EXCEPT ![o].ref = @ - 1]
                 /\ tpc' = [tpc EXCEPT ![t] = "idle"]
                 /\ UNCHANGED <<vbhTree, vbhNumHandles, vbhAborted>>
    /\ UNCHANGED <<vbhInitialized, tid, held, dup>>

\* vbh_put after the unlock: vbh_destroy asserts vbh_ref == 0 and frees.
Destroy(t) ==
    /\ Running
    /\ tpc[t] = "destroying"
    /\ IF obj[held[t]].ref = 0
          THEN /\ obj' = [obj EXCEPT ![held[t]].st = "freed"]
               /\ UNCHANGED vbhAborted
          ELSE /\ vbhAborted' = TRUE
               /\ UNCHANGED obj
    /\ tpc' = [tpc EXCEPT ![t] = "idle"]
    /\ held' = [held EXCEPT ![t] = NoObj]
    /\ UNCHANGED <<vbhTree, vbhNumHandles, vbhInitialized, tid, dup>>

\* vbh_subsystem_destroy, once no thread is in the registry: it asserts
\* that vbhNumHandles is zero.
SubsystemDestroy ==
    /\ Running
    /\ \A t \in Thread : tpc[t] = "idle"
    /\ IF vbhNumHandles = 0
          THEN /\ vbhInitialized' = FALSE
               /\ UNCHANGED vbhAborted
          ELSE /\ vbhAborted' = TRUE
               /\ UNCHANGED vbhInitialized
    /\ UNCHANGED <<vbhTree, obj, vbhNumHandles, tpc, tid, held, dup>>

VbhNext ==
    \/ \E t \in Thread, i \in Id : Get(t, i)
    \/ \E t \in Thread : AddAlloc(t) \/ AddNoMem(t) \/ AddInsert(t)
                         \/ AddDupFree(t) \/ Put(t) \/ Destroy(t)
    \/ SubsystemDestroy

VbhSpec == VbhInit /\ [][VbhNext]_vbhVars

-----------------------------------------------------------------------------
(* Properties.                                                             *)

\* Every handle a lookup can reach is live and holds a reference: vbh_put
\* unlinks a handle in the same locked section that drops its last
\* reference, and frees it only after that, so vbh_lookup_locked never
\* finds a handle with vbh_ref == 0 or one that was freed, whatever the
\* interleaving of gets, concurrent adds of one id and puts.
TreeHoldsLive ==
    \A i \in Id : vbhTree[i] # NoObj =>
        LET o == vbhTree[i] IN
            /\ obj[o].st = "live"
            /\ obj[o].id = i
            /\ obj[o].ref > 0

====
