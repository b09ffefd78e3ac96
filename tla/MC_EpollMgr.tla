----------------------------- MODULE MC_EpollMgr -----------------------------
(* Two handles, each with its own owner thread, and the poll thread.  Two  *)
(* handles give a batch of two events, where the first callback deletes   *)
(* the second handle.                                                      *)
EXTENDS EpollMgr

CONSTANTS h1, h2

MCHandle == {h1, h2}
====
