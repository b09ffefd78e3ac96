---------------------------- MODULE MC_RaftClient ----------------------------
(* Bounds for RaftClient: two submits of the same key, so that a reply of  *)
(* the first request can reach the second; one cancel; two replies per     *)
(* request, so that a retried request is answered twice.  Two peers, so   *)
(* that the ping target and the leader can differ; viability after two    *)
(* good pings (NpingsUntilViable = 1) and two pings in all, so that the   *)
(* first reply can fall below the threshold or be reset by the second.    *)
EXTENDS RaftClient, TLC

CONSTANTS p1, p2

MCPeer == {p1, p2}
MCSymmetry == Permutations(MCPeer)
====
