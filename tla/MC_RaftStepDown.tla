-------------------------- MODULE MC_RaftStepDown ---------------------------
(* RaftElection with a history variable `heard`: the newest term of an     *)
(* append request each server has handled.  The history is only written   *)
(* by the append handler and leaves the behaviour of RaftElection as it is. *)
(* Restarts are excluded by the configuration (MaxRestarts = 0), so the    *)
(* history never has to forget.                                            *)
EXTENDS MC_RaftElection

VARIABLE heard

hvars == <<vars, heard>>

InitH ==
    /\ Init
    /\ heard = [s \in Server |-> 0]

NextH ==
    \/ \E s \in Server, m \in msgs :
          /\ HandleAppendRequest(s, m)
          /\ heard' = [heard EXCEPT ![s] = IF m.term > @ THEN m.term ELSE @]
    \/ Next /\ UNCHANGED heard

SpecH == InitH /\ [][NextH]_hvars

\* Spec, leader transition "sees any RPC with term > own -> F" and scenario
\* 2: a leader that has handled a heartbeat of a newer term
\* (raft_server_process_append_entries_request) is no longer leading in
\* its old term.
StaleLeaderStepsDown ==
    \A s \in Server : state[s] = Leader => leaderTerm[s] >= heard[s]
====
