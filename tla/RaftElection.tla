---------------------------- MODULE RaftElection ----------------------------
(***************************************************************************)
(* Leader election of the niova raft server, src/src/raft.c.               *)
(*                                                                         *)
(* Each server is the single-threaded epoll loop of one raft process.  Its *)
(* in-memory copy of the log header (ri_log_hdr: rlh_term, rlh_voted_for)  *)
(* is `term` and `votedFor`; the header last written to the log file       *)
(* (pwrite + fsync in raft_server_entry_write) is `pTerm` and `pVotedFor`. *)
(* The two differ because raft_server_candidate_becomes_follower changes   *)
(* the term in memory only.  The two-slot layout of the persisted header   *)
(* is modelled separately in LogHeader.                                    *)
(*                                                                         *)
(* The network is UDP: `msgs` is a set of messages; handling a message     *)
(* does not remove it (duplication, reordering and delay); a lost message  *)
(* is one that is never handled, which for safety is the same as loss.  Timer expiries are nondeterministic, so any server may time out   *)
(* at any moment; the timer rearming itself is not state.  This version    *)
(* of the code replicates no entries: every append is a heartbeat, the     *)
(* application log of each server is the constant LastLog, and the append *)
(* reply is sent but never processed by the receiver.                      *)
(***************************************************************************)
EXTENDS Naturals, Integers, FiniteSets

CONSTANTS
    Server,     \* the raft peers of the configuration
    Nil,        \* the null uuid in rlh_voted_for
    MaxTerm,    \* bound on terms, so that elections stop
    LastLog,    \* [Server -> [idx, term]]: newest entry of each loaded log
    MaxRestarts \* bound on process restarts

Follower  == "follower"
Candidate == "candidate"
Leader    == "leader"

\* enum raft_vote_result
Unknown == "unknown"
Yes     == "yes"
No      == "no"

VARIABLES
    state,        \* ri_state
    term,         \* ri_log_hdr.rlh_term
    votedFor,     \* ri_log_hdr.rlh_voted_for
    pTerm,        \* rlh_term of the header on disk
    pVotedFor,    \* rlh_voted_for of the header on disk
    rcsTerm,      \* ri_candidate.rcs_term
    results,      \* ri_candidate.rcs_results
    leaderTerm,   \* ri_leader.rls_leader_term
    nextIdx,      \* ri_leader.rls_next_idx
    prevIdxTerm,  \* ri_leader.rls_prev_idx_term
    msgs,         \* UDP datagrams in flight
    restarts      \* number of restarts so far (bounded by MaxRestarts)

serverVars == <<state, term, votedFor, pTerm, pVotedFor>>
candVars   == <<rcsTerm, results>>
leaderVars == <<leaderTerm, nextIdx, prevIdxTerm>>
vars       == <<serverVars, candVars, leaderVars, msgs, restarts>>

Term == 0..MaxTerm
\* Log positions: -1 is the empty log; next_idx is at most one past the
\* newest entry of any loaded log.
Idx  == -1..(1 + CHOOSE i \in {LastLog[s].idx : s \in Server} :
                    \A s \in Server : LastLog[s].idx <= i)

VoteReqMsg   == [type : {"VoteReq"}, src : Server, dst : Server, term : Term,
                 lastLogTerm : Term, lastLogIdx : Idx]
VoteRepMsg   == [type : {"VoteRep"}, src : Server, dst : Server, term : Term,
                 granted : BOOLEAN]
AppendReqMsg == [type : {"AppendReq"}, src : Server, dst : Server, term : Term,
                 prevIdx : Idx, prevTerm : Term]
AppendRepMsg == [type : {"AppendRep"}, src : Server, dst : Server, term : Term,
                 stale : BOOLEAN]

TypeOK ==
    /\ state \in [Server -> {Follower, Candidate, Leader}]
    /\ term \in [Server -> Term]
    /\ votedFor \in [Server -> Server \cup {Nil}]
    /\ pTerm \in [Server -> Term]
    /\ pVotedFor \in [Server -> Server \cup {Nil}]
    /\ rcsTerm \in [Server -> Term]
    /\ results \in [Server -> [Server -> {Unknown, Yes, No}]]
    /\ leaderTerm \in [Server -> Term]
    /\ nextIdx \in [Server -> [Server -> Idx]]
    /\ prevIdxTerm \in [Server -> [Server -> Term]]
    /\ restarts \in 0..MaxRestarts
    /\ msgs \subseteq (VoteReqMsg \cup VoteRepMsg \cup AppendReqMsg \cup AppendRepMsg)

-----------------------------------------------------------------------------
(* Helpers, one per function of raft.c that they stand for.                *)

\* myRaft starts as a follower and raft_server_log_file_setup_init_header
\* writes both header slots with term 0 and the null uuid.
Init ==
    /\ state = [s \in Server |-> Follower]
    /\ term = [s \in Server |-> 0]
    /\ votedFor = [s \in Server |-> Nil]
    /\ pTerm = [s \in Server |-> 0]
    /\ pVotedFor = [s \in Server |-> Nil]
    /\ rcsTerm = [s \in Server |-> 0]
    /\ results = [s \in Server |-> [p \in Server |-> Unknown]]
    /\ leaderTerm = [s \in Server |-> 0]
    /\ nextIdx = [s \in Server |-> [p \in Server |-> 0]]
    /\ prevIdxTerm = [s \in Server |-> [p \in Server |-> 0]]
    /\ msgs = {}
    /\ restarts = 0

\* Mutant of VoteForSelf: the self vote updates ri_log_hdr but is not
\* synced to the log header.
VoteForSelfNoSync(s) ==
    /\ term' = [term EXCEPT ![s] = term[s] + 1]
    /\ votedFor' = [votedFor EXCEPT ![s] = s]
    /\ UNCHANGED <<pTerm, pVotedFor>>
    /\ results' = [results EXCEPT ![s] =
                      [p \in Server |-> IF p = s THEN Yes ELSE Unknown]]

\* raft_server_log_header_write: seqno++, term and voted_for set in
\* ri_log_hdr, then written synchronously to the log file.
LogHeaderWrite(s, cand, t) ==
    /\ term' = [term EXCEPT ![s] = t]
    /\ votedFor' = [votedFor EXCEPT ![s] = cand]
    /\ pTerm' = [pTerm EXCEPT ![s] = t]
    /\ pVotedFor' = [pVotedFor EXCEPT ![s] = cand]

\* raft_server_get_current_raft_entry_term and _index: the term and raft
\* index of ri_newest_entry_hdr, or 0 and -1 when that header is null.
CurrentEntryTerm(s) == LastLog[s].term

CurrentEntryIndex(s) == LastLog[s].idx

\* The vote table raft_server_init_candidate_state resets to UNKNOWN.
NoVotes == [p \in Server |-> Unknown]

\* raft_server_candidate_reg_vote_result: the voter's slot of the table
\* takes the result.  (Its -EINVAL/-ERANGE returns need a non-candidate
\* caller or a voter outside the config; its FATAL on rcs_term differing
\* from the header's term is CandidateStateConsistent.)
RegVoteResult(res, voter, granted) ==
    [res EXCEPT ![voter] = IF granted THEN Yes ELSE No]

\* raft_server_init_candidate_state: candidate state for the next term
\* (the vote table reset is NoVotes, applied by VoteForSelf's registration).
InitCandidateState(s) ==
    /\ state' = [state EXCEPT ![s] = Candidate]
    /\ rcsTerm' = [rcsTerm EXCEPT ![s] = term[s] + 1]

\* raft_server_vote_for_self: sync_vote_choice(self, term + 1), then the
\* own YES registered in the freshly reset vote table.
VoteForSelf(s) ==
    /\ LogHeaderWrite(s, s, term[s] + 1)
    /\ results' = [results EXCEPT ![s] = RegVoteResult(NoVotes, s, TRUE)]

\* raft_server_broadcast_msg: one datagram to every peer but this one.
Broadcast(s, m) == {[m EXCEPT !.dst = p] : p \in Server \ {s}}

\* Mutant of VoteRequestDecide: a proposal equal to the own term is granted.
VoteRequestDecideSameTerm(s, m) ==
    /\ m.term >= term[s]
    /\ m.lastLogTerm >= LastLog[s].term
    /\ m.lastLogIdx >= LastLog[s].idx

\* raft_server_process_vote_request_decide
VoteRequestDecide(s, m) ==
    /\ m.term > term[s]
    /\ m.lastLogTerm >= CurrentEntryTerm(s)
    /\ m.lastLogIdx >= CurrentEntryIndex(s)

\* raft_server_candidate_can_become_leader: YES votes in the table, after
\* the reply being handled was registered, reach a majority.
CanBecomeLeader(res) ==
    Cardinality({p \in Server : res[p] = Yes}) >= (Cardinality(Server) \div 2) + 1

-----------------------------------------------------------------------------
(* Actions.                                                                *)

\* raft_server_timerfd_cb in follower or candidate state:
\* raft_server_become_candidate (init_candidate_state, vote_for_self,
\* broadcast of the vote request).
BecomeCandidate(s) ==
    /\ state[s] \in {Follower, Candidate}
    /\ term[s] < MaxTerm
    /\ InitCandidateState(s)
    /\ VoteForSelf(s)
    /\ msgs' = msgs \cup
         Broadcast(s, [type |-> "VoteReq", src |-> s, dst |-> s,
                       term |-> term[s] + 1,
                       lastLogTerm |-> CurrentEntryTerm(s),
                       lastLogIdx |-> CurrentEntryIndex(s)])
    /\ UNCHANGED <<leaderVars, restarts>>

\* raft_server_timerfd_cb in leader state: raft_server_issue_heartbeat.
\* prev_log_index = next_idx - 1; the cached prev term is refreshed from
\* the log only when negative, which this code never sets.
IssueHeartbeat(s) ==
    /\ state[s] = Leader
    /\ msgs' = msgs \cup
         {[type |-> "AppendReq", src |-> s, dst |-> p, term |-> term[s],
           prevIdx |-> nextIdx[s][p] - 1,
           prevTerm |-> IF nextIdx[s][p] = 0 THEN 0 ELSE prevIdxTerm[s][p]]
            : p \in Server \ {s}}
    /\ UNCHANGED <<serverVars, candVars, leaderVars, restarts>>

\* Mutant of CandidateBecomesFollower: the term is recorded but ri_state is
\* left as it was.
CandidateBecomesFollowerKeepState(s, t) ==
    /\ state' = state
    /\ term' = [term EXCEPT ![s] = t]

\* raft_server_candidate_becomes_follower: the newer term is recorded in
\* ri_log_hdr only; it is not written to the log header.
CandidateBecomesFollower(s, t) ==
    /\ state' = [state EXCEPT ![s] = Follower]
    /\ term' = [term EXCEPT ![s] = t]

\* Mutant of LeaderInitState: next_idx set two past the newest entry.
LeaderInitStateNextOffByOne(s) ==
    /\ state' = [state EXCEPT ![s] = Leader]
    /\ leaderTerm' = [leaderTerm EXCEPT ![s] = term[s]]
    /\ nextIdx' = [nextIdx EXCEPT ![s] = [p \in Server |-> LastLog[s].idx + 2]]
    /\ prevIdxTerm' = [prevIdxTerm EXCEPT ![s] = [p \in Server |-> LastLog[s].term]]

\* raft_server_leader_init_state, called by
\* raft_server_candidate_becomes_leader.
LeaderInitState(s) ==
    /\ state' = [state EXCEPT ![s] = Leader]
    /\ leaderTerm' = [leaderTerm EXCEPT ![s] = term[s]]
    /\ nextIdx' = [nextIdx EXCEPT ![s] = [p \in Server |-> LastLog[s].idx + 1]]
    /\ prevIdxTerm' = [prevIdxTerm EXCEPT ![s] = [p \in Server |-> LastLog[s].term]]

\* Mutant of HandleVoteRequest: on a grant the server demotes itself in
\* memory and replies, without writing the log header.
HandleVoteRequestNoSync(s, m) ==
    /\ m.type = "VoteReq" /\ m.dst = s
    /\ LET grant == VoteRequestDecide(s, m)
       IN /\ IF grant
                THEN /\ CandidateBecomesFollower(s, m.term)
                     /\ votedFor' = [votedFor EXCEPT ![s] = m.src]
                     /\ UNCHANGED <<pTerm, pVotedFor>>
                ELSE UNCHANGED serverVars
          /\ msgs' = msgs \cup {[type |-> "VoteRep", src |-> s, dst |-> m.src,
                                 term |-> term[s], granted |-> grant]}
    /\ UNCHANGED <<candVars, leaderVars, restarts>>

\* raft_server_process_vote_request: the reply carries the term held before
\* the decision; on a grant the server becomes follower at the proposed
\* term and persists {proposed term, candidate} before replying.
HandleVoteRequest(s, m) ==
    /\ m.type = "VoteReq" /\ m.dst = s
    /\ LET grant == VoteRequestDecide(s, m)
       IN /\ IF grant
                THEN /\ state' = [state EXCEPT ![s] = Follower]
                     /\ LogHeaderWrite(s, m.src, m.term)
                ELSE UNCHANGED serverVars
          /\ msgs' = msgs \cup {[type |-> "VoteRep", src |-> s, dst |-> m.src,
                                 term |-> term[s], granted |-> grant]}
    /\ UNCHANGED <<candVars, leaderVars, restarts>>

\* raft_server_process_vote_reply: ignored unless a candidate; the result is
\* registered (raft_server_candidate_reg_vote_result) whatever term the
\* reply is from; a NO from a newer term demotes, a YES that completes a
\* majority promotes.
HandleVoteReply(s, m) ==
    /\ m.type = "VoteRep" /\ m.dst = s
    /\ state[s] = Candidate
    /\ LET res == RegVoteResult(results[s], m.src, m.granted)
       IN /\ results' = [results EXCEPT ![s] = res]
          /\ IF ~m.granted /\ term[s] < m.term
                THEN /\ CandidateBecomesFollower(s, m.term)
                     /\ UNCHANGED <<votedFor, pTerm, pVotedFor, leaderVars>>
             ELSE IF m.granted /\ CanBecomeLeader(res)
                THEN /\ LeaderInitState(s)
                     /\ UNCHANGED <<term, votedFor, pTerm, pVotedFor>>
             ELSE UNCHANGED <<serverVars, leaderVars>>
    /\ UNCHANGED <<rcsTerm, msgs, restarts>>

\* raft_server_process_append_entries_request (heartbeats only): a sender
\* with an older term gets a stale reply and the timer is not reset;
\* otherwise a candidate is demoted.  A follower or leader keeps its term
\* and state.  The reply is sent in both cases.
HandleAppendRequest(s, m) ==
    /\ m.type = "AppendReq" /\ m.dst = s
    /\ IF term[s] <= m.term /\ state[s] = Candidate
          THEN CandidateBecomesFollower(s, m.term)
          ELSE UNCHANGED <<state, term>>
    /\ UNCHANGED <<votedFor, pTerm, pVotedFor, candVars, leaderVars, msgs, restarts>>

\* The process stops and is started again: main() reloads the header
\* (raft_server_log_load -> raft_server_header_load); every other field of
\* the static myRaft starts zeroed, in follower state.
Restart(s) ==
    /\ restarts < MaxRestarts
    /\ state' = [state EXCEPT ![s] = Follower]
    /\ term' = [term EXCEPT ![s] = pTerm[s]]
    /\ votedFor' = [votedFor EXCEPT ![s] = pVotedFor[s]]
    /\ rcsTerm' = [rcsTerm EXCEPT ![s] = 0]
    /\ results' = [results EXCEPT ![s] = [p \in Server |-> Unknown]]
    /\ leaderTerm' = [leaderTerm EXCEPT ![s] = 0]
    /\ nextIdx' = [nextIdx EXCEPT ![s] = [p \in Server |-> 0]]
    /\ prevIdxTerm' = [prevIdxTerm EXCEPT ![s] = [p \in Server |-> 0]]
    /\ restarts' = restarts + 1
    /\ UNCHANGED <<pTerm, pVotedFor, msgs>>

\* raft_server_timerfd_cb: the timer expired (io_fd_drain succeeded);
\* follower and candidate become candidate, the leader sends heartbeats.
\* A failed drain only re-arms the timer.
TimerFired(s) == BecomeCandidate(s) \/ IssueHeartbeat(s)

Next ==
    \/ \E s \in Server : TimerFired(s) \/ Restart(s)
    \/ \E s \in Server, m \in msgs :
          \/ HandleVoteRequest(s, m)
          \/ HandleVoteReply(s, m)
          \/ HandleAppendRequest(s, m)

Spec == Init /\ [][Next]_vars

-----------------------------------------------------------------------------
(* Properties.                                                             *)

\* Raft election safety, spec "universal invariants": for any term T at
\* most one peer claims Leader with leader_term = T.  It depends on
\* raft_server_process_vote_reply counting only replies to the current
\* candidacy.
ElectionSafety ==
    \A s1, s2 \in Server :
        (s1 # s2 /\ state[s1] = Leader /\ state[s2] = Leader)
            => leaderTerm[s1] # leaderTerm[s2]

\* A leader holds its own persisted vote: raft_server_leader_init_state
\* takes rls_leader_term from ri_log_hdr, which vote_for_self has written
\* to disk as {term, self}, and nothing rewrites ri_log_hdr of a leader
\* without demoting it first.  So a leader's term is the term it voted for
\* itself in, is on disk, and a restart cannot hand it to another peer.
LeaderHoldsOwnVote ==
    \A s \in Server : state[s] = Leader =>
        /\ leaderTerm[s] = term[s]
        /\ pTerm[s] = term[s]
        /\ pVotedFor[s] = s

\* The vote table is that of the current candidacy: the FATAL_IF of
\* raft_server_candidate_reg_vote_result (rcs_term != rlh_term) and the
\* viability check of raft_server_candidate_becomes_leader never fire, and
\* a candidate's own YES is on disk.
CandidateStateConsistent ==
    \A s \in Server : state[s] = Candidate =>
        /\ rcsTerm[s] = term[s]
        /\ pTerm[s] = term[s]
        /\ pVotedFor[s] = s
        /\ results[s][s] = Yes

\* Persist before reply (spec invariant 5, raft_server_process_vote_request):
\* a granted vote reply is only ever in the network once the voter's log
\* header holds a term above the one the reply carries, so the voter,
\* restarted or not, cannot grant the same term again.
GrantPersistedBeforeReply ==
    \A m \in msgs : (m.type = "VoteRep" /\ m.granted) => pTerm[m.src] > m.term

\* The persisted header only moves forward: its term never decreases and,
\* within one term, rlh_voted_for never changes ("a granted vote is never
\* revoked without a term advance").  Covers raft_server_log_header_write
\* called from vote_for_self, from the vote-request handler, and restarts
\* that reload a header older than the in-memory one.
PersistedVoteStable ==
    [][\A s \in Server :
          /\ pTerm'[s] >= pTerm[s]
          /\ pTerm'[s] = pTerm[s] => pVotedFor'[s] = pVotedFor[s]]_vars

====
