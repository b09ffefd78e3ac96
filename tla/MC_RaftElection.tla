--------------------------- MODULE MC_RaftElection --------------------------
(* Model-checking instance of RaftElection.  Every peer's newest entry     *)
(* header is the null one (index -1, term 0): the only one raft.c can      *)
(* run with, since no caller writes an entry, raft_server_entries_scan     *)
(* rejects (EBADSLT) the reh_index raft_server_entry_init would store, and *)
(* a loaded non-null entry header fails the assertion of                   *)
(* raft_server_entry_header_is_null.                                       *)
EXTENDS RaftElection, TLC

CONSTANTS s1, s2, s3

MCServer == {s1, s2, s3}

\* ri_newest_entry_hdr as raft_server_entries_scan memsets it.
NullEntry == [idx |-> -1, term |-> 0]

EmptyLastLog == [s \in MCServer |-> NullEntry]

MCSymmetry == Permutations(MCServer)

\* Two peers, for the runs with restarts and more terms.
MCServer2 == {s1, s2}

EmptyLastLog2 == [s \in MCServer2 |-> NullEntry]
====
