--------------------------- MODULE AbstractHeader ---------------------------
(***************************************************************************)
(* What the raft log header promises its user (the vote and term logic of  *)
(* raft.c): one durable record {term, voted_for}, created once when the    *)
(* log is new, replaced atomically by each header write, and never moved   *)
(* back: a write either raises the term or rewrites the same vote.  The    *)
(* process holding it may stop at any time and is started again.           *)
(***************************************************************************)
EXTENDS Naturals

CONSTANTS Voter, Nil

VARIABLES created, disk, running

avars == <<created, disk, running>>

Header == [term : Nat, votedFor : Voter \cup {Nil}]

AInit ==
    /\ created = FALSE
    /\ disk = [term |-> 0, votedFor |-> Nil]
    /\ running = FALSE

AStart ==
    /\ ~running
    /\ running' = TRUE
    /\ UNCHANGED <<created, disk>>

\* A new log gets the header {0, null uuid}.
ACreate ==
    /\ running
    /\ ~created
    /\ created' = TRUE
    /\ disk' = [term |-> 0, votedFor |-> Nil]
    /\ UNCHANGED running

\* A vote: a header of a higher term replaces the old one.  (Rewriting the
\* vote already held leaves the record as it is.)
AWrite ==
    /\ running
    /\ created
    /\ disk' \in Header
    /\ disk'.term > disk.term
    /\ UNCHANGED <<created, running>>

AStop ==
    /\ running
    /\ running' = FALSE
    /\ UNCHANGED <<created, disk>>

ANext ==
    \/ AStart \/ ACreate \/ AStop \/ AWrite

ASpec == AInit /\ [][ANext]_avars

\* A stopped server is started again by its supervisor and a new log gets
\* its header: the server is not kept down for good.
ALiveSpec == ASpec /\ WF_avars(AStart) /\ WF_avars(ACreate)
====
