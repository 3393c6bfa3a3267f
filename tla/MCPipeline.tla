----------------------------- MODULE MCPipeline ------------------------------
(* Small instances of Pipeline for TLC; the sets are given in the .cfg files. *)
EXTENDS Pipeline, TLC

Symmetry == Permutations(Bufs)

\* How many messages each connection sends.
OnlyFirst == <<2, 0, 0>>
TwoThenOne == <<2, 1>>

\* Class is on: two clients have connected and entered the room, and their
\* messages are dealt with.  The third connection is still to come.
InClass ==
  /\ up = TRUE
  /\ pool \in FullPool
  /\ recvqueue = <<>> /\ sendqueue = <<>>
  /\ evloop = EvIdle /\ recvtask = RecvIdle /\ sendtask = SendIdle
  /\ m_fd = [b \in Bufs |-> 0]
  /\ frame = [b \in Bufs |-> Blank]
  /\ lost = {}
  /\ conn = [fd \in Fds |-> fd]
  /\ accepted = 2
  /\ gone = {}
  /\ got = [c \in Conns |-> 0]
  /\ roster = Fds
  /\ last = [c \in Conns |-> NoPiece]
  /\ newest = [c \in Conns |-> [src \in Conns |-> NoPiece]]

InClassSpec == InClass /\ [][Next]_vars
==============================================================================
