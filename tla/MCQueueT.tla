------------------------------ MODULE MCQueueT -------------------------------
(* Small instances of QueueT for TLC; the sets are given in the .cfg files. *)
EXTENDS QueueT
==============================================================================
