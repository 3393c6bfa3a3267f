------------------------------- MODULE MCSock --------------------------------
(* Small instances of Sock for TLC; the sets are given in the .cfg files. *)
EXTENDS Sock

\* One that fills the buffer, one of a head alone, one whose length cannot be;
\* and one that is too long for the buffer.
SomeMessages == [c \in Conns |-> IF c = 1 THEN <<1, 0, -1>> ELSE <<2>>]
OneMessage == [c \in Conns |-> <<1>>]
==============================================================================
