----------------------------- MODULE MCRecords -------------------------------
(* A teacher (1) who chooses courses, a whiteboard (2) that counts and lists, *)
(* and a client of no room (4).                                               *)
EXTENDS Records

Q(op, kind) == [op |-> op, kind |-> kind]

Asks == [c \in {1, 2, 3, 4} |->
          CASE c = 1 -> {Q("set", "none"), Q("rows", "items"), Q("list", "none"), Q("keys", "none")}
            [] c = 2 -> {Q("count", "student"), Q("rows", "student"), Q("count", "items")}
            [] c = 4 -> {Q("rows", "items"), Q("teacher", "none"), Q("detail", "none")}
            [] OTHER -> {}]

FourOrThree == {<<1, 2, 3, 4>>, <<1, 2, 3>>}

Start == [course |-> <<>>, grade |-> <<>>, class |-> <<>>, classroom |-> <<>>,
          student |-> <<[id |-> 1, of |-> 1], [id |-> 2, of |-> 0]>>,
          items |-> <<[id |-> 1, of |-> 1], [id |-> 2, of |-> 5], [id |-> 3, of |-> 4]>>]
==============================================================================
