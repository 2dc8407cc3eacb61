-------------------------------- MODULE MCHops --------------------------------
(* A client, a service it calls, one that this one calls, and a third.  The  *)
(* client and, on its first attempt, the first service try twice.  A node is *)
(* the sequence of the attempts that led to it.                              *)
EXTENDS Hops, Sequences

MCRoot == <<>>
MCNodes == {<<>>, <<0>>, <<1>>, <<0, 0>>, <<0, 1>>, <<0, 1, 0>>}
MCChild ==
  [n \in MCNodes |-> [a \in Attempts |->
     IF Append(n, a) \in MCNodes THEN Append(n, a) ELSE None]]

\* The inner services allow themselves more time than the outer one.
MCTimeout == [n \in MCNodes |-> IF Len(n) > 1 THEN 5 ELSE 4]
MCDeadlines == {None, 3, 5}
================================================================================
