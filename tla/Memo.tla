--------------------------------- MODULE Memo ---------------------------------
(*****************************************************************************)
(* What a cache filled on demand promises to those who look things up in it: *)
(* a lookup is one step; it returns the entry of its key, and makes that     *)
(* entry if there is none; an entry, once made, stays.                       *)
(*                                                                           *)
(* The breaker group of src/v1/resilience/breaker/breaker.go:343-360         *)
(* implements it with two locks per lookup (module Clients).                 *)
(*****************************************************************************)
CONSTANTS Users, Keys, Entries, None

VARIABLES
  table,  \* the entry of each key, or None
  wants,  \* per user: the key of the lookup it has begun, or None
  got     \* per user: what its last lookup returned, until it lets go of it

vars == <<table, wants, got>>

Init ==
  /\ table = [k \in Keys |-> None]
  /\ wants = [u \in Users |-> None]
  /\ got = [u \in Users |-> None]

Ask(u) ==
  /\ wants[u] = None
  /\ \E k \in Keys : wants' = [wants EXCEPT ![u] = k]
  /\ got' = [got EXCEPT ![u] = None]
  /\ UNCHANGED table

Answer(u) ==
  /\ wants[u] # None
  /\ \E e \in Entries :
       /\ table[wants[u]] \in {None, e}
       /\ table' = [table EXCEPT ![wants[u]] = e]
       /\ got' = [got EXCEPT ![u] = e]
  /\ wants' = [wants EXCEPT ![u] = None]

LetGo(u) ==
  /\ got' = [got EXCEPT ![u] = None]
  /\ UNCHANGED <<table, wants>>

Next == \E u \in Users : Ask(u) \/ Answer(u) \/ LetGo(u)

Spec == Init /\ [][Next]_vars
================================================================================
