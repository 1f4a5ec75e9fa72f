---------------------------- MODULE MCWorkQueue -----------------------------
(***************************************************************************)
(* A small instance of WorkQueue: four keys, one of which can be queued as *)
(* two different items (the same URL found at two depths).                 *)
(***************************************************************************)
EXTENDS WorkQueue

MCItems ==
  {[key |-> "root", depth |-> 0], [key |-> "page", depth |-> 1],
   [key |-> "page", depth |-> 2], [key |-> "deep", depth |-> 2],
   [key |-> "leaf", depth |-> 3]}
MCKeys == {"root", "page", "deep", "leaf"}
MCKeyOf == [item \in MCItems |-> item.key]
MCStart == [key |-> "root", depth |-> 0]

=============================================================================
