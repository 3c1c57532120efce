------------------------------ MODULE MCObjects ------------------------------
(***************************************************************************)
(* What hangs on a Context: the linked lists of its objects and of the     *)
(* objects it notifies, and its hash maps. A behaviour is one of one part; *)
(* the others stay in their initial states.                                *)
(*   lists      ContextObjList: three objects, two levels                  *)
(*   notify     ContextNotify: three objects, two levels                   *)
(*   map        CDHashMap: two keys, two levels, keys obliterated anywhere *)
(*   chain      CDHashMap: another object in the same context, one level,  *)
(*              keys obliterated at level 0 only                           *)
(***************************************************************************)
EXTENDS ContextNotify, ContextObjList, TLC

CONSTANTS x1, x2, x3, k1, k2, o1

VARIABLES
  part,
  height, d_map, order, d_trash, elt, chain, others, wildWrite        \* CDHashMap

mapVars == <<height, d_map, order, d_trash, elt, chain, others, wildWrite>>

Map == INSTANCE CDHashMap WITH
  Key <- {k1, k2}, Data <- {0, 1}, DefaultData <- 0, None <- Null, Element <- Obj,
  Others <- {}, ObliterateAny <- TRUE, level <- height, wild <- wildWrite
Chain == INSTANCE CDHashMap WITH
  Key <- {k1, k2}, Data <- {0, 1}, DefaultData <- 0, None <- Null, Element <- Obj,
  Others <- {o1}, MaxLevel <- 1, ObliterateAny <- FALSE, level <- height, wild <- wildWrite

ASSUME ContextNotifyAssumption /\ Map!MapAssumption /\ Chain!MapAssumption

ObjectsInit ==
  /\ part \in {"lists", "notify", "map", "chain"}
  /\ Init /\ NotifyInit
  /\ IF part = "chain" THEN Chain!Init ELSE Map!Init

\* Bound: three objects below one push, or two objects below two.
FewObjects == level' + Cardinality({o \in Obj : storage'[o] # "none"}) <= 4

ObjectsNext ==
  \/ part = "lists" /\ Next /\ FewObjects /\ UNCHANGED <<part, notifyVars, mapVars>>
  \/ part = "notify" /\ NotifyNext /\ UNCHANGED <<part, vars, mapVars>>
  \/ /\ (part = "map" /\ Map!Next) \/ (part = "chain" /\ Chain!Next)
     /\ UNCHANGED <<part, vars, notifyVars>>

ObjectsSpec == ObjectsInit /\ [][ObjectsNext]_<<part, vars, notifyVars, mapVars>>

Symmetry == Permutations({x1, x2, x3}) \cup Permutations({k1, k2})
-----------------------------------------------------------------------------
\* A CDHashMap is a map that backtracks.
ImplementsMap == Map!ImplementsMap
\* Its table, its lists and its trash agree (cdhashmap.h).
MapSound == IF part = "chain" THEN Chain!MapSound ELSE Map!MapSound
=============================================================================
