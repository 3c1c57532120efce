-------------------------- MODULE BacktrackableMap --------------------------
(***************************************************************************)
(* What a context-dependent map promises its clients: the bindings made at *)
(* a level are gone when that level is popped.  Two operations do not      *)
(* backtrack: an insertion "at level zero" is a binding at all levels, and *)
(* a removal removes at all levels.                                        *)
(***************************************************************************)
EXTENDS Naturals

CONSTANTS Key, Data, None, MaxLevel

VARIABLES level, \* number of outstanding pushes
          map    \* map[l]: the map as it is seen at level l

NothingBound == [k \in Key |-> None]

Init == level = 0 /\ map = [l \in 0..MaxLevel |-> NothingBound]

Push == /\ level < MaxLevel /\ level' = level + 1
        /\ map' = [map EXCEPT ![level + 1] = map[level]]

Pop == /\ level > 0 /\ level' = level - 1
       /\ map' = [map EXCEPT ![level] = NothingBound]

Insert(k, d) == /\ map' = [map EXCEPT ![level][k] = d]
                /\ UNCHANGED level

InsertAtLevelZero(k, d) ==
  /\ map[level][k] = None
  /\ map' = [l \in 0..MaxLevel |-> IF l <= level THEN [map[l] EXCEPT ![k] = d] ELSE map[l]]
  /\ UNCHANGED level

Remove(K) ==
  /\ map' = [l \in 0..MaxLevel |-> [k \in Key |-> IF k \in K THEN None ELSE map[l][k]]]
  /\ UNCHANGED level

Next == \/ Push \/ Pop
        \/ \E k \in Key, d \in Data : Insert(k, d) \/ InsertAtLevelZero(k, d)
        \/ \E K \in SUBSET Key : Remove(K)

Spec == Init /\ [][Next]_<<level, map>>
=============================================================================
