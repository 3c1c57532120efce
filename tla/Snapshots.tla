------------------------------ MODULE Snapshots ------------------------------
(***************************************************************************)
(* What the context promises its clients (the class comments of            *)
(* src/context/context.h): a store of context-dependent objects with a     *)
(* stack of saved states.  Push saves the state, Pop brings back exactly   *)
(* the state saved by the matching Push, whatever happened in between.     *)
(*                                                                         *)
(* An object constructed after some pushes did not exist when the older    *)
(* states were saved.  The store then behaves as if an ordinary object had *)
(* held the value of T() in all of them, and as if an object living in     *)
(* context memory had been absent from all of them.                        *)
(***************************************************************************)
EXTENDS Naturals

CONSTANTS
  Obj,        \* identities of context-dependent objects
  Val,        \* values an object can hold
  Default,    \* the value of T()
  Absent,     \* stands for "there is no such object"
  MaxLevel    \* bound on the number of outstanding pushes

VARIABLES
  level,      \* number of outstanding pushes
  state       \* state[l] is the store at level l; state[level] is the live one

svars == <<level, state>>

Nothing == [o \in Obj |-> Absent]

SInit ==
  /\ level = 0
  /\ state = [l \in 0..MaxLevel |-> Nothing]

\* Levels above the current one hold no state.
Cut(st, n) == [l \in 0..MaxLevel |-> IF l <= n THEN st[l] ELSE Nothing]

Push ==
  /\ level < MaxLevel
  /\ level' = level + 1
  /\ state' = [state EXCEPT ![level + 1] = state[level]]

Pop ==
  /\ level > 0
  /\ level' = level - 1
  /\ state' = Cut(state, level - 1)

Write(o, v) ==
  /\ state[level][o] # Absent
  /\ state' = [state EXCEPT ![level] = [state[level] EXCEPT ![o] = v]]
  /\ UNCHANGED level

\* A new object holding v; the older states see `past' in its place.
Create(o, past, v) ==
  /\ \A l \in 0..level : state[l][o] = Absent
  /\ state' = [l \in 0..MaxLevel |->
                 IF l < level THEN [state[l] EXCEPT ![o] = past]
                 ELSE IF l = level THEN [state[l] EXCEPT ![o] = v]
                 ELSE state[l]]
  /\ UNCHANGED level

\* Destruction is not undone by a later pop.
Delete(o) ==
  /\ state[level][o] # Absent
  /\ state' = [l \in 0..MaxLevel |-> [state[l] EXCEPT ![o] = Absent]]
  /\ UNCHANGED level

SNext ==
  \/ Push
  \/ Pop
  \/ \E o \in Obj :
        \/ Delete(o)
        \/ \E v \in Val :
              \/ Write(o, v)
              \/ \E past \in {Default, Absent} : Create(o, past, v)

SSpec == SInit /\ [][SNext]_svars
=============================================================================
