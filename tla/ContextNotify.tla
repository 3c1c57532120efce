---------------------------- MODULE ContextNotify ----------------------------
(***************************************************************************)
(* The objects that a Context notifies of a pop (context/context.cpp):     *)
(* two doubly linked lists, walked before and after the top scope is       *)
(* restored.  A callback may create objects and may delete its own object; *)
(* objects outlive the context or not.                                     *)
(*                                                                         *)
(* d_ppCNOprev points to a field: the d_pCNOnext of an object, named by    *)
(* the object, or the head of a list in the Context, named by the list.    *)
(***************************************************************************)
EXTENDS Naturals

CONSTANTS NotifyObj, NULL, MaxPushes

Lists == {"pre", "post"}

ContextNotifyAssumption ==
  NULL \notin NotifyObj \cup Lists /\ NotifyObj \cap Lists = {} /\ MaxPushes \in Nat

VARIABLES
  d_pCNO,     \* d_pCNOpre and d_pCNOpost
  next, prev, \* d_pCNOnext and d_ppCNOprev of the objects
  alive,      \* the objects that exist
  list,       \* the list each object was put in
  pushes,     \* getLevel()
  walking,    \* "idle", or the list that pop() is walking
  pCNO, stored, \* the object to be notified, and its next pointer
  inCallback,
  context,    \* "alive", "closing" in ~Context, or "gone"
  due, told,  \* of this pop: who has been there from the start; how often each was notified
  wild        \* freed memory has been used

notifyVars ==
  <<d_pCNO, next, prev, alive, list, pushes, walking, pCNO, stored, inCallback, context, due,
    told, wild>>
links == <<d_pCNO, next, prev>>
walk  == <<walking, pCNO, stored, inCallback>>

TypeOK ==
  /\ d_pCNO \in [Lists -> NotifyObj \cup {NULL}] /\ next \in [NotifyObj -> NotifyObj \cup {NULL}]
  /\ prev \in [NotifyObj -> NotifyObj \cup Lists \cup {NULL}]
  /\ alive \subseteq NotifyObj /\ list \in [NotifyObj -> Lists]
  /\ pushes \in 0 .. MaxPushes /\ walking \in Lists \cup {"idle"}
  /\ {pCNO, stored} \subseteq NotifyObj \cup {NULL}
  /\ inCallback \in BOOLEAN /\ context \in {"alive", "closing", "gone"}
  /\ due \subseteq alive /\ told \in [NotifyObj -> 0 .. 2] /\ wild \in BOOLEAN

NotifyInit ==
  /\ d_pCNO = [l \in Lists |-> NULL] /\ next = [o \in NotifyObj |-> NULL]
  /\ prev = [o \in NotifyObj |-> NULL]
  /\ alive = {} /\ list = [o \in NotifyObj |-> "pre"] /\ pushes = 0
  /\ walking = "idle" /\ pCNO = NULL /\ stored = NULL /\ inCallback = FALSE /\ context = "alive"
  /\ due = {} /\ told = [o \in NotifyObj |-> 0] /\ wild = FALSE

\* What clients do happens between the operations of the context or in a callback.
ClientRuns == (walking = "idle" /\ context # "closing") \/ inCallback

\* A field can be written while its owner exists.
Owned(field) == field \in alive \/ (field \in Lists /\ context # "gone")

-----------------------------------------------------------------------------
push ==
  /\ walking = "idle" /\ context = "alive" /\ pushes < MaxPushes
  /\ pushes' = pushes + 1
  /\ UNCHANGED <<links, alive, list, walk, context, due, told, wild>>

\* addNotifyObjPre and addNotifyObjPost: at the front of the list.
addNotifyObj(o, l) ==
  /\ prev' = [p \in NotifyObj |-> IF p = o THEN l ELSE IF p = d_pCNO[l] THEN o ELSE prev[p]]
  /\ next' = [next EXCEPT ![o] = d_pCNO[l]]
  /\ d_pCNO' = [d_pCNO EXCEPT ![l] = o]
  /\ wild' = (wild \/ (d_pCNO[l] # NULL /\ d_pCNO[l] \notin alive))

New(o, l) ==
  /\ ClientRuns /\ context # "gone" /\ o \notin alive
  /\ addNotifyObj(o, l)
  /\ alive' = alive \cup {o} /\ list' = [list EXCEPT ![o] = l] /\ told' = [told EXCEPT ![o] = 0]
  /\ UNCHANGED <<pushes, walk, context, due>>

\* ~ContextNotifyObj takes the object out of its list.
UnlinkNotifyObj(o) ==
  /\ prev' = IF next[o] = NULL THEN prev ELSE [prev EXCEPT ![next[o]] = prev[o]]
  /\ d_pCNO' = [l \in Lists |-> IF prev[o] = l THEN next[o] ELSE d_pCNO[l]]
  /\ next' = [p \in NotifyObj |-> IF prev[o] = p THEN next[o] ELSE next[p]]
  /\ wild' = \/ wild
             \/ next[o] # NULL /\ next[o] \notin alive
             \/ prev[o] # NULL /\ ~Owned(prev[o])

\* In a callback an object deletes only itself.
Delete(o) ==
  /\ ClientRuns /\ o \in alive /\ (inCallback => o = pCNO)
  /\ UnlinkNotifyObj(o)
  /\ alive' = alive \ {o} /\ due' = due \ {o}
  /\ UNCHANGED <<list, pushes, walk, context, told>>

-----------------------------------------------------------------------------
(* pop() *)

CanPop == pushes > 0

StartPop ==
  /\ walking = "idle" /\ CanPop /\ context # "gone"
  /\ walking' = "pre" /\ pCNO' = d_pCNO["pre"]
  /\ due' = alive /\ told' = [o \in NotifyObj |-> 0]
  /\ UNCHANGED <<links, alive, list, pushes, stored, inCallback, context, wild>>

\* The next pointer is read before the callback is made.
Notify ==
  /\ walking # "idle" /\ pCNO # NULL /\ ~inCallback
  /\ stored' = next[pCNO] /\ inCallback' = TRUE
  /\ told' = [told EXCEPT ![pCNO] = IF @ < 2 THEN @ + 1 ELSE @]
  /\ wild' = (wild \/ pCNO \notin alive)
  /\ UNCHANGED <<links, alive, list, pushes, walking, pCNO, context, due>>

\* Faulty variant of Continue: the next pointer is read after the callback.
ContinueLate == pCNO' = next[pCNO] /\ wild' = (wild \/ pCNO \notin alive)

Continue == pCNO' = stored /\ UNCHANGED wild

Return ==
  /\ inCallback
  /\ Continue
  /\ inCallback' = FALSE /\ stored' = NULL
  /\ UNCHANGED <<links, alive, list, pushes, walking, context, due, told>>

SecondList == d_pCNO["post"]

\* At the end of the first list the scope is restored, then the second is walked.
RestoreScope ==
  /\ walking = "pre" /\ pCNO = NULL /\ ~inCallback
  /\ pushes' = pushes - 1 /\ walking' = "post" /\ pCNO' = SecondList
  /\ UNCHANGED <<links, alive, list, stored, inCallback, context, due, told, wild>>

EndPop ==
  /\ walking = "post" /\ pCNO = NULL /\ ~inCallback
  /\ walking' = "idle"
  /\ UNCHANGED <<links, alive, list, pushes, pCNO, stored, inCallback, context, due, told, wild>>

-----------------------------------------------------------------------------
(* ~Context: popto(0), then the objects forget the lists. *)

Close ==
  /\ walking = "idle" /\ context = "alive"
  /\ context' = "closing"
  /\ UNCHANGED <<links, alive, list, pushes, walk, due, told, wild>>

Forget ==
  /\ next' = [o \in NotifyObj |-> IF o \in alive THEN NULL ELSE next[o]]
  /\ prev' = [o \in NotifyObj |-> IF o \in alive THEN NULL ELSE prev[o]]

Gone ==
  /\ context = "closing" /\ walking = "idle" /\ pushes = 0
  /\ Forget
  /\ d_pCNO' = [l \in Lists |-> NULL] /\ context' = "gone"
  /\ UNCHANGED <<alive, list, pushes, walk, due, told, wild>>

-----------------------------------------------------------------------------
Client == push \/ Close \/ \E o \in NotifyObj : Delete(o) \/ \E l \in Lists : New(o, l)
Pop    == Notify \/ Return \/ RestoreScope \/ EndPop
NotifyNext == Client \/ StartPop \/ Pop \/ Gone

NotifySpec == NotifyInit /\ [][NotifyNext]_notifyVars
-----------------------------------------------------------------------------
\* No freed object or context is read or written, whatever callbacks create or
\* delete and in whatever order the objects and the context are destroyed.
NoWildAccess == ~wild

\* While the context exists, prev and next are inverse to each other and to the heads.
NotifyListsLinked ==
  context # "gone" =>
    /\ \A o \in alive : /\ prev[o] \in alive \cup {list[o]}
                        /\ (IF prev[o] \in NotifyObj THEN next[prev[o]] ELSE d_pCNO[prev[o]]) = o
                        /\ next[o] # NULL =>
                             next[o] \in alive /\ prev[next[o]] = o /\ list[next[o]] = list[o]
    /\ \A l \in Lists : d_pCNO[l] # NULL => d_pCNO[l] \in alive /\ prev[d_pCNO[l]] = l

\* An object that exists from the beginning to the end of a pop is notified once,
\* those of the first list before anything is restored; no object is notified twice.
EachToldOnce ==
  /\ \A o \in alive : told[o] <= 1
  /\ \A o \in due : IF list[o] = "pre" THEN walking # "pre" => told[o] = 1
                    ELSE IF walking = "idle" THEN told[o] = 1 ELSE walking = "pre" => told[o] = 0

\* Notification is safe and complete.
NotifyRight == TypeOK /\ NoWildAccess /\ NotifyListsLinked /\ EachToldOnce
=============================================================================
