----------------------------- MODULE CDHashMap -----------------------------
(***************************************************************************)
(* CDHashMap (context/cdhashmap.h): a hash table of elements that are      *)
(* themselves context-dependent objects, a circular list that keeps them   *)
(* in order of insertion, and a trash for elements that cannot be deleted  *)
(* while they are being restored.                                          *)
(*                                                                         *)
(* An element keeps a saved copy for every level at which it was modified  *)
(* (see Context); a pop restores every element of the level it closes.     *)
(* Of the lists of the scopes the one of the bottom scope is modelled with *)
(* its pointers, because every element is in it until it is destroyed.     *)
(* The saved copy that stands in for its element in that list and the      *)
(* element itself are one node here.  `Others' are the objects of other    *)
(* clients in the same list.                                               *)
(***************************************************************************)
EXTENDS Naturals, Sequences, FiniteSets, SequencesExt

CONSTANTS Key, Data,
          DefaultData, \* the value of Data()
          None,        \* stands for NULL and for "not bound"
          Element,     \* the memory that elements can be allocated in
          Others,      \* other context-dependent objects
          MaxLevel,    \* bound on the number of outstanding pushes
          ObliterateAny \* whether clients obliterate keys inserted above level 0

MapAssumption == /\ DefaultData \in Data /\ None \notin Data \cup Element \cup Others
                        /\ Element \cap Others = {} /\ MaxLevel \in Nat
                        /\ ObliterateAny \in BOOLEAN

VARIABLES
  level,   \* the level of the context
  d_map,   \* the hash table: d_map[k] is the element of k or None
  order,   \* the circular list d_first -> d_next -> ..., from d_first on
  d_trash, \* the elements to be deleted
  elt,     \* elt[e]: key, data, scope and saved copies; None when free
  chain,   \* the list of the bottom scope: its first node, d_pContextObjNext
           \* and d_ppContextObjPrev (None: the scope's own pointer)
  others,  \* which of Others are constructed
  wild     \* an unlink has written to freed memory

vars == <<level, d_map, order, d_trash, elt, chain, others, wild>>

Node == Element \cup Others
Live == {e \in Element : elt[e] # None} \cup others

-----------------------------------------------------------------------------
(* The list of the bottom scope. *)

\* Faulty variant of addToChain: the old first node still points to the scope.
addToChainOneWay(c, n) ==
  [first |-> n,
   next  |-> [c.next EXCEPT ![n] = c.first],
   prev  |-> [c.prev EXCEPT ![n] = None]]

\* Scope::addToChain
addToChain(c, n) ==
  [first |-> n,
   next  |-> [c.next EXCEPT ![n] = c.first],
   prev  |-> [m \in Node |-> IF m = c.first THEN n ELSE IF m = n THEN None ELSE c.prev[m]]]

\* The unlinking at the head of the loop in ContextObj::destroy.
unlink(c, n) ==
  [first |-> IF c.prev[n] = None THEN c.next[n] ELSE c.first,
   next  |-> [m \in Node |-> IF m = c.prev[n] THEN c.next[n] ELSE c.next[m]],
   prev  |-> [m \in Node |-> IF m = c.next[n] THEN c.prev[n] ELSE c.prev[m]]]

\* Whether unlink(c, n) writes to freed memory, when el is the elements.
Wild(c, el, n) ==
  \E m \in {c.next[n], c.prev[n]} \ {None} : IF m \in Others THEN m \notin others ELSE el[m] = None

\* ContextObj::deleteSelf: the destructor calls destroy(), then e is freed.
deleteSelf(s, e) == [elt   |-> [s.elt EXCEPT ![e] = None],
                     chain |-> unlink(s.chain, e),
                     wild  |-> s.wild \/ Wild(s.chain, s.elt, e)]

memory == [elt |-> elt, chain |-> chain, wild |-> wild]

-----------------------------------------------------------------------------
Init ==
  /\ level = 0
  /\ d_map = [k \in Key |-> None]
  /\ order = << >> /\ d_trash = << >>
  /\ elt = [e \in Element |-> None]
  /\ chain = [first |-> None, next |-> [n \in Node |-> None], prev |-> [n \in Node |-> None]]
  /\ others = {} /\ wild = FALSE

\* Context::push
Push ==
  /\ level < MaxLevel /\ level' = level + 1
  /\ UNCHANGED <<d_map, order, d_trash, elt, chain, others, wild>>

\* restore() on the newest saved copy: the data comes back.
RestoreData(x) == [x EXCEPT !.data = Last(x.saved).data, !.scope = Last(x.saved).scope,
                            !.saved = Front(x.saved)]

\* ... and when the copy has a NULL map, the element is taken out.
LeavesMap(x) == ~Last(x.saved).inMap

\* Context::pop with CDOhash_map::restore for the elements modified since the
\* matching push.
Pop ==
  LET restored == {e \in Element : elt[e] # None /\ elt[e].scope = level}
      leaving  == {e \in restored : LeavesMap(elt[e])}
  IN  /\ level > 0 /\ level' = level - 1
      /\ elt' = [e \in Element |-> IF e \in restored THEN RestoreData(elt[e]) ELSE elt[e]]
      /\ d_map' = [k \in Key |-> IF d_map[k] \in leaving THEN None ELSE d_map[k]]
      /\ order' = SelectSeq(order, LAMBDA e : e \notin leaving)
      /\ \E left \in SetToSeqs(leaving) : d_trash' = d_trash \o left
      /\ UNCHANGED <<chain, others, wild>>

\* CDHashMap::emptyTrash
emptyTrash == FoldLeft(deleteSelf, memory, d_trash)

\* makeCurrent(): one saved copy per level.
MakeCurrent(x) ==
  IF x.scope = level THEN x
  ELSE [x EXCEPT !.saved = Append(@, [data |-> x.data, scope |-> x.scope, inMap |-> x.inMap]),
                 !.scope = level]

\* Faulty variant of NewElement: d_map is set before makeCurrent().
NewElementMapFirst(k, d, atLevelZero) ==
  LET x == [key |-> k, data |-> DefaultData, scope |-> 0, inMap |-> TRUE, saved |-> << >>]
  IN  IF atLevelZero THEN [x EXCEPT !.data = d]
      ELSE [MakeCurrent(x) EXCEPT !.data = d]

\* The constructor of CDOhash_map: linked to the bottom scope with no map and
\* Data(); then, unless atLevelZero, makeCurrent(); then the data and the map.
NewElement(k, d, atLevelZero) ==
  LET x == [key |-> k, data |-> DefaultData, scope |-> 0, inMap |-> FALSE, saved |-> << >>]
  IN  IF atLevelZero THEN [x EXCEPT !.data = d, !.inMap = TRUE]
      ELSE [MakeCurrent(x) EXCEPT !.data = d, !.inMap = TRUE]

\* A new element for k in free memory, after emptyTrash().
Add(k, d, atLevelZero) ==
  LET t == emptyTrash
  IN  \E e \in Element :
        /\ t.elt[e] = None
        /\ elt' = [t.elt EXCEPT ![e] = NewElement(k, d, atLevelZero)]
        /\ chain' = addToChain(t.chain, e)
        /\ d_map' = [d_map EXCEPT ![k] = e]
        /\ order' = Append(order, e)

\* insert()
insert(k, d) ==
  /\ IF d_map[k] = None
     THEN Add(k, d, FALSE)
     ELSE /\ elt' = [emptyTrash.elt EXCEPT ![d_map[k]] = [MakeCurrent(@) EXCEPT !.data = d]]
          /\ chain' = emptyTrash.chain
          /\ UNCHANGED <<d_map, order>>
  /\ d_trash' = << >> /\ wild' = emptyTrash.wild
  /\ UNCHANGED <<level, others>>

\* operator[] on a key that is not in the map.
Subscript(k) ==
  /\ d_map[k] = None
  /\ Add(k, DefaultData, FALSE)
  /\ d_trash' = << >> /\ wild' = emptyTrash.wild
  /\ UNCHANGED <<level, others>>

\* insertAtContextLevelZero(); the key must not be in the map (AlwaysAssert).
insertAtContextLevelZero(k, d) ==
  /\ d_map[k] = None
  /\ Add(k, d, TRUE)
  /\ d_trash' = << >> /\ wild' = emptyTrash.wild
  /\ UNCHANGED <<level, others>>

\* find(), the one that is not const.
find ==
  /\ d_trash # << >>
  /\ elt' = emptyTrash.elt /\ chain' = emptyTrash.chain /\ wild' = emptyTrash.wild
  /\ d_trash' = << >>
  /\ UNCHANGED <<level, d_map, order, others>>

\* Whether k was inserted above level 0: restoring its element takes it out.
Above(e) == \E i \in DOMAIN elt[e].saved : ~elt[e].saved[i].inMap

\* obliterate(): destroy() unlinks the element at every level and restores it
\* down to level 0.  One that was inserted above has then put itself in the
\* trash; one of level 0 is taken out and deleted, which unlinks it again
\* from where it already is unlinked.
obliterate(k) ==
  LET e == d_map[k]
      destroyed == [memory EXCEPT !.chain = unlink(@, e), !.wild = @ \/ Wild(chain, elt, e)]
      deleted == deleteSelf(destroyed, e)
  IN  /\ e # None /\ (ObliterateAny \/ ~Above(e))
      /\ d_map' = [d_map EXCEPT ![k] = None]
      /\ order' = SelectSeq(order, LAMBDA x : x # e)
      /\ IF Above(e)
         THEN /\ d_trash' = Append(d_trash, e)
              /\ elt' = [elt EXCEPT ![e].saved = << >>, ![e].scope = 0]
              /\ chain' = destroyed.chain /\ wild' = destroyed.wild
         ELSE /\ elt' = deleted.elt /\ chain' = deleted.chain /\ wild' = deleted.wild
              /\ UNCHANGED d_trash
      /\ UNCHANGED <<level, others>>

\* clear(): the trash, then every element, with restore() short-circuited.
clear ==
  LET m == FoldLeft(deleteSelf, emptyTrash, order) IN
  /\ elt' = m.elt /\ chain' = m.chain /\ wild' = m.wild
  /\ d_map' = [k \in Key |-> None] /\ order' = << >> /\ d_trash' = << >>
  /\ UNCHANGED <<level, others>>

\* The other objects of the context come and go.
NewOther(o) ==
  /\ o \in Others \ others /\ others' = others \cup {o}
  /\ chain' = addToChain(chain, o)
  /\ UNCHANGED <<level, d_map, order, d_trash, elt, wild>>

DeleteOther(o) ==
  /\ o \in others /\ others' = others \ {o}
  /\ chain' = unlink(chain, o)
  /\ wild' = (wild \/ Wild(chain, elt, o))
  /\ UNCHANGED <<level, d_map, order, d_trash, elt>>

Next ==
  \/ Push \/ Pop \/ find \/ clear
  \/ \E k \in Key :
        \/ obliterate(k) \/ Subscript(k)
        \/ \E d \in Data : insert(k, d) \/ insertAtContextLevelZero(k, d)
  \/ \E o \in Others : NewOther(o) \/ DeleteOther(o)

Spec == Init /\ [][Next]_vars

-----------------------------------------------------------------------------
Copy == [data : Data, scope : 0..MaxLevel, inMap : BOOLEAN]

TypeOK ==
  /\ level \in 0..MaxLevel
  /\ d_map \in [Key -> Element \cup {None}]
  /\ order \in Seq(Element) /\ d_trash \in Seq(Element)
  /\ \A e \in Element : elt[e] = None \/
        /\ elt[e].key \in Key /\ elt[e].data \in Data /\ elt[e].scope \in 0..level
        /\ elt[e].inMap /\ elt[e].saved \in Seq(Copy)
  /\ chain \in [first : Node \cup {None}, next : [Node -> Node \cup {None}],
                prev : [Node -> Node \cup {None}]]
  /\ others \in SUBSET Others /\ wild \in BOOLEAN

\* The table and the circular list hold the same elements, each once, under
\* their keys; an element that is in neither is in the trash, so no memory is
\* lost and none is freed while it can be reached.
TableAndListAgree ==
  /\ ToSet(order) = {d_map[k] : k \in Key} \ {None}
  /\ Len(order) = Cardinality(ToSet(order))
  /\ {e \in Element : elt[e] # None} = ToSet(order) \cup ToSet(d_trash)
  /\ ToSet(order) \cap ToSet(d_trash) = {}
  /\ \A k \in Key : d_map[k] # None => elt[d_map[k]].key = k

\* What the map is at level l, from the copies of its elements.
ValueAt(x, l) ==
  IF x.scope <= l THEN x.data
  ELSE LET below == {i \in DOMAIN x.saved : x.saved[i].scope <= l}
           i == CHOOSE j \in below : \A j2 \in below : j2 <= j
       IN  IF below = {} \/ ~x.saved[i].inMap THEN None ELSE x.saved[i].data

mapAt == [l \in 0..MaxLevel |-> [k \in Key |->
            IF l > level \/ d_map[k] = None THEN None ELSE ValueAt(elt[d_map[k]], l)]]

Abs == INSTANCE BacktrackableMap WITH map <- mapAt

\* The map backtracks: a pop brings back the bindings of the matching push,
\* for keys that were inserted, overwritten, inserted at level zero or
\* obliterated in between.
ImplementsMap == Abs!Spec

\* "Since objects placed on the trash have already restored to the fullest
\* extent possible", deleting them does nothing but free them: no unlinking
\* writes to an object that has been freed.
NoWildWrite == ~wild

\* The list of the bottom scope, followed from its first node, has all objects
\* of the context that are not destroyed.
Reached[n \in 0..Cardinality(Node)] ==
  IF n = 0 THEN {chain.first} \ {None}
  ELSE Reached[n - 1] \cup ({chain.next[m] : m \in Reached[n - 1]} \ {None})

ChainComplete == Reached[Cardinality(Node)] = Live

\* The tables and lists of the map agree.
MapSound == TypeOK /\ TableAndListAgree /\ (ObliterateAny \/ (NoWildWrite /\ ChainComplete))
=============================================================================
