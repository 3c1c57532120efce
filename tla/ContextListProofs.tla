--------------------------- MODULE ContextListProofs ---------------------------
(***************************************************************************)
(* Proofs about the lists that hang on a context: those of the objects of  *)
(* each scope (ContextObjList), and those of the objects to be notified    *)
(* (ContextNotify).                                                        *)
(*                                                                         *)
(* ContextObjList, for any objects and any number of levels: the lists are *)
(* sound, and they implement the sets of versions of Context, by the nodes *)
(* that stand for each version.  ListsSound speaks of walks along the      *)
(* lists and is not inductive.  The                                        *)
(* invariant says the same of each node and its neighbours, with numbers   *)
(* that decrease along the lists: a new node gets a number above all       *)
(* others, a node that takes the place of another one also its number.     *)
(* That a list ends, and that a walk comes by each of its nodes, follows   *)
(* since there are finitely many nodes and no number goes up for ever.     *)
(*                                                                         *)
(* ContextNotify: pop() notifies safely and completely, for any number of  *)
(* objects and levels and whatever the callbacks do.  NotifyRight is not   *)
(* inductive: that every object of a list is reached                       *)
(* before the end of the list is a fact about the list as a whole, and     *)
(* prev and next speak of neighbours only (a ring apart from the list is   *)
(* well linked too).  The invariant says that the objects can be numbered  *)
(* so that every next pointer leads to the largest number below and every  *)
(* head to the largest of its list.  A new object gets a number above all  *)
(* others, a deleted one leaves a gap.  The walk then has notified the     *)
(* objects above the cursor, and none from the cursor on.                  *)
(***************************************************************************)
EXTENDS ContextObjList, ContextNotify, TLAPS, FiniteSetTheorems, WellFoundedInduction, SequenceTheorems

\* The nodes that there can be.
Ids == Obj \X Nat

Live == {o \in Obj : Constructed(o)}

\* The newest scope whose list is in use.
Top == IF phase = "restore" THEN level + 1 ELSE level

IsEntry(e) ==
  e = [data |-> e.data, scope |-> e.scope, restore |-> e.restore, next |-> e.next, prev |-> e.prev]

IsMem(m) ==
  /\ m = [node |-> m.node, head |-> m.head]
  /\ m.node = [n \in DOMAIN m.node |-> m.node[n]] /\ DOMAIN m.node \subseteq Ids
  /\ \A n \in DOMAIN m.node : IsEntry(m.node[n])
  /\ m.head = [l \in Level |-> m.head[l]]

\* The nodes X are those on the lists of the scopes up to t, in the memory m.  The
\* list of a scope above s is the one that ~Scope consumes.
Linked(m, X, s, t, r) ==
  /\ \A n \in X :
       /\ m.node[n].scope \in 0..t
       /\ m.node[n].next # Null => /\ m.node[n].next \in X
                                   /\ m.node[m.node[n].next].scope = m.node[n].scope
                                   /\ m.node[m.node[n].next].prev = NextOf(n)
                                   /\ r[m.node[n].next] < r[n]
       /\ \/ m.head[m.node[n].scope] = n
          \/ \E p \in X : m.node[n].prev = NextOf(p) /\ m.node[p].next = n
       /\ \A l \in 0..t : m.node[n].next = m.head[l] => m.head[l] = Null
  /\ \A l \in 0..t : m.head[l] # Null =>
       /\ m.head[l] \in X
       /\ m.node[m.head[l]].scope = l
       /\ l <= s => m.node[m.head[l]].prev = HeadOf(l)

\* The numbers.
Numbered(X, r) == r \in [Ids -> Nat] /\ \E b \in Nat : \A n \in X : r[n] < b

\* The lists of the scopes up to t are linked.
Sound(m, s, t) ==
  \E r \in [Ids -> Nat] : Numbered(DOMAIN m.node, r) /\ Linked(m, DOMAIN m.node, s, t, r)

\* Each object o of `live' has copies[o] copies, of older and older scopes.
Versioned(m, live, copies) ==
  /\ copies \in [Obj -> Nat] /\ live \subseteq Obj
  /\ DOMAIN m.node = {n \in Ids : n[1] \in live /\ n[2] <= copies[n[1]]}
  /\ IsFiniteSet(DOMAIN m.node)
  /\ \A o \in live :
       /\ m.node[<<o, 0>>].restore = IF copies[o] = 0 THEN Null ELSE <<o, copies[o]>>
       /\ \A i \in 1..copies[o] :
            /\ m.node[<<o, i>>].restore = IF i = 1 THEN Null ELSE <<o, i - 1>>
            /\ m.node[<<o, i>>].scope \in Nat
            /\ m.node[<<o, i>>].scope
                 < m.node[IF i = copies[o] THEN <<o, 0>> ELSE <<o, i + 1>>].scope

\* The control state.
Control ==
  /\ level \in Level /\ target \in Level
  /\ phase \in {"run", "restore"}
  /\ phase = "restore" => target <= level /\ level < MaxLevel
  /\ storage \in [Obj -> {"none", "heap", "cmm"}]

\* The inductive invariant.
Inv ==
  /\ Control
  /\ IsMem(Mem)
  /\ \E copies \in [Obj -> Nat] : Versioned(Mem, Live, copies)
  /\ Sound(Mem, level, Top)
-----------------------------------------------------------------------------
(* The statements of the operations, field by field. *)

\* Null is not the address of a node.
LEMMA NullNotId == Null \notin Ids
  BY ContextObjAssumption DEF Ids

\* An address is that of a scope or of a node.
LEMMA Addresses ==
  /\ \A l, k : HeadOf(l) # NextOf(k)
  /\ \A l, k : HeadOf(l) = HeadOf(k) => l = k
  /\ \A l, k : NextOf(l) = NextOf(k) => l = k
<1>1. \A l, k : HeadOf(l).kind = "head" /\ NextOf(k).kind = "next"
  BY DEF HeadOf, NextOf
<1>2. \A l : HeadOf(l).of = l /\ NextOf(l).of = l
  BY DEF HeadOf, NextOf
<1> QED  BY <1>1, <1>2

\* What q has of m: the nodes, and all fields that are not links.
SameVersions(m, q) ==
  /\ DOMAIN q.node = DOMAIN m.node
  /\ \A k \in DOMAIN m.node : /\ q.node[k].data = m.node[k].data
                              /\ q.node[k].scope = m.node[k].scope
                              /\ q.node[k].restore = m.node[k].restore

\* q is m where n->prev() = p, if there is an n, and where *p = n.
PrevSet(m, q, n, p) ==
  /\ IsMem(q) /\ SameVersions(m, q)
  /\ q.head = m.head
  /\ \A k \in DOMAIN m.node : /\ q.node[k].next = m.node[k].next
                              /\ q.node[k].prev = IF k = n THEN p ELSE m.node[k].prev

PointerSet(m, q, p, n) ==
  /\ IsMem(q) /\ SameVersions(m, q)
  /\ \A l \in Level : q.head[l] = IF p = HeadOf(l) THEN n ELSE m.head[l]
  /\ \A k \in DOMAIN m.node : /\ q.node[k].prev = m.node[k].prev
                              /\ q.node[k].next = IF p = NextOf(k) THEN n ELSE m.node[k].next

\* SetPrev writes one prev.
LEMMA SetPrevMem ==
  ASSUME NEW m, IsMem(m), NEW n \in DOMAIN m.node \cup {Null}, NEW p
  PROVE  PrevSet(m, SetPrev(m, n, p), n, p)
<1> USE DEF PrevSet
<1> DEFINE q == SetPrev(m, n, p)
<1>1. CASE n = Null
  <2>1. q = m /\ n \notin DOMAIN m.node
    BY <1>1, NullNotId DEF SetPrev, IsMem
  <2> QED  BY <2>1 DEF SameVersions
<1>2. CASE n # Null
  <2>1. n \in DOMAIN m.node /\ IsEntry(m.node[n])
    BY <1>2 DEF IsMem
  <2> DEFINE e == [m.node[n] EXCEPT !.prev = p]
  <2>2. /\ IsEntry(e)
        /\ e.data = m.node[n].data /\ e.scope = m.node[n].scope /\ e.restore = m.node[n].restore
        /\ e.next = m.node[n].next /\ e.prev = p
    BY <2>1 DEF IsEntry
  <2>3. q = [node |-> [m.node EXCEPT ![n] = e], head |-> m.head]
    BY <1>2 DEF SetPrev, IsMem
  <2>4. q.head = m.head /\ q.node = [k \in DOMAIN m.node |-> IF k = n THEN e ELSE m.node[k]]
    BY <2>3 DEF IsMem
  <2> HIDE DEF e
  <2>5. IsMem(q)
    BY <2>1, <2>2, <2>3, <2>4 DEF IsMem
  <2> QED  BY <2>1, <2>2, <2>4, <2>5 DEF SameVersions
<1> QED  BY <1>1, <1>2

\* SetAt writes one head or one next.
LEMMA SetAtMem ==
  ASSUME NEW m, IsMem(m), NEW p, NEW n,
         (\E l \in Level : p = HeadOf(l)) \/ (\E k \in DOMAIN m.node : p = NextOf(k))
  PROVE  PointerSet(m, SetAt(m, p, n), p, n)
<1> DEFINE q == SetAt(m, p, n)
<1>1. ASSUME NEW l \in Level, p = HeadOf(l)
      PROVE  /\ IsMem(q) /\ SameVersions(m, q)
             /\ \A j \in Level : q.head[j] = IF p = HeadOf(j) THEN n ELSE m.head[j]
             /\ \A k \in DOMAIN m.node : /\ q.node[k].prev = m.node[k].prev
                                         /\ q.node[k].next = IF p = NextOf(k) THEN n
                                                                              ELSE m.node[k].next
  <2>1. q = [m EXCEPT !.head[l] = n]
    BY <1>1 DEF SetAt, HeadOf
  <2>2. q = [node |-> m.node, head |-> [m.head EXCEPT ![l] = n]]
    BY <2>1 DEF IsMem
  <2>3. q.node = m.node /\ q.head = [j \in Level |-> IF j = l THEN n ELSE m.head[j]]
    BY <2>2 DEF IsMem
  <2>4. IsMem(q)
    BY <2>2, <2>3 DEF IsMem
  <2> QED  BY <1>1, <2>3, <2>4, Addresses DEF SameVersions
<1>2. ASSUME NEW j \in DOMAIN m.node, p = NextOf(j)
      PROVE  /\ IsMem(q) /\ SameVersions(m, q)
             /\ \A l \in Level : q.head[l] = IF p = HeadOf(l) THEN n ELSE m.head[l]
             /\ \A k \in DOMAIN m.node : /\ q.node[k].prev = m.node[k].prev
                                         /\ q.node[k].next = IF p = NextOf(k) THEN n
                                                                              ELSE m.node[k].next
  <2>1. IsEntry(m.node[j]) /\ q = [m EXCEPT !.node[j].next = n]
    BY <1>2 DEF SetAt, NextOf, IsMem
  <2> DEFINE e == [m.node[j] EXCEPT !.next = n]
  <2>2. /\ IsEntry(e)
        /\ e.data = m.node[j].data /\ e.scope = m.node[j].scope /\ e.restore = m.node[j].restore
        /\ e.prev = m.node[j].prev /\ e.next = n
    BY <2>1 DEF IsEntry
  <2>3. q = [node |-> [m.node EXCEPT ![j] = e], head |-> m.head]
    BY <2>1 DEF IsMem
  <2>4. q.head = m.head /\ q.node = [k \in DOMAIN m.node |-> IF k = j THEN e ELSE m.node[k]]
    BY <2>3 DEF IsMem
  <2> HIDE DEF e
  <2>5. IsMem(q)
    BY <2>1, <2>2, <2>3, <2>4 DEF IsMem
  <2>6. \A k : p = NextOf(k) <=> k = j
    BY <1>2, Addresses
  <2>7. \A l : p # HeadOf(l)
    BY <1>2, Addresses
  <2> QED  BY <2>1, <2>2, <2>4, <2>5, <2>6, <2>7 DEF SameVersions
<1> QED  BY <1>1, <1>2 DEF PointerSet
-----------------------------------------------------------------------------
(* Lists: what relinking keeps. *)

\* The place of n in its list: prev is the one address that points to it.
Placed(m, X, t, n) ==
  /\ m.node[n].next # n
  /\ \A p \in X : m.node[p].next = n <=> m.node[n].prev = NextOf(p)
  /\ \A l \in 0..t : m.head[l] = n <=> m.node[n].prev = HeadOf(l)
  /\ \/ m.node[n].prev = HeadOf(m.node[n].scope)
     \/ \E p \in X \ {n} : m.node[n].prev = NextOf(p)

\* Nodes of whole lists have such a place.
LEMMA LinkedPlace ==
  ASSUME NEW m, NEW X, NEW s \in Nat, NEW t \in Nat, NEW r, Linked(m, X, s, t, r),
         Numbered(X, r), X \subseteq Ids,
         NEW n \in X, m.node[n].scope <= s
  PROVE  Placed(m, X, t, n)
<1>1. Null \notin X
  BY NullNotId
<1>2. m.node[n].next # n
  BY <1>1 DEF Linked, Numbered
<1>3. m.node[n].scope \in 0..t
  BY DEF Linked
<1>4. CASE m.head[m.node[n].scope] = n
  <2>1. m.node[n].prev = HeadOf(m.node[n].scope)
    BY <1>1, <1>3, <1>4 DEF Linked
  <2>2. \A p \in X : m.node[p].next # n
    BY <1>1, <1>3, <1>4 DEF Linked
  <2>3. \A l \in 0..t : m.head[l] = n => l = m.node[n].scope
    BY <1>1 DEF Linked
  <2>4. \A l \in 0..t : m.head[l] = n <=> m.node[n].prev = HeadOf(l)
    BY <1>4, <2>1, <2>3, Addresses
  <2>5. \A p \in X : m.node[n].prev # NextOf(p)
    BY <2>1, Addresses
  <2> QED  BY <1>2, <2>1, <2>2, <2>4, <2>5 DEF Placed
<1>5. CASE m.head[m.node[n].scope] # n
  <2>1. PICK p \in X : m.node[n].prev = NextOf(p) /\ m.node[p].next = n
    BY <1>5 DEF Linked
  <2>2. p # n
    BY <1>2, <2>1
  <2>3. \A j \in X : m.node[j].next = n => m.node[n].prev = NextOf(j)
    BY <1>1 DEF Linked
  <2>4. \A j \in X : m.node[n].prev = NextOf(j) => j = p
    BY <2>1, Addresses
  <2>5. \A l \in 0..t : m.head[l] # n /\ m.node[n].prev # HeadOf(l)
    BY <1>1, <1>5, <2>1, Addresses DEF Linked
  <2> QED  BY <1>2, <2>1, <2>2, <2>3, <2>4, <2>5 DEF Placed
<1> QED  BY <1>4, <1>5

\* Lists whose nodes and heads have not changed.
LEMMA LinkedSame ==
  ASSUME NEW m, NEW q, NEW X, NEW s, NEW t, NEW r, Linked(m, X, s, t, r),
         \A n \in X : /\ q.node[n].scope = m.node[n].scope
                      /\ q.node[n].next = m.node[n].next /\ q.node[n].prev = m.node[n].prev,
         \A l \in 0..t : q.head[l] = m.head[l]
  PROVE  Linked(q, X, s, t, r)
<1>1. ASSUME NEW n \in X
      PROVE  /\ q.node[n].scope \in 0..t
             /\ q.node[n].next # Null => /\ q.node[n].next \in X
                                         /\ q.node[q.node[n].next].scope = q.node[n].scope
                                         /\ q.node[q.node[n].next].prev = NextOf(n)
                                         /\ r[q.node[n].next] < r[n]
             /\ \/ q.head[q.node[n].scope] = n
                \/ \E p \in X : q.node[n].prev = NextOf(p) /\ q.node[p].next = n
             /\ \A l \in 0..t : q.node[n].next = q.head[l] => q.head[l] = Null
  BY <1>1 DEF Linked
<1>2. ASSUME NEW l \in 0..t, q.head[l] # Null
      PROVE  /\ q.head[l] \in X
             /\ q.node[q.head[l]].scope = l
             /\ l <= s => q.node[q.head[l]].prev = HeadOf(l)
  BY <1>2 DEF Linked
<1> QED  BY <1>1, <1>2 DEF Linked

\* The node `to' has the links of the node `from', and its neighbours point to `to'.
TakesPlace(m, q, X, t, from, to) ==
  /\ q.node[to].scope = m.node[from].scope
  /\ q.node[to].next = m.node[from].next /\ q.node[to].prev = m.node[from].prev
  /\ \A k \in X \ {from} :
       /\ q.node[k].scope = m.node[k].scope
       /\ q.node[k].prev = IF k = m.node[from].next THEN NextOf(to) ELSE m.node[k].prev
       /\ q.node[k].next = IF m.node[from].prev = NextOf(k) THEN to ELSE m.node[k].next
  /\ \A l \in 0..t : q.head[l] = IF m.node[from].prev = HeadOf(l) THEN to ELSE m.head[l]

\* A node `to' takes the place of the node `from'.
LEMMA LinkedReplaced ==
  ASSUME NEW m, NEW q, NEW X, NEW s \in Nat, NEW t \in Nat, NEW r, Linked(m, X, s, t, r),
         Numbered(X, r), X \subseteq Ids, s <= t,
         NEW from \in X, NEW to \in Ids \ X, m.node[from].scope <= s,
         TakesPlace(m, q, X, t, from, to)
  PROVE  LET Y == (X \ {from}) \cup {to}
             u == [r EXCEPT ![to] = r[from]]
         IN  Numbered(Y, u) /\ Linked(q, Y, s, t, u)
<1> USE DEF TakesPlace
<1> DEFINE Y == (X \ {from}) \cup {to}
           u == [r EXCEPT ![to] = r[from]]
<1>1. Null \notin X /\ to # Null
  BY NullNotId
<1>2. Numbered(Y, u)
  <2>1. u \in [Ids -> Nat] /\ u[to] = r[from] /\ \A n \in X : u[n] = r[n]
    BY DEF Numbered
  <2> HIDE DEF u
  <2> QED  BY <2>1 DEF Numbered
<1>3. u[to] = r[from] /\ \A n \in X : u[n] = r[n]
  BY DEF Numbered
<1> HIDE DEF u
<1>a. Placed(m, X, t, from)
  BY LinkedPlace
<1>4. /\ m.node[from].next # from
      /\ \A p \in X : m.node[p].next = from <=> m.node[from].prev = NextOf(p)
      /\ \A l \in 0..t : m.head[l] = from <=> m.node[from].prev = HeadOf(l)
      /\ \/ m.node[from].prev = HeadOf(m.node[from].scope)
         \/ \E p \in X \ {from} : m.node[from].prev = NextOf(p)
  BY <1>a DEF Placed
\* in the old lists, `to' in the place of `from'
<1> DEFINE new(n) == IF n = from THEN to ELSE n
<1>5. ASSUME NEW n \in X \ {from}
      PROVE  /\ q.node[n].scope = m.node[n].scope
             /\ q.node[n].next = new(m.node[n].next)
             /\ q.node[n].prev = IF n = m.node[from].next THEN NextOf(to) ELSE m.node[n].prev
  BY <1>4
<1>6. /\ q.node[to].scope = m.node[from].scope
      /\ q.node[to].next = new(m.node[from].next)
      /\ q.node[to].prev = m.node[from].prev
  BY <1>4
<1>7. \A l \in 0..t : q.head[l] = new(m.head[l])
  BY <1>4
<1>8. ASSUME NEW n \in Y
      PROVE  /\ q.node[n].scope \in 0..t
             /\ q.node[n].next # Null => /\ q.node[n].next \in Y
                                         /\ q.node[q.node[n].next].scope = q.node[n].scope
                                         /\ q.node[q.node[n].next].prev = NextOf(n)
                                         /\ u[q.node[n].next] < u[n]
  <2>1. PICK a \in X : n = new(a) /\ (a = from <=> n = to)
    BY <1>8
  <2>2. /\ q.node[n].scope = m.node[a].scope
        /\ q.node[n].next = new(m.node[a].next)
        /\ u[n] = r[a]
    BY <2>1, <1>3, <1>5, <1>6
  <2>3. m.node[a].scope \in 0..t
    BY DEF Linked
  <2>4. ASSUME q.node[n].next # Null
        PROVE  /\ q.node[n].next \in Y
               /\ q.node[q.node[n].next].scope = q.node[n].scope
               /\ q.node[q.node[n].next].prev = NextOf(n)
               /\ u[q.node[n].next] < u[n]
    <3> DEFINE b == m.node[a].next
    <3>1. b # Null
      BY <2>2, <2>4, <1>1
    <3>2. /\ b \in X /\ m.node[b].scope = m.node[a].scope
          /\ m.node[b].prev = NextOf(a) /\ r[b] < r[a]
      BY <3>1 DEF Linked
    <3> HIDE DEF b
    <3>3. new(b) \in Y /\ q.node[new(b)].scope = m.node[b].scope /\ u[new(b)] = r[b]
      BY <3>2, <1>3, <1>5, <1>6
    <3>4. q.node[new(b)].prev = NextOf(n)
      <4>1. CASE b = from
        BY <4>1, <3>2, <2>1, <1>4, <1>6
      <4>2. CASE b # from /\ a = from
        BY <4>2, <3>2, <2>1, <1>5 DEF b
      <4>3. CASE b # from /\ a # from
        <5>1. b # m.node[from].next
          BY <4>3, <3>2, <1>1, Addresses DEF Linked
        <5> QED  BY <4>3, <5>1, <3>2, <2>1, <1>5
      <4> QED  BY <4>1, <4>2, <4>3
    <3> QED  BY <2>2, <3>2, <3>3, <3>4 DEF b
  <2> QED  BY <2>2, <2>3, <2>4
<1>9. ASSUME NEW n \in Y
      PROVE  /\ \/ q.head[q.node[n].scope] = n
                \/ \E p \in Y : q.node[n].prev = NextOf(p) /\ q.node[p].next = n
             /\ \A l \in 0..t : q.node[n].next = q.head[l] => q.head[l] = Null
  <2>1. PICK a \in X : n = new(a) /\ (a = from <=> n = to)
    BY <1>9
  <2>2. /\ q.node[n].scope = m.node[a].scope /\ m.node[a].scope \in 0..t
        /\ q.node[n].next = new(m.node[a].next)
    BY <2>1, <1>5, <1>6 DEF Linked
  <2>3. \A l \in 0..t : q.node[n].next = q.head[l] => q.head[l] = Null
    <3>1. \A l \in 0..t : m.node[a].next = m.head[l] => m.head[l] = Null
      BY DEF Linked
    <3>2. \A l \in 0..t : m.head[l] # Null => m.head[l] \in X
      BY DEF Linked
    <3>3. m.node[a].next # Null => m.node[a].next \in X
      BY DEF Linked
    <3> QED  BY <2>2, <3>1, <3>2, <3>3, <1>1, <1>7
  <2>4. CASE m.head[m.node[a].scope] = a
    BY <2>1, <2>2, <2>3, <2>4, <1>7
  <2>5. ASSUME NEW p \in X, m.node[a].prev = NextOf(p), m.node[p].next = a
        PROVE  \E j \in Y : q.node[n].prev = NextOf(j) /\ q.node[j].next = n
    <3>1. q.node[new(p)].next = n /\ new(p) \in Y
      BY <2>1, <2>5, <1>5, <1>6
    <3>2. q.node[n].prev = NextOf(new(p))
      <4>1. CASE a = from
        BY <4>1, <2>1, <2>5, <1>4, <1>6
      <4>2. CASE a # from /\ p = from
        BY <4>2, <2>1, <2>5, <1>5
      <4>3. CASE a # from /\ p # from
        <5>1. a # m.node[from].next
          BY <4>3, <2>5, <1>1, Addresses DEF Linked
        <5> QED  BY <4>3, <5>1, <2>1, <2>5, <1>5
      <4> QED  BY <4>1, <4>2, <4>3
    <3> QED  BY <3>1, <3>2
  <2>6. \/ m.head[m.node[a].scope] = a
        \/ \E p \in X : m.node[a].prev = NextOf(p) /\ m.node[p].next = a
    BY DEF Linked
  <2> QED  BY <2>3, <2>4, <2>5, <2>6
<1>10. ASSUME NEW l \in 0..t, q.head[l] # Null
       PROVE  /\ q.head[l] \in Y
              /\ q.node[q.head[l]].scope = l
              /\ l <= s => q.node[q.head[l]].prev = HeadOf(l)
  <2> DEFINE a == m.head[l]
  <2>1. a \in X /\ m.node[a].scope = l /\ (l <= s => m.node[a].prev = HeadOf(l))
    BY <1>1, <1>7, <1>10 DEF Linked
  <2>2. q.head[l] = new(a)
    BY <1>7
  <2>3. a # m.node[from].next
    BY <2>1, <1>1 DEF Linked
  <2> HIDE DEF a
  <2>4. new(a) \in Y /\ q.node[new(a)].scope = l
    BY <2>1, <1>5, <1>6
  <2>5. q.node[new(a)].prev = m.node[a].prev
    BY <2>1, <2>3, <1>5, <1>6
  <2> QED  BY <2>1, <2>2, <2>4, <2>5
<1>11. Linked(q, Y, s, t, u)
  BY <1>8, <1>9, <1>10 DEF Linked
<1> QED  BY <1>2, <1>11 DEF u

\* The node n is before the first one of the scope l.
BeforeFirst(m, q, X, t, n, l) ==
  /\ q.node[n].scope = l /\ q.node[n].next = m.head[l] /\ q.node[n].prev = HeadOf(l)
  /\ \A k \in X : /\ q.node[k].scope = m.node[k].scope
                  /\ q.node[k].next = m.node[k].next
                  /\ q.node[k].prev = IF k = m.head[l] THEN NextOf(n) ELSE m.node[k].prev
  /\ \A j \in 0..t : q.head[j] = IF j = l THEN n ELSE m.head[j]

\* A node n comes to the front of the list l.
LEMMA LinkedAdded ==
  ASSUME NEW m, NEW q, NEW X, NEW s \in Nat, NEW t \in Nat, NEW r, Linked(m, X, s, t, r),
         Numbered(X, r), X \subseteq Ids,
         NEW n \in Ids \ X, NEW l \in 0..t, l <= s,
         BeforeFirst(m, q, X, t, n, l)
  PROVE  \E u \in [Ids -> Nat] : Numbered(X \cup {n}, u) /\ Linked(q, X \cup {n}, s, t, u)
<1> USE DEF BeforeFirst
<1> DEFINE Y == X \cup {n}
<1>1. PICK b \in Nat : \A k \in X : r[k] < b
  BY DEF Numbered
<1> DEFINE u == [r EXCEPT ![n] = b]
<1>2. u \in [Ids -> Nat] /\ u[n] = b /\ \A k \in X : u[k] = r[k] /\ r[k] \in Nat
  BY DEF Numbered
<1> HIDE DEF u
<1>3. Numbered(Y, u)
  <2>1. \A k \in Y : u[k] < b + 1
    BY <1>1, <1>2
  <2> QED  BY <1>2, <2>1 DEF Numbered
<1>4. Null \notin X /\ n # Null
  BY NullNotId
<1>5. m.head[l] # Null => m.head[l] \in X /\ m.node[m.head[l]].scope = l
  BY DEF Linked
<1>6. ASSUME NEW k \in Y
      PROVE  /\ q.node[k].scope \in 0..t
             /\ q.node[k].next # Null => /\ q.node[k].next \in Y
                                         /\ q.node[q.node[k].next].scope = q.node[k].scope
                                         /\ q.node[q.node[k].next].prev = NextOf(k)
                                         /\ u[q.node[k].next] < u[k]
             /\ \A j \in 0..t : q.node[k].next = q.head[j] => q.head[j] = Null
  <2>1. CASE k = n
    <3>1. q.node[k].next # Null => q.node[k].next \in X /\ u[q.node[k].next] < u[k]
      BY <2>1, <1>1, <1>2, <1>5
    <3>2. \A j \in 0..t : m.head[l] = m.head[j] => m.head[j] = Null \/ j = l
      BY DEF Linked
    <3>3. m.head[l] # n
      BY <1>4, <1>5
    <3> QED  BY <2>1, <1>5, <3>1, <3>2, <3>3
  <2>2. CASE k # n
    <3>1. k \in X
      BY <2>2
    <3>2. /\ m.node[k].scope \in 0..t
          /\ m.node[k].next # Null => /\ m.node[k].next \in X
                                      /\ m.node[m.node[k].next].scope = m.node[k].scope
                                      /\ m.node[m.node[k].next].prev = NextOf(k)
                                      /\ r[m.node[k].next] < r[k]
          /\ \A j \in 0..t : m.node[k].next = m.head[j] => m.head[j] = Null
      BY <3>1 DEF Linked
    <3>3. m.node[k].next # Null => m.node[k].next # m.head[l]
      BY <3>2
    <3>4. m.node[k].next # n
      BY <3>2, <1>4
    <3> QED  BY <1>2, <3>1, <3>2, <3>3, <3>4
  <2> QED  BY <2>1, <2>2
<1>7. ASSUME NEW k \in Y
      PROVE  \/ q.head[q.node[k].scope] = k
             \/ \E p \in Y : q.node[k].prev = NextOf(p) /\ q.node[p].next = k
  <2>1. CASE k = n
    BY <2>1
  <2>2. CASE k \in X /\ k = m.head[l]
    BY <2>2
  <2>3. CASE k \in X /\ k # m.head[l]
    <3>1. m.node[k].scope \in 0..t
      BY <2>3 DEF Linked
    <3>2. CASE m.head[m.node[k].scope] = k
      <4>1. m.node[k].scope # l
        BY <2>3, <3>2
      <4> QED  BY <2>3, <3>1, <3>2, <4>1
    <3>3. CASE m.head[m.node[k].scope] # k
      <4>1. PICK p \in X : m.node[k].prev = NextOf(p) /\ m.node[p].next = k
        BY <2>3, <3>3 DEF Linked
      <4> QED  BY <2>3, <4>1
    <3> QED  BY <3>2, <3>3
  <2> QED  BY <2>1, <2>2, <2>3
<1>8. ASSUME NEW j \in 0..t, q.head[j] # Null
      PROVE  /\ q.head[j] \in Y
             /\ q.node[q.head[j]].scope = j
             /\ j <= s => q.node[q.head[j]].prev = HeadOf(j)
  <2>1. CASE j = l
    BY <2>1
  <2>2. CASE j # l
    <3>1. /\ m.head[j] \in X /\ m.node[m.head[j]].scope = j
          /\ j <= s => m.node[m.head[j]].prev = HeadOf(j)
      BY <2>2, <1>8 DEF Linked
    <3>2. m.head[j] # m.head[l]
      BY <2>2, <1>5, <3>1, <1>4
    <3> QED  BY <2>2, <3>1, <3>2
  <2> QED  BY <2>1, <2>2
<1>9. Linked(q, Y, s, t, u)
  BY <1>6, <1>7, <1>8 DEF Linked
<1> QED  BY <1>2, <1>3, <1>9

\* The neighbours of n point to each other.
TakenOff(m, q, X, t, n) ==
  /\ \A k \in X \ {n} : /\ q.node[k].scope = m.node[k].scope
                        /\ q.node[k].prev = IF k = m.node[n].next THEN m.node[n].prev
                                                                  ELSE m.node[k].prev
                        /\ q.node[k].next = IF m.node[n].prev = NextOf(k) THEN m.node[n].next
                                                                          ELSE m.node[k].next
  /\ \A l \in 0..t : q.head[l] = IF m.node[n].prev = HeadOf(l) THEN m.node[n].next ELSE m.head[l]

\* A node n leaves its list.
LEMMA LinkedUnlinked ==
  ASSUME NEW m, NEW q, NEW X, NEW s \in Nat, NEW t \in Nat, NEW r, Linked(m, X, s, t, r),
         Numbered(X, r), X \subseteq Ids, s <= t,
         NEW n \in X, m.node[n].scope <= s,
         TakenOff(m, q, X, t, n)
  PROVE  Numbered(X \ {n}, r) /\ Linked(q, X \ {n}, s, t, r)
<1> USE DEF TakenOff
<1> DEFINE Y == X \ {n}
           a == m.node[n].next
<1>1. Null \notin X
  BY NullNotId
<1>2. Numbered(Y, r)
  BY DEF Numbered
<1>3. Placed(m, X, t, n)
  BY LinkedPlace
<1>4. /\ a # n
      /\ \A p \in X : m.node[p].next = n <=> m.node[n].prev = NextOf(p)
      /\ \A l \in 0..t : m.head[l] = n <=> m.node[n].prev = HeadOf(l)
      /\ \/ m.node[n].prev = HeadOf(m.node[n].scope)
         \/ \E p \in X \ {n} : m.node[n].prev = NextOf(p)
  BY <1>3 DEF Placed
<1>5. /\ m.node[n].scope \in 0..t
      /\ a # Null => /\ a \in X /\ m.node[a].scope = m.node[n].scope
                     /\ m.node[a].prev = NextOf(n) /\ r[a] < r[n]
      /\ \A l \in 0..t : a = m.head[l] => m.head[l] = Null
  BY DEF Linked
<1> HIDE DEF a
<1>6. ASSUME NEW k \in Y
      PROVE  /\ q.node[k].scope = m.node[k].scope
             /\ q.node[k].next = IF m.node[k].next = n THEN a ELSE m.node[k].next
             /\ q.node[k].prev = IF k = a THEN m.node[n].prev ELSE m.node[k].prev
  BY <1>4 DEF a
<1>7. \A l \in 0..t : q.head[l] = IF m.head[l] = n THEN a ELSE m.head[l]
  BY <1>4 DEF a
<1>8. ASSUME NEW k \in Y
      PROVE  /\ q.node[k].scope \in 0..t
             /\ q.node[k].next # Null => /\ q.node[k].next \in Y
                                         /\ q.node[q.node[k].next].scope = q.node[k].scope
                                         /\ q.node[q.node[k].next].prev = NextOf(k)
                                         /\ r[q.node[k].next] < r[k]
             /\ \A l \in 0..t : q.node[k].next = q.head[l] => q.head[l] = Null
  <2> DEFINE b == m.node[k].next
  <2>1. /\ m.node[k].scope \in 0..t
        /\ b # Null => /\ b \in X /\ m.node[b].scope = m.node[k].scope
                       /\ m.node[b].prev = NextOf(k) /\ r[b] < r[k]
        /\ \A l \in 0..t : b = m.head[l] => m.head[l] = Null
    BY DEF Linked
  <2>a. q.node[k].next = IF b = n THEN a ELSE b
    BY <1>6
  <2> HIDE DEF b
  <2>2. CASE b = n
    <3>1. m.node[n].prev = NextOf(k) /\ m.node[n].scope = m.node[k].scope /\ r[n] < r[k]
      BY <2>1, <2>2, <1>1
    <3>2. q.node[k].next = a
      BY <2>2, <2>a
    <3>3. (r[a] \in Nat /\ r[n] \in Nat /\ r[k] \in Nat) \/ a = Null
      BY <1>5 DEF Numbered
    <3>4. a # Null => a \in Y /\ q.node[a].scope = q.node[k].scope /\ q.node[a].prev = NextOf(k)
                      /\ r[a] < r[k]
      BY <3>1, <3>3, <1>4, <1>5, <1>6
    <3>5. \A l \in 0..t : a = q.head[l] => q.head[l] = Null
      <4>1. \A l \in 0..t : m.head[l] # n
        BY <2>1, <2>2, <1>1
      <4> QED  BY <4>1, <1>5, <1>7
    <3> QED  BY <2>1, <3>2, <3>4, <3>5, <1>6
  <2>3. CASE b # n
    <3>1. q.node[k].next = b
      BY <2>3, <2>a
    <3>2. b # Null => b # a
      BY <2>1, <1>5, Addresses
    <3>3. b # Null => b \in Y /\ q.node[b].scope = q.node[k].scope /\ q.node[b].prev = NextOf(k)
                      /\ r[b] < r[k]
      BY <2>1, <2>3, <3>2, <1>6
    <3>4. ASSUME NEW l \in 0..t, b = q.head[l]
          PROVE  q.head[l] = Null
      <4>1. CASE m.head[l] = n
        BY <4>1, <3>2, <3>4, <1>7
      <4>2. CASE m.head[l] # n
        BY <4>2, <2>1, <3>4, <1>7
      <4> QED  BY <4>1, <4>2
    <3> QED  BY <2>1, <3>1, <3>3, <3>4, <1>6
  <2> QED  BY <2>2, <2>3
<1>9. ASSUME NEW k \in Y
      PROVE  \/ q.head[q.node[k].scope] = k
             \/ \E p \in Y : q.node[k].prev = NextOf(p) /\ q.node[p].next = k
  <2>1. /\ m.node[k].scope \in 0..t
        /\ \/ m.head[m.node[k].scope] = k
           \/ \E p \in X : m.node[k].prev = NextOf(p) /\ m.node[p].next = k
    BY DEF Linked
  <2>2. CASE m.head[m.node[k].scope] = k
    BY <2>1, <2>2, <1>6, <1>7
  <2>3. ASSUME NEW p \in X, m.node[k].prev = NextOf(p), m.node[p].next = k
        PROVE  \/ q.head[q.node[k].scope] = k
               \/ \E j \in Y : q.node[k].prev = NextOf(j) /\ q.node[j].next = k
    <3>1. CASE p # n
      <4>1. k # a
        BY <2>3, <3>1, <1>1, <1>5, Addresses
      <4>2. q.node[k].prev = NextOf(p) /\ q.node[p].next = k
        BY <2>3, <3>1, <4>1, <1>6
      <4> QED  BY <3>1, <4>2
    <3>2. CASE p = n
      <4>1. k = a /\ k # Null
        BY <2>3, <3>2, <1>1 DEF a
      <4>2. q.node[k].prev = m.node[n].prev /\ q.node[k].scope = m.node[n].scope
        BY <4>1, <1>5, <1>6
      <4>3. CASE m.node[n].prev = HeadOf(m.node[n].scope)
        <5>1. m.head[m.node[n].scope] = n
          BY <4>3, <1>4, <1>5
        <5> QED  BY <4>1, <4>2, <5>1, <1>5, <1>7
      <4>4. ASSUME NEW j \in X \ {n}, m.node[n].prev = NextOf(j)
            PROVE  \E i \in Y : q.node[k].prev = NextOf(i) /\ q.node[i].next = k
        BY <4>1, <4>2, <4>4, <1>4, <1>6
      <4> QED  BY <4>3, <4>4, <1>4
    <3> QED  BY <3>1, <3>2
  <2> QED  BY <2>1, <2>2, <2>3
<1>10. ASSUME NEW l \in 0..t, q.head[l] # Null
       PROVE  /\ q.head[l] \in Y
              /\ q.node[q.head[l]].scope = l
              /\ l <= s => q.node[q.head[l]].prev = HeadOf(l)
  <2>1. CASE m.head[l] = n
    <3>1. q.head[l] = a /\ a # Null /\ m.node[n].scope = l
      BY <2>1, <1>1, <1>7, <1>10 DEF Linked
    <3>2. m.node[n].prev = HeadOf(l)
      BY <2>1, <1>4
    <3> QED  BY <3>1, <3>2, <1>4, <1>5, <1>6
  <2>2. CASE m.head[l] # n
    <3>1. q.head[l] = m.head[l]
      BY <2>2, <1>7
    <3>2. /\ m.head[l] \in X /\ m.node[m.head[l]].scope = l
          /\ l <= s => m.node[m.head[l]].prev = HeadOf(l)
      BY <3>1, <1>10 DEF Linked
    <3>3. m.head[l] # a
      BY <3>2, <1>1, <1>5
    <3> QED  BY <2>2, <3>1, <3>2, <3>3, <1>6
  <2> QED  BY <2>1, <2>2
<1>11. Linked(q, Y, s, t, r)
  BY <1>8, <1>9, <1>10 DEF Linked
<1> QED  BY <1>2, <1>11

\* The head of the list t has advanced past n.
Skipped(m, q, X, t, n) ==
  /\ \A k \in X \ {n} : /\ q.node[k].scope = m.node[k].scope
                        /\ q.node[k].prev = m.node[k].prev
                        /\ q.node[k].next = m.node[k].next
  /\ \A l \in 0..t : q.head[l] = IF l = t THEN m.node[n].next ELSE m.head[l]

\* ~Scope takes the first node n of the newest list.
LEMMA LinkedConsumed ==
  ASSUME NEW m, NEW q, NEW X, NEW s \in Nat, NEW t \in Nat, NEW r, Linked(m, X, s, t, r),
         Numbered(X, r), X \subseteq Ids, s < t,
         NEW n \in X, m.head[t] = n, Skipped(m, q, X, t, n)
  PROVE  Numbered(X \ {n}, r) /\ Linked(q, X \ {n}, s, t, r)
<1> USE DEF Skipped
<1> DEFINE Y == X \ {n}
           a == m.node[n].next
<1>1. Null \notin X
  BY NullNotId
<1>2. Numbered(Y, r)
  BY DEF Numbered
<1>3. /\ m.node[n].scope = t
      /\ a # Null => /\ a \in X /\ m.node[a].scope = t
                     /\ m.node[a].prev = NextOf(n) /\ r[a] < r[n]
      /\ \A l \in 0..t : a = m.head[l] => m.head[l] = Null
  BY <1>1 DEF Linked
<1>4. a # n
  BY <1>1, <1>3 DEF Numbered
<1>5. \A l \in 0..t : l # t => m.head[l] # n
  BY <1>1, <1>3 DEF Linked
<1> HIDE DEF a
<1>6. ASSUME NEW k \in Y
      PROVE  /\ q.node[k].scope \in 0..t
             /\ q.node[k].next # Null => /\ q.node[k].next \in Y
                                         /\ q.node[q.node[k].next].scope = q.node[k].scope
                                         /\ q.node[q.node[k].next].prev = NextOf(k)
                                         /\ r[q.node[k].next] < r[k]
             /\ \A l \in 0..t : q.node[k].next = q.head[l] => q.head[l] = Null
  <2> DEFINE b == m.node[k].next
  <2>1. /\ m.node[k].scope \in 0..t
        /\ b # Null => /\ b \in X /\ m.node[b].scope = m.node[k].scope
                       /\ m.node[b].prev = NextOf(k) /\ r[b] < r[k]
        /\ \A l \in 0..t : b = m.head[l] => m.head[l] = Null
    BY DEF Linked
  <2>2. q.node[k].next = b
    OBVIOUS
  <2> HIDE DEF b
  <2>3. b # n
    BY <2>1, <1>1
  <2>4. b # Null => b # a
    BY <2>1, <1>3, Addresses
  <2> QED  BY <2>1, <2>2, <2>3, <2>4 DEF a
<1>7. ASSUME NEW k \in Y
      PROVE  \/ q.head[q.node[k].scope] = k
             \/ \E p \in Y : q.node[k].prev = NextOf(p) /\ q.node[p].next = k
  <2>1. /\ m.node[k].scope \in 0..t
        /\ \/ m.head[m.node[k].scope] = k
           \/ \E p \in X : m.node[k].prev = NextOf(p) /\ m.node[p].next = k
    BY DEF Linked
  <2>2. CASE m.head[m.node[k].scope] = k
    BY <2>1, <2>2
  <2>3. ASSUME NEW p \in X, m.node[k].prev = NextOf(p), m.node[p].next = k
        PROVE  \/ q.head[q.node[k].scope] = k
               \/ \E j \in Y : q.node[k].prev = NextOf(j) /\ q.node[j].next = k
    <3>1. CASE p = n
      BY <3>1, <2>3, <1>1, <1>3 DEF a
    <3>2. CASE p # n
      BY <3>2, <2>3
    <3> QED  BY <3>1, <3>2
  <2> QED  BY <2>1, <2>2, <2>3
<1>8. ASSUME NEW l \in 0..t, q.head[l] # Null
      PROVE  /\ q.head[l] \in Y
             /\ q.node[q.head[l]].scope = l
             /\ l <= s => q.node[q.head[l]].prev = HeadOf(l)
  <2>1. CASE l = t
    BY <2>1, <1>3, <1>4, <1>8 DEF a
  <2>2. CASE l # t
    <3>1. q.head[l] = m.head[l] /\ m.head[l] # n
      BY <2>2, <1>5
    <3>2. /\ m.head[l] \in X /\ m.node[m.head[l]].scope = l
          /\ l <= s => m.node[m.head[l]].prev = HeadOf(l)
      BY <3>1, <1>8 DEF Linked
    <3> QED  BY <3>1, <3>2
  <2> QED  BY <2>1, <2>2
<1>9. Linked(q, Y, s, t, r)
  BY <1>6, <1>7, <1>8 DEF Linked
<1> QED  BY <1>2, <1>9

\* A nonempty set of natural numbers has a smallest one.
LEMMA NatMin ==
  ASSUME NEW S, S \subseteq Nat, S # {}
  PROVE  \E m \in S : \A k \in S : m <= k
<1> DEFINE R == {ss \in Nat \X Nat : ss[1] < ss[2]}
<1>1. IsWellFoundedOn(R, Nat)
  BY NatLessThanWellFounded, Zenon DEF OpToRel
<1>2. ASSUME NEW x \in Nat, NEW y \in Nat
      PROVE  <<y, x>> \in R <=> y < x
  OBVIOUS
<1> HIDE DEF R
<1>3. PICK x \in S : \A y \in S : ~ (<<y, x>> \in R)
  BY <1>1, WFMin, Zenon
<1>4. ASSUME NEW y \in S
      PROVE  x <= y
  <2>1. x \in Nat /\ y \in Nat /\ <<y, x>> \notin R
    BY <1>3
  <2> QED  BY <1>2, <2>1
<1> QED  BY <1>4

\* What holds of the first node of a list and of the successor of each node holds
\* of all: there is no other way into a list.
LEMMA LinkedReaches ==
  ASSUME NEW m, NEW X, NEW s \in Nat, NEW t \in Nat, NEW r, Linked(m, X, s, t, r),
         Numbered(X, r), X \subseteq Ids, NEW l, NEW W,
         m.head[l] # Null => m.head[l] \in W,
         \A p \in X : p \in W /\ m.node[p].next # Null => m.node[p].next \in W
  PROVE  \A n \in X : m.node[n].scope = l => n \in W
<1> SUFFICES ASSUME NEW z \in X, m.node[z].scope = l, z \notin W
             PROVE  FALSE
  OBVIOUS
<1>1. Null \notin X
  BY NullNotId
<1>2. PICK b \in Nat : \A n \in X : r[n] < b /\ r[n] \in Nat
  BY DEF Numbered
<1> DEFINE Out == {n \in X : m.node[n].scope = l /\ n \notin W}
           S == {b - r[n] : n \in Out}
<1>3. S \in SUBSET Nat /\ S # {}
  BY <1>2
<1>4. PICK d \in S : \A k \in S : d <= k
  BY <1>3, NatMin
<1>5. PICK n \in Out : d = b - r[n]
  BY <1>4
<1>6. \A k \in Out : r[k] <= r[n]
  BY <1>2, <1>4, <1>5
<1>7. m.head[l] # n
  BY <1>1, <1>5
<1>8. PICK p \in X : m.node[p].next = n
  BY <1>5, <1>7 DEF Linked
<1>9. r[n] < r[p] /\ m.node[p].scope = l
  BY <1>1, <1>5, <1>8 DEF Linked
<1>10. p \notin W
  BY <1>1, <1>5, <1>8
<1>11. r[p] <= r[n]
  BY <1>6, <1>8, <1>9, <1>10
<1> QED  BY <1>2, <1>5, <1>8, <1>9, <1>11

\* The scopes up to a newer one, whose list is empty.
LEMMA LinkedMore ==
  ASSUME NEW m, NEW q, NEW X, NEW s \in Nat, NEW r, Linked(m, X, s, s, r),
         q.node = m.node, q.head[s + 1] = Null, \A l \in 0..s : q.head[l] = m.head[l]
  PROVE  Linked(q, X, s + 1, s + 1, r)
<1>1. \A l \in 0..(s + 1) : l \in 0..s \/ l = s + 1
  OBVIOUS
<1>2. \A n \in X : m.node[n].scope \in 0..s /\ m.node[n].scope \in 0..(s + 1)
  BY DEF Linked
<1>3. ASSUME NEW n \in X
      PROVE  /\ m.node[n].next # Null => /\ m.node[n].next \in X
                                         /\ m.node[m.node[n].next].scope = m.node[n].scope
                                         /\ m.node[m.node[n].next].prev = NextOf(n)
                                         /\ r[m.node[n].next] < r[n]
             /\ \/ m.head[m.node[n].scope] = n
                \/ \E p \in X : m.node[n].prev = NextOf(p) /\ m.node[p].next = n
             /\ \A l \in 0..s : m.node[n].next = m.head[l] => m.head[l] = Null
  BY DEF Linked
<1>4. ASSUME NEW l \in 0..(s + 1), q.head[l] # Null
      PROVE  q.head[l] \in X /\ q.node[q.head[l]].scope = l /\ q.node[q.head[l]].prev = HeadOf(l)
  BY <1>1, <1>4 DEF Linked
<1> QED  BY <1>1, <1>2, <1>3, <1>4 DEF Linked

\* The newest list is going to be consumed.
LEMMA LinkedClosing ==
  ASSUME NEW m, NEW X, NEW s \in Nat, NEW t \in Nat, NEW r, Linked(m, X, s, t, r),
         NEW w \in Nat, w <= s
  PROVE  Linked(m, X, w, t, r)
  BY DEF Linked

\* The newest list has been consumed.
LEMMA LinkedClosed ==
  ASSUME NEW m, NEW X, NEW s \in Nat, NEW r, Linked(m, X, s, s + 1, r),
         Numbered(X, r), X \subseteq Ids, m.head[s + 1] = Null
  PROVE  Linked(m, X, s, s, r)
<1>1. \A n \in X : m.node[n].scope = s + 1 => n \in {}
  <2> DEFINE W == {}
  <2>1. \A p \in X : p \in W /\ m.node[p].next # Null => m.node[p].next \in W
    OBVIOUS
  <2>2. m.head[s + 1] # Null => m.head[s + 1] \in W
    OBVIOUS
  <2> HIDE DEF W
  <2>3. \A n \in X : m.node[n].scope = s + 1 => n \in W
    <3>1. s + 1 \in Nat
      OBVIOUS
    <3> QED  BY <2>1, <2>2, <3>1, LinkedReaches
  <2> QED  BY <2>3 DEF W
<1>2. \A n \in X : m.node[n].scope \in 0..(s + 1)
  BY DEF Linked
<1>3. \A n \in X : m.node[n].scope \in 0..s
  BY <1>1, <1>2
<1>4. \A l \in 0..s : l \in 0..(s + 1)
  OBVIOUS
<1>5. ASSUME NEW n \in X
      PROVE  /\ m.node[n].next # Null => /\ m.node[n].next \in X
                                         /\ m.node[m.node[n].next].scope = m.node[n].scope
                                         /\ m.node[m.node[n].next].prev = NextOf(n)
                                         /\ r[m.node[n].next] < r[n]
             /\ \/ m.head[m.node[n].scope] = n
                \/ \E p \in X : m.node[n].prev = NextOf(p) /\ m.node[p].next = n
             /\ \A l \in 0..s : m.node[n].next = m.head[l] => m.head[l] = Null
  BY <1>4 DEF Linked
<1>6. ASSUME NEW l \in 0..s, m.head[l] # Null
      PROVE  m.head[l] \in X /\ m.node[m.head[l]].scope = l /\ m.node[m.head[l]].prev = HeadOf(l)
  BY <1>4, <1>6 DEF Linked
<1> QED  BY <1>3, <1>5, <1>6 DEF Linked
-----------------------------------------------------------------------------
(* Walks along the lists. *)

\* g is a, f[a], f[f[a]] and so on.
Iterates(g, S, f, a, N) ==
  g \in [0..N -> S] /\ g[0] = a /\ \A k \in 1..N : g[k] = f[g[k - 1]]

\* The iterates of a function exist.
LEMMA IteratesExist ==
  ASSUME NEW S, NEW f \in [S -> S], NEW a \in S, NEW N \in Nat
  PROVE  \E g : Iterates(g, S, f, a, N)
<1> DEFINE Upto(j) == \E g \in [0..j -> S] : g[0] = a /\ \A k \in 1..j : g[k] = f[g[k - 1]]
           Fails == {j \in 0..N : ~Upto(j)}
<1>1. Upto(0)
  <2> DEFINE g == [k \in 0..0 |-> a]
  <2>1. g \in [0..0 -> S] /\ g[0] = a /\ \A k \in 1..0 : g[k] = f[g[k - 1]]
    OBVIOUS
  <2> QED  BY <2>1
<1>2. ASSUME NEW j \in Nat, Upto(j)
      PROVE  Upto(j + 1)
  <2>1. PICK g \in [0..j -> S] : g[0] = a /\ \A k \in 1..j : g[k] = f[g[k - 1]]
    BY <1>2
  <2> DEFINE h == [k \in 0..(j + 1) |-> IF k = j + 1 THEN f[g[j]] ELSE g[k]]
  <2>2. h \in [0..(j + 1) -> S] /\ h[0] = a
    BY <2>1
  <2>3. ASSUME NEW k \in 1..(j + 1)
        PROVE  h[k] = f[h[k - 1]]
    <3>1. CASE k = j + 1
      BY <3>1
    <3>2. CASE k # j + 1
      <4>1. k \in 1..j /\ k - 1 \in 0..j /\ k - 1 # j + 1
        BY <3>2
      <4> QED  BY <2>1, <3>2, <4>1
    <3> QED  BY <3>1, <3>2
  <2> QED  BY <2>2, <2>3
<1> HIDE DEF Upto
<1>3. Fails = {}
  <2> SUFFICES ASSUME Fails # {} PROVE FALSE
    OBVIOUS
  <2>1. Fails \subseteq Nat
    OBVIOUS
  <2>2. PICK j \in Fails : \A k \in Fails : j <= k
    BY <2>1, NatMin
  <2>3. j # 0 /\ j \in 0..N /\ ~Upto(j)
    BY <1>1, <2>2
  <2>4. j - 1 \in Nat /\ j - 1 \in 0..N /\ j - 1 \notin Fails
    BY <2>1, <2>2, <2>3
  <2>5. Upto(j - 1) /\ (j - 1) + 1 = j
    BY <2>3, <2>4
  <2>6. Upto((j - 1) + 1)
    BY <1>2, <2>4, <2>5
  <2> QED  BY <2>3, <2>5, <2>6
<1>4. Upto(N)
  BY <1>3
<1> QED  BY <1>4 DEF Upto, Iterates

Closed == \A n \in DOMAIN node : node[n].next \in DOMAIN node \cup {Null}

After == [m \in DOMAIN node \cup {Null} |-> IF m = Null THEN Null ELSE node[m].next]

\* What the loop of a walk visits.
LEMMA WalkVisits ==
  ASSUME IsFiniteSet(DOMAIN node), Closed, NEW n \in DOMAIN node \cup {Null}
  PROVE  \E v \in [0..Cardinality(DOMAIN node) -> DOMAIN node \cup {Null}] :
            /\ v[0] = n
            /\ \A k \in 1..Cardinality(DOMAIN node) : v[k] = After[v[k - 1]]
            /\ Walk(n) = {v[k] : k \in 0..Cardinality(DOMAIN node)}
<1> DEFINE N == Cardinality(DOMAIN node)
           S == DOMAIN node \cup {Null}
           visited[k \in 0..N] == IF k = 0 THEN n ELSE After[visited[k - 1]]
<1>1. N \in Nat
  BY FS_CardinalityType
<1>2. After \in [S -> S]
  BY DEF After, Closed
<1>3. PICK g \in [0..N -> S] : g[0] = n /\ \A k \in 1..N : g[k] = After[g[k - 1]]
  <2>1. n \in S
    OBVIOUS
  <2> HIDE DEF N, S
  <2>2. \E g : Iterates(g, S, After, n, N)
    BY <1>1, <1>2, <2>1, IteratesExist
  <2> QED  BY <2>2 DEF Iterates
<1>4. g = [k \in 0..N |-> IF k = 0 THEN n ELSE After[g[k - 1]]]
  <2>1. \A k \in 0..N : g[k] = IF k = 0 THEN n ELSE After[g[k - 1]]
    BY <1>1, <1>3
  <2> QED  BY <2>1
<1>5. visited = [k \in 0..N |-> IF k = 0 THEN n ELSE After[visited[k - 1]]]
  BY <1>4
<1>6. Walk(n) = {visited[k] : k \in DOMAIN visited}
  BY DEF Walk, After
<1> HIDE DEF visited
<1>7. DOMAIN visited = 0..N /\ visited[0] = n
  BY <1>1, <1>5
<1>8. \A k \in 1..N : visited[k] = After[visited[k - 1]]
  <2>1. ASSUME NEW k \in 1..N
        PROVE  visited[k] = After[visited[k - 1]]
    <3>1. k \in 0..N /\ k # 0
      BY <1>1
    <3> QED  BY <1>5, <3>1
  <2> QED  BY <2>1
<1>9. visited \in [0..N -> S]
  <2> DEFINE Fails == {k \in 0..N : visited[k] \notin S}
  <2>1. Fails = {}
    <3> SUFFICES ASSUME Fails # {} PROVE FALSE
      OBVIOUS
    <3>1. Fails \subseteq Nat
      OBVIOUS
    <3>2. PICK k \in Fails : \A j \in Fails : k <= j
      BY <3>1, NatMin
    <3>3. k \in 1..N
      BY <1>7, <3>2
    <3>4. k - 1 \in 0..N /\ k - 1 \notin Fails
      BY <1>1, <3>2, <3>3
    <3>5. visited[k - 1] \in S
      BY <3>4
    <3>6. visited[k] \in S
      BY <1>2, <1>8, <3>3, <3>5
    <3> QED  BY <3>2, <3>6
  <2> QED  BY <1>5, <1>7, <2>1
<1>10. Walk(n) = {visited[k] : k \in 0..N}
  BY <1>6, <1>7
<1> QED  BY <1>7, <1>8, <1>9, <1>10

\* The nodes of the list l, as the invariant sees them.
Chained(l) == {n \in DOMAIN node : node[n].scope = l}

\* A walk comes to the end of the list: the numbers decrease, so that it comes by
\* no node twice, and there are not more nodes than it has steps.
LEMMA WalkEnds ==
  ASSUME NEW r, Numbered(DOMAIN node, r), Linked(Mem, DOMAIN node, level, Top, r),
         level \in Nat, Top \in Nat, IsFiniteSet(DOMAIN node), DOMAIN node \subseteq Ids,
         NEW l \in 0..Top
  PROVE  /\ Null \in Walk(head[l])
         /\ Walk(head[l]) \ {Null} = Chained(l)
<1> DEFINE D == DOMAIN node
           N == Cardinality(D)
           h == head[l]
<1>1. N \in Nat /\ Null \notin D
  BY FS_CardinalityType, NullNotId
<1>2. Mem.node = node /\ Mem.head = head
  BY DEF Mem
<1>3. \A n \in D : node[n].next # Null => /\ node[n].next \in D
                                          /\ node[node[n].next].scope = node[n].scope
                                          /\ r[node[n].next] < r[n]
  BY <1>2 DEF Linked
<1>4. h \in D \cup {Null} /\ (h # Null => node[h].scope = l)
  BY <1>2 DEF Linked
<1>5. Closed
  BY <1>3 DEF Closed
<1>6. PICK v \in [0..N -> D \cup {Null}] :
            /\ v[0] = h
            /\ \A k \in 1..N : v[k] = After[v[k - 1]]
            /\ Walk(h) = {v[k] : k \in 0..N}
  BY <1>4, <1>5, WalkVisits
<1>7. ASSUME NEW k \in 1..N
      PROVE  v[k] = IF v[k - 1] = Null THEN Null ELSE node[v[k - 1]].next
  <2>1. v[k - 1] \in D \cup {Null} /\ v[k] = After[v[k - 1]]
    BY <1>1, <1>6
  <2> QED  BY <2>1 DEF After
<1>8. \A n \in D : r[n] \in Nat
  BY DEF Numbered
<1> HIDE DEF N, D, h
<1>9. ASSUME \A k \in 0..N : v[k] # Null
      PROVE  FALSE
  <2>1. \A k \in 0..N : v[k] \in D
    BY <1>6, <1>9
  <2>2. ASSUME NEW i \in 0..N, NEW j \in 0..N, i < j
        PROVE  r[v[j]] < r[v[i]]
    <3> DEFINE Fails == {k \in (i + 1)..N : ~(r[v[k]] < r[v[i]])}
    <3>1. Fails = {}
      <4> SUFFICES ASSUME Fails # {} PROVE FALSE
        OBVIOUS
      <4>1. Fails \subseteq Nat
        OBVIOUS
      <4>2. PICK k \in Fails : \A n \in Fails : k <= n
        BY <4>1, NatMin
      <4> HIDE DEF Fails
      <4>3. k \in (i + 1)..N /\ ~(r[v[k]] < r[v[i]])
        BY <4>2 DEF Fails
      <4>4. k \in 1..N /\ k - 1 \in 0..N
        BY <4>3, <1>1
      <4>5. v[k] = node[v[k - 1]].next /\ v[k] # Null /\ v[k - 1] \in D /\ v[i] \in D /\ v[k] \in D
        BY <4>4, <1>7, <1>9, <2>1
      <4>6. r[v[k]] < r[v[k - 1]]
        BY <4>5, <1>3
      <4>7. k - 1 # i
        BY <4>3, <4>6
      <4>8. k - 1 \in (i + 1)..N
        BY <4>3, <4>4, <4>7, <1>1
      <4>9. k - 1 \notin Fails
        <5>1. ~(k <= k - 1)
          BY <4>4, <1>1
        <5> QED  BY <4>2, <5>1
      <4>10. r[v[k - 1]] < r[v[i]]
        BY <4>8, <4>9 DEF Fails
      <4>11. r[v[k]] \in Nat /\ r[v[k - 1]] \in Nat /\ r[v[i]] \in Nat
        BY <4>5, <1>8
      <4> QED  BY <4>3, <4>6, <4>10, <4>11
    <3>2. j \in (i + 1)..N
      BY <2>2
    <3> QED  BY <3>1, <3>2
  <2>3. v \in [0..N -> D]
    BY <1>6, <2>1
  <2>4. IsFiniteSet(0..N) /\ Cardinality(0..N) = N + 1
    BY <1>1, FS_Interval
  <2>5. N < N + 1 /\ IsFiniteSet(D)
    BY <1>1 DEF D
  <2>6. PICK i \in 0..N, j \in 0..N : i # j /\ v[i] = v[j]
    <3>1. Cardinality(D) < Cardinality(0..N)
      BY <2>4, <2>5 DEF N
    <3> QED  BY <2>3, <2>4, <2>5, <3>1, FS_PigeonHole
  <2>7. r[v[i]] \in Nat
    BY <1>8, <2>1
  <2>8. i < j \/ j < i
    BY <2>6
  <2> QED  BY <2>2, <2>6, <2>7, <2>8
<1>10. Null \in Walk(h)
  BY <1>6, <1>9
<1>11. ASSUME NEW k \in 0..N
       PROVE  v[k] = Null \/ v[k] \in Chained(l)
  <2> DEFINE Fails == {j \in 0..N : ~(v[j] = Null \/ v[j] \in Chained(l))}
  <2>1. Fails = {}
    <3> SUFFICES ASSUME Fails # {} PROVE FALSE
      OBVIOUS
    <3>1. Fails \subseteq Nat
      OBVIOUS
    <3>2. PICK j \in Fails : \A n \in Fails : j <= n
      BY <3>1, NatMin
    <3> HIDE DEF Fails
    <3>3. j \in 0..N /\ v[j] # Null /\ v[j] \notin Chained(l)
      BY <3>2 DEF Fails
    <3>4. j # 0
      BY <3>3, <1>4, <1>6 DEF Chained, D
    <3>5. j \in 1..N /\ j - 1 \in 0..N /\ j - 1 \notin Fails
      BY <3>2, <3>3, <3>4, <1>1
    <3>6. v[j - 1] = Null \/ v[j - 1] \in Chained(l)
      BY <3>5 DEF Fails
    <3>7. v[j - 1] \in D /\ node[v[j - 1]].scope = l /\ v[j] = node[v[j - 1]].next
      BY <3>3, <3>5, <3>6, <1>7 DEF Chained, D
    <3>8. v[j] \in D /\ node[v[j]].scope = l
      BY <3>3, <3>7, <1>3
    <3> QED  BY <3>3, <3>8 DEF Chained, D
  <2> QED  BY <2>1
<1>12. ASSUME NEW n \in D, n \in Walk(h), node[n].next # Null
       PROVE  node[n].next \in Walk(h)
  <2>1. PICK k \in 0..N : n = v[k]
    BY <1>6, <1>12
  <2>2. CASE k < N
    <3>1. k + 1 \in 1..N /\ (k + 1) - 1 = k
      BY <1>1, <2>2
    <3>2. v[k + 1] = node[n].next
      BY <1>1, <1>7, <1>12, <2>1, <3>1
    <3>3. k + 1 \in 0..N
      BY <3>1
    <3> QED  BY <1>6, <3>2, <3>3
  <2>3. CASE k = N
    <3>1. PICK j \in 0..N : v[j] = Null
      BY <1>9
    <3> DEFINE Fails == {i \in j..N : v[i] # Null}
    <3>2. Fails = {}
      <4> SUFFICES ASSUME Fails # {} PROVE FALSE
        OBVIOUS
      <4>1. Fails \subseteq Nat
        OBVIOUS
      <4>2. PICK i \in Fails : \A m \in Fails : i <= m
        BY <4>1, NatMin
      <4> HIDE DEF Fails
      <4>3. i \in j..N /\ v[i] # Null /\ i # j
        BY <3>1, <4>2 DEF Fails
      <4>4. i - 1 \in j..N /\ i \in 1..N /\ i - 1 \notin Fails
        BY <4>2, <4>3, <1>1
      <4>5. v[i - 1] = Null
        BY <4>4 DEF Fails
      <4> QED  BY <4>3, <4>4, <4>5, <1>7
    <3>3. N \in j..N
      BY <1>1
    <3>4. v[N] = Null
      BY <3>2, <3>3
    <3> QED  BY <1>1, <1>12, <2>1, <2>3, <3>4
  <2> QED  BY <1>1, <2>2, <2>3
<1>13. h \in Walk(h)
  BY <1>1, <1>6
<1>14. \A n \in D : node[n].scope = l => n \in Walk(h)
  <2>1. Linked(Mem, D, level, Top, r) /\ Numbered(D, r) /\ D \subseteq Ids
    BY DEF D
  <2>2. \A n \in D : Mem.node[n].scope = l => n \in Walk(h)
    <3>1. Mem.head[l] # Null => Mem.head[l] \in Walk(h)
      BY <1>2, <1>13 DEF h
    <3>2. \A p \in D : p \in Walk(h) /\ Mem.node[p].next # Null => Mem.node[p].next \in Walk(h)
      BY <1>2, <1>12
    <3> QED  BY <2>1, <3>1, <3>2, LinkedReaches
  <2> QED  BY <1>2, <2>2
<1>15. Walk(h) \ {Null} = Chained(l)
  <2>1. \A n \in Walk(h) : n = Null \/ n \in Chained(l)
    BY <1>6, <1>11
  <2>2. \A n \in Chained(l) : n \in Walk(h) /\ n # Null
    BY <1>1, <1>14 DEF Chained, D
  <2> QED  BY <1>1, <2>1, <2>2 DEF Chained, D
<1> QED  BY <1>10, <1>15 DEF h
-----------------------------------------------------------------------------
(* Versions: what the operations keep. *)

\* The nodes of an object.
LEMMA VersionedNodes ==
  ASSUME NEW m, NEW live, NEW copies, Versioned(m, live, copies), NEW o \in live
  PROVE  /\ o \in Obj /\ copies[o] \in Nat
         /\ \A i \in Nat : <<o, i>> \in DOMAIN m.node <=> i <= copies[o]
         /\ <<o, 0>> \in DOMAIN m.node
<1>1. o \in Obj /\ copies[o] \in Nat
  BY DEF Versioned
<1>2. \A i \in Nat : <<o, i>> \in Ids
  BY <1>1 DEF Ids
<1>3. \A i \in Nat : <<o, i>> \in DOMAIN m.node <=> i <= copies[o]
  BY <1>1, <1>2 DEF Versioned
<1> QED  BY <1>1, <1>3

\* The other way round: each node is a version of an object.
LEMMA VersionedNode ==
  ASSUME NEW m, NEW live, NEW copies, Versioned(m, live, copies), NEW n \in DOMAIN m.node
  PROVE  /\ n \in Ids /\ n[1] \in live /\ n[2] \in 0..copies[n[1]] /\ n = <<n[1], n[2]>>
         /\ n[1] \in Obj /\ copies[n[1]] \in Nat
<1>1. n \in Ids /\ n[1] \in live /\ n[2] <= copies[n[1]]
  BY DEF Versioned
<1>2. n = <<n[1], n[2]>> /\ n[1] \in Obj /\ n[2] \in Nat
  BY <1>1 DEF Ids
<1>3. copies[n[1]] \in Nat
  BY <1>2 DEF Versioned
<1> QED  BY <1>1, <1>2, <1>3

\* The copies of an object are counted.
LEMMA CopiesCount ==
  ASSUME NEW m, NEW live, NEW copies, Versioned(m, live, copies), NEW o \in live
  PROVE  Cardinality({n \in DOMAIN m.node : n[1] = o /\ n[2] > 0}) = copies[o]
<1> DEFINE C == {n \in DOMAIN m.node : n[1] = o /\ n[2] > 0}
           K == copies[o]
           f == [i \in 1..K |-> <<o, i>>]
<1>1. K \in Nat /\ \A i \in Nat : <<o, i>> \in DOMAIN m.node <=> i <= K
  BY VersionedNodes
<1>2. \A i \in 1..K : <<o, i>> \in C
  BY <1>1
<1>3. ASSUME NEW n \in C
      PROVE  \E i \in 1..K : n = <<o, i>>
  <2>1. n \in DOMAIN m.node /\ n[1] = o /\ n[2] > 0
    OBVIOUS
  <2>2. n = <<n[1], n[2]>> /\ n[2] \in 0..K
    BY <2>1, VersionedNode
  <2>3. n = <<o, n[2]>> /\ n[2] \in 1..K
    BY <1>1, <2>1, <2>2
  <2> QED  BY <2>3
<1> HIDE DEF C, K
<1>4. f \in Bijection(1..K, C)
  <2>1. f \in [1..K -> C]
    BY <1>2
  <2>2. \A i, j \in 1..K : f[i] = f[j] => i = j
    OBVIOUS
  <2>3. \A n \in C : \E i \in 1..K : f[i] = n
    BY <1>3
  <2> HIDE DEF f
  <2>4. IsInjective(f)
    <3>1. DOMAIN f = 1..K
      BY <2>1
    <3> QED  BY <2>2, <3>1 DEF IsInjective
  <2>5. f \in Injection(1..K, C)
    BY <2>1, <2>4 DEF Injection
  <2>6. f \in Surjection(1..K, C)
    BY <2>1, <2>3 DEF Surjection
  <2> QED  BY <2>5, <2>6 DEF Bijection
<1>5. ExistsBijection(1..K, C)
  BY <1>4 DEF ExistsBijection
<1>6. IsFiniteSet(1..K) /\ Cardinality(1..K) = K
  BY <1>1, FS_Interval
<1>7. Cardinality(C) = K
  BY <1>5, <1>6, FS_Bijection
<1> QED  BY <1>7 DEF C, K

\* The next copy.
LEMMA FreshCopyIs ==
  ASSUME NEW m, NEW live, NEW copies, Versioned(m, live, copies), NEW o \in live
  PROVE  /\ FreshCopy(m, o) = <<o, copies[o] + 1>>
         /\ FreshCopy(m, o) \in Ids \ DOMAIN m.node
<1>0. o \in Obj /\ copies[o] \in Nat
  BY VersionedNodes
<1>1. FreshCopy(m, o) = <<o, copies[o] + 1>>
  <2>1. Cardinality({n \in DOMAIN m.node : n[1] = o /\ n[2] > 0}) = copies[o]
    BY CopiesCount
  <2>2. FreshCopy(m, o) = <<o, 1 + copies[o]>>
    BY <2>1 DEF FreshCopy
  <2>3. 1 + copies[o] = copies[o] + 1
    BY <1>0
  <2> QED  BY <2>2, <2>3
<1>2. copies[o] + 1 \in Nat /\ ~(copies[o] + 1 <= copies[o]) /\ o \in Obj
  BY <1>0
<1>3. <<o, copies[o] + 1>> \notin DOMAIN m.node
  BY <1>2, VersionedNodes
<1> QED  BY <1>1, <1>2, <1>3 DEF Ids

\* Relinking leaves the versions alone.
LEMMA VersionedSame ==
  ASSUME NEW m, NEW q, NEW live, NEW copies, Versioned(m, live, copies),
         DOMAIN q.node = DOMAIN m.node,
         \A n \in DOMAIN m.node : /\ q.node[n].scope = m.node[n].scope
                                  /\ q.node[n].restore = m.node[n].restore
  PROVE  Versioned(q, live, copies)
<1>1. ASSUME NEW o \in live
      PROVE  /\ q.node[<<o, 0>>].restore = IF copies[o] = 0 THEN Null ELSE <<o, copies[o]>>
             /\ \A i \in 1..copies[o] :
                  /\ q.node[<<o, i>>].restore = IF i = 1 THEN Null ELSE <<o, i - 1>>
                  /\ q.node[<<o, i>>].scope \in Nat
                  /\ q.node[<<o, i>>].scope
                       < q.node[IF i = copies[o] THEN <<o, 0>> ELSE <<o, i + 1>>].scope
  <2>1. /\ m.node[<<o, 0>>].restore = IF copies[o] = 0 THEN Null ELSE <<o, copies[o]>>
        /\ \A i \in 1..copies[o] :
             /\ m.node[<<o, i>>].restore = IF i = 1 THEN Null ELSE <<o, i - 1>>
             /\ m.node[<<o, i>>].scope \in Nat
             /\ m.node[<<o, i>>].scope
                  < m.node[IF i = copies[o] THEN <<o, 0>> ELSE <<o, i + 1>>].scope
    BY DEF Versioned
  <2>2. /\ copies[o] \in Nat /\ <<o, 0>> \in DOMAIN m.node
        /\ \A i \in Nat : <<o, i>> \in DOMAIN m.node <=> i <= copies[o]
    BY VersionedNodes
  <2>3. q.node[<<o, 0>>].restore = m.node[<<o, 0>>].restore
        /\ q.node[<<o, 0>>].scope = m.node[<<o, 0>>].scope
    BY <2>2
  <2>4. ASSUME NEW i \in 1..copies[o]
        PROVE  /\ q.node[<<o, i>>].restore = IF i = 1 THEN Null ELSE <<o, i - 1>>
               /\ q.node[<<o, i>>].scope \in Nat
               /\ q.node[<<o, i>>].scope
                    < q.node[IF i = copies[o] THEN <<o, 0>> ELSE <<o, i + 1>>].scope
    <3>1. <<o, i>> \in DOMAIN m.node
      BY <2>2
    <3>2. CASE i = copies[o]
      BY <2>1, <2>3, <3>1, <3>2
    <3>3. CASE i # copies[o]
      <4>1. <<o, i + 1>> \in DOMAIN m.node
        BY <2>2, <3>3
      <4> QED  BY <2>1, <3>1, <3>3, <4>1
    <3> QED  BY <3>2, <3>3
  <2> QED  BY <2>1, <2>3, <2>4
<1> QED  BY <1>1 DEF Versioned
-----------------------------------------------------------------------------
(* The operations on memories, field by field. *)

\* A node whose links are overwritten.
WithLinks(x, a, b) == [x EXCEPT !.next = a, !.prev = b]

\* Its other fields stay.
LEMMA EntryLinks ==
  ASSUME NEW x, IsEntry(x), NEW a, NEW b
  PROVE  LET e == WithLinks(x, a, b) IN
         /\ IsEntry(e)
         /\ e.data = x.data /\ e.scope = x.scope /\ e.restore = x.restore
         /\ e.next = a /\ e.prev = b
<1> DEFINE y == [x EXCEPT !.next = a]
<1>1. /\ IsEntry(y)
      /\ y.data = x.data /\ y.scope = x.scope /\ y.restore = x.restore
      /\ y.next = a
  BY DEF IsEntry
<1>2. WithLinks(x, a, b) = [y EXCEPT !.prev = b]
  BY DEF WithLinks
<1> HIDE DEF y
<1> DEFINE z == [y EXCEPT !.prev = b]
<1>3. /\ IsEntry(z)
      /\ z.data = y.data /\ z.scope = y.scope /\ z.restore = y.restore
      /\ z.next = y.next /\ z.prev = b
  BY <1>1 DEF IsEntry
<1> HIDE DEF z
<1>4. WithLinks(x, a, b) = z
  BY <1>2 DEF z
<1> QED  BY <1>1, <1>3, <1>4

\* Writing one node.
Written(m, n, e) == [node |-> [m.node EXCEPT ![n] = e], head |-> m.head]

\* q is m with the node n written, with a node n more, without the nodes S, or
\* with n before the first node of the scope l.
NodeWritten(m, q, n, e) ==
  /\ IsMem(q) /\ q.head = m.head /\ DOMAIN q.node = DOMAIN m.node
  /\ \A k \in DOMAIN m.node : q.node[k] = IF k = n THEN e ELSE m.node[k]

NodeStored(m, q, n, e) ==
  /\ IsMem(q) /\ q.head = m.head /\ DOMAIN q.node = DOMAIN m.node \cup {n}
  /\ q.node[n] = e
  /\ \A k \in DOMAIN m.node : k # n => q.node[k] = m.node[k]

NodesDropped(m, q, S) ==
  /\ IsMem(q) /\ q.head = m.head /\ DOMAIN q.node = DOMAIN m.node \ S
  /\ \A k \in DOMAIN m.node \ S : q.node[k] = m.node[k]

NodeChained(m, q, n, l) ==
  /\ IsMem(q) /\ SameVersions(m, q)
  /\ \A j \in Level : q.head[j] = IF j = l THEN n ELSE m.head[j]
  /\ q.node[n].next = m.head[l] /\ q.node[n].prev = HeadOf(l)
  /\ \A k \in DOMAIN m.node : k # n =>
       /\ q.node[k].next = m.node[k].next
       /\ q.node[k].prev = IF k = m.head[l] THEN NextOf(n) ELSE m.node[k].prev

\* A written node leaves the other nodes and the heads alone.
LEMMA WrittenMem ==
  ASSUME NEW m, IsMem(m), NEW n \in DOMAIN m.node, NEW e, IsEntry(e)
  PROVE  NodeWritten(m, Written(m, n, e), n, e)
<1> DEFINE q == Written(m, n, e)
<1>1. q = [node |-> [m.node EXCEPT ![n] = e], head |-> m.head]
  BY DEF Written
<1>2. q.head = m.head /\ q.node = [k \in DOMAIN m.node |-> IF k = n THEN e ELSE m.node[k]]
  BY <1>1 DEF IsMem
<1>3. IsMem(q)
  BY <1>1, <1>2 DEF IsMem
<1> QED  BY <1>2, <1>3 DEF NodeWritten

\* Store adds a node.
LEMMA StoreMem ==
  ASSUME NEW m, IsMem(m), NEW n \in Ids, NEW e, IsEntry(e)
  PROVE  NodeStored(m, Store(m, n, e), n, e)
<1> DEFINE q == Store(m, n, e)
           f == [k \in DOMAIN m.node \cup {n} |-> IF k = n THEN e ELSE m.node[k]]
<1>1. q = [node |-> f, head |-> m.head]
  BY DEF Store, IsMem
<1>2. q.head = m.head /\ q.node = f
  BY <1>1
<1>3. IsMem(q)
  BY <1>1, <1>2 DEF IsMem
<1> QED  BY <1>2, <1>3 DEF NodeStored

\* Drop removes nodes.
LEMMA DropMem ==
  ASSUME NEW m, IsMem(m), NEW S
  PROVE  NodesDropped(m, Drop(m, S), S)
<1> DEFINE q == Drop(m, S)
           f == [k \in DOMAIN m.node \ S |-> m.node[k]]
<1>1. q = [node |-> f, head |-> m.head]
  BY DEF Drop, IsMem
<1>2. q.head = m.head /\ q.node = f
  BY <1>1
<1>3. IsMem(q)
  BY <1>1, <1>2 DEF IsMem
<1> QED  BY <1>2, <1>3 DEF NodesDropped

\* addToChain puts a node before the first one.
LEMMA AddToChainMem ==
  ASSUME NEW m, IsMem(m), NEW n \in DOMAIN m.node, NEW l \in Level,
         m.head[l] \in DOMAIN m.node \cup {Null}, m.head[l] # n
  PROVE  NodeChained(m, AddToChain(m, n, l), n, l)
<1> DEFINE m1 == SetPrev(m, m.head[l], NextOf(n))
           m2 == [m1 EXCEPT !.node[n].next = m.head[l], !.node[n].prev = HeadOf(l)]
           q  == [m2 EXCEPT !.head[l] = n]
           e  == WithLinks(m1.node[n], m.head[l], HeadOf(l))
<1>1. AddToChain(m, n, l) = q
  BY DEF AddToChain
<1>a. PrevSet(m, m1, m.head[l], NextOf(n))
  BY SetPrevMem
<1> HIDE DEF m1
<1>2. /\ IsMem(m1) /\ SameVersions(m, m1)
      /\ m1.head = m.head
      /\ \A k \in DOMAIN m.node : /\ m1.node[k].next = m.node[k].next
                                  /\ m1.node[k].prev = IF k = m.head[l] THEN NextOf(n)
                                                                        ELSE m.node[k].prev
  BY <1>a DEF PrevSet
<1>3. n \in DOMAIN m1.node /\ DOMAIN m1.node = DOMAIN m.node
  BY <1>2 DEF SameVersions
<1>4. IsEntry(m1.node[n])
  BY <1>2, <1>3 DEF IsMem
<1>5. /\ IsEntry(e)
      /\ e.data = m1.node[n].data /\ e.scope = m1.node[n].scope /\ e.restore = m1.node[n].restore
      /\ e.next = m.head[l] /\ e.prev = HeadOf(l)
  BY <1>4, EntryLinks
<1>6. m2 = Written(m1, n, e)
  <2> DEFINE m3 == [m1 EXCEPT !.node[n].next = m.head[l]]
  <2>1. m1 = [node |-> m1.node, head |-> m1.head]
    BY <1>2 DEF IsMem
  <2>2. m3 = [node |-> [m1.node EXCEPT ![n] = [m1.node[n] EXCEPT !.next = m.head[l]]],
              head |-> m1.head]
    BY <2>1
  <2>3. m2 = [m3 EXCEPT !.node[n].prev = HeadOf(l)]
    OBVIOUS
  <2> HIDE DEF m3
  <2>4. m2 = [node |-> [m3.node EXCEPT ![n] = [m3.node[n] EXCEPT !.prev = HeadOf(l)]],
              head |-> m3.head]
    BY <2>2, <2>3
  <2> DEFINE y == [m1.node[n] EXCEPT !.next = m.head[l]]
  <2>5. m3.node = [m1.node EXCEPT ![n] = y] /\ m3.head = m1.head
    BY <2>2
  <2>6. e = [y EXCEPT !.prev = HeadOf(l)]
    BY DEF WithLinks
  <2> HIDE DEF y, e
  <2>7. m3.node[n] = y
    BY <1>3, <2>5
  <2>8. m2.node = [[m1.node EXCEPT ![n] = y] EXCEPT ![n] = e] /\ m2.head = m1.head
    BY <2>4, <2>5, <2>6, <2>7
  <2>9. [[m1.node EXCEPT ![n] = y] EXCEPT ![n] = e] = [m1.node EXCEPT ![n] = e]
    OBVIOUS
  <2> QED  BY <2>4, <2>8, <2>9 DEF Written
<1> HIDE DEF e
<1>7. /\ IsMem(m2) /\ m2.head = m1.head /\ DOMAIN m2.node = DOMAIN m1.node
      /\ \A k \in DOMAIN m1.node : m2.node[k] = IF k = n THEN e ELSE m1.node[k]
  <2> HIDE DEF m2
  <2>1. IsEntry(e) /\ n \in DOMAIN m1.node /\ IsMem(m1)
    BY <1>2, <1>3, <1>5
  <2>2. NodeWritten(m1, Written(m1, n, e), n, e)
    BY <2>1, WrittenMem
  <2> QED  BY <1>6, <2>2 DEF NodeWritten
<1> HIDE DEF m2
<1>8. q = SetAt(m2, HeadOf(l), n)
  BY DEF SetAt, HeadOf
<1>b. PointerSet(m2, q, HeadOf(l), n)
  BY <1>7, <1>8, SetAtMem
<1>9. /\ IsMem(q) /\ SameVersions(m2, q)
      /\ \A j \in Level : q.head[j] = IF HeadOf(l) = HeadOf(j) THEN n ELSE m2.head[j]
      /\ \A k \in DOMAIN m2.node : /\ q.node[k].prev = m2.node[k].prev
                                   /\ q.node[k].next = IF HeadOf(l) = NextOf(k) THEN n
                                                                                ELSE m2.node[k].next
  BY <1>b DEF PointerSet
<1> HIDE DEF q
<1>10. SameVersions(m, q)
  BY <1>2, <1>3, <1>5, <1>7, <1>9 DEF SameVersions
<1>11. \A j \in Level : q.head[j] = IF j = l THEN n ELSE m.head[j]
  BY <1>2, <1>7, <1>9, Addresses
<1>12. \A k \in DOMAIN m.node : q.node[k].prev = m2.node[k].prev /\ q.node[k].next = m2.node[k].next
  BY <1>3, <1>7, <1>9, Addresses
<1>13. q.node[n].next = m.head[l] /\ q.node[n].prev = HeadOf(l)
  BY <1>3, <1>5, <1>7, <1>12
<1>14. \A k \in DOMAIN m.node : k # n =>
         /\ q.node[k].next = m.node[k].next
         /\ q.node[k].prev = IF k = m.head[l] THEN NextOf(n) ELSE m.node[k].prev
  BY <1>2, <1>3, <1>7, <1>12
<1> QED  BY <1>1, <1>9, <1>10, <1>11, <1>13, <1>14 DEF NodeChained

\* Writing the scope and the copy to restore.
WithVersion(x, a, b) == [x EXCEPT !.scope = a, !.restore = b]

\* The other fields stay.
LEMMA EntryVersion ==
  ASSUME NEW x, IsEntry(x), NEW a, NEW b
  PROVE  LET e == WithVersion(x, a, b) IN
         /\ IsEntry(e)
         /\ e.data = x.data /\ e.next = x.next /\ e.prev = x.prev
         /\ e.scope = a /\ e.restore = b
<1> DEFINE y == [x EXCEPT !.scope = a]
<1>1. /\ IsEntry(y)
      /\ y.data = x.data /\ y.next = x.next /\ y.prev = x.prev /\ y.restore = x.restore
      /\ y.scope = a
  BY DEF IsEntry
<1>2. WithVersion(x, a, b) = [y EXCEPT !.restore = b]
  BY DEF WithVersion
<1> HIDE DEF y
<1> DEFINE z == [y EXCEPT !.restore = b]
<1>3. /\ IsEntry(z)
      /\ z.data = y.data /\ z.next = y.next /\ z.prev = y.prev
      /\ z.scope = y.scope /\ z.restore = b
  BY <1>1 DEF IsEntry
<1> HIDE DEF z
<1>4. WithVersion(x, a, b) = z
  BY <1>2 DEF z
<1> QED  BY <1>1, <1>3, <1>4

\* The statement of update() that writes both.
LEMMA VersionMem ==
  ASSUME NEW m, IsMem(m), NEW n \in DOMAIN m.node, NEW a, NEW b
  PROVE  NodeWritten(m, [m EXCEPT !.node[n].scope = a, !.node[n].restore = b],
                     n, WithVersion(m.node[n], a, b))
<1> DEFINE q == [m EXCEPT !.node[n].scope = a, !.node[n].restore = b]
           e == WithVersion(m.node[n], a, b)
           m3 == [m EXCEPT !.node[n].scope = a]
           y == [m.node[n] EXCEPT !.scope = a]
<1>0. IsEntry(m.node[n])
  BY DEF IsMem
<1>1. m = [node |-> m.node, head |-> m.head]
  BY DEF IsMem
<1>2. m3 = [node |-> [m.node EXCEPT ![n] = [m.node[n] EXCEPT !.scope = a]], head |-> m.head]
  BY <1>1
<1>3. q = [m3 EXCEPT !.node[n].restore = b]
  OBVIOUS
<1> HIDE DEF m3
<1>4. q = [node |-> [m3.node EXCEPT ![n] = [m3.node[n] EXCEPT !.restore = b]], head |-> m3.head]
  BY <1>2, <1>3
<1>5. m3.node = [m.node EXCEPT ![n] = y] /\ m3.head = m.head
  BY <1>2
<1>6. e = [y EXCEPT !.restore = b]
  BY DEF WithVersion
<1>a. IsEntry(e)
  BY <1>0, EntryVersion
<1> HIDE DEF y, e
<1>7. m3.node[n] = y
  BY <1>5
<1>8. q.node = [[m.node EXCEPT ![n] = y] EXCEPT ![n] = e] /\ q.head = m.head
  BY <1>4, <1>5, <1>6, <1>7
<1>9. [[m.node EXCEPT ![n] = y] EXCEPT ![n] = e] = [m.node EXCEPT ![n] = e]
  OBVIOUS
<1>10. q = Written(m, n, e)
  BY <1>4, <1>8, <1>9 DEF Written
<1> HIDE DEF q
<1>11. NodeWritten(m, q, n, e)
  BY <1>a, <1>10, WrittenMem
<1> QED  BY <1>11 DEF q, e

\* q is m after update(): c is a copy of n, which belongs to the top scope now.
Updated(m, q, n, c) ==
  /\ IsMem(q) /\ DOMAIN q.node = DOMAIN m.node \cup {c}
  /\ q.node[c].data = m.node[n].data
  /\ q.node[c].scope = m.node[n].scope /\ q.node[c].restore = m.node[n].restore
  /\ q.node[n].data = m.node[n].data
  /\ q.node[n].scope = level /\ q.node[n].restore = c
  /\ \A k \in DOMAIN m.node : k # n =>
       /\ q.node[k].data = m.node[k].data
       /\ q.node[k].scope = m.node[k].scope /\ q.node[k].restore = m.node[k].restore

\* update() relinks the copy and the object.
LEMMA UpdateRelinks ==
  ASSUME NEW m, IsMem(m), Sound(m, level, level), level \in Level, MaxLevel \in Nat, NEW o,
         <<o, 0>> \in DOMAIN m.node, FreshCopy(m, o) \in Ids \ DOMAIN m.node,
         m.node[<<o, 0>>].scope < level
  PROVE  /\ Updated(m, UpdateObj(m, o), <<o, 0>>, FreshCopy(m, o))
         /\ Sound(UpdateObj(m, o), level, level)
<1> DEFINE n  == <<o, 0>>
           c  == FreshCopy(m, o)
           m1 == Store(m, c, m.node[n])
           m2 == SetPrev(m1, m1.node[n].next, NextOf(c))
           m3 == SetAt(m2, m2.node[n].prev, c)
           m4 == [m3 EXCEPT !.node[n].scope = level, !.node[n].restore = c]
           q  == AddToChain(m4, n, level)
           X  == DOMAIN m.node
<1>1. UpdateObj(m, o) = q
  BY DEF UpdateObj
<1>2. NodeStored(m, m1, c, m.node[n])
  BY StoreMem DEF IsMem
<1>3. n \in X /\ c \in Ids \ X /\ X \subseteq Ids /\ n # c /\ Null \notin X /\ c # Null
  BY NullNotId DEF IsMem
<1>4. level \in Nat /\ level \in 0..level /\ \A l \in 0..level : l \in Level
  BY DEF Level
<1>5. PICK r \in [Ids -> Nat] : Numbered(X, r) /\ Linked(m, X, level, level, r)
  BY DEF Sound
<1>6. m.node[n].scope \in 0..level /\ m.node[n].scope < level
  BY <1>3, <1>5 DEF Linked
<1>7. Placed(m, X, level, n)
  BY <1>3, <1>4, <1>5, <1>6, LinkedPlace
<1>8. /\ m.node[n].next # n /\ m.node[n].next \in X \cup {Null}
      /\ \/ \E l \in Level : m.node[n].prev = HeadOf(l)
         \/ \E p \in X \ {n} : m.node[n].prev = NextOf(p)
  BY <1>3, <1>4, <1>5, <1>6, <1>7 DEF Placed, Linked
<1> HIDE DEF n, c, m1, X
<1>9. /\ IsMem(m1) /\ m1.head = m.head /\ DOMAIN m1.node = X \cup {c}
      /\ m1.node[c] = m.node[n] /\ \A k \in X : m1.node[k] = m.node[k]
  BY <1>2, <1>3 DEF NodeStored, X
<1>10. PrevSet(m1, m2, m.node[n].next, NextOf(c))
  <2>1. m1.node[n].next = m.node[n].next /\ m.node[n].next \in DOMAIN m1.node \cup {Null}
    BY <1>3, <1>8, <1>9
  <2> QED  BY <1>9, <2>1, SetPrevMem
<1> HIDE DEF m2
<1>11. m2.node[n].prev = m.node[n].prev
  BY <1>3, <1>8, <1>9, <1>10 DEF PrevSet
<1>12. DOMAIN m2.node = X \cup {c} /\ IsMem(m2)
  BY <1>9, <1>10 DEF PrevSet, SameVersions
<1>13. PointerSet(m2, m3, m.node[n].prev, c)
  <2>1. \/ \E l \in Level : m.node[n].prev = HeadOf(l)
        \/ \E k \in DOMAIN m2.node : m.node[n].prev = NextOf(k)
    BY <1>8, <1>12
  <2> QED  BY <1>11, <1>12, <2>1, SetAtMem
<1> HIDE DEF m3
\* the copy is where the object was
<1>14. /\ IsMem(m3) /\ DOMAIN m3.node = X \cup {c}
       /\ \A l \in Level : m3.head[l] = IF m.node[n].prev = HeadOf(l) THEN c ELSE m.head[l]
       /\ \A k \in X : /\ m3.node[k].data = m.node[k].data
                       /\ m3.node[k].scope = m.node[k].scope
                       /\ m3.node[k].restore = m.node[k].restore
                       /\ m3.node[k].prev = IF k = m.node[n].next THEN NextOf(c)
                                                                  ELSE m.node[k].prev
                       /\ m3.node[k].next = IF m.node[n].prev = NextOf(k) THEN c
                                                                          ELSE m.node[k].next
       /\ m3.node[c].data = m.node[n].data
       /\ m3.node[c].scope = m.node[n].scope
       /\ m3.node[c].restore = m.node[n].restore
       /\ m3.node[c].next = m.node[n].next /\ m3.node[c].prev = m.node[n].prev
  <2>1. IsMem(m3) /\ DOMAIN m3.node = X \cup {c}
    BY <1>12, <1>13 DEF PointerSet, SameVersions
  <2>2. \A l \in Level : m3.head[l] = IF m.node[n].prev = HeadOf(l) THEN c ELSE m.head[l]
    BY <1>9, <1>10, <1>13 DEF PointerSet, PrevSet
  <2>3. ASSUME NEW k \in X \cup {c}
        PROVE  /\ m3.node[k].data = m1.node[k].data
               /\ m3.node[k].scope = m1.node[k].scope
               /\ m3.node[k].restore = m1.node[k].restore
               /\ m3.node[k].prev = IF k = m.node[n].next THEN NextOf(c) ELSE m1.node[k].prev
               /\ m3.node[k].next = IF m.node[n].prev = NextOf(k) THEN c ELSE m1.node[k].next
    BY <1>9, <1>10, <1>12, <1>13 DEF PointerSet, PrevSet, SameVersions
  <2>4. c # m.node[n].next /\ m.node[n].prev # NextOf(c)
    BY <1>3, <1>8, Addresses
  <2> QED  BY <1>9, <2>1, <2>2, <2>3, <2>4
<1> DEFINE Y == (X \ {n}) \cup {c}
           u == [r EXCEPT ![c] = r[n]]
<1>15. Numbered(Y, u) /\ Linked(m3, Y, level, level, u)
  <2>1. /\ level \in Nat /\ level <= level /\ X \subseteq Ids
        /\ n \in X /\ c \in Ids \ X /\ m.node[n].scope <= level
    BY <1>3, <1>4, <1>6
  <2>2. TakesPlace(m, m3, X, level, n, c)
    BY <1>4, <1>14 DEF TakesPlace
  <2> QED  BY <1>5, <2>1, <2>2, LinkedReplaced
<1> HIDE DEF u
<1>16. NodeWritten(m3, m4, n, WithVersion(m3.node[n], level, c))
  BY <1>3, <1>14, VersionMem
<1> HIDE DEF m4
<1>17. IsEntry(m3.node[n])
  BY <1>3, <1>14 DEF IsMem
<1>18. /\ IsMem(m4) /\ m4.head = m3.head /\ DOMAIN m4.node = X \cup {c}
       /\ m4.node[n].data = m3.node[n].data
       /\ m4.node[n].scope = level /\ m4.node[n].restore = c
       /\ \A k \in Y : m4.node[k] = m3.node[k]
  BY <1>3, <1>14, <1>16, <1>17, EntryVersion DEF NodeWritten
<1>19. Linked(m4, Y, level, level, u)
  BY <1>15, <1>18, LinkedSame
<1>20. m4.head[level] \in Y \cup {Null} /\ n \notin Y
  BY <1>3, <1>4, <1>19 DEF Linked
<1>21. NodeChained(m4, q, n, level)
  BY <1>3, <1>18, <1>20, AddToChainMem
<1> HIDE DEF q
<1>22. /\ IsMem(q) /\ DOMAIN q.node = X \cup {c}
       /\ \A k \in X \cup {c} : /\ q.node[k].data = m4.node[k].data
                                /\ q.node[k].scope = m4.node[k].scope
                                /\ q.node[k].restore = m4.node[k].restore
  BY <1>18, <1>21 DEF NodeChained, SameVersions
<1>23. Updated(m, q, n, c)
  <2>1. q.node[c].data = m.node[n].data /\ q.node[c].scope = m.node[n].scope
        /\ q.node[c].restore = m.node[n].restore
    BY <1>3, <1>14, <1>18, <1>22
  <2>2. q.node[n].data = m.node[n].data /\ q.node[n].scope = level /\ q.node[n].restore = c
    BY <1>3, <1>14, <1>18, <1>22
  <2>3. \A k \in X : k # n =>
          /\ q.node[k].data = m.node[k].data
          /\ q.node[k].scope = m.node[k].scope /\ q.node[k].restore = m.node[k].restore
    BY <1>3, <1>14, <1>18, <1>22
  <2> QED  BY <1>22, <2>1, <2>2, <2>3 DEF Updated, X
<1>24. \E w \in [Ids -> Nat] : Numbered(Y \cup {n}, w) /\ Linked(q, Y \cup {n}, level, level, w)
  <2>1. Y \subseteq Ids /\ n \in Ids \ Y
    BY <1>3, <1>20
  <2>2. /\ q.node[n].scope = level /\ q.node[n].next = m4.head[level]
        /\ q.node[n].prev = HeadOf(level)
    BY <1>3, <1>18, <1>21, <1>22 DEF NodeChained
  <2>3. \A k \in Y : /\ q.node[k].scope = m4.node[k].scope
                     /\ q.node[k].next = m4.node[k].next
                     /\ q.node[k].prev = IF k = m4.head[level] THEN NextOf(n) ELSE m4.node[k].prev
    BY <1>18, <1>20, <1>21, <1>22 DEF NodeChained
  <2>4. \A j \in 0..level : q.head[j] = IF j = level THEN n ELSE m4.head[j]
    BY <1>4, <1>21 DEF NodeChained
  <2>a. BeforeFirst(m4, q, Y, level, n, level)
    BY <2>2, <2>3, <2>4 DEF BeforeFirst
  <2>5. level \in Nat /\ level \in 0..level /\ level <= level
    BY <1>4
  <2> HIDE DEF Y
  <2> QED  BY <1>15, <1>19, <2>1, <2>5, <2>a, LinkedAdded
<1>25. Sound(q, level, level)
  <2>1. Y \cup {n} = DOMAIN q.node
    BY <1>3, <1>22
  <2> QED  BY <1>24, <2>1 DEF Sound
<1> QED  BY <1>1, <1>23, <1>25 DEF n, c

\* update() adds a version, newer than the other copies of the object.
LEMMA UpdateVersions ==
  ASSUME NEW m, NEW q, NEW live, NEW copies, Versioned(m, live, copies), level \in Nat,
         NEW o \in live, m.node[<<o, 0>>].scope \in Nat, m.node[<<o, 0>>].scope < level,
         Updated(m, q, <<o, 0>>, <<o, copies[o] + 1>>)
  PROVE  Versioned(q, live, [copies EXCEPT ![o] = copies[o] + 1])
<1> DEFINE n  == <<o, 0>>
           K  == copies[o]
           c  == <<o, K + 1>>
           cs == [copies EXCEPT ![o] = K + 1]
<1>1. /\ o \in Obj /\ K \in Nat /\ live \subseteq Obj /\ copies \in [Obj -> Nat]
      /\ \A i \in Nat : <<o, i>> \in DOMAIN m.node <=> i <= K
      /\ n \in DOMAIN m.node
  <2>1. live \subseteq Obj /\ copies \in [Obj -> Nat]
    BY DEF Versioned
  <2> QED  BY <2>1, VersionedNodes
<1>2. /\ cs \in [Obj -> Nat] /\ cs[o] = K + 1 /\ K + 1 \in Nat
      /\ \A p \in Obj \ {o} : cs[p] = copies[p]
  BY <1>1
<1>3. DOMAIN q.node = DOMAIN m.node \cup {c}
  BY DEF Updated
<1>4. IsFiniteSet(DOMAIN q.node)
  <2>1. IsFiniteSet(DOMAIN m.node)
    BY DEF Versioned
  <2>2. IsFiniteSet(DOMAIN m.node \cup {c})
    BY <2>1, FS_AddElement
  <2> QED  BY <1>3, <2>2
<1>5. DOMAIN q.node = {k \in Ids : k[1] \in live /\ k[2] <= cs[k[1]]}
  <2>1. ASSUME NEW k \in Ids
        PROVE  k \in DOMAIN q.node <=> k[1] \in live /\ k[2] <= cs[k[1]]
    <3>1. k = <<k[1], k[2]>> /\ k[1] \in Obj /\ k[2] \in Nat
      BY DEF Ids
    <3>2. k \in DOMAIN m.node <=> k[1] \in live /\ k[2] <= copies[k[1]]
      BY DEF Versioned
    <3>3. CASE k[1] = o
      <4>1. k = c <=> k[2] = K + 1
        BY <3>1, <3>3
      <4>2. k[2] <= K + 1 <=> k[2] <= K \/ k[2] = K + 1
        BY <1>1, <3>1
      <4> QED  BY <1>2, <1>3, <3>2, <3>3, <4>1, <4>2
    <3>4. CASE k[1] # o
      BY <1>2, <1>3, <3>1, <3>2, <3>4
    <3> QED  BY <3>3, <3>4
  <2>2. DOMAIN m.node \subseteq Ids /\ c \in Ids
    BY <1>1, <1>2 DEF Ids, Versioned
  <2> QED  BY <1>3, <2>1, <2>2
<1>6. /\ m.node[n].restore = IF K = 0 THEN Null ELSE <<o, K>>
      /\ \A i \in 1..K :
           /\ m.node[<<o, i>>].restore = IF i = 1 THEN Null ELSE <<o, i - 1>>
           /\ m.node[<<o, i>>].scope \in Nat
           /\ m.node[<<o, i>>].scope < m.node[IF i = K THEN n ELSE <<o, i + 1>>].scope
  BY DEF Versioned
<1>7. /\ q.node[c].scope = m.node[n].scope /\ q.node[c].restore = m.node[n].restore
      /\ q.node[n].scope = level /\ q.node[n].restore = c
      /\ \A k \in DOMAIN m.node : k # n =>
           q.node[k].scope = m.node[k].scope /\ q.node[k].restore = m.node[k].restore
  BY DEF Updated
<1>8. ASSUME NEW i \in 1..(K + 1)
      PROVE  /\ q.node[<<o, i>>].restore = IF i = 1 THEN Null ELSE <<o, i - 1>>
             /\ q.node[<<o, i>>].scope \in Nat
             /\ q.node[<<o, i>>].scope < q.node[IF i = K + 1 THEN n ELSE <<o, i + 1>>].scope
  <2>1. CASE i = K + 1
    <3>1. m.node[n].restore = IF i = 1 THEN Null ELSE <<o, i - 1>>
      BY <1>1, <1>6, <2>1
    <3> QED  BY <1>7, <2>1, <3>1
  <2>2. CASE i # K + 1
    <3>1. i \in 1..K /\ i \in Nat /\ i <= K
      BY <1>1, <2>2
    <3>2. <<o, i>> \in DOMAIN m.node /\ <<o, i>> # n
      BY <1>1, <3>1
    <3>3. q.node[<<o, i>>].scope = m.node[<<o, i>>].scope
          /\ q.node[<<o, i>>].restore = m.node[<<o, i>>].restore
      BY <1>7, <3>2
    <3>4. CASE i = K
      <4>1. <<o, i + 1>> = c
        BY <3>4
      <4> QED  BY <1>6, <1>7, <2>2, <3>1, <3>3, <3>4, <4>1
    <3>5. CASE i # K
      <4>1. i + 1 \in Nat /\ i + 1 <= K /\ i + 1 # 0
        BY <1>1, <3>1, <3>5
      <4>2. <<o, i + 1>> \in DOMAIN m.node /\ <<o, i + 1>> # n
        BY <1>1, <4>1
      <4>3. q.node[<<o, i + 1>>].scope = m.node[<<o, i + 1>>].scope
        BY <1>7, <4>2
      <4> QED  BY <1>6, <2>2, <3>1, <3>3, <3>5, <4>3
    <3> QED  BY <3>4, <3>5
  <2> QED  BY <2>1, <2>2
<1>9. ASSUME NEW p \in live
      PROVE  /\ q.node[<<p, 0>>].restore = IF cs[p] = 0 THEN Null ELSE <<p, cs[p]>>
             /\ \A i \in 1..cs[p] :
                  /\ q.node[<<p, i>>].restore = IF i = 1 THEN Null ELSE <<p, i - 1>>
                  /\ q.node[<<p, i>>].scope \in Nat
                  /\ q.node[<<p, i>>].scope
                       < q.node[IF i = cs[p] THEN <<p, 0>> ELSE <<p, i + 1>>].scope
  <2>1. CASE p = o
    <3>1. cs[p] = K + 1 /\ K + 1 # 0
      BY <1>1, <1>2, <2>1
    <3> HIDE DEF cs
    <3> QED  BY <1>7, <1>8, <2>1, <3>1
  <2>2. CASE p # o
    <3>1. cs[p] = copies[p] /\ copies[p] \in Nat /\ p \in Obj
      BY <1>1, <1>2, <2>2
    <3>2. \A i \in Nat : <<p, i>> \in DOMAIN m.node <=> i <= copies[p]
      BY VersionedNodes
    <3>3. /\ m.node[<<p, 0>>].restore = IF copies[p] = 0 THEN Null ELSE <<p, copies[p]>>
          /\ \A i \in 1..copies[p] :
               /\ m.node[<<p, i>>].restore = IF i = 1 THEN Null ELSE <<p, i - 1>>
               /\ m.node[<<p, i>>].scope \in Nat
               /\ m.node[<<p, i>>].scope
                    < m.node[IF i = copies[p] THEN <<p, 0>> ELSE <<p, i + 1>>].scope
      BY DEF Versioned
    <3>4. ASSUME NEW i \in 0..copies[p]
          PROVE  q.node[<<p, i>>].scope = m.node[<<p, i>>].scope
                 /\ q.node[<<p, i>>].restore = m.node[<<p, i>>].restore
      <4>1. i \in Nat /\ i <= copies[p]
        BY <3>1
      <4>2. <<p, i>> \in DOMAIN m.node /\ <<p, i>> # n
        BY <2>2, <3>2, <4>1
      <4> QED  BY <1>7, <4>2
    <3>5. ASSUME NEW i \in 1..copies[p]
          PROVE  /\ q.node[<<p, i>>].restore = IF i = 1 THEN Null ELSE <<p, i - 1>>
                 /\ q.node[<<p, i>>].scope \in Nat
                 /\ q.node[<<p, i>>].scope
                      < q.node[IF i = copies[p] THEN <<p, 0>> ELSE <<p, i + 1>>].scope
      <4>1. i \in 0..copies[p] /\ 0 \in 0..copies[p]
        BY <3>1
      <4>2. i # copies[p] => i + 1 \in 0..copies[p]
        BY <3>1
      <4> QED  BY <3>3, <3>4, <4>1, <4>2
    <3>6. q.node[<<p, 0>>].restore = m.node[<<p, 0>>].restore
      BY <3>1, <3>4
    <3> HIDE DEF cs
    <3> QED  BY <3>1, <3>3, <3>5, <3>6
  <2> QED  BY <2>1, <2>2
<1> HIDE DEF cs
<1>10. Versioned(q, live, cs)
  BY <1>1, <1>2, <1>4, <1>5, <1>9 DEF Versioned
<1> QED  BY <1>10 DEF cs

\* q is m after the object n is restored from its copy c: n has the fields of c, and
\* the neighbours of c point to n.
Restored(m, q, n, c) ==
  /\ IsMem(q) /\ DOMAIN q.node = DOMAIN m.node \ {c}
  /\ q.node[n] = m.node[c]
  /\ \A k \in DOMAIN m.node \ {c, n} :
       /\ q.node[k].data = m.node[k].data
       /\ q.node[k].scope = m.node[k].scope /\ q.node[k].restore = m.node[k].restore
       /\ q.node[k].prev = IF k = m.node[c].next THEN NextOf(n) ELSE m.node[k].prev
       /\ q.node[k].next = IF m.node[c].prev = NextOf(k) THEN n ELSE m.node[k].next
  /\ \A l \in Level : q.head[l] = IF m.node[c].prev = HeadOf(l) THEN n ELSE m.head[l]

\* The nodes that the links of n lead to are other nodes of S, or there are none.
LinksInto(m, S, n) ==
  /\ m.node[n].next \in S \cup {Null}
  /\ \/ \E l \in Level : m.node[n].prev = HeadOf(l)
     \/ \E p \in S : m.node[n].prev = NextOf(p)

\* restoreAndContinue, field by field.
LEMMA RestoreMem ==
  ASSUME NEW m, IsMem(m), NEW o, NEW c \in DOMAIN m.node, <<o, 0>> \in DOMAIN m.node,
         c # <<o, 0>>, m.node[<<o, 0>>].restore = c,
         LinksInto(m, DOMAIN m.node \ {c, <<o, 0>>}, c)
  PROVE  Restored(m, RestoreObj(m, o), <<o, 0>>, c)
<1> DEFINE n  == <<o, 0>>
           m1 == [m EXCEPT !.node[n] = m.node[c]]
           m2 == SetPrev(m1, m1.node[n].next, NextOf(n))
           m3 == SetAt(m2, m2.node[n].prev, n)
           q  == Drop(m3, {c})
           X  == DOMAIN m.node
<1>1. RestoreObj(m, o) = q
  BY DEF RestoreObj
<1>2. m1 = Written(m, n, m.node[c])
  <2>1. m = [node |-> m.node, head |-> m.head]
    BY DEF IsMem
  <2> QED  BY <2>1 DEF Written
<1>3. IsEntry(m.node[c]) /\ n \in X /\ X \subseteq Ids /\ Null \notin X
  BY NullNotId DEF IsMem
<1> HIDE DEF n, m1
<1>4. NodeWritten(m, m1, n, m.node[c])
  BY <1>2, <1>3, WrittenMem DEF X
<1>5. /\ IsMem(m1) /\ m1.head = m.head /\ DOMAIN m1.node = X
      /\ m1.node[n] = m.node[c] /\ \A k \in X : k # n => m1.node[k] = m.node[k]
  BY <1>3, <1>4 DEF NodeWritten
<1>6. /\ m.node[c].next \in (X \ {c, n}) \cup {Null}
      /\ \/ \E l \in Level : m.node[c].prev = HeadOf(l)
         \/ \E p \in X \ {c, n} : m.node[c].prev = NextOf(p)
  BY DEF LinksInto, n
<1> HIDE DEF X
<1>7. PrevSet(m1, m2, m.node[c].next, NextOf(n))
  <2>1. m1.node[n].next = m.node[c].next /\ m.node[c].next \in DOMAIN m1.node \cup {Null}
    BY <1>5, <1>6
  <2> QED  BY <1>5, <2>1, SetPrevMem
<1> HIDE DEF m2
<1>8. m2.node[n].prev = m.node[c].prev /\ DOMAIN m2.node = X /\ IsMem(m2)
  BY <1>3, <1>5, <1>6, <1>7 DEF PrevSet, SameVersions
<1>9. PointerSet(m2, m3, m.node[c].prev, n)
  <2>1. \/ \E l \in Level : m.node[c].prev = HeadOf(l)
        \/ \E k \in DOMAIN m2.node : m.node[c].prev = NextOf(k)
    BY <1>6, <1>8
  <2> QED  BY <1>8, <2>1, SetAtMem
<1> HIDE DEF m3
<1>10. /\ IsMem(m3) /\ DOMAIN m3.node = X
       /\ \A l \in Level : m3.head[l] = IF m.node[c].prev = HeadOf(l) THEN n ELSE m.head[l]
  BY <1>5, <1>7, <1>8, <1>9 DEF PointerSet, PrevSet, SameVersions
<1>11. ASSUME NEW k \in X
       PROVE  /\ m3.node[k].data = m1.node[k].data
              /\ m3.node[k].scope = m1.node[k].scope
              /\ m3.node[k].restore = m1.node[k].restore
              /\ m3.node[k].prev = IF k = m.node[c].next THEN NextOf(n) ELSE m1.node[k].prev
              /\ m3.node[k].next = IF m.node[c].prev = NextOf(k) THEN n ELSE m1.node[k].next
  BY <1>5, <1>7, <1>8, <1>9 DEF PointerSet, PrevSet, SameVersions
<1>12. m3.node[n] = m.node[c]
  <2>1. n # m.node[c].next /\ m.node[c].prev # NextOf(n)
    BY <1>3, <1>6, Addresses DEF X
  <2>2. IsEntry(m3.node[n]) /\ IsEntry(m.node[c])
    BY <1>3, <1>10 DEF IsMem, X
  <2>3. n \in X
    BY <1>3
  <2>4. /\ m3.node[n].data = m.node[c].data
        /\ m3.node[n].scope = m.node[c].scope
        /\ m3.node[n].restore = m.node[c].restore
        /\ m3.node[n].prev = m.node[c].prev
        /\ m3.node[n].next = m.node[c].next
    BY <1>5, <1>11, <2>1, <2>3
  <2> QED  BY <2>2, <2>4 DEF IsEntry
<1>13. NodesDropped(m3, q, {c})
  BY <1>10, DropMem
<1> HIDE DEF q
<1>14. /\ IsMem(q) /\ q.head = m3.head /\ DOMAIN q.node = X \ {c}
       /\ \A k \in X \ {c} : q.node[k] = m3.node[k]
  BY <1>10, <1>13 DEF NodesDropped
<1>15. q.node[n] = m.node[c]
  BY <1>3, <1>12, <1>14 DEF n
<1>16. ASSUME NEW k \in X \ {c, n}
       PROVE  /\ q.node[k].data = m.node[k].data
              /\ q.node[k].scope = m.node[k].scope /\ q.node[k].restore = m.node[k].restore
              /\ q.node[k].prev = IF k = m.node[c].next THEN NextOf(n) ELSE m.node[k].prev
              /\ q.node[k].next = IF m.node[c].prev = NextOf(k) THEN n ELSE m.node[k].next
  BY <1>5, <1>11, <1>14
<1>17. Restored(m, q, n, c)
  BY <1>10, <1>14, <1>15, <1>16 DEF Restored, X
<1> QED  BY <1>1, <1>17 DEF n

\* Taking a node off its list, field by field.
LEMMA UnlinkMem ==
  ASSUME NEW m, IsMem(m), NEW n \in DOMAIN m.node, LinksInto(m, DOMAIN m.node \ {n}, n),
         NEW t \in Nat, \A l \in 0..t : l \in Level
  PROVE  /\ IsMem(Unlink(m, n)) /\ SameVersions(m, Unlink(m, n))
         /\ \A S \in SUBSET DOMAIN m.node : TakenOff(m, Unlink(m, n), S, t, n)
<1> DEFINE m1 == SetPrev(m, m.node[n].next, m.node[n].prev)
           q  == SetAt(m1, m.node[n].prev, m.node[n].next)
           X  == DOMAIN m.node
<1>1. Unlink(m, n) = q
  BY DEF Unlink
<1>2. /\ m.node[n].next \in X \cup {Null}
      /\ \/ \E l \in Level : m.node[n].prev = HeadOf(l)
         \/ \E p \in X : m.node[n].prev = NextOf(p)
  BY DEF LinksInto
<1>3. PrevSet(m, m1, m.node[n].next, m.node[n].prev)
  BY <1>2, SetPrevMem
<1> HIDE DEF m1
<1>4. DOMAIN m1.node = X /\ IsMem(m1)
  BY <1>3 DEF PrevSet, SameVersions
<1>5. PointerSet(m1, q, m.node[n].prev, m.node[n].next)
  BY <1>2, <1>4, SetAtMem
<1> HIDE DEF q
<1>6. IsMem(q) /\ SameVersions(m, q)
  BY <1>3, <1>4, <1>5 DEF PrevSet, PointerSet, SameVersions
<1>7. ASSUME NEW S \in SUBSET X
      PROVE  TakenOff(m, q, S, t, n)
  <2>1. \A k \in S : k \in X
    OBVIOUS
  <2> HIDE DEF X
  <2>2. \A l \in 0..t : q.head[l] = IF m.node[n].prev = HeadOf(l) THEN m.node[n].next ELSE m.head[l]
    BY <1>3, <1>5 DEF PrevSet, PointerSet
  <2>3. ASSUME NEW k \in S \ {n}
        PROVE  /\ q.node[k].scope = m.node[k].scope
               /\ q.node[k].prev = IF k = m.node[n].next THEN m.node[n].prev ELSE m.node[k].prev
               /\ q.node[k].next = IF m.node[n].prev = NextOf(k) THEN m.node[n].next
                                                                 ELSE m.node[k].next
    <3>1. k \in X /\ k \in DOMAIN m.node
      BY <2>1 DEF X
    <3> QED  BY <1>3, <1>4, <1>5, <3>1 DEF PrevSet, PointerSet, SameVersions
  <2> QED  BY <2>2, <2>3 DEF TakenOff
<1> QED  BY <1>1, <1>6, <1>7

\* A node on a list that is whole links into the other nodes on lists.
LEMMA LinkedInto ==
  ASSUME NEW m, NEW X, NEW s \in Nat, NEW t \in Nat, NEW r, Linked(m, X, s, t, r),
         Numbered(X, r), X \subseteq Ids, \A l \in 0..t : l \in Level,
         NEW n \in X, m.node[n].scope <= s
  PROVE  LinksInto(m, X \ {n}, n)
<1>1. Placed(m, X, t, n)
  BY LinkedPlace
<1>2. m.node[n].next \in X \cup {Null} /\ m.node[n].scope \in 0..t
  BY DEF Linked
<1> QED  BY <1>1, <1>2 DEF Placed, LinksInto

\* Restoring an object consumes its newest copy.
LEMMA RestoreVersions ==
  ASSUME NEW m, NEW q, NEW live, NEW copies, Versioned(m, live, copies),
         NEW o \in live, copies[o] > 0, Restored(m, q, <<o, 0>>, <<o, copies[o]>>)
  PROVE  Versioned(q, live, [copies EXCEPT ![o] = copies[o] - 1])
<1> DEFINE n  == <<o, 0>>
           K  == copies[o]
           c  == <<o, K>>
           cs == [copies EXCEPT ![o] = K - 1]
<1>1. /\ o \in Obj /\ K \in Nat /\ live \subseteq Obj /\ copies \in [Obj -> Nat]
      /\ \A i \in Nat : <<o, i>> \in DOMAIN m.node <=> i <= K
      /\ n \in DOMAIN m.node
  <2>1. live \subseteq Obj /\ copies \in [Obj -> Nat]
    BY DEF Versioned
  <2> QED  BY <2>1, VersionedNodes
<1>a. K - 1 \in Nat /\ K # 0 /\ n # c
  BY <1>1
<1>2. /\ cs \in [Obj -> Nat] /\ cs[o] = K - 1
      /\ \A p \in Obj \ {o} : cs[p] = copies[p]
  BY <1>1, <1>a
<1>3. DOMAIN q.node = DOMAIN m.node \ {c}
  BY DEF Restored
<1>4. IsFiniteSet(DOMAIN q.node)
  <2>1. IsFiniteSet(DOMAIN m.node)
    BY DEF Versioned
  <2>2. IsFiniteSet(DOMAIN m.node \ {c})
    BY <2>1, FS_RemoveElement
  <2> QED  BY <1>3, <2>2
<1>5. DOMAIN q.node = {k \in Ids : k[1] \in live /\ k[2] <= cs[k[1]]}
  <2>1. ASSUME NEW k \in Ids
        PROVE  k \in DOMAIN q.node <=> k[1] \in live /\ k[2] <= cs[k[1]]
    <3>1. k = <<k[1], k[2]>> /\ k[1] \in Obj /\ k[2] \in Nat
      BY DEF Ids
    <3>2. k \in DOMAIN m.node <=> k[1] \in live /\ k[2] <= copies[k[1]]
      BY DEF Versioned
    <3>3. CASE k[1] = o
      <4>1. k = c <=> k[2] = K
        BY <3>1, <3>3
      <4>2. k[2] <= K - 1 <=> k[2] <= K /\ k[2] # K
        BY <1>1, <3>1
      <4> QED  BY <1>2, <1>3, <3>2, <3>3, <4>1, <4>2
    <3>4. CASE k[1] # o
      BY <1>2, <1>3, <3>1, <3>2, <3>4
    <3> QED  BY <3>3, <3>4
  <2>2. DOMAIN m.node \subseteq Ids
    BY DEF Versioned
  <2> QED  BY <1>3, <2>1, <2>2
<1>6. \A i \in 1..K :
         /\ m.node[<<o, i>>].restore = IF i = 1 THEN Null ELSE <<o, i - 1>>
         /\ m.node[<<o, i>>].scope \in Nat
         /\ m.node[<<o, i>>].scope < m.node[IF i = K THEN n ELSE <<o, i + 1>>].scope
  BY DEF Versioned
<1>7. /\ q.node[n].scope = m.node[c].scope /\ q.node[n].restore = m.node[c].restore
      /\ \A k \in DOMAIN m.node \ {c, n} :
           q.node[k].scope = m.node[k].scope /\ q.node[k].restore = m.node[k].restore
  BY DEF Restored
<1>8. ASSUME NEW i \in 1..(K - 1)
      PROVE  /\ q.node[<<o, i>>].restore = IF i = 1 THEN Null ELSE <<o, i - 1>>
             /\ q.node[<<o, i>>].scope \in Nat
             /\ q.node[<<o, i>>].scope < q.node[IF i = K - 1 THEN n ELSE <<o, i + 1>>].scope
  <2>1. i \in 1..K /\ i \in Nat /\ i <= K /\ i # K /\ i + 1 \in Nat /\ i + 1 <= K
    BY <1>1
  <2>2. <<o, i>> \in DOMAIN m.node \ {c, n}
    BY <1>1, <2>1
  <2>3. q.node[<<o, i>>].scope = m.node[<<o, i>>].scope
        /\ q.node[<<o, i>>].restore = m.node[<<o, i>>].restore
    BY <1>7, <2>2
  <2>4. m.node[<<o, i>>].scope < m.node[<<o, i + 1>>].scope
    BY <1>6, <2>1
  <2>5. CASE i = K - 1
    <3>1. <<o, i + 1>> = c
      BY <1>1, <2>5
    <3> QED  BY <1>6, <1>7, <2>1, <2>3, <2>4, <2>5, <3>1
  <2>6. CASE i # K - 1
    <3>1. <<o, i + 1>> \in DOMAIN m.node \ {c, n}
      BY <1>1, <2>1, <2>6
    <3>2. q.node[<<o, i + 1>>].scope = m.node[<<o, i + 1>>].scope
      BY <1>7, <3>1
    <3> QED  BY <1>6, <2>1, <2>3, <2>4, <2>6, <3>2
  <2> QED  BY <2>5, <2>6
<1>9. ASSUME NEW p \in live
      PROVE  /\ q.node[<<p, 0>>].restore = IF cs[p] = 0 THEN Null ELSE <<p, cs[p]>>
             /\ \A i \in 1..cs[p] :
                  /\ q.node[<<p, i>>].restore = IF i = 1 THEN Null ELSE <<p, i - 1>>
                  /\ q.node[<<p, i>>].scope \in Nat
                  /\ q.node[<<p, i>>].scope
                       < q.node[IF i = cs[p] THEN <<p, 0>> ELSE <<p, i + 1>>].scope
  <2>1. CASE p = o
    <3>1. cs[p] = K - 1
      BY <1>2, <2>1
    <3>2. m.node[c].restore = IF K = 1 THEN Null ELSE <<o, K - 1>>
      <4>1. K \in 1..K
        BY <1>1, <1>a
      <4> HIDE DEF K
      <4> QED  BY <1>6, <4>1
    <3>3. K = 1 <=> K - 1 = 0
      BY <1>1
    <3> HIDE DEF cs
    <3> QED  BY <1>7, <1>8, <2>1, <3>1, <3>2, <3>3
  <2>2. CASE p # o
    <3>1. cs[p] = copies[p] /\ copies[p] \in Nat /\ p \in Obj
      BY <1>1, <1>2, <2>2
    <3>2. \A i \in Nat : <<p, i>> \in DOMAIN m.node <=> i <= copies[p]
      BY VersionedNodes
    <3>3. /\ m.node[<<p, 0>>].restore = IF copies[p] = 0 THEN Null ELSE <<p, copies[p]>>
          /\ \A i \in 1..copies[p] :
               /\ m.node[<<p, i>>].restore = IF i = 1 THEN Null ELSE <<p, i - 1>>
               /\ m.node[<<p, i>>].scope \in Nat
               /\ m.node[<<p, i>>].scope
                    < m.node[IF i = copies[p] THEN <<p, 0>> ELSE <<p, i + 1>>].scope
      BY DEF Versioned
    <3>4. ASSUME NEW i \in 0..copies[p]
          PROVE  q.node[<<p, i>>].scope = m.node[<<p, i>>].scope
                 /\ q.node[<<p, i>>].restore = m.node[<<p, i>>].restore
      <4>1. i \in Nat /\ i <= copies[p]
        BY <3>1
      <4>2. <<p, i>> \in DOMAIN m.node \ {c, n}
        BY <2>2, <3>2, <4>1
      <4> QED  BY <1>7, <4>2
    <3>5. ASSUME NEW i \in 1..copies[p]
          PROVE  /\ q.node[<<p, i>>].restore = IF i = 1 THEN Null ELSE <<p, i - 1>>
                 /\ q.node[<<p, i>>].scope \in Nat
                 /\ q.node[<<p, i>>].scope
                      < q.node[IF i = copies[p] THEN <<p, 0>> ELSE <<p, i + 1>>].scope
      <4>1. i \in 0..copies[p] /\ 0 \in 0..copies[p]
        BY <3>1
      <4>2. i # copies[p] => i + 1 \in 0..copies[p]
        BY <3>1
      <4> QED  BY <3>3, <3>4, <4>1, <4>2
    <3>6. q.node[<<p, 0>>].restore = m.node[<<p, 0>>].restore
      BY <3>1, <3>4
    <3> HIDE DEF cs
    <3> QED  BY <3>1, <3>3, <3>5, <3>6
  <2> QED  BY <2>1, <2>2
<1> HIDE DEF cs
<1>10. Versioned(q, live, cs)
  BY <1>1, <1>2, <1>4, <1>5, <1>9 DEF Versioned
<1> QED  BY <1>10 DEF cs

\* An object without copies vanishes.
LEMMA DropVersions ==
  ASSUME NEW m, NEW q, NEW live, NEW copies, Versioned(m, live, copies),
         NEW o \in live, copies[o] = 0, NodesDropped(m, q, {<<o, 0>>})
  PROVE  Versioned(q, live \ {o}, copies)
<1> DEFINE n == <<o, 0>>
<1>1. DOMAIN q.node = DOMAIN m.node \ {n} /\ \A k \in DOMAIN m.node \ {n} : q.node[k] = m.node[k]
  BY DEF NodesDropped
<1>2. IsFiniteSet(DOMAIN q.node)
  <2>1. IsFiniteSet(DOMAIN m.node)
    BY DEF Versioned
  <2>2. IsFiniteSet(DOMAIN m.node \ {n})
    BY <2>1, FS_RemoveElement
  <2> QED  BY <1>1, <2>2
<1>3. DOMAIN q.node = {k \in Ids : k[1] \in live \ {o} /\ k[2] <= copies[k[1]]}
  <2>1. ASSUME NEW k \in Ids
        PROVE  k \in DOMAIN q.node <=> k[1] \in live \ {o} /\ k[2] <= copies[k[1]]
    <3>1. k = <<k[1], k[2]>> /\ k[1] \in Obj /\ k[2] \in Nat
      BY DEF Ids
    <3>2. k \in DOMAIN m.node <=> k[1] \in live /\ k[2] <= copies[k[1]]
      BY DEF Versioned
    <3>3. k = n <=> k[1] = o /\ k[2] <= 0
      BY <3>1
    <3> QED  BY <1>1, <3>2, <3>3
  <2>2. DOMAIN m.node \subseteq Ids
    BY DEF Versioned
  <2> QED  BY <1>1, <2>1, <2>2
<1>4. ASSUME NEW p \in live \ {o}
      PROVE  /\ q.node[<<p, 0>>].restore = IF copies[p] = 0 THEN Null ELSE <<p, copies[p]>>
             /\ \A i \in 1..copies[p] :
                  /\ q.node[<<p, i>>].restore = IF i = 1 THEN Null ELSE <<p, i - 1>>
                  /\ q.node[<<p, i>>].scope \in Nat
                  /\ q.node[<<p, i>>].scope
                       < q.node[IF i = copies[p] THEN <<p, 0>> ELSE <<p, i + 1>>].scope
  <2>1. copies[p] \in Nat /\ \A i \in Nat : <<p, i>> \in DOMAIN m.node <=> i <= copies[p]
    BY VersionedNodes
  <2>2. /\ m.node[<<p, 0>>].restore = IF copies[p] = 0 THEN Null ELSE <<p, copies[p]>>
        /\ \A i \in 1..copies[p] :
             /\ m.node[<<p, i>>].restore = IF i = 1 THEN Null ELSE <<p, i - 1>>
             /\ m.node[<<p, i>>].scope \in Nat
             /\ m.node[<<p, i>>].scope
                  < m.node[IF i = copies[p] THEN <<p, 0>> ELSE <<p, i + 1>>].scope
    BY DEF Versioned
  <2>3. ASSUME NEW i \in 0..copies[p]
        PROVE  q.node[<<p, i>>] = m.node[<<p, i>>]
    <3>1. i \in Nat /\ i <= copies[p]
      BY <2>1
    <3>2. <<p, i>> \in DOMAIN m.node \ {n}
      BY <2>1, <3>1
    <3> QED  BY <1>1, <3>2
  <2>4. ASSUME NEW i \in 1..copies[p]
        PROVE  /\ q.node[<<p, i>>].restore = IF i = 1 THEN Null ELSE <<p, i - 1>>
               /\ q.node[<<p, i>>].scope \in Nat
               /\ q.node[<<p, i>>].scope
                    < q.node[IF i = copies[p] THEN <<p, 0>> ELSE <<p, i + 1>>].scope
    <3>1. i \in 0..copies[p] /\ 0 \in 0..copies[p]
      BY <2>1
    <3>2. i # copies[p] => i + 1 \in 0..copies[p]
      BY <2>1
    <3> QED  BY <2>2, <2>3, <3>1, <3>2
  <2>5. q.node[<<p, 0>>] = m.node[<<p, 0>>]
    BY <2>1, <2>3
  <2> QED  BY <2>2, <2>4, <2>5
<1>5. copies \in [Obj -> Nat] /\ live \ {o} \subseteq Obj
  BY DEF Versioned
<1> QED  BY <1>2, <1>3, <1>4, <1>5 DEF Versioned

\* A new object has no copies.
LEMMA NewVersions ==
  ASSUME NEW m, NEW q, NEW live, NEW copies, Versioned(m, live, copies),
         NEW o \in Obj, o \notin live, DOMAIN q.node = DOMAIN m.node \cup {<<o, 0>>},
         q.node[<<o, 0>>].restore = Null,
         \A k \in DOMAIN m.node : /\ q.node[k].scope = m.node[k].scope
                                  /\ q.node[k].restore = m.node[k].restore
  PROVE  Versioned(q, live \cup {o}, [copies EXCEPT ![o] = 0])
<1> DEFINE n  == <<o, 0>>
           cs == [copies EXCEPT ![o] = 0]
<1>1. copies \in [Obj -> Nat] /\ live \subseteq Obj
  BY DEF Versioned
<1>2. cs \in [Obj -> Nat] /\ cs[o] = 0 /\ \A p \in Obj \ {o} : cs[p] = copies[p]
  BY <1>1
<1> HIDE DEF cs
<1>3. IsFiniteSet(DOMAIN q.node)
  <2>1. IsFiniteSet(DOMAIN m.node)
    BY DEF Versioned
  <2>2. IsFiniteSet(DOMAIN m.node \cup {n})
    BY <2>1, FS_AddElement
  <2> QED  BY <2>2
<1>4. DOMAIN q.node = {k \in Ids : k[1] \in live \cup {o} /\ k[2] <= cs[k[1]]}
  <2>1. ASSUME NEW k \in Ids
        PROVE  k \in DOMAIN q.node <=> k[1] \in live \cup {o} /\ k[2] <= cs[k[1]]
    <3>1. k = <<k[1], k[2]>> /\ k[1] \in Obj /\ k[2] \in Nat
      BY DEF Ids
    <3>2. k \in DOMAIN m.node <=> k[1] \in live /\ k[2] <= copies[k[1]]
      BY DEF Versioned
    <3>3. k = n <=> k[1] = o /\ k[2] <= 0
      BY <3>1
    <3>4. k[1] # o => cs[k[1]] = copies[k[1]]
      BY <1>2, <3>1
    <3> QED  BY <1>2, <3>2, <3>3, <3>4
  <2>2. DOMAIN m.node \subseteq Ids /\ n \in Ids
    BY DEF Versioned, Ids
  <2> QED  BY <2>1, <2>2
<1>5. ASSUME NEW p \in live \cup {o}
      PROVE  /\ q.node[<<p, 0>>].restore = IF cs[p] = 0 THEN Null ELSE <<p, cs[p]>>
             /\ \A i \in 1..cs[p] :
                  /\ q.node[<<p, i>>].restore = IF i = 1 THEN Null ELSE <<p, i - 1>>
                  /\ q.node[<<p, i>>].scope \in Nat
                  /\ q.node[<<p, i>>].scope
                       < q.node[IF i = cs[p] THEN <<p, 0>> ELSE <<p, i + 1>>].scope
  <2>1. CASE p = o
    BY <1>2, <2>1
  <2>2. CASE p # o
    <3>1. /\ cs[p] = copies[p] /\ copies[p] \in Nat /\ p \in live
          /\ \A i \in Nat : <<p, i>> \in DOMAIN m.node <=> i <= copies[p]
      BY <1>1, <1>2, <2>2, VersionedNodes
    <3>2. /\ m.node[<<p, 0>>].restore = IF copies[p] = 0 THEN Null ELSE <<p, copies[p]>>
          /\ \A i \in 1..copies[p] :
               /\ m.node[<<p, i>>].restore = IF i = 1 THEN Null ELSE <<p, i - 1>>
               /\ m.node[<<p, i>>].scope \in Nat
               /\ m.node[<<p, i>>].scope
                    < m.node[IF i = copies[p] THEN <<p, 0>> ELSE <<p, i + 1>>].scope
      BY <3>1 DEF Versioned
    <3>3. ASSUME NEW i \in 0..copies[p]
          PROVE  q.node[<<p, i>>].scope = m.node[<<p, i>>].scope
                 /\ q.node[<<p, i>>].restore = m.node[<<p, i>>].restore
      <4>1. i \in Nat /\ i <= copies[p]
        BY <3>1
      <4>2. <<p, i>> \in DOMAIN m.node
        BY <3>1, <4>1
      <4> QED  BY <4>2
    <3>4. ASSUME NEW i \in 1..copies[p]
          PROVE  /\ q.node[<<p, i>>].restore = IF i = 1 THEN Null ELSE <<p, i - 1>>
                 /\ q.node[<<p, i>>].scope \in Nat
                 /\ q.node[<<p, i>>].scope
                      < q.node[IF i = copies[p] THEN <<p, 0>> ELSE <<p, i + 1>>].scope
      <4>1. i \in 0..copies[p] /\ 0 \in 0..copies[p]
        BY <3>1
      <4>2. i # copies[p] => i + 1 \in 0..copies[p]
        BY <3>1
      <4> QED  BY <3>2, <3>3, <4>1, <4>2
    <3>5. q.node[<<p, 0>>].restore = m.node[<<p, 0>>].restore
      BY <3>1, <3>3
    <3> QED  BY <3>1, <3>2, <3>4, <3>5
  <2> QED  BY <2>1, <2>2
<1>6. live \cup {o} \subseteq Obj
  BY <1>1
<1>7. Versioned(q, live \cup {o}, cs)
  BY <1>2, <1>3, <1>4, <1>5, <1>6 DEF Versioned
<1> QED  BY <1>7 DEF cs
-----------------------------------------------------------------------------
(* The operations on memories: what they keep. *)

\* q is m with a new node n of the scope l.
Created(m, q, n, l) ==
  /\ IsMem(q) /\ DOMAIN q.node = DOMAIN m.node \cup {n}
  /\ q.node[n].data = Default /\ q.node[n].scope = l /\ q.node[n].restore = Null
  /\ \A k \in DOMAIN m.node : /\ q.node[k].data = m.node[k].data
                              /\ q.node[k].scope = m.node[k].scope
                              /\ q.node[k].restore = m.node[k].restore

\* The constructor links the new object.
LEMMA NewRelinks ==
  ASSUME NEW m, IsMem(m), Sound(m, level, level), level \in Level, MaxLevel \in Nat, NEW o \in Obj,
         <<o, 0>> \notin DOMAIN m.node, NEW l \in 0..level
  PROVE  Created(m, NewNode(m, o, l), <<o, 0>>, l) /\ Sound(NewNode(m, o, l), level, level)
<1> DEFINE n  == <<o, 0>>
           e  == [data |-> Default, scope |-> l, restore |-> Null, next |-> Null, prev |-> HeadOf(l)]
           m1 == Store(m, n, e)
           q  == AddToChain(m1, n, l)
           X  == DOMAIN m.node
<1>1. NewNode(m, o, l) = q
  BY DEF NewNode
<1>2. n \in Ids \ X /\ X \subseteq Ids /\ Null \notin X /\ n # Null
  BY NullNotId DEF IsMem, Ids
<1>3. level \in Nat /\ l <= level /\ l \in Level /\ \A j \in 0..level : j \in Level
  BY DEF Level
<1>4. IsEntry(e) /\ e.data = Default /\ e.scope = l /\ e.restore = Null
  BY DEF IsEntry
<1> HIDE DEF n, e
<1>5. NodeStored(m, m1, n, e)
  BY <1>2, <1>4, StoreMem
<1> HIDE DEF m1, X
<1>6. /\ IsMem(m1) /\ m1.head = m.head /\ DOMAIN m1.node = X \cup {n} /\ m1.node[n] = e
      /\ \A k \in X : m1.node[k] = m.node[k]
  BY <1>2, <1>5 DEF NodeStored, X
<1>7. PICK r \in [Ids -> Nat] : Numbered(X, r) /\ Linked(m, X, level, level, r)
  BY DEF Sound, X
<1>8. Linked(m1, X, level, level, r)
  BY <1>6, <1>7, LinkedSame
<1>9. m1.head[l] \in X \cup {Null}
  BY <1>8 DEF Linked
<1>10. NodeChained(m1, q, n, l)
  BY <1>2, <1>3, <1>6, <1>9, AddToChainMem
<1> HIDE DEF q
<1>11. /\ IsMem(q) /\ DOMAIN q.node = X \cup {n}
       /\ \A k \in X \cup {n} : /\ q.node[k].data = m1.node[k].data
                                /\ q.node[k].scope = m1.node[k].scope
                                /\ q.node[k].restore = m1.node[k].restore
  BY <1>6, <1>10 DEF NodeChained, SameVersions
<1>12. Created(m, q, n, l)
  BY <1>4, <1>6, <1>11 DEF Created, X
<1>13. BeforeFirst(m1, q, X, level, n, l)
  <2>1. q.node[n].scope = l /\ q.node[n].next = m1.head[l] /\ q.node[n].prev = HeadOf(l)
    BY <1>4, <1>6, <1>10, <1>11 DEF NodeChained
  <2>2. \A k \in X : /\ q.node[k].scope = m1.node[k].scope
                     /\ q.node[k].next = m1.node[k].next
                     /\ q.node[k].prev = IF k = m1.head[l] THEN NextOf(n) ELSE m1.node[k].prev
    BY <1>2, <1>6, <1>10, <1>11 DEF NodeChained
  <2>3. \A j \in 0..level : q.head[j] = IF j = l THEN n ELSE m1.head[j]
    BY <1>3, <1>10 DEF NodeChained
  <2> QED  BY <2>1, <2>2, <2>3 DEF BeforeFirst
<1>14. \E u \in [Ids -> Nat] : Numbered(X \cup {n}, u) /\ Linked(q, X \cup {n}, level, level, u)
  BY <1>2, <1>3, <1>7, <1>8, <1>13, LinkedAdded
<1>15. Sound(q, level, level)
  BY <1>11, <1>14 DEF Sound
<1> QED  BY <1>1, <1>12, <1>15 DEF n

\* q is m with other data in the node n.
DataWritten(m, q, n, v) ==
  /\ IsMem(q) /\ DOMAIN q.node = DOMAIN m.node
  /\ q.node[n].data = v
  /\ q.node[n].scope = m.node[n].scope /\ q.node[n].restore = m.node[n].restore
  /\ \A k \in DOMAIN m.node : k # n =>
       /\ q.node[k].data = m.node[k].data
       /\ q.node[k].scope = m.node[k].scope /\ q.node[k].restore = m.node[k].restore

\* Writing data leaves the lists alone.
LEMMA DataRelinks ==
  ASSUME NEW m, IsMem(m), NEW s, NEW t, Sound(m, s, t), NEW n \in DOMAIN m.node, NEW v
  PROVE  LET q == [m EXCEPT !.node[n].data = v]
         IN  DataWritten(m, q, n, v) /\ Sound(q, s, t)
<1> DEFINE q == [m EXCEPT !.node[n].data = v]
           e == [m.node[n] EXCEPT !.data = v]
<1>1. IsEntry(m.node[n])
  BY DEF IsMem
<1>2. /\ IsEntry(e)
      /\ e.data = v /\ e.scope = m.node[n].scope /\ e.restore = m.node[n].restore
      /\ e.next = m.node[n].next /\ e.prev = m.node[n].prev
  BY <1>1 DEF IsEntry
<1>3. q = Written(m, n, e)
  <2>1. m = [node |-> m.node, head |-> m.head]
    BY DEF IsMem
  <2> QED  BY <2>1 DEF Written
<1> HIDE DEF e, q
<1>4. NodeWritten(m, q, n, e)
  BY <1>2, <1>3, WrittenMem
<1>5. DataWritten(m, q, n, v)
  BY <1>2, <1>4 DEF NodeWritten, DataWritten
<1>6. PICK r \in [Ids -> Nat] : Numbered(DOMAIN m.node, r) /\ Linked(m, DOMAIN m.node, s, t, r)
  BY DEF Sound
<1>7. Linked(q, DOMAIN m.node, s, t, r)
  <2>1. \A k \in DOMAIN m.node : /\ q.node[k].scope = m.node[k].scope
                                 /\ q.node[k].next = m.node[k].next
                                 /\ q.node[k].prev = m.node[k].prev
    BY <1>2, <1>4 DEF NodeWritten
  <2>2. \A l \in 0..t : q.head[l] = m.head[l]
    BY <1>4 DEF NodeWritten
  <2> QED  BY <1>6, <2>1, <2>2, LinkedSame
<1>8. Sound(q, s, t)
  BY <1>4, <1>6, <1>7 DEF Sound, NodeWritten
<1> QED  BY <1>5, <1>8 DEF q

\* All nodes but n are on the lists.
SoundWithout(m, n, s, t) ==
  \E r \in [Ids -> Nat] :
    Numbered(DOMAIN m.node \ {n}, r) /\ Linked(m, DOMAIN m.node \ {n}, s, t, r)

\* Unlinking takes a node off the lists.
LEMMA UnlinkRelinks ==
  ASSUME NEW m, IsMem(m), Sound(m, level, level), level \in Level, MaxLevel \in Nat,
         NEW n \in DOMAIN m.node
  PROVE  /\ IsMem(Unlink(m, n)) /\ SameVersions(m, Unlink(m, n))
         /\ SoundWithout(Unlink(m, n), n, level, level)
<1> DEFINE q == Unlink(m, n)
           X == DOMAIN m.node
<1>1. level \in Nat /\ level <= level /\ \A l \in 0..level : l \in Level
  BY DEF Level
<1>2. PICK r \in [Ids -> Nat] : Numbered(X, r) /\ Linked(m, X, level, level, r)
  BY DEF Sound
<1>3. X \subseteq Ids /\ n \in X
  BY DEF IsMem
<1>4. m.node[n].scope \in 0..level /\ m.node[n].scope <= level
  BY <1>1, <1>2, <1>3 DEF Linked
<1>5. LinksInto(m, X \ {n}, n)
  BY <1>1, <1>2, <1>3, <1>4, LinkedInto
<1>6. /\ IsMem(q) /\ SameVersions(m, q)
      /\ \A S \in SUBSET X : TakenOff(m, q, S, level, n)
  BY <1>1, <1>5, UnlinkMem
<1> HIDE DEF q, X
<1>7. Numbered(X \ {n}, r) /\ Linked(q, X \ {n}, level, level, r)
  BY <1>1, <1>2, <1>3, <1>4, <1>6, LinkedUnlinked
<1>8. SoundWithout(q, n, level, level)
  BY <1>2, <1>6, <1>7 DEF SoundWithout, SameVersions, X
<1> QED  BY <1>6, <1>8 DEF q

\* Restoring puts the object on the list where its copy was.  The heads of x are those
\* of m, or those of m where ~Scope has advanced one of them, and y has those of x, but
\* for the one that pointed to the copy.
LEMMA RestoreRelinks ==
  ASSUME NEW m, IsMem(m), NEW live, NEW copies, Versioned(m, live, copies),
         NEW o \in live, copies[o] > 0,
         NEW s \in Nat, NEW t \in Nat, s <= t, \A l \in 0..t : l \in Level,
         NEW x, x.node = m.node, SoundWithout(x, <<o, 0>>, s, t),
         m.node[<<o, copies[o]>>].scope <= s
  PROVE  /\ Restored(m, RestoreObj(m, o), <<o, 0>>, <<o, copies[o]>>)
         /\ \A y : /\ y.node = RestoreObj(m, o).node
                   /\ \A l \in 0..t :
                        y.head[l] = IF m.node[<<o, copies[o]>>].prev = HeadOf(l) THEN <<o, 0>>
                                                                                 ELSE x.head[l]
                   => Sound(y, s, t)
         /\ m.node[<<o, copies[o]>>].prev # HeadOf(s + 1)
<1> DEFINE n == <<o, 0>>
           K == copies[o]
           c == <<o, K>>
           X == DOMAIN m.node
           q == RestoreObj(m, o)
<1>1. /\ o \in Obj /\ K \in Nat /\ n \in X
      /\ \A i \in Nat : <<o, i>> \in X <=> i <= K
  BY VersionedNodes
<1>2. c \in X /\ K # 0 /\ c # n
  BY <1>1
<1>3. m.node[n].restore = c
  BY <1>2 DEF Versioned
<1>4. PICK r \in [Ids -> Nat] : Numbered(X \ {n}, r) /\ Linked(x, X \ {n}, s, t, r)
  BY DEF SoundWithout
<1>5. c \in X \ {n} /\ X \ {n} \subseteq Ids /\ x.node[c].scope <= s
  BY <1>2 DEF IsMem
<1> HIDE DEF n, K, c, X, q
<1>6. LinksInto(x, (X \ {n}) \ {c}, c) /\ Placed(x, X \ {n}, t, c)
  BY <1>4, <1>5, LinkedInto, LinkedPlace
<1>7. LinksInto(m, X \ {c, n}, c)
  <2>1. (X \ {n}) \ {c} = X \ {c, n}
    OBVIOUS
  <2> QED  BY <1>6, <2>1 DEF LinksInto
<1>8. Restored(m, q, n, c)
  BY <1>1, <1>2, <1>3, <1>7, RestoreMem DEF n, X, q
<1>9. ASSUME NEW y, y.node = q.node,
             \A l \in 0..t : y.head[l] = IF m.node[c].prev = HeadOf(l) THEN n ELSE x.head[l]
      PROVE  Sound(y, s, t)
  <2>1. y.node[n] = m.node[c] /\ DOMAIN y.node = X \ {c}
    BY <1>8, <1>9 DEF Restored, X
  <2>2. ASSUME NEW k \in (X \ {n}) \ {c}
        PROVE  /\ y.node[k].scope = x.node[k].scope
               /\ y.node[k].prev = IF k = x.node[c].next THEN NextOf(n) ELSE x.node[k].prev
               /\ y.node[k].next = IF x.node[c].prev = NextOf(k) THEN n ELSE x.node[k].next
    BY <1>8, <1>9 DEF Restored, X
  <2>3. TakesPlace(x, y, X \ {n}, t, c, n)
    BY <1>9, <2>1, <2>2 DEF TakesPlace
  <2> DEFINE Z == X \ {n}
             Y == (Z \ {c}) \cup {n}
             u == [r EXCEPT ![n] = r[c]]
  <2>4. Numbered(Y, u) /\ Linked(y, Y, s, t, u)
    <3>1. c \in Z /\ n \in Ids \ Z
      BY <1>1, <1>5 DEF IsMem, X
    <3> HIDE DEF Z
    <3> QED  BY <1>4, <1>5, <2>3, <3>1, LinkedReplaced DEF Z
  <2>5. Y = DOMAIN y.node
    BY <1>1, <1>2, <2>1
  <2>6. u \in [Ids -> Nat]
    BY <2>4 DEF Numbered
  <2> QED  BY <2>4, <2>5, <2>6 DEF Sound
<1>10. m.node[c].prev # HeadOf(s + 1)
  <2>1. x.node[c].prev = HeadOf(x.node[c].scope) \/ \E p : x.node[c].prev = NextOf(p)
    BY <1>6 DEF Placed
  <2>2. x.node[c].scope \in 0..t
    BY <1>4, <1>5 DEF Linked
  <2>3. x.node[c].scope # s + 1
    BY <1>5, <2>2
  <2> QED  BY <2>1, <2>3, Addresses
<1> QED  BY <1>8, <1>9, <1>10 DEF n, c, K, q

\* The rounds of the loop of destroy(), from the memory a on.
Round(x, o) == Unlink(RestoreObj(x, o), <<o, 0>>)

Rounds(d, a, o, N) == d = [k \in 0..N |-> IF k = 0 THEN a ELSE Round(d[k - 1], o)]

\* The loop runs.
LEMMA RoundsExist ==
  ASSUME NEW a, NEW o, NEW N \in Nat
  PROVE  \E d : Rounds(d, a, o, N)
<1> DEFINE Upto(j) == \E d : Rounds(d, a, o, j)
           Fails == {j \in 0..N : ~Upto(j)}
<1>1. Upto(0)
  <2> DEFINE d == [k \in 0..0 |-> a]
  <2>1. d = [k \in 0..0 |-> IF k = 0 THEN a ELSE Round(d[k - 1], o)]
    OBVIOUS
  <2> QED  BY <2>1 DEF Rounds
<1>2. ASSUME NEW j \in Nat, Upto(j)
      PROVE  Upto(j + 1)
  <2>1. PICK d : Rounds(d, a, o, j)
    BY <1>2
  <2>2. d = [k \in 0..j |-> IF k = 0 THEN a ELSE Round(d[k - 1], o)]
    BY <2>1 DEF Rounds
  <2> DEFINE h == [k \in 0..(j + 1) |-> IF k = j + 1 THEN Round(d[j], o) ELSE d[k]]
  <2>3. ASSUME NEW k \in 0..(j + 1)
        PROVE  h[k] = IF k = 0 THEN a ELSE Round(h[k - 1], o)
    <3>1. CASE k = j + 1
      <4>1. k - 1 = j /\ k # 0 /\ j \in 0..(j + 1) /\ j # j + 1
        BY <3>1
      <4>2. h[j] = d[j] /\ h[k] = Round(d[j], o)
        BY <3>1, <4>1
      <4> QED  BY <4>1, <4>2
    <3>2. CASE k # j + 1 /\ k # 0
      <4>1. k \in 0..j /\ k - 1 \in 0..j /\ k - 1 \in 0..(j + 1) /\ k - 1 # j + 1
        BY <3>2
      <4>2. h[k] = d[k] /\ h[k - 1] = d[k - 1]
        BY <3>2, <4>1
      <4>3. d[k] = Round(d[k - 1], o)
        BY <2>2, <3>2, <4>1
      <4> QED  BY <3>2, <4>2, <4>3
    <3>3. CASE k = 0
      <4>1. 0 \in 0..j /\ 0 # j + 1
        OBVIOUS
      <4>2. d[0] = a
        BY <2>2, <4>1
      <4> QED  BY <3>3, <4>1, <4>2
    <3> QED  BY <3>1, <3>2, <3>3
  <2>4. h = [k \in 0..(j + 1) |-> IF k = 0 THEN a ELSE Round(h[k - 1], o)]
    <3>1. h = [k \in 0..(j + 1) |-> h[k]]
      OBVIOUS
    <3> HIDE DEF h
    <3> QED  BY <2>3, <3>1
  <2> HIDE DEF h
  <2>5. Rounds(h, a, o, j + 1)
    BY <2>4 DEF Rounds
  <2> QED  BY <2>5
<1> HIDE DEF Upto
<1>3. Fails = {}
  <2> SUFFICES ASSUME Fails # {} PROVE FALSE
    OBVIOUS
  <2>1. Fails \subseteq Nat
    OBVIOUS
  <2>2. PICK j \in Fails : \A k \in Fails : j <= k
    BY <2>1, NatMin
  <2>3. j # 0 /\ j \in 0..N /\ ~Upto(j)
    BY <1>1, <2>2
  <2>4. j - 1 \in Nat /\ j - 1 \in 0..N /\ j - 1 \notin Fails
    BY <2>1, <2>2, <2>3
  <2>5. Upto(j - 1) /\ (j - 1) + 1 = j
    BY <2>3, <2>4
  <2>6. Upto((j - 1) + 1)
    BY <1>2, <2>4, <2>5
  <2> QED  BY <2>3, <2>5, <2>6
<1>4. Upto(N)
  BY <1>3
<1> QED  BY <1>4 DEF Upto

\* x has what m has of the objects other than o.
OthersKept(m, x, o) ==
  \A k \in DOMAIN m.node : k[1] # o =>
    /\ x.node[k].data = m.node[k].data
    /\ x.node[k].scope = m.node[k].scope /\ x.node[k].restore = m.node[k].restore

\* After a round that leaves K copies of o.
RoundDone(m, x, o, live, copies, K) ==
  /\ IsMem(x)
  /\ Versioned(x, live, [copies EXCEPT ![o] = K])
  /\ SoundWithout(x, <<o, 0>>, level, level)
  /\ OthersKept(m, x, o)

\* A round restores the newest copy and unlinks the object again.
LEMMA RoundRight ==
  ASSUME NEW m, NEW live, NEW copies, Versioned(m, live, copies), NEW o \in live,
         level \in Level, MaxLevel \in Nat,
         NEW K \in Nat, K > 0, NEW x, RoundDone(m, x, o, live, copies, K)
  PROVE  RoundDone(m, Round(x, o), o, live, copies, K - 1)
<1> DEFINE n  == <<o, 0>>
           c  == <<o, K>>
           cs == [copies EXCEPT ![o] = K]
           q  == RestoreObj(x, o)
<1>1. /\ IsMem(x) /\ Versioned(x, live, cs) /\ SoundWithout(x, n, level, level)
      /\ OthersKept(m, x, o)
  BY DEF RoundDone
<1>2. /\ copies \in [Obj -> Nat] /\ o \in Obj /\ live \subseteq Obj
      /\ level \in Nat /\ level <= level /\ \A l \in 0..level : l \in Level
  BY DEF Versioned, Level
<1>3. cs[o] = K /\ [cs EXCEPT ![o] = K - 1] = [copies EXCEPT ![o] = K - 1]
  BY <1>2
<1> HIDE DEF cs
<1>4. /\ n \in DOMAIN x.node /\ c \in DOMAIN x.node
      /\ \A i \in Nat : <<o, i>> \in DOMAIN x.node <=> i <= K
  BY <1>1, <1>3, VersionedNodes
<1>5. x.node[c].scope <= level
  <2>1. c \in DOMAIN x.node \ {n}
    BY <1>4
  <2>2. x.node[c].scope \in 0..level
    BY <1>1, <2>1 DEF SoundWithout, Linked
  <2> QED  BY <1>2, <2>2
<1>6. /\ Restored(x, q, n, c)
      /\ \A y : /\ y.node = q.node
                /\ \A l \in 0..level : y.head[l] = IF x.node[c].prev = HeadOf(l) THEN n ELSE x.head[l]
                => Sound(y, level, level)
  BY <1>1, <1>2, <1>3, <1>5, RestoreRelinks
<1> HIDE DEF q
<1>7. Sound(q, level, level) /\ IsMem(q) /\ n \in DOMAIN q.node
  <2>1. \A l \in 0..level : q.head[l] = IF x.node[c].prev = HeadOf(l) THEN n ELSE x.head[l]
    BY <1>2, <1>6 DEF Restored
  <2>2. n # c
    OBVIOUS
  <2>3. IsMem(q) /\ n \in DOMAIN q.node
    BY <1>4, <1>6, <2>2 DEF Restored
  <2> QED  BY <1>6, <2>1, <2>3
<1>8. Versioned(q, live, [copies EXCEPT ![o] = K - 1])
  <2>1. Restored(x, q, <<o, 0>>, <<o, cs[o]>>)
    BY <1>3, <1>6
  <2>2. Versioned(q, live, [cs EXCEPT ![o] = cs[o] - 1])
    BY <1>1, <1>3, <2>1, RestoreVersions
  <2> QED  BY <1>3, <2>2
<1> DEFINE z == Unlink(q, n)
<1>9. IsMem(z) /\ SameVersions(q, z) /\ SoundWithout(z, n, level, level)
  BY <1>7, UnlinkRelinks
<1>10. Round(x, o) = z
  BY DEF Round, q
<1> HIDE DEF z
<1>11. Versioned(z, live, [copies EXCEPT ![o] = K - 1])
  BY <1>8, <1>9, VersionedSame DEF SameVersions
<1>12. OthersKept(m, z, o)
  <2>1. ASSUME NEW k \in DOMAIN m.node, k[1] # o
        PROVE  /\ z.node[k].data = m.node[k].data
               /\ z.node[k].scope = m.node[k].scope /\ z.node[k].restore = m.node[k].restore
    <3>1. k \in DOMAIN x.node
      <4>1. k \in Ids /\ k[1] \in live /\ k[2] <= copies[k[1]]
        BY DEF Versioned
      <4>2. k[1] \in Obj /\ cs[k[1]] = copies[k[1]]
        BY <1>2, <2>1, <4>1 DEF cs
      <4> QED  BY <1>1, <4>1, <4>2 DEF Versioned
    <3>2. k \in DOMAIN x.node \ {c, n}
      BY <2>1, <3>1
    <3>3. /\ q.node[k].data = x.node[k].data /\ q.node[k].scope = x.node[k].scope
          /\ q.node[k].restore = x.node[k].restore /\ k \in DOMAIN q.node
      BY <1>6, <3>2 DEF Restored
    <3>4. /\ z.node[k].data = q.node[k].data /\ z.node[k].scope = q.node[k].scope
          /\ z.node[k].restore = q.node[k].restore
      BY <1>9, <3>3 DEF SameVersions
    <3>5. /\ x.node[k].data = m.node[k].data /\ x.node[k].scope = m.node[k].scope
          /\ x.node[k].restore = m.node[k].restore
      BY <1>1, <2>1 DEF OthersKept
    <3> QED  BY <3>3, <3>4, <3>5
  <2> QED  BY <2>1 DEF OthersKept
<1> QED  BY <1>9, <1>10, <1>11, <1>12 DEF RoundDone

\* q is m without the object o and its copies.
Destroyed(m, q, o) ==
  /\ IsMem(q) /\ DOMAIN q.node = {k \in DOMAIN m.node : k[1] # o}
  /\ \A k \in DOMAIN q.node : /\ q.node[k].data = m.node[k].data
                              /\ q.node[k].scope = m.node[k].scope
                              /\ q.node[k].restore = m.node[k].restore

\* destroy() restores all copies and leaves sound lists of the other objects.
LEMMA DestroyRelinks ==
  ASSUME NEW m, IsMem(m), Sound(m, level, level), level \in Level, MaxLevel \in Nat,
         NEW live, NEW copies, Versioned(m, live, copies), NEW o \in live
  PROVE  /\ Destroyed(m, DestroyObj(m, o), o)
         /\ Sound(DestroyObj(m, o), level, level)
         /\ \E cs \in [Obj -> Nat] : Versioned(DestroyObj(m, o), live \ {o}, cs)
<1> DEFINE n == <<o, 0>>
           K == copies[o]
           a == Unlink(m, n)
           d[k \in 0..Copies(m, o)] == IF k = 0 THEN a ELSE Unlink(RestoreObj(d[k - 1], o), n)
           q == Drop(d[Copies(m, o)], {n})
<1>1. DestroyObj(m, o) = q
  BY DEF DestroyObj
<1>2. K \in Nat /\ o \in Obj /\ n \in DOMAIN m.node /\ live \subseteq Obj /\ copies \in [Obj -> Nat]
  <2>1. live \subseteq Obj /\ copies \in [Obj -> Nat]
    BY DEF Versioned
  <2> QED  BY <2>1, VersionedNodes
<1>3. Copies(m, o) = K
  BY CopiesCount DEF Copies
<1>4. PICK e : Rounds(e, a, o, K)
  BY <1>2, RoundsExist
<1>5. e = [k \in 0..K |-> IF k = 0 THEN a ELSE Unlink(RestoreObj(e[k - 1], o), n)]
  BY <1>4 DEF Rounds, Round
<1> HIDE DEF K, a
<1>6. d = [k \in 0..K |-> IF k = 0 THEN a ELSE Unlink(RestoreObj(d[k - 1], o), n)]
  BY <1>3, <1>5
<1> HIDE DEF d
<1>7. d[0] = a /\ \A k \in 1..K : d[k] = Round(d[k - 1], o)
  <2>1. 0 \in 0..K /\ \A k \in 1..K : k \in 0..K /\ k # 0
    BY <1>2
  <2> QED  BY <1>6, <2>1 DEF Round
<1>8. RoundDone(m, a, o, live, copies, K)
  <2>1. IsMem(a) /\ SameVersions(m, a) /\ SoundWithout(a, n, level, level)
    BY <1>2, UnlinkRelinks DEF a
  <2>2. Versioned(a, live, copies)
    BY <2>1, VersionedSame DEF SameVersions
  <2>3. [copies EXCEPT ![o] = K] = copies
    BY <1>2 DEF K
  <2>4. OthersKept(m, a, o)
    BY <2>1 DEF OthersKept, SameVersions
  <2> QED  BY <2>1, <2>2, <2>3, <2>4 DEF RoundDone
<1> DEFINE Fails == {k \in 0..K : ~RoundDone(m, d[k], o, live, copies, K - k)}
<1>9. Fails = {}
  <2> SUFFICES ASSUME Fails # {} PROVE FALSE
    OBVIOUS
  <2>1. Fails \subseteq Nat
    OBVIOUS
  <2>2. PICK k \in Fails : \A j \in Fails : k <= j
    BY <2>1, NatMin
  <2> HIDE DEF Fails
  <2>3. k \in 0..K /\ ~RoundDone(m, d[k], o, live, copies, K - k)
    BY <2>2 DEF Fails
  <2>4. k # 0
    <3>1. K - 0 = K
      BY <1>2
    <3> QED  BY <1>7, <1>8, <2>3, <3>1
  <2>5. k \in 1..K /\ k - 1 \in 0..K /\ ~(k <= k - 1)
    BY <1>2, <2>3, <2>4
  <2>6. RoundDone(m, d[k - 1], o, live, copies, K - (k - 1))
    BY <2>2, <2>5 DEF Fails
  <2>7. K - (k - 1) \in Nat /\ K - (k - 1) > 0 /\ (K - (k - 1)) - 1 = K - k
    BY <1>2, <2>5
  <2>8. RoundDone(m, Round(d[k - 1], o), o, live, copies, (K - (k - 1)) - 1)
    BY <2>6, <2>7, RoundRight
  <2> QED  BY <1>7, <2>3, <2>5, <2>7, <2>8
<1>10. RoundDone(m, d[K], o, live, copies, 0)
  <2>1. K \in 0..K /\ K - K = 0
    BY <1>2
  <2> QED  BY <1>9, <2>1
<1> DEFINE x  == d[K]
           cs == [copies EXCEPT ![o] = 0]
<1>11. /\ IsMem(x) /\ Versioned(x, live, cs) /\ SoundWithout(x, n, level, level)
       /\ OthersKept(m, x, o) /\ cs \in [Obj -> Nat] /\ cs[o] = 0
       /\ \A p \in Obj \ {o} : cs[p] = copies[p]
  BY <1>2, <1>10 DEF RoundDone
<1>12. q = Drop(x, {n})
  BY <1>3
<1> HIDE DEF x, cs, q
<1>13. NodesDropped(x, q, {n})
  BY <1>11, <1>12, DropMem
<1>14. Versioned(q, live \ {o}, cs)
  BY <1>11, <1>13, DropVersions
<1>15. Sound(q, level, level)
  <2>1. PICK r \in [Ids -> Nat] : Numbered(DOMAIN x.node \ {n}, r)
                                  /\ Linked(x, DOMAIN x.node \ {n}, level, level, r)
    BY <1>11 DEF SoundWithout
  <2>2. q.head = x.head /\ DOMAIN q.node = DOMAIN x.node \ {n}
        /\ \A k \in DOMAIN x.node \ {n} : q.node[k] = x.node[k]
    BY <1>13 DEF NodesDropped
  <2>3. Linked(q, DOMAIN x.node \ {n}, level, level, r)
    BY <2>1, <2>2, LinkedSame
  <2> QED  BY <2>1, <2>2, <2>3 DEF Sound
<1>16. Destroyed(m, q, o)
  <2>1. DOMAIN q.node = {k \in DOMAIN m.node : k[1] # o}
    <3>1. ASSUME NEW k \in Ids
          PROVE  k \in DOMAIN q.node <=> k \in DOMAIN m.node /\ k[1] # o
      <4>1. k[1] \in Obj
        BY DEF Ids
      <4> QED  BY <1>11, <1>14, <4>1 DEF Versioned
    <3>2. DOMAIN q.node \subseteq Ids /\ DOMAIN m.node \subseteq Ids
      BY <1>14 DEF Versioned
    <3> QED  BY <3>1, <3>2
  <2>2. ASSUME NEW k \in DOMAIN q.node
        PROVE  /\ q.node[k].data = m.node[k].data
               /\ q.node[k].scope = m.node[k].scope /\ q.node[k].restore = m.node[k].restore
    <3>1. k \in DOMAIN m.node /\ k[1] # o
      BY <2>1
    <3>2. q.node[k] = x.node[k]
      BY <1>13 DEF NodesDropped
    <3> QED  BY <1>11, <3>1, <3>2 DEF OthersKept
  <2> QED  BY <1>13, <2>1, <2>2 DEF Destroyed, NodesDropped
<1> QED  BY <1>1, <1>11, <1>14, <1>15, <1>16
-----------------------------------------------------------------------------
(* The invariant. *)

\* Memory after the statements of an operation.
LEMMA BecomesMem ==
  ASSUME NEW m, IsMem(m), Becomes(m)
  PROVE  Mem' = m
  BY DEF Mem, IsMem, Becomes

\* Versions after a step.
LEMMA VersionedNext ==
  ASSUME NEW m, NEW live, NEW copies \in [Obj -> Nat], Versioned(m, live, copies),
         Mem' = m, Live' = live
  PROVE  (\E cs \in [Obj -> Nat] : Versioned(Mem, Live, cs))'
<1>1. Versioned(Mem, Live, copies)'
  BY DEF Versioned
<1> QED  BY <1>1

\* What the invariant says while no scope is being deleted.
LEMMA InvRun ==
  ASSUME Inv, phase = "run"
  PROVE  /\ level \in Level /\ level \in Nat /\ MaxLevel \in Nat
         /\ IsMem(Mem) /\ Sound(Mem, level, level) /\ Mem.node = node /\ Mem.head = head
         /\ Live \subseteq Obj
         /\ \E copies \in [Obj -> Nat] : Versioned(Mem, Live, copies)
<1>1. level \in Level /\ IsMem(Mem) /\ Sound(Mem, level, Top) /\ MaxLevel \in Nat
      /\ \E copies \in [Obj -> Nat] : Versioned(Mem, Live, copies)
  BY ContextObjAssumption DEF Inv, Control
<1>2. Top = level
  BY DEF Top
<1>3. level \in Nat
  BY <1>1 DEF Level
<1>4. Mem.node = node /\ Mem.head = head
  BY DEF Mem
<1> QED  BY <1>1, <1>2, <1>3, <1>4 DEF Live

\* An operation of CDO that leaves sound lists of the objects there are.
LEMMA InvAfter ==
  ASSUME Inv, phase = "run", UNCHANGED <<level, target, phase>>,
         storage' \in [Obj -> {"none", "heap", "cmm"}],
         NEW m, Becomes(m), IsMem(m), Sound(m, level, level),
         NEW copies \in [Obj -> Nat], Versioned(m, Live', copies)
  PROVE  Inv'
<1>1. Mem' = m
  BY BecomesMem
<1>2. Control'
  BY DEF Inv, Control
<1>3. Top' = level /\ level' = level
  BY DEF Top
<1>4. Sound(Mem, level, Top)'
  BY <1>1, <1>3 DEF Sound, Linked, Numbered
<1>5. IsMem(Mem)'
  BY <1>1 DEF IsMem, IsEntry
<1>6. (\E cs \in [Obj -> Nat] : Versioned(Mem, Live, cs))'
  BY <1>1 DEF Versioned
<1> QED  BY <1>2, <1>4, <1>5, <1>6 DEF Inv

\* makeCurrent() leaves the object in the top scope.
LEMMA MakeCurrentRight ==
  ASSUME NEW m, IsMem(m), Sound(m, level, level), level \in Level, MaxLevel \in Nat,
         NEW live, NEW copies \in [Obj -> Nat], Versioned(m, live, copies), NEW o \in live
  PROVE  LET q == MakeCurrent(m, o) IN
         /\ IsMem(q) /\ Sound(q, level, level) /\ <<o, 0>> \in DOMAIN q.node
         /\ \E cs \in [Obj -> Nat] : Versioned(q, live, cs)
         /\ \/ q = m /\ m.node[<<o, 0>>].scope = level
            \/ /\ m.node[<<o, 0>>].scope < level
               /\ Updated(m, q, <<o, 0>>, <<o, copies[o] + 1>>)
<1> DEFINE q == MakeCurrent(m, o)
<1>1. <<o, 0>> \in DOMAIN m.node /\ o \in Obj /\ copies[o] \in Nat
  BY VersionedNodes
<1>2. level \in Nat /\ m.node[<<o, 0>>].scope \in 0..level
  BY <1>1 DEF Sound, Linked, Level
<1>3. CASE m.node[<<o, 0>>].scope = level
  BY <1>1, <1>3 DEF MakeCurrent
<1>4. CASE m.node[<<o, 0>>].scope # level
  <2>1. q = UpdateObj(m, o) /\ m.node[<<o, 0>>].scope < level
    BY <1>2, <1>4 DEF MakeCurrent
  <2>2. FreshCopy(m, o) = <<o, copies[o] + 1>> /\ FreshCopy(m, o) \in Ids \ DOMAIN m.node
    BY FreshCopyIs
  <2> HIDE DEF q
  <2>3. Updated(m, q, <<o, 0>>, FreshCopy(m, o)) /\ Sound(q, level, level)
    BY <1>1, <2>1, <2>2, UpdateRelinks
  <2>4. Updated(m, q, <<o, 0>>, <<o, copies[o] + 1>>)
    BY <2>2, <2>3
  <2>5. IsMem(q) /\ <<o, 0>> \in DOMAIN q.node
    BY <1>1, <2>4 DEF Updated
  <2> DEFINE cs == [copies EXCEPT ![o] = copies[o] + 1]
  <2>6. Versioned(q, live, cs)
    <3>1. m.node[<<o, 0>>].scope \in Nat /\ m.node[<<o, 0>>].scope < level
      BY <1>2, <2>1
    <3> QED  BY <1>2, <2>4, <3>1, UpdateVersions
  <2>7. cs \in [Obj -> Nat]
    BY <2>6 DEF Versioned
  <2> HIDE DEF cs
  <2> QED  BY <2>1, <2>3, <2>4, <2>5, <2>6, <2>7 DEF q
<1> QED  BY <1>3, <1>4

\* Writing data, the versions stay.
LEMMA DataVersions ==
  ASSUME NEW m, NEW q, NEW n \in DOMAIN m.node, NEW v, DataWritten(m, q, n, v),
         NEW live, NEW copies, Versioned(m, live, copies)
  PROVE  Versioned(q, live, copies)
<1>1. \A k \in DOMAIN m.node : /\ q.node[k].scope = m.node[k].scope
                               /\ q.node[k].restore = m.node[k].restore
  BY DEF DataWritten
<1>2. DOMAIN q.node = DOMAIN m.node
  BY DEF DataWritten
<1> QED  BY <1>1, <1>2, VersionedSame

\* CDO::set
LEMMA SetStep ==
  ASSUME Inv, NEW o \in Obj, NEW v \in Val, Set(o, v)
  PROVE  Inv'
<1>1. phase = "run" /\ o \in Live /\ UNCHANGED <<level, storage, target, phase>>
  BY DEF Set, Live
<1>2. /\ level \in Level /\ MaxLevel \in Nat
      /\ IsMem(Mem) /\ Sound(Mem, level, level) /\ Live \subseteq Obj
  BY <1>1, InvRun
<1>3. PICK copies \in [Obj -> Nat] : Versioned(Mem, Live, copies)
  BY <1>1, InvRun
<1> DEFINE q == MakeCurrent(Mem, o)
           m == [q EXCEPT !.node[<<o, 0>>].data = v]
<1>4. /\ IsMem(q) /\ Sound(q, level, level) /\ <<o, 0>> \in DOMAIN q.node
      /\ \E cs \in [Obj -> Nat] : Versioned(q, Live, cs)
  BY <1>1, <1>2, <1>3, MakeCurrentRight
<1>5. Becomes(m)
  BY DEF Set
<1> HIDE DEF q
<1>6. DataWritten(q, m, <<o, 0>>, v) /\ Sound(m, level, level)
  BY <1>4, DataRelinks
<1> HIDE DEF m
<1>7. PICK cs \in [Obj -> Nat] : Versioned(m, Live, cs)
  BY <1>4, <1>6, DataVersions
<1>8. Live' = Live /\ IsMem(m) /\ storage' \in [Obj -> {"none", "heap", "cmm"}]
  BY <1>1, <1>6 DEF Live, Constructed, DataWritten, Inv, Control
<1> QED  BY <1>1, <1>5, <1>6, <1>7, <1>8, InvAfter

\* The constructors: the new object is on the list of a scope.
LEMMA NewRight ==
  ASSUME Inv, phase = "run", NEW o \in Obj, ~Constructed(o), NEW l \in 0..level
  PROVE  LET q == NewNode(Mem, o, l) IN
         /\ Created(Mem, q, <<o, 0>>, l) /\ IsMem(q) /\ Sound(q, level, level)
         /\ \E cs \in [Obj -> Nat] : Versioned(q, Live \cup {o}, cs)
<1> DEFINE q == NewNode(Mem, o, l)
<1>1. /\ level \in Level /\ MaxLevel \in Nat
      /\ IsMem(Mem) /\ Sound(Mem, level, level) /\ o \notin Live
  BY InvRun DEF Live
<1>2. PICK copies \in [Obj -> Nat] : Versioned(Mem, Live, copies)
  BY InvRun
<1>3. <<o, 0>> \notin DOMAIN Mem.node
  BY <1>1, <1>2 DEF Versioned
<1>4. Created(Mem, q, <<o, 0>>, l) /\ Sound(q, level, level)
  BY <1>1, <1>3, NewRelinks
<1> HIDE DEF q
<1> DEFINE cs == [copies EXCEPT ![o] = 0]
<1>5. Versioned(q, Live \cup {o}, cs)
  BY <1>1, <1>2, <1>4, NewVersions DEF Created
<1>6. cs \in [Obj -> Nat]
  BY <1>5 DEF Versioned
<1> HIDE DEF cs
<1> QED  BY <1>4, <1>5, <1>6 DEF Created, q

\* CDO(context) and CDO(allocatedInCMM, context)
LEMMA ConstructStep ==
  ASSUME Inv, NEW o \in Obj, NEW where \in {"heap", "cmm"}, Construct(o, where)
  PROVE  Inv'
<1>1. /\ phase = "run" /\ ~Constructed(o) /\ UNCHANGED <<level, target, phase>>
      /\ storage' = [storage EXCEPT ![o] = where]
  BY DEF Construct
<1> DEFINE l == IF where = "cmm" THEN level ELSE 0
           m == NewNode(Mem, o, l)
<1>2. level \in Nat /\ l \in 0..level
  BY <1>1, InvRun
<1>3. Becomes(m)
  BY DEF Construct
<1> HIDE DEF l
<1>4. /\ IsMem(m) /\ Sound(m, level, level)
      /\ \E cs \in [Obj -> Nat] : Versioned(m, Live \cup {o}, cs)
  BY <1>1, <1>2, NewRight
<1> HIDE DEF m
<1>5. storage \in [Obj -> {"none", "heap", "cmm"}]
  BY DEF Inv, Control
<1>6. Live' = Live \cup {o} /\ storage' \in [Obj -> {"none", "heap", "cmm"}]
  BY <1>1, <1>5 DEF Live, Constructed
<1> QED  BY <1>1, <1>3, <1>4, <1>6, InvAfter

\* CDO(context, data)
LEMMA ConstructWithStep ==
  ASSUME Inv, NEW o \in Obj, NEW v \in Val, ConstructWith(o, v)
  PROVE  Inv'
<1>1. /\ phase = "run" /\ ~Constructed(o) /\ UNCHANGED <<level, target, phase>>
      /\ storage' = [storage EXCEPT ![o] = "heap"]
  BY DEF ConstructWith
<1>2. level \in Nat /\ level \in Level /\ MaxLevel \in Nat /\ 0 \in 0..level
  BY <1>1, InvRun
<1> DEFINE a == NewNode(Mem, o, 0)
           q == MakeCurrent(a, o)
           m == [q EXCEPT !.node[<<o, 0>>].data = v]
<1>3. Becomes(m)
  BY DEF ConstructWith
<1>4. /\ IsMem(a) /\ Sound(a, level, level)
      /\ \E cs \in [Obj -> Nat] : Versioned(a, Live \cup {o}, cs)
  BY <1>1, <1>2, NewRight
<1> HIDE DEF a
<1>5. /\ IsMem(q) /\ Sound(q, level, level) /\ <<o, 0>> \in DOMAIN q.node
      /\ \E cs \in [Obj -> Nat] : Versioned(q, Live \cup {o}, cs)
  <2>1. o \in Live \cup {o}
    OBVIOUS
  <2> QED  BY <1>2, <1>4, <2>1, MakeCurrentRight
<1> HIDE DEF q
<1>6. DataWritten(q, m, <<o, 0>>, v) /\ Sound(m, level, level)
  BY <1>5, DataRelinks
<1> HIDE DEF m
<1>7. PICK cs \in [Obj -> Nat] : Versioned(m, Live \cup {o}, cs)
  BY <1>5, <1>6, DataVersions
<1>8. storage \in [Obj -> {"none", "heap", "cmm"}] /\ IsMem(m)
  BY <1>6 DEF Inv, Control, DataWritten
<1>9. Live' = Live \cup {o} /\ storage' \in [Obj -> {"none", "heap", "cmm"}]
  BY <1>1, <1>8 DEF Live, Constructed
<1> QED  BY <1>1, <1>3, <1>6, <1>7, <1>8, <1>9, InvAfter

\* ~CDO
LEMMA DestroyStep ==
  ASSUME Inv, NEW o \in Obj, Destroy(o)
  PROVE  Inv'
<1>1. /\ phase = "run" /\ o \in Live /\ UNCHANGED <<level, target, phase>>
      /\ storage' = [storage EXCEPT ![o] = "none"]
  BY DEF Destroy, Live, Constructed
<1>2. /\ level \in Level /\ MaxLevel \in Nat
      /\ IsMem(Mem) /\ Sound(Mem, level, level) /\ Live \subseteq Obj
  BY <1>1, InvRun
<1>3. PICK copies \in [Obj -> Nat] : Versioned(Mem, Live, copies)
  BY <1>1, InvRun
<1> DEFINE m == DestroyObj(Mem, o)
<1>4. Becomes(m)
  BY DEF Destroy
<1>5. /\ Destroyed(Mem, m, o) /\ Sound(m, level, level)
      /\ \E cs \in [Obj -> Nat] : Versioned(m, Live \ {o}, cs)
  BY <1>1, <1>2, <1>3, DestroyRelinks
<1> HIDE DEF m
<1>6. storage \in [Obj -> {"none", "heap", "cmm"}] /\ IsMem(m)
  BY <1>5 DEF Inv, Control, Destroyed
<1>7. Live' = Live \ {o} /\ storage' \in [Obj -> {"none", "heap", "cmm"}]
  BY <1>1, <1>6 DEF Live, Constructed
<1> QED  BY <1>1, <1>4, <1>5, <1>6, <1>7, InvAfter

\* No objects, no lists.
LEMMA InvInit ==
  ASSUME Init
  PROVE  Inv
<1>1. /\ level = 0 /\ target = 0 /\ phase = "run" /\ node = <<>>
      /\ storage = [o \in Obj |-> "none"] /\ head = [l \in Level |-> Null]
  BY DEF Init
<1>2. MaxLevel \in Nat /\ 0 \in Level
  BY ContextObjAssumption DEF Level
<1>3. Control
  BY <1>1, <1>2 DEF Control
<1>4. DOMAIN node = {} /\ node = [n \in DOMAIN node |-> node[n]]
  BY <1>1
<1>5. Mem.node = node /\ Mem.head = head
  BY DEF Mem
<1>6. IsMem(Mem)
  BY <1>1, <1>4, <1>5 DEF IsMem, Mem
<1>7. Live = {} /\ Top = 0
  BY <1>1 DEF Live, Constructed, Top
<1>8. \E copies \in [Obj -> Nat] : Versioned(Mem, Live, copies)
  <2> DEFINE copies == [o \in Obj |-> 0]
  <2>1. copies \in [Obj -> Nat]
    OBVIOUS
  <2>2. IsFiniteSet({})
    BY FS_EmptySet
  <2>3. Versioned(Mem, {}, copies)
    BY <1>4, <1>5, <2>1, <2>2 DEF Versioned
  <2> QED  BY <1>7, <2>1, <2>3
<1>9. Sound(Mem, level, Top)
  <2> DEFINE r == [n \in Ids |-> 0]
  <2>1. r \in [Ids -> Nat] /\ Numbered({}, r)
    BY DEF Numbered
  <2>2. Linked(Mem, {}, 0, 0, r)
    <3>1. \A l \in 0..0 : Mem.head[l] = Null
      BY <1>1, <1>2, <1>5
    <3> QED  BY <3>1 DEF Linked
  <2> QED  BY <1>1, <1>4, <1>5, <1>7, <2>1, <2>2 DEF Sound
<1> QED  BY <1>3, <1>6, <1>8, <1>9 DEF Inv

\* Context::push
LEMMA PushStep ==
  ASSUME Inv, Push
  PROVE  Inv'
<1>1. /\ phase = "run" /\ level < MaxLevel /\ level' = level + 1
      /\ head' = [head EXCEPT ![level + 1] = Null] /\ UNCHANGED <<storage, node, target, phase>>
  BY DEF Push
<1>2. /\ level \in Level /\ level \in Nat /\ MaxLevel \in Nat
      /\ IsMem(Mem) /\ Sound(Mem, level, level) /\ Mem.node = node /\ Mem.head = head
      /\ \E copies \in [Obj -> Nat] : Versioned(Mem, Live, copies)
  BY <1>1, InvRun
<1>3. level + 1 \in Level /\ \A l \in 0..level : l \in Level /\ l # level + 1
  BY <1>1, <1>2 DEF Level
<1>4. Control'
  BY <1>1, <1>3 DEF Inv, Control
<1>5. head = [l \in Level |-> head[l]]
  BY <1>2 DEF IsMem
<1> DEFINE q == [node |-> node, head |-> head']
<1>6. q.node = Mem.node /\ q.head[level + 1] = Null /\ \A l \in 0..level : q.head[l] = Mem.head[l]
  BY <1>1, <1>2, <1>3, <1>5
<1>7. IsMem(q)
  BY <1>1, <1>2, <1>5 DEF IsMem
<1>8. Mem' = q
  BY <1>1 DEF Mem
<1> HIDE DEF q
<1>9. Sound(q, level + 1, level + 1)
  <2>1. PICK r \in [Ids -> Nat] : Numbered(DOMAIN Mem.node, r)
                                  /\ Linked(Mem, DOMAIN Mem.node, level, level, r)
    BY <1>2 DEF Sound
  <2>2. Linked(q, DOMAIN Mem.node, level + 1, level + 1, r)
    BY <1>2, <1>6, <2>1, LinkedMore
  <2> QED  BY <1>6, <2>1, <2>2 DEF Sound
<1>10. Top' = level + 1
  BY <1>1 DEF Top
<1>11. Sound(Mem, level, Top)'
  BY <1>1, <1>8, <1>9, <1>10 DEF Sound, Linked, Numbered
<1>12. IsMem(Mem)'
  BY <1>7, <1>8 DEF IsMem, IsEntry
<1>13. Live' = Live
  BY <1>1 DEF Live, Constructed
<1>14. PICK copies \in [Obj -> Nat] : Versioned(Mem, Live, copies)
  BY <1>2
<1>15. Versioned(q, Live, copies)
  BY <1>6, <1>14, VersionedSame
<1>16. Versioned(Mem, Live, copies)'
  BY <1>8, <1>13, <1>15 DEF Versioned
<1> QED  BY <1>4, <1>11, <1>12, <1>16 DEF Inv

\* A step of pop() that leaves memory alone.
LEMMA InvPopping ==
  ASSUME Inv, UNCHANGED <<storage, node, head>>, Control', Sound(Mem, level', Top')
  PROVE  Inv'
<1>1. Mem' = Mem /\ Live' = Live
  BY DEF Mem, Live, Constructed
<1>2. Sound(Mem, level, Top)'
  BY <1>1 DEF Sound, Linked, Numbered
<1>3. IsMem(Mem)'
  BY <1>1 DEF Inv, IsMem, IsEntry
<1>4. (\E copies \in [Obj -> Nat] : Versioned(Mem, Live, copies))'
  <2>1. PICK copies \in [Obj -> Nat] : Versioned(Mem, Live, copies)
    BY DEF Inv
  <2> QED  BY <1>1, <2>1, VersionedNext
<1> QED  BY <1>2, <1>3, <1>4 DEF Inv

\* Context::popto
LEMMA PopToStep ==
  ASSUME Inv, NEW t \in Level, PopTo(t)
  PROVE  Inv'
<1>1. /\ phase = "run" /\ t < level /\ target' = t /\ phase' = "restore" /\ level' = level - 1
      /\ UNCHANGED <<storage, node, head>>
  BY DEF PopTo
<1>2. /\ level \in Level /\ level \in Nat /\ MaxLevel \in Nat /\ Sound(Mem, level, level)
      /\ t \in Nat /\ level <= MaxLevel
  BY <1>1, InvRun DEF Level
<1>3. /\ level - 1 \in Nat /\ level - 1 \in Level /\ level - 1 <= level /\ t <= level - 1
      /\ level - 1 < MaxLevel /\ (level - 1) + 1 = level
  BY <1>1, <1>2 DEF Level
<1>4. Control'
  BY <1>1, <1>3 DEF Inv, Control
<1>5. Sound(Mem, level - 1, level)
  BY <1>2, <1>3, LinkedClosing DEF Sound
<1>6. Top' = level
  BY <1>1, <1>3 DEF Top
<1> QED  BY <1>1, <1>4, <1>5, <1>6, InvPopping

\* What the invariant says while a scope is being deleted.
LEMMA InvRestore ==
  ASSUME Inv, phase = "restore"
  PROVE  /\ level \in Level /\ level \in Nat /\ target \in Nat /\ target <= level
         /\ level + 1 \in Level /\ level + 1 \in Nat /\ Top = level + 1
         /\ \A l \in 0..(level + 1) : l \in Level
         /\ IsMem(Mem) /\ Sound(Mem, level, level + 1) /\ Mem.node = node /\ Mem.head = head
         /\ Live \subseteq Obj
         /\ \E copies \in [Obj -> Nat] : Versioned(Mem, Live, copies)
<1>1. /\ level \in Level /\ target \in Level /\ target <= level /\ level < MaxLevel
      /\ IsMem(Mem) /\ Sound(Mem, level, Top) /\ MaxLevel \in Nat
      /\ \E copies \in [Obj -> Nat] : Versioned(Mem, Live, copies)
  BY ContextObjAssumption DEF Inv, Control
<1>2. Top = level + 1
  BY DEF Top
<1>3. level \in Nat /\ target \in Nat /\ level + 1 \in Level /\ level + 1 \in Nat
      /\ \A l \in 0..(level + 1) : l \in Level
  BY <1>1 DEF Level
<1>4. Mem.node = node /\ Mem.head = head
  BY DEF Mem
<1> QED  BY <1>1, <1>2, <1>3, <1>4 DEF Live

\* The end of ~Scope
LEMMA ScopeDeletedStep ==
  ASSUME Inv, ScopeDeleted
  PROVE  Inv'
<1>1. /\ phase = "restore" /\ head[level + 1] = Null
      /\ \/ target < level /\ level' = level - 1 /\ UNCHANGED phase
         \/ target >= level /\ phase' = "run" /\ UNCHANGED level
      /\ UNCHANGED <<storage, node, head, target>>
  BY DEF ScopeDeleted
<1>2. /\ level \in Level /\ level \in Nat /\ target \in Nat /\ target <= level
      /\ IsMem(Mem) /\ Sound(Mem, level, level + 1) /\ Mem.head = head /\ MaxLevel \in Nat
      /\ level + 1 \in Level
  BY <1>1, InvRestore, ContextObjAssumption
<1>3. Sound(Mem, level, level)
  <2>1. DOMAIN Mem.node \subseteq Ids
    BY <1>2 DEF IsMem
  <2> QED  BY <1>1, <1>2, <2>1, LinkedClosed DEF Sound
<1>4. CASE target < level /\ level' = level - 1 /\ UNCHANGED phase
  <2>1. level - 1 \in Nat /\ level - 1 <= level /\ (level - 1) + 1 = level
        /\ level - 1 \in Level /\ target <= level - 1 /\ level - 1 < MaxLevel
    BY <1>2, <1>4 DEF Level
  <2>2. Control'
    BY <1>1, <1>4, <2>1 DEF Inv, Control
  <2>3. Sound(Mem, level - 1, level)
    BY <1>2, <1>3, <2>1, LinkedClosing DEF Sound
  <2>4. Top' = level
    BY <1>1, <1>4, <2>1 DEF Top
  <2> QED  BY <1>1, <1>4, <2>2, <2>3, <2>4, InvPopping
<1>5. CASE target >= level /\ phase' = "run" /\ UNCHANGED level
  <2>1. Control'
    BY <1>1, <1>5 DEF Inv, Control
  <2>2. Top' = level /\ level' = level
    BY <1>5 DEF Top
  <2> QED  BY <1>1, <1>3, <2>1, <2>2, InvPopping
<1> QED  BY <1>1, <1>4, <1>5

\* The first node of the newest list is an object: its copies belong to older scopes.
LEMMA FirstIsObject ==
  ASSUME Inv, phase = "restore", head[level + 1] # Null,
         NEW copies \in [Obj -> Nat], Versioned(Mem, Live, copies)
  PROVE  LET n == head[level + 1] IN
         /\ n \in DOMAIN node /\ n[1] \in Live /\ n = <<n[1], 0>>
         /\ node[n].scope = level + 1
         /\ copies[n[1]] # 0 => node[<<n[1], copies[n[1]]>>].scope <= level
<1> DEFINE n == head[level + 1]
           o == n[1]
<1>1. /\ level \in Nat /\ level + 1 \in Nat /\ Sound(Mem, level, level + 1)
      /\ Mem.node = node /\ Mem.head = head
  BY InvRestore
<1>2. level + 1 \in 0..(level + 1)
  BY <1>1
<1>3. n \in DOMAIN node /\ node[n].scope = level + 1
  BY <1>1, <1>2 DEF Sound, Linked
<1>4. \A k \in DOMAIN node : node[k].scope \in 0..(level + 1)
  BY <1>1 DEF Sound, Linked
<1> HIDE DEF n
<1>5. o \in Live /\ n[2] \in 0..copies[o] /\ n = <<o, n[2]>> /\ copies[o] \in Nat
  BY <1>1, <1>3, VersionedNode
<1>6. \A i \in Nat : <<o, i>> \in DOMAIN node <=> i <= copies[o]
  BY <1>1, <1>5, VersionedNodes
<1>7. ASSUME NEW i \in 1..copies[o]
      PROVE  node[<<o, i>>].scope <= level
  <2> DEFINE j == IF i = copies[o] THEN 0 ELSE i + 1
  <2>1. j \in Nat /\ j <= copies[o] /\ i \in Nat /\ i <= copies[o]
    BY <1>5
  <2>2. node[<<o, i>>].scope < node[IF i = copies[o] THEN <<o, 0>> ELSE <<o, i + 1>>].scope
    BY <1>1, <1>5 DEF Versioned
  <2>3. node[<<o, i>>].scope < node[<<o, j>>].scope
    BY <2>2
  <2> HIDE DEF j
  <2>4. node[<<o, j>>].scope \in 0..(level + 1) /\ node[<<o, i>>].scope \in 0..(level + 1)
    BY <1>4, <1>6, <2>1
  <2> QED  BY <1>1, <2>3, <2>4
<1>8. n[2] = 0
  <2>1. n[2] # 0 => n[2] \in 1..copies[o]
    BY <1>5
  <2>2. n[2] # 0 => node[n].scope <= level
    BY <1>5, <1>7, <2>1
  <2> QED  BY <1>1, <1>3, <2>2
<1>9. copies[o] # 0 => copies[o] \in 1..copies[o]
  BY <1>5
<1> QED  BY <1>3, <1>5, <1>7, <1>8, <1>9 DEF n

\* The lists when the loop of ~Scope has advanced past the first node.
Advanced == [node |-> node,
             head |-> [head EXCEPT ![level + 1] = node[head[level + 1]].next]]

\* Without the first node of the newest list the lists are sound.
LEMMA AdvancedSound ==
  ASSUME Inv, phase = "restore", head[level + 1] # Null
  PROVE  LET n == head[level + 1] IN
         /\ Advanced.node = node
         /\ \A l \in Level : Advanced.head[l] = IF l = level + 1 THEN node[n].next ELSE head[l]
         /\ SoundWithout(Advanced, n, level, level + 1)
<1> DEFINE n == head[level + 1]
           x == Advanced
<1>1. /\ level \in Level /\ level \in Nat /\ level + 1 \in Level /\ level + 1 \in Nat
      /\ \A l \in 0..(level + 1) : l \in Level
      /\ IsMem(Mem) /\ Sound(Mem, level, level + 1) /\ Mem.node = node /\ Mem.head = head
  BY InvRestore
<1>2. n \in DOMAIN node /\ node[n].scope = level + 1
  <2>1. PICK copies \in [Obj -> Nat] : Versioned(Mem, Live, copies)
    BY InvRestore
  <2> QED  BY <2>1, FirstIsObject
<1>3. head = [l \in Level |-> head[l]]
  BY <1>1 DEF IsMem
<1>4. x.node = node /\ \A l \in Level : x.head[l] = IF l = level + 1 THEN node[n].next ELSE head[l]
  BY <1>3 DEF Advanced
<1> HIDE DEF x
<1>5. PICK r \in [Ids -> Nat] : /\ Numbered(DOMAIN Mem.node, r)
                                /\ Linked(Mem, DOMAIN Mem.node, level, level + 1, r)
  BY <1>1 DEF Sound
<1>6. Skipped(Mem, x, DOMAIN Mem.node, level + 1, n)
  BY <1>1, <1>4 DEF Skipped
<1>7. DOMAIN Mem.node \subseteq Ids /\ n \in DOMAIN Mem.node /\ Mem.head[level + 1] = n
      /\ level < level + 1
  BY <1>1, <1>2 DEF IsMem
<1> HIDE DEF n
<1>8. /\ Numbered(DOMAIN Mem.node \ {n}, r)
      /\ Linked(x, DOMAIN Mem.node \ {n}, level, level + 1, r)
  BY <1>1, <1>5, <1>6, <1>7, LinkedConsumed
<1>9. SoundWithout(x, n, level, level + 1)
  BY <1>1, <1>4, <1>8 DEF SoundWithout
<1> QED  BY <1>4, <1>9 DEF n, x

\* A round of the loop of ~Scope.
LEMMA RestoreStep ==
  ASSUME Inv, Restore
  PROVE  Inv'
<1> DEFINE n == head[level + 1]
           o == n[1]
           x == Advanced
<1>1. phase = "restore" /\ n # Null /\ UNCHANGED <<level, target, phase>>
  BY DEF Restore
<1>2. /\ level \in Level /\ level \in Nat /\ level + 1 \in Level /\ level + 1 \in Nat
      /\ \A l \in 0..(level + 1) : l \in Level
      /\ IsMem(Mem) /\ Sound(Mem, level, level + 1) /\ Mem.node = node /\ Mem.head = head
      /\ Live \subseteq Obj
  BY <1>1, InvRestore
<1>3. PICK copies \in [Obj -> Nat] : Versioned(Mem, Live, copies)
  BY <1>1, InvRestore
<1>4. /\ n \in DOMAIN node /\ o \in Live /\ n = <<o, 0>> /\ node[n].scope = level + 1
      /\ copies[o] # 0 => node[<<o, copies[o]>>].scope <= level
  BY <1>1, <1>3, FirstIsObject
<1>5. head = [l \in Level |-> head[l]]
  BY <1>2 DEF IsMem
<1>6. x.node = node /\ \A l \in Level : x.head[l] = IF l = level + 1 THEN node[n].next ELSE head[l]
  BY <1>1, AdvancedSound
<1>7. SoundWithout(x, n, level, level + 1)
  BY <1>1, AdvancedSound
<1> HIDE DEF x
<1>8. storage \in [Obj -> {"none", "heap", "cmm"}]
  BY DEF Inv, Control
<1>9. Top' = level + 1
  BY <1>1, <1>2 DEF Top
<1> DEFINE y == Mem'
<1>10. y.node = node' /\ y.head = head'
  BY DEF Mem
<1>11. CASE node[n].restore # Null
  <2> DEFINE q == RestoreObj(Mem, o)
  <2>1. /\ node' = q.node /\ head' = [q.head EXCEPT ![level + 1] = node[n].next]
        /\ storage' = [storage EXCEPT ![o] = @]
    BY <1>11 DEF Restore
  <2>2. copies[o] > 0 /\ copies[o] \in Nat
    <3>1. copies[o] \in Nat
      BY <1>2, <1>4
    <3>2. node[<<o, 0>>].restore = IF copies[o] = 0 THEN Null ELSE <<o, copies[o]>>
      BY <1>2, <1>3, <1>4 DEF Versioned
    <3>3. copies[o] # 0
      BY <1>4, <1>11, <3>2
    <3> QED  BY <3>1, <3>3
  <2> DEFINE c == <<o, copies[o]>>
  <2>3. Mem.node[c].scope <= level /\ level <= level + 1 /\ x.node = Mem.node
        /\ SoundWithout(x, <<o, 0>>, level, level + 1)
    BY <1>2, <1>4, <1>6, <1>7, <2>2
  <2> HIDE DEF n, o, q
  <2>4. /\ Restored(Mem, q, <<o, 0>>, c)
        /\ \A z : /\ z.node = q.node
                  /\ \A l \in 0..(level + 1) : z.head[l] = IF Mem.node[c].prev = HeadOf(l)
                                                             THEN <<o, 0>> ELSE x.head[l]
                  => Sound(z, level, level + 1)
        /\ Mem.node[c].prev # HeadOf(level + 1)
    BY <1>2, <1>3, <1>4, <2>2, <2>3, RestoreRelinks DEF q
  <2> HIDE DEF c
  <2>5. q.head = [l \in Level |-> q.head[l]]
        /\ \A l \in Level : q.head[l] = IF Mem.node[c].prev = HeadOf(l) THEN <<o, 0>> ELSE head[l]
    BY <1>2, <2>4 DEF Restored, IsMem
  <2>6. \A l \in Level : y.head[l] = IF l = level + 1 THEN node[n].next ELSE q.head[l]
    BY <1>10, <2>1, <2>5
  <2>7. \A l \in 0..(level + 1) : y.head[l] = IF Mem.node[c].prev = HeadOf(l)
                                                THEN <<o, 0>> ELSE x.head[l]
    BY <1>2, <1>6, <2>4, <2>5, <2>6
  <2>8. Sound(y, level, level + 1)
    BY <1>10, <2>1, <2>4, <2>7
  <2>9. IsMem(y)
    <3>1. head' = [l \in Level |-> head'[l]] /\ y = [node |-> node', head |-> head']
      BY <2>1, <2>5 DEF Mem
    <3>2. IsMem(q)
      BY <2>4 DEF Restored
    <3> QED  BY <1>10, <2>1, <3>1, <3>2 DEF IsMem
  <2> DEFINE cs == [copies EXCEPT ![o] = copies[o] - 1]
  <2>10. Versioned(q, Live, cs)
    BY <1>3, <1>4, <2>2, <2>4, RestoreVersions DEF c
  <2>11. Versioned(y, Live, cs)
    BY <1>10, <2>1, <2>10, VersionedSame
  <2>a. cs \in [Obj -> Nat]
    BY <2>10 DEF Versioned
  <2> HIDE DEF cs
  <2>12. storage' = storage
    BY <1>8, <2>1
  <2>13. Live' = Live /\ Control'
    BY <1>1, <2>12 DEF Live, Constructed, Inv, Control
  <2>14. (\E ks \in [Obj -> Nat] : Versioned(Mem, Live, ks))'
    BY <2>11, <2>13, <2>a, VersionedNext
  <2>15. Sound(Mem, level, Top)'
    BY <1>1, <1>9, <2>8 DEF Sound, Linked, Numbered
  <2>16. IsMem(Mem)'
    BY <2>9 DEF IsMem, IsEntry
  <2> QED  BY <2>13, <2>14, <2>15, <2>16 DEF Inv
<1>12. CASE node[n].restore = Null
  <2> DEFINE q == Drop(Mem, {n})
  <2>1. /\ node' = q.node /\ head' = [q.head EXCEPT ![level + 1] = node[n].next]
        /\ storage' = [storage EXCEPT ![o] = "none"]
    BY <1>12 DEF Restore
  <2>2. copies[o] = 0
    <3>1. node[<<o, 0>>].restore = IF copies[o] = 0 THEN Null ELSE <<o, copies[o]>>
      BY <1>2, <1>3, <1>4 DEF Versioned
    <3>2. o \in Obj /\ copies[o] \in Nat
      BY <1>2, <1>4
    <3>3. <<o, copies[o]>> # Null
      BY <3>2, NullNotId DEF Ids
    <3> HIDE DEF n, o
    <3> QED  BY <1>4, <1>12, <3>1, <3>3
  <2> HIDE DEF n, o
  <2>3. NodesDropped(Mem, q, {n})
    BY <1>2, DropMem
  <2> HIDE DEF q
  <2>4. /\ IsMem(q) /\ q.head = head /\ DOMAIN q.node = DOMAIN node \ {n}
        /\ \A k \in DOMAIN node \ {n} : q.node[k] = node[k]
    BY <1>2, <2>3 DEF NodesDropped
  <2>5. \A l \in Level : y.head[l] = x.head[l]
    BY <1>5, <1>6, <1>10, <2>1, <2>4
  <2>6. Sound(y, level, level + 1)
    <3>1. PICK r \in [Ids -> Nat] : /\ Numbered(DOMAIN x.node \ {n}, r)
                                    /\ Linked(x, DOMAIN x.node \ {n}, level, level + 1, r)
      BY <1>7 DEF SoundWithout
    <3>2. DOMAIN y.node = DOMAIN x.node \ {n} /\ \A k \in DOMAIN y.node : y.node[k] = x.node[k]
      BY <1>6, <1>10, <2>1, <2>4
    <3>3. \A l \in 0..(level + 1) : y.head[l] = x.head[l]
      BY <1>2, <2>5
    <3>4. Linked(y, DOMAIN x.node \ {n}, level, level + 1, r)
      BY <3>1, <3>2, <3>3, LinkedSame
    <3> QED  BY <3>1, <3>2, <3>4 DEF Sound
  <2>7. IsMem(y)
    <3>1. head' = [l \in Level |-> head'[l]] /\ y = [node |-> node', head |-> head']
      BY <1>5, <2>1, <2>4 DEF Mem
    <3> QED  BY <1>10, <2>1, <2>4, <3>1 DEF IsMem
  <2>8. Versioned(q, Live \ {o}, copies)
    BY <1>3, <1>4, <2>2, <2>3, DropVersions
  <2>9. Versioned(y, Live \ {o}, copies)
    BY <1>10, <2>1, <2>8, VersionedSame
  <2>10. Live' = Live \ {o} /\ storage' \in [Obj -> {"none", "heap", "cmm"}]
    BY <1>2, <1>4, <1>8, <2>1 DEF Live, Constructed
  <2>11. Control'
    BY <1>1, <2>10 DEF Inv, Control
  <2>12. (\E ks \in [Obj -> Nat] : Versioned(Mem, Live, ks))'
    BY <2>9, <2>10 DEF Versioned
  <2>13. Sound(Mem, level, Top)'
    BY <1>1, <1>9, <2>6 DEF Sound, Linked, Numbered
  <2>14. IsMem(Mem)'
    BY <2>7 DEF IsMem, IsEntry
  <2> QED  BY <2>11, <2>12, <2>13, <2>14 DEF Inv
<1> QED  BY <1>11, <1>12

\* Stuttering
LEMMA InvUnchanged ==
  ASSUME Inv, UNCHANGED vars
  PROVE  Inv'
<1>1. UNCHANGED <<level, storage, node, head, target, phase>>
  BY DEF vars
<1>2. Control' /\ Sound(Mem, level', Top')
  BY <1>1 DEF Inv, Control, Top
<1> QED  BY <1>1, <1>2, InvPopping

\* Every step keeps the invariant.
LEMMA InvNext ==
  ASSUME Inv, [Next]_vars
  PROVE  Inv'
<1>1. CASE Push
  BY <1>1, PushStep
<1>2. ASSUME NEW t \in Level, PopTo(t) PROVE Inv'
  BY <1>2, PopToStep
<1>3. CASE Restore
  BY <1>3, RestoreStep
<1>4. CASE ScopeDeleted
  BY <1>4, ScopeDeletedStep
<1>5. ASSUME NEW o \in Obj, Construct(o, "heap") \/ Construct(o, "cmm") PROVE Inv'
  BY <1>5, ConstructStep
<1>6. ASSUME NEW o \in Obj, Destroy(o) PROVE Inv'
  BY <1>6, DestroyStep
<1>7. ASSUME NEW o \in Obj, NEW v \in Val, Set(o, v) PROVE Inv'
  BY <1>7, SetStep
<1>8. ASSUME NEW o \in Obj, NEW v \in Val, ConstructWith(o, v) PROVE Inv'
  BY <1>8, ConstructWithStep
<1>9. CASE UNCHANGED vars
  BY <1>9, InvUnchanged
<1> QED  BY <1>1, <1>2, <1>3, <1>4, <1>5, <1>6, <1>7, <1>8, <1>9 DEF Next

\* The invariant, of all behaviours.
THEOREM InvHolds == Spec => []Inv
<1>1. Init => Inv
  BY InvInit
<1>2. Inv /\ [Next]_vars => Inv'
  BY InvNext
<1> QED  BY <1>1, <1>2, PTL DEF Spec
-----------------------------------------------------------------------------
(* The lists are sound. *)

\* The walks along the lists, in terms of scopes.
LEMMA InvWalks ==
  ASSUME Inv
  PROVE  /\ OpenScopes = 0..Top /\ Top \in Nat /\ level \in Nat /\ level <= Top
         /\ Top \in Level /\ DOMAIN node \subseteq Ids /\ IsFiniteSet(DOMAIN node)
         /\ Mem.node = node /\ Mem.head = head
         /\ \A l \in 0..Top : Null \in Walk(head[l]) /\ OnList(l) = Chained(l)
<1>1. /\ level \in Level /\ phase \in {"run", "restore"} /\ (phase = "restore" => level < MaxLevel)
      /\ MaxLevel \in Nat
  BY ContextObjAssumption DEF Inv, Control
<1>2. level \in Nat /\ Top \in Nat /\ level <= Top /\ Top \in Level
  BY <1>1 DEF Level, Top
<1>3. OpenScopes = 0..Top
  BY DEF OpenScopes, Top
<1>4. Mem.node = node /\ Mem.head = head
  BY DEF Mem
<1>5. DOMAIN node \subseteq Ids /\ IsFiniteSet(DOMAIN node)
  BY <1>4 DEF Inv, Versioned, IsMem
<1>6. PICK r \in [Ids -> Nat] : Numbered(DOMAIN node, r) /\ Linked(Mem, DOMAIN node, level, Top, r)
  BY <1>4 DEF Inv, Sound
<1>7. ASSUME NEW l \in 0..Top
      PROVE  Null \in Walk(head[l]) /\ OnList(l) = Chained(l)
  BY <1>2, <1>5, <1>6, WalkEnds DEF OnList
<1> QED  BY <1>2, <1>3, <1>4, <1>5, <1>7

\* NoDanglingPointer
LEMMA InvNoDangling ==
  ASSUME Inv
  PROVE  NoDanglingPointer
<1>1. /\ OpenScopes = 0..Top /\ Top \in Nat /\ level \in Nat /\ level <= Top
      /\ DOMAIN node \subseteq Ids /\ Mem.node = node /\ Mem.head = head
  BY InvWalks
<1>2. PICK r \in [Ids -> Nat] : Numbered(DOMAIN node, r) /\ Linked(Mem, DOMAIN node, level, Top, r)
  BY <1>1 DEF Inv, Sound
<1>3. PICK copies \in [Obj -> Nat] : Versioned(Mem, Live, copies)
  BY DEF Inv
<1>4. ASSUME NEW n \in DOMAIN node
      PROVE  /\ {node[n].next, node[n].restore} \subseteq DOMAIN node \cup {Null}
             /\ node[n].prev.kind = "next" /\ node[n].scope <= level =>
                  node[n].prev.of \in DOMAIN node
             /\ node[n].scope \in OpenScopes
  <2>1. node[n].scope \in 0..Top /\ node[n].next \in DOMAIN node \cup {Null}
    BY <1>1, <1>2 DEF Linked
  <2>2. ASSUME node[n].prev.kind = "next", node[n].scope <= level
        PROVE  node[n].prev.of \in DOMAIN node
    <3>1. Placed(Mem, DOMAIN node, Top, n)
      BY <1>1, <1>2, <2>2, LinkedPlace
    <3>2. \/ node[n].prev = HeadOf(node[n].scope)
          \/ \E p \in DOMAIN node : node[n].prev = NextOf(p)
      BY <1>1, <3>1 DEF Placed
    <3>3. node[n].prev # HeadOf(node[n].scope)
      <4>1. HeadOf(node[n].scope).kind = "head"
        BY DEF HeadOf
      <4> QED  BY <2>2, <4>1
    <3>4. PICK p \in DOMAIN node : node[n].prev = NextOf(p)
      BY <3>2, <3>3
    <3>5. NextOf(p).of = p
      BY DEF NextOf
    <3> QED  BY <3>4, <3>5
  <2>3. node[n].restore \in DOMAIN node \cup {Null}
    <3>1. /\ n[1] \in Live /\ n[2] \in 0..copies[n[1]] /\ n = <<n[1], n[2]>>
          /\ copies[n[1]] \in Nat
      BY <1>1, <1>3, VersionedNode
    <3>2. \A i \in Nat : <<n[1], i>> \in DOMAIN node <=> i <= copies[n[1]]
      BY <1>1, <1>3, <3>1, VersionedNodes
    <3> DEFINE o == n[1]
               i == n[2]
               K == copies[o]
    <3>3. /\ node[<<o, 0>>].restore = IF K = 0 THEN Null ELSE <<o, K>>
          /\ \A j \in 1..K : node[<<o, j>>].restore = IF j = 1 THEN Null ELSE <<o, j - 1>>
      BY <1>1, <1>3, <3>1 DEF Versioned
    <3>4. K \in Nat /\ i \in 0..K /\ n = <<o, i>>
          /\ \A j \in Nat : <<o, j>> \in DOMAIN node <=> j <= K
      BY <3>1, <3>2
    <3> HIDE DEF o, i, K
    <3>5. CASE i = 0
      BY <3>3, <3>4, <3>5
    <3>6. CASE i # 0
      <4>1. i \in 1..K /\ i - 1 \in Nat /\ i - 1 <= K
        BY <3>4, <3>6
      <4>2. <<o, i - 1>> \in DOMAIN node
        BY <3>4, <4>1
      <4> QED  BY <3>3, <3>4, <4>1, <4>2
    <3> QED  BY <3>5, <3>6
  <2> QED  BY <1>1, <2>1, <2>2, <2>3
<1>5. \A l \in OpenScopes : head[l] \in DOMAIN node \cup {Null}
  BY <1>1, <1>2 DEF Linked
<1> QED  BY <1>4, <1>5 DEF NoDanglingPointer

\* WellLinked
LEMMA InvWellLinked ==
  ASSUME Inv
  PROVE  WellLinked
<1>1. /\ OpenScopes = 0..Top /\ Top \in Nat /\ level \in Nat
      /\ Mem.node = node /\ Mem.head = head
      /\ \A l \in 0..Top : Null \in Walk(head[l]) /\ OnList(l) = Chained(l)
  BY InvWalks
<1>2. PICK r \in [Ids -> Nat] : Numbered(DOMAIN node, r) /\ Linked(Mem, DOMAIN node, level, Top, r)
  BY <1>1 DEF Inv, Sound
<1>3. ASSUME NEW l \in 0..Top
      PROVE  /\ Null \in Walk(head[l])
             /\ \A n \in OnList(l) :
                  /\ node[n].scope = l
                  /\ node[n].next # Null => node[node[n].next].prev = NextOf(n)
             /\ head[l] # Null /\ l <= level => node[head[l]].prev = HeadOf(l)
  <2>1. \A n \in OnList(l) : n \in DOMAIN node /\ node[n].scope = l
    BY <1>1 DEF Chained
  <2>2. \A n \in DOMAIN node : node[n].next # Null => node[node[n].next].prev = NextOf(n)
    BY <1>1, <1>2 DEF Linked
  <2>3. head[l] # Null /\ l <= level => node[head[l]].prev = HeadOf(l)
    BY <1>1, <1>2 DEF Linked
  <2> QED  BY <1>1, <2>1, <2>2, <2>3
<1> QED  BY <1>1, <1>3 DEF WellLinked

\* NothingLost
LEMMA InvNothingLost ==
  ASSUME Inv
  PROVE  NothingLost
<1>1. /\ Mem.node = node
      /\ \A l \in 0..Top : OnList(l) = Chained(l)
  BY InvWalks
<1>2. \A n \in DOMAIN node : node[n].scope \in 0..Top
  BY <1>1 DEF Inv, Sound, Linked
<1> QED  BY <1>1, <1>2 DEF NothingLost, Chained

\* The lists are sound whatever the objects and the number of levels: push, pop, set,
\* the constructors and ~CDO leave no pointer to a node that is gone, every list ends
\* and is linked both ways, and every node is on the list of its scope.
THEOREM ListsCorrect == Spec => []ListsSound
<1>1. Inv => ListsSound
  BY InvNoDangling, InvWellLinked, InvNothingLost DEF ListsSound
<1> QED  BY <1>1, InvHolds, PTL
-----------------------------------------------------------------------------
(* The state of Context that the lists and the copies stand for, by object. *)

\* The node that is version i of o, if there are copies[o] copies.
VersionNode(copies, o, i) == IF i = copies[o] + 1 THEN <<o, 0>> ELSE <<o, i>>

Versions(live, copies) ==
  {v \in Obj \X (Nat \ {0}) : v[1] \in live /\ v[2] <= copies[v[1]] + 1}

\* The versions on the list of the scope l.
ListOf(m, live, copies, l) ==
  {v \in Versions(live, copies) : m.node[VersionNode(copies, v[1], v[2])].scope = l}

DataIn(m, live) == [o \in Obj |-> IF o \in live THEN m.node[<<o, 0>>].data ELSE Default]

ScopeIn(m, live) == [o \in Obj |-> IF o \in live THEN m.node[<<o, 0>>].scope ELSE 0]

SavedIn(m, copies) ==
  [o \in Obj |-> [i \in 1..copies[o] |-> [data  |-> m.node[<<o, i>>].data,
                                          scope |-> m.node[<<o, i>>].scope]]]

\* copies[o] counts the copies of o, also if there is no o.
Counted(m, live, copies) ==
  /\ copies \in [Obj -> Nat] /\ Versioned(m, live, copies)
  /\ \A o \in Obj \ live : copies[o] = 0

\* The state of Context.
AbsState ==
  /\ Counted(Mem, Live, Saves)
  /\ absData = DataIn(Mem, Live)
  /\ absScope = ScopeIn(Mem, Live)
  /\ absSaved = SavedIn(Mem, Saves)
  /\ absChain = [l \in Level |-> IF l <= level THEN ListOf(Mem, Live, Saves, l) ELSE {}]
  /\ absDying = IF phase = "restore" THEN ListOf(Mem, Live, Saves, level + 1) ELSE {}

\* The number of copies is what Saves counts.
LEMMA SavesCounted ==
  ASSUME NEW copies \in [Obj -> Nat], Versioned(Mem, Live, copies)
  PROVE  Counted(Mem, Live, Saves) /\ \A o \in Live : Saves[o] = copies[o]
<1>1. Mem.node = node /\ Live \subseteq Obj
  BY DEF Mem, Live
<1>2. ASSUME NEW o \in Live
      PROVE  Saves[o] = copies[o]
  <2>1. Cardinality({n \in DOMAIN Mem.node : n[1] = o /\ n[2] > 0}) = copies[o]
    BY CopiesCount
  <2> QED  BY <1>1, <2>1 DEF Saves
<1>3. ASSUME NEW o \in Obj \ Live
      PROVE  Saves[o] = 0
  <2>1. \A n \in DOMAIN node : n[1] \in Live
    BY <1>1, VersionedNode
  <2>2. {n \in DOMAIN node : n[1] = o /\ n[2] > 0} = {}
    BY <2>1
  <2>3. Cardinality({}) = 0
    BY FS_EmptySet
  <2> QED  BY <2>2, <2>3 DEF Saves
<1>4. Saves \in [Obj -> Nat]
  <2>1. Saves = [o \in Obj |-> Saves[o]]
    BY DEF Saves
  <2>2. \A o \in Obj : Saves[o] \in Nat
    BY <1>1, <1>2, <1>3
  <2> QED  BY <2>1, <2>2
<1>5. Versioned(Mem, Live, Saves)
  <2>1. \A n \in Ids : n[1] \in Live => Saves[n[1]] = copies[n[1]]
    BY <1>2
  <2> HIDE DEF Saves
  <2>2. DOMAIN Mem.node = {n \in Ids : n[1] \in Live /\ n[2] <= Saves[n[1]]}
    BY <2>1 DEF Versioned
  <2> QED  BY <1>2, <1>4, <2>2 DEF Versioned
<1> QED  BY <1>2, <1>3, <1>4, <1>5 DEF Counted

\* The chain of d_pContextObjRestore, oldest copy first, has the copies in their order.
LEMMA ChainOfCopies ==
  ASSUME NEW copies \in [Obj -> Nat], Versioned(Mem, Live, copies), NEW o \in Live
  PROVE  CopyChain(o, copies[o]) = [i \in 1..copies[o] |-> <<o, i>>]
<1> DEFINE K == copies[o]
           c[k \in 0..K] == IF k = 0 THEN <<o, 0>> ELSE node[c[k - 1]].restore
           g == [k \in 0..K |-> IF k = 0 THEN <<o, 0>> ELSE <<o, K + 1 - k>>]
<1>1. K \in Nat /\ Mem.node = node
  BY VersionedNodes DEF Mem
<1>2. /\ node[<<o, 0>>].restore = IF K = 0 THEN Null ELSE <<o, K>>
      /\ \A i \in 1..K : node[<<o, i>>].restore = IF i = 1 THEN Null ELSE <<o, i - 1>>
  BY <1>1 DEF Versioned
<1>3. CopyChain(o, K) = [i \in 1..K |-> c[K + 1 - i]]
  BY DEF CopyChain
<1> HIDE DEF K
<1>4. ASSUME NEW k \in 1..K
      PROVE  node[g[k - 1]].restore = <<o, K + 1 - k>>
  <2>1. CASE k = 1
    BY <1>1, <1>2, <2>1
  <2>2. CASE k # 1
    <3> DEFINE i == K + 1 - (k - 1)
    <3>1. k - 1 \in 0..K /\ k - 1 # 0 /\ i \in 1..K /\ i # 1 /\ i - 1 = K + 1 - k
      BY <1>1, <2>2
    <3>2. g[k - 1] = <<o, i>>
      BY <3>1
    <3> HIDE DEF i, g
    <3> QED  BY <1>2, <3>1, <3>2
  <2> QED  BY <2>1, <2>2
<1>5. g = [k \in 0..K |-> IF k = 0 THEN <<o, 0>> ELSE node[g[k - 1]].restore]
  <2>1. ASSUME NEW k \in 0..K
        PROVE  g[k] = IF k = 0 THEN <<o, 0>> ELSE node[g[k - 1]].restore
    <3>1. k # 0 => k \in 1..K
      BY <1>1
    <3>2. g[k] = IF k = 0 THEN <<o, 0>> ELSE <<o, K + 1 - k>>
      OBVIOUS
    <3> HIDE DEF g
    <3> QED  BY <1>4, <3>1, <3>2
  <2>2. g = [k \in 0..K |-> g[k]]
    OBVIOUS
  <2> HIDE DEF g
  <2> QED  BY <2>1, <2>2
<1>6. c = [k \in 0..K |-> IF k = 0 THEN <<o, 0>> ELSE node[c[k - 1]].restore]
  BY <1>5
<1> HIDE DEF c
<1>7. ASSUME NEW k \in 0..K
      PROVE  c[k] = g[k]
  <2> DEFINE Fails == {j \in 0..K : c[j] # g[j]}
  <2>1. Fails = {}
    <3> SUFFICES ASSUME Fails # {} PROVE FALSE
      OBVIOUS
    <3>1. Fails \subseteq Nat
      OBVIOUS
    <3>2. PICK j \in Fails : \A i \in Fails : j <= i
      BY <3>1, NatMin
    <3>3. j \in 0..K /\ c[j] # g[j]
      BY <3>2
    <3>4. CASE j = 0
      <4> HIDE DEF g
      <4>1. c[j] = <<o, 0>> /\ g[j] = <<o, 0>>
        BY <1>5, <1>6, <3>3, <3>4
      <4> QED  BY <3>3, <4>1
    <3>5. CASE j # 0
      <4>a. j - 1 \in 0..K /\ ~(j <= j - 1)
        BY <1>1, <3>3, <3>5
      <4>1. j - 1 \in 0..K /\ j - 1 \notin Fails
        <5> HIDE DEF Fails
        <5> QED  BY <3>2, <4>a
      <4>2. c[j - 1] = g[j - 1]
        BY <4>1
      <4> HIDE DEF g
      <4>3. c[j] = node[c[j - 1]].restore /\ g[j] = node[g[j - 1]].restore
        BY <1>5, <1>6, <3>3, <3>5
      <4> QED  BY <3>3, <4>2, <4>3
    <3> QED  BY <3>4, <3>5
  <2> QED  BY <2>1
<1>8. ASSUME NEW i \in 1..K
      PROVE  c[K + 1 - i] = <<o, i>>
  <2>1. K + 1 - i \in 0..K /\ K + 1 - i # 0 /\ K + 1 - (K + 1 - i) = i
    BY <1>1
  <2>2. g[K + 1 - i] = <<o, i>>
    BY <2>1
  <2> HIDE DEF g
  <2> QED  BY <1>7, <2>1, <2>2
<1>9. [i \in 1..K |-> c[K + 1 - i]] = [i \in 1..K |-> <<o, i>>]
  BY <1>8
<1> QED  BY <1>3, <1>9 DEF K

\* Nodes and versions are one to one.
LEMMA VersionNodes ==
  ASSUME NEW m, NEW live, NEW copies, Versioned(m, live, copies)
  PROVE  /\ \A v \in Versions(live, copies) :
              LET n == VersionNode(copies, v[1], v[2]) IN
              /\ n \in DOMAIN m.node /\ VersionOf(n, copies) = v
              /\ v = <<v[1], v[2]>> /\ v[1] \in Obj /\ v[1] \in live
              /\ copies[v[1]] \in Nat /\ v[2] \in Nat \ {0} /\ v[2] <= copies[v[1]] + 1
         /\ \A n \in DOMAIN m.node :
              /\ VersionOf(n, copies) \in Versions(live, copies)
              /\ VersionNode(copies, VersionOf(n, copies)[1], VersionOf(n, copies)[2]) = n
<1>1. ASSUME NEW v \in Versions(live, copies)
      PROVE  /\ VersionNode(copies, v[1], v[2]) \in DOMAIN m.node
             /\ VersionOf(VersionNode(copies, v[1], v[2]), copies) = v
             /\ v = <<v[1], v[2]>> /\ v[1] \in Obj /\ v[1] \in live
             /\ copies[v[1]] \in Nat /\ v[2] \in Nat \ {0} /\ v[2] <= copies[v[1]] + 1
  <2> DEFINE o == v[1]
             i == v[2]
             n == VersionNode(copies, o, i)
  <2>1. v = <<o, i>> /\ o \in Obj /\ i \in Nat /\ i # 0 /\ o \in live /\ i <= copies[o] + 1
    BY DEF Versions
  <2>2. copies[o] \in Nat /\ \A j \in Nat : <<o, j>> \in DOMAIN m.node <=> j <= copies[o]
    BY <2>1, VersionedNodes
  <2> HIDE DEF o, i
  <2>3. CASE i = copies[o] + 1
    <3>1. n = <<o, 0>>
      BY <2>3 DEF VersionNode
    <3>2. n \in DOMAIN m.node
      BY <2>2, <3>1
    <3>3. VersionOf(n, copies) = <<o, copies[o] + 1>>
      BY <3>1 DEF VersionOf
    <3> QED  BY <2>1, <2>2, <2>3, <3>2, <3>3 DEF o, i
  <2>4. CASE i # copies[o] + 1
    <3>1. n = <<o, i>>
      BY <2>4 DEF VersionNode
    <3>2. n \in DOMAIN m.node
      BY <2>1, <2>2, <2>4, <3>1
    <3>3. VersionOf(n, copies) = <<o, i>>
      BY <2>1, <3>1 DEF VersionOf
    <3> QED  BY <2>1, <2>2, <2>4, <3>2, <3>3 DEF o, i
  <2> QED  BY <2>3, <2>4
<1>2. ASSUME NEW n \in DOMAIN m.node
      PROVE  /\ VersionOf(n, copies) \in Versions(live, copies)
             /\ VersionNode(copies, VersionOf(n, copies)[1], VersionOf(n, copies)[2]) = n
  <2> DEFINE o == n[1]
             i == n[2]
  <2>1. n = <<o, i>> /\ o \in Obj /\ o \in live /\ i \in 0..copies[o] /\ copies[o] \in Nat
    BY VersionedNode
  <2> DEFINE j == IF i = 0 THEN copies[o] + 1 ELSE i
  <2>2. VersionOf(n, copies) = <<o, j>>
    BY DEF VersionOf
  <2> HIDE DEF o, i
  <2>3. j \in Nat \ {0} /\ j <= copies[o] + 1
    BY <2>1
  <2>4. VersionNode(copies, o, j) = n
    BY <2>1 DEF VersionNode
  <2> HIDE DEF j
  <2>5. <<o, j>> \in Versions(live, copies)
    BY <2>1, <2>3 DEF Versions
  <2> QED  BY <2>2, <2>4, <2>5
<1> QED  BY <1>1, <1>2

\* What is on a list, as versions.
LEMMA ListVersions ==
  ASSUME NEW copies, Versioned(Mem, Live, copies), NEW l
  PROVE  {VersionOf(n, copies) : n \in Chained(l)} = ListOf(Mem, Live, copies, l)
<1>1. Mem.node = node
  BY DEF Mem
<1>2. ASSUME NEW n \in Chained(l)
      PROVE  VersionOf(n, copies) \in ListOf(Mem, Live, copies, l)
  <2>1. n \in DOMAIN Mem.node /\ Mem.node[n].scope = l
    BY <1>1 DEF Chained
  <2> QED  BY <2>1, VersionNodes DEF ListOf
<1>3. ASSUME NEW v \in ListOf(Mem, Live, copies, l)
      PROVE  \E n \in Chained(l) : v = VersionOf(n, copies)
  <2> DEFINE n == VersionNode(copies, v[1], v[2])
  <2>1. v \in Versions(Live, copies) /\ Mem.node[n].scope = l
    BY DEF ListOf
  <2>2. n \in DOMAIN Mem.node /\ VersionOf(n, copies) = v
    BY <2>1, VersionNodes
  <2>3. n \in Chained(l)
    BY <1>1, <2>1, <2>2 DEF Chained
  <2> QED  BY <2>2, <2>3
<1> QED  BY <1>2, <1>3

\* The state of Context, by object.
LEMMA InvAbs == Inv => AbsState
<1> SUFFICES ASSUME Inv PROVE AbsState
  OBVIOUS
<1>1. PICK copies \in [Obj -> Nat] : Versioned(Mem, Live, copies)
  BY DEF Inv
<1>2. Counted(Mem, Live, Saves)
  BY <1>1, SavesCounted
<1>3. /\ Saves \in [Obj -> Nat] /\ Versioned(Mem, Live, Saves)
      /\ \A o \in Obj \ Live : Saves[o] = 0
  BY <1>2 DEF Counted
<1>4. Mem.node = node /\ \A o \in Obj : Constructed(o) <=> o \in Live
  BY DEF Mem, Live
<1> HIDE DEF Saves
<1>5. absData = DataIn(Mem, Live)
  BY <1>4 DEF absData, DataIn
<1>6. absScope = ScopeIn(Mem, Live)
  BY <1>4 DEF absScope, ScopeIn
<1>7. absSaved = SavedIn(Mem, Saves)
  <2>1. ASSUME NEW o \in Obj
        PROVE  CopyChain(o, Saves[o]) = [i \in 1..Saves[o] |-> <<o, i>>]
    <3>1. CASE o \in Live
      BY <1>3, <3>1, ChainOfCopies
    <3>2. CASE o \notin Live
      <4>1. Saves[o] = 0
        BY <1>3, <3>2
      <4>2. 1..0 = {}
        OBVIOUS
      <4>3. DOMAIN CopyChain(o, 0) = {} /\ CopyChain(o, 0) = [i \in {} |-> CopyChain(o, 0)[i]]
        BY <4>2 DEF CopyChain
      <4>4. CopyChain(o, 0) = [i \in {} |-> <<o, i>>]
        BY <4>3
      <4> QED  BY <4>1, <4>2, <4>4
    <3> QED  BY <3>1, <3>2
  <2> DEFINE row(o) == LET c == CopyChain(o, Saves[o]) IN
                       [i \in DOMAIN c |-> [data |-> node[c[i]].data, scope |-> node[c[i]].scope]]
  <2>2. absSaved = [o \in Obj |-> row(o)]
    BY DEF absSaved
  <2>3. ASSUME NEW o \in Obj
        PROVE  row(o) = [i \in 1..Saves[o] |-> [data  |-> Mem.node[<<o, i>>].data,
                                                scope |-> Mem.node[<<o, i>>].scope]]
    BY <1>4, <2>1
  <2> HIDE DEF row
  <2> QED  BY <2>2, <2>3 DEF SavedIn
<1>8. \A l \in 0..Top : OnList(l) = Chained(l)
  BY InvWalks
<1>9. /\ Top \in Nat /\ level \in Nat /\ level <= Top
      /\ phase = "restore" => level + 1 = Top
  BY InvWalks DEF Top
<1>10. absChain = [l \in Level |-> IF l <= level THEN ListOf(Mem, Live, Saves, l) ELSE {}]
  <2>1. ASSUME NEW l \in Level, l <= level
        PROVE  {VersionOf(n, Saves) : n \in OnList(l)} = ListOf(Mem, Live, Saves, l)
    <3>1. l \in 0..Top
      BY <1>9, <2>1, ContextObjAssumption DEF Level
    <3> QED  BY <1>3, <1>8, <3>1, ListVersions
  <2> QED  BY <2>1 DEF absChain
<1>11. absDying = IF phase = "restore" THEN ListOf(Mem, Live, Saves, level + 1) ELSE {}
  <2>1. ASSUME phase = "restore"
        PROVE  {VersionOf(n, Saves) : n \in OnList(level + 1)} = ListOf(Mem, Live, Saves, level + 1)
    <3>1. level + 1 \in 0..Top
      BY <1>9, <2>1
    <3> QED  BY <1>3, <1>8, <3>1, ListVersions
  <2> QED  BY <2>1 DEF absDying
<1> QED  BY <1>2, <1>5, <1>6, <1>7, <1>10, <1>11 DEF AbsState

\* The same after a step.
LEMMA InvAbsNext == Inv' => AbsState'
  BY InvAbs, PTL

\* If the copies after a step are known, the state of Context is.
LEMMA AbsNext ==
  ASSUME Inv', NEW m, Mem' = m, NEW live, Live' = live,
         NEW copies, Counted(m, live, copies)
  PROVE  /\ absData' = DataIn(m, live)
         /\ absScope' = ScopeIn(m, live)
         /\ absSaved' = SavedIn(m, copies)
         /\ absChain' = [l \in Level |-> IF l <= level' THEN ListOf(m, live, copies, l) ELSE {}]
         /\ absDying' = IF phase' = "restore" THEN ListOf(m, live, copies, level' + 1) ELSE {}
<1>1. AbsState'
  BY InvAbsNext
<1> DEFINE K == Saves'
<1>2. K \in [Obj -> Nat] /\ Versioned(m, live, K) /\ \A o \in Obj \ live : K[o] = 0
  <2>1. Counted(Mem, Live, Saves)'
    BY <1>1 DEF AbsState
  <2>2. Counted(m, live, K)
    BY <2>1 DEF Counted, Versioned
  <2> QED  BY <2>2 DEF Counted
<1>3. /\ absData' = DataIn(m, live) /\ absScope' = ScopeIn(m, live)
      /\ absSaved' = SavedIn(m, K)
      /\ absChain' = [l \in Level |-> IF l <= level' THEN ListOf(m, live, K, l) ELSE {}]
      /\ absDying' = IF phase' = "restore" THEN ListOf(m, live, K, level' + 1) ELSE {}
  BY <1>1 DEF AbsState, DataIn, ScopeIn, SavedIn, ListOf, Versions, VersionNode
<1> HIDE DEF K
<1>4. copies \in [Obj -> Nat] /\ Versioned(m, live, copies) /\ \A o \in Obj \ live : copies[o] = 0
  BY DEF Counted
<1>5. K = copies
  <2>1. ASSUME NEW o \in Obj
        PROVE  K[o] = copies[o]
    <3>1. CASE o \in live
      <4>1. Cardinality({n \in DOMAIN m.node : n[1] = o /\ n[2] > 0}) = copies[o]
        BY <1>4, <3>1, CopiesCount
      <4>2. Cardinality({n \in DOMAIN m.node : n[1] = o /\ n[2] > 0}) = K[o]
        BY <1>2, <3>1, CopiesCount
      <4> QED  BY <4>1, <4>2
    <3>2. CASE o \notin live
      BY <1>2, <1>4, <3>2
    <3> QED  BY <3>1, <3>2
  <2> QED  BY <1>2, <1>4, <2>1
<1> QED  BY <1>3, <1>5
-----------------------------------------------------------------------------
(* What the operations on memories do to this state. *)

\* Counting goes on after an operation on o.
LEMMA CountedNext ==
  ASSUME NEW m, NEW live, NEW copies, Counted(m, live, copies), NEW q, NEW others,
         NEW o \in Obj, NEW k \in Nat, Versioned(q, others, [copies EXCEPT ![o] = k]),
         live \subseteq others \cup {o}, o \notin others => k = 0
  PROVE  Counted(q, others, [copies EXCEPT ![o] = k])
  BY DEF Counted

\* The versions that are there, seen from memory.
LEMMA CountedNodes ==
  ASSUME NEW m, NEW live, NEW copies, Counted(m, live, copies), NEW o \in live
  PROVE  /\ o \in Obj /\ copies[o] \in Nat /\ <<o, 0>> \in DOMAIN m.node
         /\ \A i \in 1..copies[o] : <<o, i>> \in DOMAIN m.node
<1>1. Versioned(m, live, copies)
  BY DEF Counted
<1>2. /\ o \in Obj /\ copies[o] \in Nat /\ <<o, 0>> \in DOMAIN m.node
      /\ \A i \in Nat : <<o, i>> \in DOMAIN m.node <=> i <= copies[o]
  BY <1>1, VersionedNodes
<1>3. \A i \in 1..copies[o] : i \in Nat /\ i <= copies[o]
  BY <1>2
<1> QED  BY <1>2, <1>3

\* The entries of o change to d, s and c; those of the other objects do not.
Changed(m, live, copies, q, others, counts, o, d, s, c) ==
  /\ DataIn(q, others) = [DataIn(m, live) EXCEPT ![o] = d]
  /\ ScopeIn(q, others) = [ScopeIn(m, live) EXCEPT ![o] = s]
  /\ SavedIn(q, counts) = [SavedIn(m, copies) EXCEPT ![o] = c]

\* An operation on o leaves the data, the scopes and the copies of the others.
LEMMA OthersSame ==
  ASSUME NEW m, NEW live, NEW copies, Counted(m, live, copies),
         NEW q, NEW others, NEW counts, Counted(q, others, counts),
         NEW o \in Obj, \A p \in Obj \ {o} : (p \in others <=> p \in live) /\ counts[p] = copies[p],
         \A k \in DOMAIN m.node : k[1] # o => /\ q.node[k].data = m.node[k].data
                                             /\ q.node[k].scope = m.node[k].scope
  PROVE  /\ Changed(m, live, copies, q, others, counts, o,
                    DataIn(q, others)[o], ScopeIn(q, others)[o], SavedIn(q, counts)[o])
         /\ \A l : \A v \in Obj \X (Nat \ {0}) : v[1] # o =>
              (v \in ListOf(q, others, counts, l) <=> v \in ListOf(m, live, copies, l))
<1>1. ASSUME NEW p \in Obj, p # o
      PROVE  /\ DataIn(q, others)[p] = DataIn(m, live)[p]
             /\ ScopeIn(q, others)[p] = ScopeIn(m, live)[p]
             /\ SavedIn(q, counts)[p] = SavedIn(m, copies)[p]
  <2>1. p \in others <=> p \in live
    BY <1>1
  <2>2. counts[p] = copies[p]
    BY <1>1
  <2>3. CASE p \in live
    <3>1. /\ <<p, 0>> \in DOMAIN m.node /\ copies[p] \in Nat
          /\ \A i \in 1..copies[p] : <<p, i>> \in DOMAIN m.node
      BY <2>3, CountedNodes
    <3>2. \A i : <<p, i>>[1] = p
      OBVIOUS
    <3>3. /\ q.node[<<p, 0>>].data = m.node[<<p, 0>>].data
          /\ q.node[<<p, 0>>].scope = m.node[<<p, 0>>].scope
      BY <1>1, <3>1, <3>2
    <3>4. \A i \in 1..copies[p] : /\ q.node[<<p, i>>].data = m.node[<<p, i>>].data
                                  /\ q.node[<<p, i>>].scope = m.node[<<p, i>>].scope
      BY <1>1, <3>1, <3>2
    <3>5. SavedIn(q, counts)[p] = SavedIn(m, copies)[p]
      BY <2>2, <3>4 DEF SavedIn
    <3> QED  BY <2>1, <2>3, <3>3, <3>5 DEF DataIn, ScopeIn
  <2>4. CASE p \notin live
    <3>1. copies[p] = 0
      BY <2>4 DEF Counted
    <3>2. 1..0 = {}
      OBVIOUS
    <3>3. SavedIn(q, counts)[p] = SavedIn(m, copies)[p]
      BY <2>2, <3>1, <3>2 DEF SavedIn
    <3> QED  BY <2>1, <2>4, <3>3 DEF DataIn, ScopeIn
  <2> QED  BY <2>3, <2>4
<1>2. /\ DataIn(q, others) = [p \in Obj |-> DataIn(q, others)[p]]
      /\ ScopeIn(q, others) = [p \in Obj |-> ScopeIn(q, others)[p]]
      /\ SavedIn(q, counts) = [p \in Obj |-> SavedIn(q, counts)[p]]
  BY DEF DataIn, ScopeIn, SavedIn
<1>3. DOMAIN DataIn(m, live) = Obj /\ DOMAIN ScopeIn(m, live) = Obj /\ DOMAIN SavedIn(m, copies) = Obj
  BY DEF DataIn, ScopeIn, SavedIn
<1>4. Changed(m, live, copies, q, others, counts, o,
              DataIn(q, others)[o], ScopeIn(q, others)[o], SavedIn(q, counts)[o])
  BY <1>1, <1>2, <1>3 DEF Changed
<1>5. ASSUME NEW l, NEW v \in Obj \X (Nat \ {0}), v[1] # o
      PROVE  v \in ListOf(q, others, counts, l) <=> v \in ListOf(m, live, copies, l)
  <2> DEFINE n == VersionNode(copies, v[1], v[2])
  <2>1. counts[v[1]] = copies[v[1]] /\ (v[1] \in others <=> v[1] \in live)
    BY <1>5
  <2>2. VersionNode(counts, v[1], v[2]) = n
    BY <2>1 DEF VersionNode
  <2>3. v \in Versions(others, counts) <=> v \in Versions(live, copies)
    BY <1>5, <2>1 DEF Versions
  <2>4. v \in Versions(live, copies) => q.node[n].scope = m.node[n].scope
    <3>1. ASSUME v \in Versions(live, copies) PROVE n \in DOMAIN m.node /\ n[1] = v[1]
      <4>1. n \in DOMAIN m.node
        BY <3>1, VersionNodes DEF Counted
      <4> QED  BY <4>1 DEF VersionNode
    <3> QED  BY <1>5, <3>1
  <2> QED  BY <2>2, <2>3, <2>4 DEF ListOf
<1> QED  BY <1>4, <1>5

\* Version i of o belongs to the scope l.
OfScope(m, copies, o, i, l) ==
  \/ i = copies[o] + 1 /\ m.node[<<o, 0>>].scope = l
  \/ i <= copies[o] /\ m.node[<<o, i>>].scope = l

\* The versions of o on a list.
LEMMA OwnVersions ==
  ASSUME NEW m, NEW live, NEW copies, NEW o \in live, o \in Obj, NEW l,
         NEW i \in Nat \ {0}, copies[o] \in Nat
  PROVE  <<o, i>> \in ListOf(m, live, copies, l) <=> OfScope(m, copies, o, i, l)
<1>1. <<o, i>> \in Obj \X (Nat \ {0}) /\ <<o, i>>[1] = o /\ <<o, i>>[2] = i
  OBVIOUS
<1>2. <<o, i>> \in Versions(live, copies) <=> i <= copies[o] + 1
  BY <1>1 DEF Versions
<1>3. <<o, i>> \in ListOf(m, live, copies, l)
        <=> i <= copies[o] + 1 /\ m.node[VersionNode(copies, o, i)].scope = l
  BY <1>1, <1>2 DEF ListOf
<1>4. VersionNode(copies, o, i) = IF i = copies[o] + 1 THEN <<o, 0>> ELSE <<o, i>>
  BY DEF VersionNode
<1> QED  BY <1>3, <1>4 DEF OfScope

\* Lists have versions on them.
LEMMA ListTyped ==
  ASSUME NEW m, NEW live, NEW copies, NEW l
  PROVE  ListOf(m, live, copies, l) \subseteq Obj \X (Nat \ {0})
  BY DEF ListOf, Versions

\* The versions of o after update(): one more, on the list of the top scope.
UpdatedAbs(m, live, copies, q, counts, o) ==
  /\ Counted(q, live, counts)
  /\ Changed(m, live, copies, q, live, counts, o, DataIn(m, live)[o], level,
             Append(SavedIn(m, copies)[o],
                    [data |-> DataIn(m, live)[o], scope |-> ScopeIn(m, live)[o]]))
  /\ \A l : ListOf(q, live, counts, l) =
              IF l = level THEN ListOf(m, live, copies, l) \cup {<<o, copies[o] + 2>>}
                           ELSE ListOf(m, live, copies, l)

\* ContextObj::update
LEMMA UpdateAbs ==
  ASSUME NEW m, NEW live, NEW copies, Counted(m, live, copies), level \in Nat,
         NEW o \in live, m.node[<<o, 0>>].scope \in Nat, m.node[<<o, 0>>].scope < level,
         NEW q, Updated(m, q, <<o, 0>>, <<o, copies[o] + 1>>)
  PROVE  UpdatedAbs(m, live, copies, q, [copies EXCEPT ![o] = copies[o] + 1], o)
<1> DEFINE K == copies[o]
           counts == [copies EXCEPT ![o] = K + 1]
           c == <<o, K + 1>>
<1>1. /\ o \in Obj /\ K \in Nat /\ <<o, 0>> \in DOMAIN m.node
      /\ \A i \in 1..K : <<o, i>> \in DOMAIN m.node
  BY CountedNodes
<1>2. Versioned(q, live, counts)
  BY UpdateVersions DEF Counted
<1>3. counts[o] = K + 1 /\ \A p \in Obj \ {o} : counts[p] = copies[p]
  BY <1>1 DEF Counted
<1>4. Counted(q, live, counts)
  <2>1. K + 1 \in Nat /\ live \subseteq live \cup {o} /\ o \in live
    BY <1>1
  <2> HIDE DEF K
  <2> QED  BY <1>1, <1>2, <2>1, CountedNext
<1> HIDE DEF counts, K
<1>5. /\ q.node[<<o, 0>>].data = m.node[<<o, 0>>].data /\ q.node[<<o, 0>>].scope = level
      /\ q.node[c].data = m.node[<<o, 0>>].data /\ q.node[c].scope = m.node[<<o, 0>>].scope
      /\ \A k \in DOMAIN m.node : k # <<o, 0>> => /\ q.node[k].data = m.node[k].data
                                                  /\ q.node[k].scope = m.node[k].scope
  BY DEF Updated, K
<1>6. \A i \in 1..K : <<o, i>> # <<o, 0>> /\ q.node[<<o, i>>].data = m.node[<<o, i>>].data
                      /\ q.node[<<o, i>>].scope = m.node[<<o, i>>].scope
  BY <1>1, <1>5
<1>7. /\ Changed(m, live, copies, q, live, counts, o,
                 DataIn(q, live)[o], ScopeIn(q, live)[o], SavedIn(q, counts)[o])
      /\ \A l : \A v \in Obj \X (Nat \ {0}) : v[1] # o =>
           (v \in ListOf(q, live, counts, l) <=> v \in ListOf(m, live, copies, l))
  <2>1. \A k \in DOMAIN m.node : k[1] # o => /\ q.node[k].data = m.node[k].data
                                             /\ q.node[k].scope = m.node[k].scope
    <3>1. <<o, 0>>[1] = o
      OBVIOUS
    <3> QED  BY <1>5, <3>1
  <2> QED  BY <1>1, <1>3, <1>4, <2>1, OthersSame
<1>8. DataIn(q, live)[o] = DataIn(m, live)[o] /\ ScopeIn(q, live)[o] = level
  BY <1>1, <1>5 DEF DataIn, ScopeIn
<1>9. SavedIn(q, counts)[o] = Append(SavedIn(m, copies)[o],
                                [data |-> DataIn(m, live)[o], scope |-> ScopeIn(m, live)[o]])
  <2> DEFINE e == [data |-> DataIn(m, live)[o], scope |-> ScopeIn(m, live)[o]]
             s == SavedIn(m, copies)[o]
             f(x, i) == [data |-> x.node[<<o, i>>].data, scope |-> x.node[<<o, i>>].scope]
  <2>1. SavedIn(q, counts)[o] = [i \in 1..(K + 1) |-> f(q, i)] /\ s = [i \in 1..K |-> f(m, i)]
    BY <1>1, <1>3 DEF SavedIn, K
  <2>2. f(q, K + 1) = e
    BY <1>1, <1>5 DEF DataIn, ScopeIn
  <2>3. \A i \in 1..K : f(q, i) = f(m, i)
    BY <1>6
  <2> HIDE DEF f, e, s
  <2>4. Append(s, e) = [i \in 1..(K + 1) |-> IF i = K + 1 THEN e ELSE s[i]]
    <3>1. s = [i \in 1..K |-> s[i]]
      BY <2>1
    <3>2. Len(s) = K
      BY <1>1, <3>1
    <3> QED  BY <1>1, <3>1, <3>2
  <2>5. \A i \in 1..(K + 1) : f(q, i) = IF i = K + 1 THEN e ELSE s[i]
    <3>1. \A i \in 1..(K + 1) : i # K + 1 => i \in 1..K
      BY <1>1
    <3> QED  BY <2>1, <2>2, <2>3, <3>1
  <2>6. SavedIn(q, counts)[o] = Append(s, e)
    BY <2>1, <2>4, <2>5
  <2> QED  BY <2>6 DEF s, e
<1>10. ASSUME NEW l
       PROVE  ListOf(q, live, counts, l) =
                IF l = level THEN ListOf(m, live, copies, l) \cup {<<o, K + 2>>}
                             ELSE ListOf(m, live, copies, l)
  <2>1. ASSUME NEW i \in Nat \ {0}
        PROVE  <<o, i>> \in ListOf(q, live, counts, l) <=>
                 \/ <<o, i>> \in ListOf(m, live, copies, l)
                 \/ l = level /\ i = K + 2
    <3>1. <<o, i>> \in ListOf(q, live, counts, l) <=>
            \/ i = (K + 1) + 1 /\ level = l
            \/ i <= K + 1 /\ q.node[<<o, i>>].scope = l
      <4>1. counts[o] \in Nat
        BY <1>1, <1>3
      <4>2. <<o, i>> \in ListOf(q, live, counts, l) <=> OfScope(q, counts, o, i, l)
        BY <1>1, <4>1, OwnVersions
      <4>3. q.node[<<o, 0>>].scope = level /\ counts[o] = K + 1
        BY <1>3, <1>5
      <4> QED  BY <4>2, <4>3 DEF OfScope
    <3>2. <<o, i>> \in ListOf(m, live, copies, l) <=>
            \/ i = K + 1 /\ m.node[<<o, 0>>].scope = l
            \/ i <= K /\ m.node[<<o, i>>].scope = l
      <4>1. copies[o] \in Nat
        BY <1>1 DEF K
      <4>2. <<o, i>> \in ListOf(m, live, copies, l) <=> OfScope(m, copies, o, i, l)
        BY <1>1, <4>1, OwnVersions
      <4> QED  BY <4>2 DEF OfScope, K
    <3>3. i <= K => q.node[<<o, i>>].scope = m.node[<<o, i>>].scope
      BY <1>1, <1>6
    <3>4. i <= K + 1 <=> i <= K \/ i = K + 1
      BY <1>1
    <3>5. (K + 1) + 1 = K + 2
      BY <1>1
    <3> QED  BY <1>5, <3>1, <3>2, <3>3, <3>4, <3>5
  <2>2. /\ ListOf(q, live, counts, l) \subseteq Obj \X (Nat \ {0})
        /\ ListOf(m, live, copies, l) \subseteq Obj \X (Nat \ {0})
        /\ <<o, K + 2>> \in Obj \X (Nat \ {0})
    BY <1>1, ListTyped
  <2>3. ASSUME NEW v \in Obj \X (Nat \ {0})
        PROVE  v \in ListOf(q, live, counts, l) <=>
                 v \in ListOf(m, live, copies, l) \/ (l = level /\ v = <<o, K + 2>>)
    <3>1. CASE v[1] = o
      <4>1. v = <<o, v[2]>> /\ v[2] \in Nat \ {0}
        BY <3>1
      <4>2. v = <<o, K + 2>> <=> v[2] = K + 2
        BY <4>1
      <4> QED  BY <2>1, <4>1, <4>2
    <3>2. CASE v[1] # o
      <4>1. v # <<o, K + 2>>
        BY <3>2
      <4> QED  BY <1>7, <3>2, <4>1
    <3> QED  BY <3>1, <3>2
  <2> QED  BY <2>2, <2>3
<1> QED  BY <1>4, <1>7, <1>8, <1>9, <1>10 DEF UpdatedAbs, counts, K

\* CDO::set writes the data.
LEMMA DataAbs ==
  ASSUME NEW m, NEW live, NEW copies, Counted(m, live, copies), NEW o \in live, NEW v,
         NEW q, DataWritten(m, q, <<o, 0>>, v)
  PROVE  /\ Counted(q, live, copies)
         /\ DataIn(q, live) = [DataIn(m, live) EXCEPT ![o] = v]
         /\ ScopeIn(q, live) = ScopeIn(m, live)
         /\ SavedIn(q, copies) = SavedIn(m, copies)
         /\ \A l : ListOf(q, live, copies, l) = ListOf(m, live, copies, l)
<1>1. o \in Obj /\ <<o, 0>> \in DOMAIN m.node /\ copies \in [Obj -> Nat]
  <2>1. o \in Obj /\ <<o, 0>> \in DOMAIN m.node
    BY CountedNodes
  <2> QED  BY <2>1 DEF Counted
<1>2. Counted(q, live, copies)
  BY <1>1, DataVersions DEF Counted
<1>3. /\ q.node[<<o, 0>>].data = v
      /\ \A k \in DOMAIN m.node : k # <<o, 0>> => q.node[k].data = m.node[k].data
      /\ \A k \in DOMAIN m.node : q.node[k].scope = m.node[k].scope
  BY DEF DataWritten
<1>4. ASSUME NEW p \in Obj
      PROVE  /\ DataIn(q, live)[p] = IF p = o THEN v ELSE DataIn(m, live)[p]
             /\ ScopeIn(q, live)[p] = ScopeIn(m, live)[p]
             /\ SavedIn(q, copies)[p] = SavedIn(m, copies)[p]
  <2>1. CASE p \in live
    <3>1. <<p, 0>> \in DOMAIN m.node /\ copies[p] \in Nat
          /\ \A i \in 1..copies[p] : <<p, i>> \in DOMAIN m.node
      BY <2>1, CountedNodes
    <3>2. \A i \in 1..copies[p] : <<p, i>> # <<o, 0>>
      BY <3>1
    <3>3. SavedIn(q, copies)[p] = SavedIn(m, copies)[p]
      BY <1>3, <3>1, <3>2 DEF SavedIn
    <3>4. p # o => <<p, 0>> # <<o, 0>>
      OBVIOUS
    <3> QED  BY <1>3, <2>1, <3>1, <3>3, <3>4 DEF DataIn, ScopeIn
  <2>2. CASE p \notin live
    <3>1. copies[p] = 0
      BY <2>2 DEF Counted
    <3>2. 1..0 = {}
      OBVIOUS
    <3>3. SavedIn(q, copies)[p] = SavedIn(m, copies)[p]
      BY <3>1, <3>2 DEF SavedIn
    <3> QED  BY <2>2, <3>3 DEF DataIn, ScopeIn
  <2> QED  BY <2>1, <2>2
<1>5. DataIn(q, live) = [DataIn(m, live) EXCEPT ![o] = v]
  BY <1>1, <1>4 DEF DataIn
<1>6. ScopeIn(q, live) = ScopeIn(m, live)
  BY <1>4 DEF ScopeIn
<1>7. SavedIn(q, copies) = SavedIn(m, copies)
  <2>1. \A x : SavedIn(x, copies) = [p \in Obj |-> SavedIn(x, copies)[p]]
    BY DEF SavedIn
  <2>2. SavedIn(q, copies) = [p \in Obj |-> SavedIn(q, copies)[p]]
        /\ SavedIn(m, copies) = [p \in Obj |-> SavedIn(m, copies)[p]]
    BY <2>1
  <2> QED  BY <1>4, <2>2
<1>8. \A l : ListOf(q, live, copies, l) = ListOf(m, live, copies, l)
  <2>1. \A w \in Versions(live, copies) : VersionNode(copies, w[1], w[2]) \in DOMAIN m.node
    BY VersionNodes DEF Counted
  <2> QED  BY <1>3, <2>1 DEF ListOf
<1> QED  BY <1>2, <1>5, <1>6, <1>7, <1>8

\* A new object: one version, on the list of the scope s.
Joined(m, live, copies, q, others, o, s) ==
  /\ Counted(q, others, copies)
  /\ Changed(m, live, copies, q, others, copies, o, Default, s, <<>>)
  /\ SavedIn(m, copies)[o] = <<>> /\ copies[o] = 0
  /\ \A l : ListOf(q, others, copies, l) =
              IF l = s THEN ListOf(m, live, copies, l) \cup {<<o, 1>>}
                       ELSE ListOf(m, live, copies, l)

\* The constructors
LEMMA CreatedAbs ==
  ASSUME NEW m, NEW live, NEW copies, Counted(m, live, copies), NEW o \in Obj, o \notin live,
         NEW s, NEW q, Created(m, q, <<o, 0>>, s)
  PROVE  Joined(m, live, copies, q, live \cup {o}, o, s)
<1> DEFINE others == live \cup {o}
<1>1. /\ copies \in [Obj -> Nat] /\ Versioned(m, live, copies) /\ copies[o] = 0
      /\ \A p \in Obj \ live : copies[p] = 0
  BY DEF Counted
<1>2. [copies EXCEPT ![o] = 0] = copies
  BY <1>1
<1>3. /\ q.node[<<o, 0>>].data = Default /\ q.node[<<o, 0>>].scope = s
      /\ \A k \in DOMAIN m.node : /\ q.node[k].data = m.node[k].data
                                  /\ q.node[k].scope = m.node[k].scope
  BY DEF Created
<1>4. Counted(q, others, copies)
  <2>1. Versioned(q, others, [copies EXCEPT ![o] = 0])
    <3>1. /\ DOMAIN q.node = DOMAIN m.node \cup {<<o, 0>>} /\ q.node[<<o, 0>>].restore = Null
          /\ \A k \in DOMAIN m.node : /\ q.node[k].scope = m.node[k].scope
                                      /\ q.node[k].restore = m.node[k].restore
      BY DEF Created
    <3>2. Versioned(m, live, copies)
      BY <1>1
    <3> QED  BY <3>1, <3>2, NewVersions
  <2> QED  BY <1>1, <1>2, <2>1 DEF Counted
<1>5. /\ Changed(m, live, copies, q, others, copies, o,
                 DataIn(q, others)[o], ScopeIn(q, others)[o], SavedIn(q, copies)[o])
      /\ \A l : \A v \in Obj \X (Nat \ {0}) : v[1] # o =>
           (v \in ListOf(q, others, copies, l) <=> v \in ListOf(m, live, copies, l))
  <2>1. \A p \in Obj \ {o} : (p \in others <=> p \in live) /\ copies[p] = copies[p]
    OBVIOUS
  <2> HIDE DEF others
  <2> QED  BY <1>3, <1>4, <2>1, OthersSame
<1>6. DataIn(q, others)[o] = Default /\ ScopeIn(q, others)[o] = s
  BY <1>3 DEF DataIn, ScopeIn
<1>7. SavedIn(q, copies)[o] = <<>> /\ SavedIn(m, copies)[o] = <<>>
  <2>1. 1..0 = {}
    OBVIOUS
  <2> QED  BY <1>1, <2>1 DEF SavedIn
<1>8. o \in others
  OBVIOUS
<1> HIDE DEF others
<1>9. ASSUME NEW l
      PROVE  ListOf(q, others, copies, l) =
               IF l = s THEN ListOf(m, live, copies, l) \cup {<<o, 1>>}
                        ELSE ListOf(m, live, copies, l)
  <2>1. ASSUME NEW i \in Nat \ {0}
        PROVE  /\ <<o, i>> \in ListOf(q, others, copies, l) <=> i = 1 /\ l = s
               /\ <<o, i>> \notin ListOf(m, live, copies, l)
    <3>1. <<o, i>> \in ListOf(q, others, copies, l) <=> OfScope(q, copies, o, i, l)
      BY <1>1, <1>8, OwnVersions
    <3>2. OfScope(q, copies, o, i, l) <=> i = 1 /\ l = s
      BY <1>1, <1>3 DEF OfScope
    <3>3. <<o, i>>[1] = o
      OBVIOUS
    <3>4. <<o, i>> \notin ListOf(m, live, copies, l)
      BY <3>3 DEF ListOf, Versions
    <3> QED  BY <3>1, <3>2, <3>4
  <2>2. /\ ListOf(q, others, copies, l) \subseteq Obj \X (Nat \ {0})
        /\ ListOf(m, live, copies, l) \subseteq Obj \X (Nat \ {0})
        /\ <<o, 1>> \in Obj \X (Nat \ {0})
    BY ListTyped
  <2>3. ASSUME NEW v \in Obj \X (Nat \ {0})
        PROVE  v \in ListOf(q, others, copies, l) <=>
                 v \in ListOf(m, live, copies, l) \/ (l = s /\ v = <<o, 1>>)
    <3>1. CASE v[1] = o
      <4>1. v = <<o, v[2]>> /\ v[2] \in Nat \ {0}
        BY <3>1
      <4>2. v = <<o, 1>> <=> v[2] = 1
        BY <4>1
      <4> QED  BY <2>1, <4>1, <4>2
    <3>2. CASE v[1] # o
      <4>1. v # <<o, 1>>
        BY <3>2
      <4> QED  BY <1>5, <3>2, <4>1
    <3> QED  BY <3>1, <3>2
  <2> QED  BY <2>2, <2>3
<1> QED  BY <1>1, <1>4, <1>5, <1>6, <1>7, <1>9 DEF others, Joined

\* No version of o is left.
LeftOver(m, live, copies, q, others, counts, o) ==
  /\ Counted(q, others, counts)
  /\ Changed(m, live, copies, q, others, counts, o, Default, 0, <<>>)
  /\ \A l : ListOf(q, others, counts, l) =
              ListOf(m, live, copies, l) \ {<<o, i>> : i \in 1..(copies[o] + 1)}

\* An object that is gone with its copies.
LEMMA GoneAbs ==
  ASSUME NEW m, NEW live, NEW copies, Counted(m, live, copies), NEW o \in live,
         NEW q, Versioned(q, live \ {o}, [copies EXCEPT ![o] = 0]),
         \A k \in DOMAIN m.node : k[1] # o => /\ q.node[k].data = m.node[k].data
                                             /\ q.node[k].scope = m.node[k].scope
  PROVE  LeftOver(m, live, copies, q, live \ {o}, [copies EXCEPT ![o] = 0], o)
<1> DEFINE counts == [copies EXCEPT ![o] = 0]
           others == live \ {o}
<1>1. o \in Obj /\ copies[o] \in Nat
  BY CountedNodes
<1>2. counts[o] = 0 /\ \A p \in Obj \ {o} : counts[p] = copies[p] /\ (p \in others <=> p \in live)
  BY <1>1 DEF Counted
<1>3. Counted(q, others, counts)
  <2>1. live \subseteq others \cup {o} /\ 0 \in Nat
    OBVIOUS
  <2> HIDE DEF others
  <2>2. Versioned(q, others, counts)
    BY DEF others
  <2> QED  BY <1>1, <2>1, <2>2, CountedNext
<1>4. o \notin others
  OBVIOUS
<1> HIDE DEF counts, others
<1>5. /\ Changed(m, live, copies, q, others, counts, o,
                 DataIn(q, others)[o], ScopeIn(q, others)[o], SavedIn(q, counts)[o])
      /\ \A l : \A v \in Obj \X (Nat \ {0}) : v[1] # o =>
           (v \in ListOf(q, others, counts, l) <=> v \in ListOf(m, live, copies, l))
  BY <1>1, <1>2, <1>3, OthersSame
<1>6. DataIn(q, others)[o] = Default /\ ScopeIn(q, others)[o] = 0
  BY <1>1, <1>4 DEF DataIn, ScopeIn
<1>7. SavedIn(q, counts)[o] = <<>>
  <2>1. 1..0 = {}
    OBVIOUS
  <2> QED  BY <1>1, <1>2, <2>1 DEF SavedIn
<1>8. ASSUME NEW l
      PROVE  ListOf(q, others, counts, l) =
               ListOf(m, live, copies, l) \ {<<o, i>> : i \in 1..(copies[o] + 1)}
  <2> DEFINE own == {<<o, i>> : i \in 1..(copies[o] + 1)}
  <2>1. ASSUME NEW v \in Obj \X (Nat \ {0}), v[1] = o
        PROVE  /\ v \notin ListOf(q, others, counts, l)
               /\ v \in ListOf(m, live, copies, l) => v \in own
    <3>1. v \notin ListOf(q, others, counts, l)
      BY <1>4, <2>1 DEF ListOf, Versions
    <3>2. v \in ListOf(m, live, copies, l) => v[2] <= copies[o] + 1
      BY <2>1 DEF ListOf, Versions
    <3>3. v = <<o, v[2]>> /\ v[2] \in Nat \ {0}
      BY <2>1
    <3>4. v[2] <= copies[o] + 1 => v[2] \in 1..(copies[o] + 1)
      BY <1>1, <3>3
    <3> QED  BY <3>1, <3>2, <3>3, <3>4
  <2>2. \A v \in own : v[1] = o
    OBVIOUS
  <2> HIDE DEF own
  <2>3. /\ ListOf(q, others, counts, l) \subseteq Obj \X (Nat \ {0})
        /\ ListOf(m, live, copies, l) \subseteq Obj \X (Nat \ {0})
    BY ListTyped
  <2>4. ASSUME NEW v \in Obj \X (Nat \ {0})
        PROVE  v \in ListOf(q, others, counts, l) <=> v \in ListOf(m, live, copies, l) \ own
    BY <1>5, <2>1, <2>2
  <2>5. ListOf(q, others, counts, l) = ListOf(m, live, copies, l) \ own
    BY <2>3, <2>4
  <2> QED  BY <2>5 DEF own
<1> QED  BY <1>3, <1>5, <1>6, <1>7, <1>8 DEF counts, others, LeftOver

\* The length of the chain of copies.
LEMMA SavedLength ==
  ASSUME NEW m, NEW copies, NEW o \in Obj, copies[o] \in Nat
  PROVE  Len(SavedIn(m, copies)[o]) = copies[o]
  BY DEF SavedIn

\* The newest copy of o is its only change: it is the object now.
Regained(m, live, copies, q, counts, o, s, n) ==
  /\ Counted(q, live, counts)
  /\ Changed(m, live, copies, q, live, counts, o, s[n].data, s[n].scope, SubSeq(s, 1, n - 1))
  /\ \A l : ListOf(q, live, counts, l) =
              ListOf(m, live, copies, l) \
                (IF l = m.node[<<o, 0>>].scope THEN {<<o, n + 1>>} ELSE {})

\* ContextObj::restoreAndContinue with a copy to restore
LEMMA RestoredAbs ==
  ASSUME NEW m, NEW live, NEW copies, Counted(m, live, copies), NEW o \in live, copies[o] > 0,
         NEW q, Restored(m, q, <<o, 0>>, <<o, copies[o]>>)
  PROVE  /\ Len(SavedIn(m, copies)[o]) = copies[o]
         /\ Regained(m, live, copies, q, [copies EXCEPT ![o] = copies[o] - 1], o,
                     SavedIn(m, copies)[o], copies[o])
<1> DEFINE K == copies[o]
           counts == [copies EXCEPT ![o] = K - 1]
           c == <<o, K>>
           s == SavedIn(m, copies)[o]
           f(x, i) == [data |-> x.node[<<o, i>>].data, scope |-> x.node[<<o, i>>].scope]
<1>1. /\ o \in Obj /\ K \in Nat /\ K > 0 /\ <<o, 0>> \in DOMAIN m.node
      /\ \A i \in 1..K : <<o, i>> \in DOMAIN m.node
  BY CountedNodes
<1>2. Versioned(q, live, counts)
  BY RestoreVersions DEF Counted
<1>3. counts[o] = K - 1 /\ \A p \in Obj \ {o} : counts[p] = copies[p]
  BY <1>1 DEF Counted
<1>4. Counted(q, live, counts)
  <2>1. K - 1 \in Nat /\ live \subseteq live \cup {o} /\ o \in live
    BY <1>1
  <2> HIDE DEF K
  <2> QED  BY <1>1, <1>2, <2>1, CountedNext
<1>5. /\ q.node[<<o, 0>>] = m.node[c]
      /\ \A k \in DOMAIN m.node \ {c, <<o, 0>>} : /\ q.node[k].data = m.node[k].data
                                                  /\ q.node[k].scope = m.node[k].scope
  BY DEF Restored
<1> HIDE DEF counts, K
<1>6. \A i \in 1..K : i # K => <<o, i>> \in DOMAIN m.node \ {c, <<o, 0>>}
  BY <1>1
<1>7. /\ Changed(m, live, copies, q, live, counts, o,
                 DataIn(q, live)[o], ScopeIn(q, live)[o], SavedIn(q, counts)[o])
      /\ \A l : \A v \in Obj \X (Nat \ {0}) : v[1] # o =>
           (v \in ListOf(q, live, counts, l) <=> v \in ListOf(m, live, copies, l))
  <2>1. \A k \in DOMAIN m.node : k[1] # o => /\ q.node[k].data = m.node[k].data
                                             /\ q.node[k].scope = m.node[k].scope
    <3>1. <<o, 0>>[1] = o /\ c[1] = o
      OBVIOUS
    <3> QED  BY <1>5, <3>1
  <2> QED  BY <1>1, <1>3, <1>4, <2>1, OthersSame
<1>8. s = [i \in 1..K |-> f(m, i)] /\ SavedIn(q, counts)[o] = [i \in 1..(K - 1) |-> f(q, i)]
  BY <1>1, <1>3 DEF SavedIn, K
<1>9. Len(s) = K
  BY <1>1, <1>8
<1>10. DataIn(q, live)[o] = s[K].data /\ ScopeIn(q, live)[o] = s[K].scope
  <2>1. s[K] = f(m, K)
    BY <1>1, <1>8
  <2> HIDE DEF s
  <2>2. s[K].data = m.node[c].data /\ s[K].scope = m.node[c].scope
    BY <2>1
  <2> QED  BY <1>1, <1>5, <2>2 DEF DataIn, ScopeIn
<1>11. SavedIn(q, counts)[o] = SubSeq(s, 1, K - 1)
  <2>1. \A i \in 1..(K - 1) : f(q, i) = f(m, i)
    <3>1. \A i \in 1..(K - 1) : i \in 1..K /\ i # K
      BY <1>1
    <3> QED  BY <1>5, <1>6, <3>1
  <2> HIDE DEF f, s
  <2>2. \A i \in 1..(K - 1) : s[i] = f(q, i)
    <3>1. \A i \in 1..(K - 1) : i \in 1..K
      BY <1>1
    <3> QED  BY <1>8, <2>1, <3>1
  <2>3. SubSeq(s, 1, K - 1) = [i \in 1..(K - 1) |-> s[i]]
    BY <1>1
  <2> QED  BY <1>8, <2>2, <2>3
<1>12. ASSUME NEW l
       PROVE  ListOf(q, live, counts, l) =
                ListOf(m, live, copies, l) \
                  (IF l = m.node[<<o, 0>>].scope THEN {<<o, K + 1>>} ELSE {})
  <2>1. ASSUME NEW i \in Nat \ {0}
        PROVE  <<o, i>> \in ListOf(q, live, counts, l) <=>
                 <<o, i>> \in ListOf(m, live, copies, l) /\ i # K + 1
    <3>1. <<o, i>> \in ListOf(q, live, counts, l) <=> OfScope(q, counts, o, i, l)
      <4>1. counts[o] \in Nat
        BY <1>1, <1>3
      <4> QED  BY <1>1, <4>1, OwnVersions
    <3>2. <<o, i>> \in ListOf(m, live, copies, l) <=> OfScope(m, copies, o, i, l)
      <4>1. copies[o] \in Nat
        BY <1>1 DEF K
      <4> QED  BY <1>1, <4>1, OwnVersions
    <3>3. i <= K /\ i # K => q.node[<<o, i>>].scope = m.node[<<o, i>>].scope
      <4>1. i <= K => i \in 1..K
        BY <1>1
      <4> QED  BY <1>5, <1>6, <4>1
    <3>4. q.node[<<o, 0>>].scope = m.node[<<o, K>>].scope
      BY <1>5
    <3>5. OfScope(q, counts, o, i, l) <=>
            \/ i = K /\ m.node[<<o, K>>].scope = l
            \/ i <= K /\ i # K /\ m.node[<<o, i>>].scope = l
      <4>1. OfScope(q, counts, o, i, l) <=>
              \/ i = (K - 1) + 1 /\ q.node[<<o, 0>>].scope = l
              \/ i <= K - 1 /\ q.node[<<o, i>>].scope = l
        BY <1>3 DEF OfScope
      <4>2. (K - 1) + 1 = K /\ (i <= K - 1 <=> i <= K /\ i # K)
        BY <1>1
      <4> QED  BY <3>3, <3>4, <4>1, <4>2
    <3>6. OfScope(m, copies, o, i, l) <=>
            \/ i = K + 1 /\ m.node[<<o, 0>>].scope = l
            \/ i <= K /\ m.node[<<o, i>>].scope = l
      BY DEF OfScope, K
    <3>7. i <= K => i # K + 1
      BY <1>1
    <3>8. i = K => i <= K
      BY <1>1
    <3> QED  BY <3>1, <3>2, <3>5, <3>6, <3>7, <3>8
  <2>2. <<o, K + 1>> \in ListOf(m, live, copies, l) => l = m.node[<<o, 0>>].scope
    <3>1. <<o, K + 1>> \in ListOf(m, live, copies, l) <=> OfScope(m, copies, o, K + 1, l)
      <4>1. copies[o] \in Nat /\ K + 1 \in Nat \ {0}
        BY <1>1 DEF K
      <4> QED  BY <1>1, <4>1, OwnVersions
    <3>2. ~(K + 1 <= K)
      BY <1>1
    <3> QED  BY <3>1, <3>2 DEF OfScope, K
  <2>3. /\ ListOf(q, live, counts, l) \subseteq Obj \X (Nat \ {0})
        /\ ListOf(m, live, copies, l) \subseteq Obj \X (Nat \ {0})
    BY ListTyped
  <2>4. ASSUME NEW v \in Obj \X (Nat \ {0})
        PROVE  v \in ListOf(q, live, counts, l) <=>
                 v \in ListOf(m, live, copies, l) /\ v # <<o, K + 1>>
    <3>1. CASE v[1] = o
      <4>1. v = <<o, v[2]>> /\ v[2] \in Nat \ {0}
        BY <3>1
      <4>2. v = <<o, K + 1>> <=> v[2] = K + 1
        BY <4>1
      <4> QED  BY <2>1, <4>1, <4>2
    <3>2. CASE v[1] # o
      <4>1. v # <<o, K + 1>>
        BY <3>2
      <4> QED  BY <1>7, <3>2, <4>1
    <3> QED  BY <3>1, <3>2
  <2> QED  BY <2>2, <2>3, <2>4
<1> HIDE DEF s
<1>13. Changed(m, live, copies, q, live, counts, o, s[Len(s)].data, s[Len(s)].scope,
               SubSeq(s, 1, Len(s) - 1))
  BY <1>7, <1>9, <1>10, <1>11
<1>14. Regained(m, live, copies, q, counts, o, s, K)
  BY <1>4, <1>9, <1>12, <1>13 DEF Regained
<1> QED  BY <1>9, <1>14 DEF counts, K, s

\* ContextObj::destroy leaves the other objects their copies.
LEMMA DestroyedCopies ==
  ASSUME NEW m, NEW live, NEW copies, Counted(m, live, copies), NEW o \in live,
         NEW q, Destroyed(m, q, o), NEW cs \in [Obj -> Nat], Versioned(q, live \ {o}, cs)
  PROVE  Versioned(q, live \ {o}, [copies EXCEPT ![o] = 0])
<1> DEFINE counts == [copies EXCEPT ![o] = 0]
           others == live \ {o}
<1>1. copies \in [Obj -> Nat] /\ Versioned(m, live, copies)
  BY DEF Counted
<1>2. counts \in [Obj -> Nat] /\ \A p \in Obj : p # o => counts[p] = copies[p]
  BY <1>1
<1>3. DOMAIN q.node = {k \in DOMAIN m.node : k[1] # o}
  BY DEF Destroyed
<1>4. Versioned(q, others, cs) /\ others \subseteq Obj
  BY DEF Versioned
<1>5. \A p \in others : p \in live /\ p # o
  OBVIOUS
<1> HIDE DEF counts, others
<1>6. ASSUME NEW p \in others
      PROVE  cs[p] = counts[p]
  <2>1. p \in live /\ p # o /\ p \in Obj
    BY <1>4, <1>5
  <2>2. {n \in DOMAIN q.node : n[1] = p /\ n[2] > 0} = {n \in DOMAIN m.node : n[1] = p /\ n[2] > 0}
    BY <1>3, <2>1
  <2>3. Cardinality({n \in DOMAIN m.node : n[1] = p /\ n[2] > 0}) = copies[p]
    BY <1>1, <2>1, CopiesCount
  <2>4. Cardinality({n \in DOMAIN q.node : n[1] = p /\ n[2] > 0}) = cs[p]
    BY <1>4, CopiesCount
  <2> QED  BY <1>2, <2>1, <2>2, <2>3, <2>4
<1>7. DOMAIN q.node = {n \in Ids : n[1] \in others /\ n[2] <= counts[n[1]]}
  <2>1. DOMAIN q.node = {n \in Ids : n[1] \in others /\ n[2] <= cs[n[1]]}
    BY <1>4 DEF Versioned
  <2> QED  BY <1>6, <2>1
<1>8. Versioned(q, others, counts)
  BY <1>2, <1>4, <1>6, <1>7 DEF Versioned
<1> QED  BY <1>8 DEF counts, others
-----------------------------------------------------------------------------
(* The steps are steps of Context. *)

\* Relinking does not change the state of Context.
LEMMA RelinkedAbs ==
  ASSUME NEW m, NEW live, NEW copies, Counted(m, live, copies), NEW q, q.node = m.node
  PROVE  /\ Counted(q, live, copies)
         /\ DataIn(q, live) = DataIn(m, live) /\ ScopeIn(q, live) = ScopeIn(m, live)
         /\ SavedIn(q, copies) = SavedIn(m, copies)
         /\ \A l : ListOf(q, live, copies, l) = ListOf(m, live, copies, l)
<1>1. Versioned(m, live, copies)
  BY DEF Counted
<1>2. Versioned(q, live, copies)
  BY <1>1, VersionedSame
<1>3. Counted(q, live, copies)
  BY <1>2 DEF Counted
<1> QED  BY <1>3 DEF DataIn, ScopeIn, SavedIn, ListOf

\* The lists of Context, if a step changes the levels only.
ListsAt(lev, ph) ==
  /\ absChain' = [l \in Level |-> IF l <= lev THEN ListOf(Mem, Live, Saves, l) ELSE {}]
  /\ absDying' = IF ph = "restore" THEN ListOf(Mem, Live, Saves, lev + 1) ELSE {}

\* A step that leaves the nodes alone.
LEMMA StillAbs ==
  ASSUME Inv, Inv', UNCHANGED <<storage, node>>
  PROVE  /\ UNCHANGED <<absData, absScope, absSaved>>
         /\ ListsAt(level', phase')
<1>1. AbsState
  BY InvAbs
<1>2. Live' = Live /\ Mem'.node = Mem.node
  BY DEF Live, Constructed, Mem
<1> DEFINE q == Mem'
           K == Saves
<1>3. Counted(Mem, Live, K)
  BY <1>1 DEF AbsState
<1> HIDE DEF K
<1>4. /\ Counted(q, Live, K)
      /\ DataIn(q, Live) = DataIn(Mem, Live) /\ ScopeIn(q, Live) = ScopeIn(Mem, Live)
      /\ SavedIn(q, K) = SavedIn(Mem, K)
      /\ \A l : ListOf(q, Live, K, l) = ListOf(Mem, Live, K, l)
  BY <1>2, <1>3, RelinkedAbs
<1>5. /\ absData' = DataIn(q, Live) /\ absScope' = ScopeIn(q, Live) /\ absSaved' = SavedIn(q, K)
      /\ absChain' = [l \in Level |-> IF l <= level' THEN ListOf(q, Live, K, l) ELSE {}]
      /\ absDying' = IF phase' = "restore" THEN ListOf(q, Live, K, level' + 1) ELSE {}
  BY <1>2, <1>4, AbsNext
<1>6. absData = DataIn(Mem, Live) /\ absScope = ScopeIn(Mem, Live) /\ absSaved = SavedIn(Mem, K)
  BY <1>1 DEF AbsState, K
<1> HIDE DEF q
<1>7. /\ absChain' = [l \in Level |-> IF l <= level' THEN ListOf(Mem, Live, K, l) ELSE {}]
      /\ absDying' = IF phase' = "restore" THEN ListOf(Mem, Live, K, level' + 1) ELSE {}
  BY <1>4, <1>5
<1> QED  BY <1>4, <1>5, <1>6, <1>7 DEF ListsAt, K

\* The scopes above t have no versions.
LEMMA NoneOnList ==
  ASSUME NEW m, NEW live, NEW copies, Versioned(m, live, copies), NEW s, NEW t, Sound(m, s, t),
         NEW l, l \notin 0..t
  PROVE  ListOf(m, live, copies, l) = {}
<1>1. \A n \in DOMAIN m.node : m.node[n].scope \in 0..t
  BY DEF Sound, Linked
<1>2. \A v \in Versions(live, copies) : VersionNode(copies, v[1], v[2]) \in DOMAIN m.node
  BY VersionNodes
<1> QED  BY <1>1, <1>2 DEF ListOf

\* Context::push
LEMMA PushAbs == ASSUME Inv, Inv', Push PROVE Sets!Push
<1>1. /\ phase = "run" /\ level < MaxLevel /\ level' = level + 1 /\ phase' = phase
      /\ UNCHANGED <<storage, node, target, phase>>
  BY DEF Push
<1>2. AbsState
  BY InvAbs
<1>3. /\ level \in Level /\ level \in Nat /\ MaxLevel \in Nat /\ Sound(Mem, level, level)
  BY <1>1, InvRun
<1>4. UNCHANGED <<absData, absScope, absSaved>> /\ ListsAt(level + 1, "run")
  BY <1>1, StillAbs
<1>5. ListOf(Mem, Live, Saves, level + 1) = {}
  <2>1. level + 1 \notin 0..level
    BY <1>3
  <2> QED  BY <1>2, <1>3, <2>1, NoneOnList DEF AbsState, Counted
<1>6. absChain' = absChain
  <2>1. ASSUME NEW l \in Level
        PROVE  (IF l <= level + 1 THEN ListOf(Mem, Live, Saves, l) ELSE {})
                 = IF l <= level THEN ListOf(Mem, Live, Saves, l) ELSE {}
    <3>1. l <= level + 1 <=> l <= level \/ l = level + 1
      BY <1>3 DEF Level
    <3> QED  BY <1>3, <1>5, <3>1
  <2>2. absChain = [l \in Level |-> IF l <= level THEN ListOf(Mem, Live, Saves, l) ELSE {}]
    BY <1>2 DEF AbsState
  <2>3. absChain' = [l \in Level |-> IF l <= level + 1 THEN ListOf(Mem, Live, Saves, l) ELSE {}]
    BY <1>4 DEF ListsAt
  <2> QED  BY <2>1, <2>2, <2>3
<1>7. absDying' = absDying
  BY <1>1, <1>2, <1>4 DEF AbsState, ListsAt
<1> QED  BY <1>1, <1>4, <1>6, <1>7 DEF Sets!Push

\* d_scopeList.pop_back(): the list of the top scope becomes the one to be consumed.
LEMMA PopBackAbs ==
  ASSUME Inv, Inv', UNCHANGED <<storage, node>>, level \in Nat, level # 0,
         level' = level - 1, phase' = "restore"
  PROVE  Sets!DeleteTopScope /\ UNCHANGED <<absData, absScope, absSaved>>
<1>1. AbsState
  BY InvAbs
<1>2. UNCHANGED <<absData, absScope, absSaved>> /\ ListsAt(level - 1, "restore")
  BY StillAbs
<1>3. /\ absChain = [l \in Level |-> IF l <= level THEN ListOf(Mem, Live, Saves, l) ELSE {}]
      /\ absChain' = [l \in Level |-> IF l <= level - 1 THEN ListOf(Mem, Live, Saves, l) ELSE {}]
      /\ absDying' = ListOf(Mem, Live, Saves, (level - 1) + 1)
  BY <1>1, <1>2 DEF AbsState, ListsAt
<1>4. level \in Level /\ (level - 1) + 1 = level /\ level <= level
      /\ \A l \in Level : l <= level - 1 <=> l <= level /\ l # level
  BY DEF Inv, Control, Level
<1>5. absDying' = absChain[level]
  BY <1>3, <1>4
<1>6. absChain' = [absChain EXCEPT ![level] = {}]
  BY <1>3, <1>4
<1> QED  BY <1>2, <1>5, <1>6 DEF Sets!DeleteTopScope

\* Context::popto
LEMMA PopToAbs == ASSUME Inv, Inv', NEW t \in Level, PopTo(t) PROVE Sets!PopTo(t)
<1>1. /\ phase = "run" /\ t < level /\ target' = t /\ phase' = "restore" /\ level' = level - 1
      /\ UNCHANGED <<storage, node>>
  BY DEF PopTo
<1>2. level \in Nat /\ t \in Nat
  BY ContextObjAssumption DEF Inv, Control, Level
<1>3. level # 0
  BY <1>1, <1>2
<1>4. Sets!DeleteTopScope /\ UNCHANGED <<absData, absScope, absSaved>>
  BY <1>1, <1>2, <1>3, PopBackAbs
<1> QED  BY <1>1, <1>4 DEF Sets!PopTo

\* The end of ~Scope
LEMMA ScopeDeletedAbs == ASSUME Inv, Inv', ScopeDeleted PROVE Sets!ScopeDeleted
<1>1. /\ phase = "restore" /\ head[level + 1] = Null
      /\ \/ target < level /\ level' = level - 1 /\ UNCHANGED phase
         \/ target >= level /\ phase' = "run" /\ UNCHANGED level
      /\ UNCHANGED <<storage, node, head, target>>
  BY DEF ScopeDeleted
<1>2. /\ level \in Level /\ level \in Nat /\ target \in Nat
      /\ IsMem(Mem) /\ Sound(Mem, level, level + 1) /\ Mem.head = head
  BY <1>1, InvRestore
<1>3. AbsState
  BY InvAbs
<1>4. ListOf(Mem, Live, Saves, level + 1) = {}
  <2>1. DOMAIN Mem.node \subseteq Ids
    BY <1>2 DEF IsMem
  <2>2. Sound(Mem, level, level)
    BY <1>1, <1>2, <2>1, LinkedClosed DEF Sound
  <2>3. level + 1 \notin 0..level
    BY <1>2
  <2> QED  BY <1>3, <2>2, <2>3, NoneOnList DEF AbsState, Counted
<1>5. absDying = {}
  BY <1>1, <1>3, <1>4 DEF AbsState
<1>6. CASE target < level /\ level' = level - 1 /\ UNCHANGED phase
  <2>1. level # 0
    BY <1>2, <1>6
  <2>2. Sets!DeleteTopScope /\ UNCHANGED <<absData, absScope, absSaved>>
    BY <1>1, <1>2, <1>6, <2>1, PopBackAbs
  <2> QED  BY <1>1, <1>5, <1>6, <2>2 DEF Sets!ScopeDeleted
<1>7. CASE target >= level /\ phase' = "run" /\ UNCHANGED level
  <2>1. UNCHANGED <<absData, absScope, absSaved>> /\ ListsAt(level, "run")
    BY <1>1, <1>7, StillAbs
  <2>2. absChain' = absChain /\ absDying' = absDying
    BY <1>3, <1>5, <2>1 DEF AbsState, ListsAt
  <2> QED  BY <1>1, <1>5, <1>7, <2>1, <2>2 DEF Sets!ScopeDeleted
<1> QED  BY <1>1, <1>6, <1>7

\* The lists of the scopes up to the top one.
ChainIn(m, live, copies) ==
  [l \in Level |-> IF l <= level THEN ListOf(m, live, copies, l) ELSE {}]

\* The state of Context before an operation of CDO.
LEMMA AbsBefore ==
  ASSUME Inv, phase = "run"
  PROVE  /\ Counted(Mem, Live, Saves)
         /\ absData = DataIn(Mem, Live) /\ absScope = ScopeIn(Mem, Live)
         /\ absSaved = SavedIn(Mem, Saves) /\ absChain = ChainIn(Mem, Live, Saves)
         /\ absDying = {}
<1>1. AbsState
  BY InvAbs
<1> QED  BY <1>1 DEF AbsState, ChainIn

\* The state of Context after a step that leaves the nodes of m.
LEMMA AbsAfter ==
  ASSUME Inv', NEW m, node' = m.node, NEW live, Live' = live,
         NEW copies, Counted(m, live, copies)
  PROVE  /\ absData' = DataIn(m, live) /\ absScope' = ScopeIn(m, live)
         /\ absSaved' = SavedIn(m, copies)
         /\ level' = level => absChain' = ChainIn(m, live, copies)
         /\ absDying' = IF phase' = "restore" THEN ListOf(m, live, copies, level' + 1) ELSE {}
<1> DEFINE q == Mem'
<1>1. q.node = m.node /\ Mem' = q
  BY DEF Mem
<1> HIDE DEF q
<1>2. /\ Counted(q, live, copies)
      /\ DataIn(q, live) = DataIn(m, live) /\ ScopeIn(q, live) = ScopeIn(m, live)
      /\ SavedIn(q, copies) = SavedIn(m, copies)
      /\ \A l : ListOf(q, live, copies, l) = ListOf(m, live, copies, l)
  BY <1>1, RelinkedAbs
<1>3. /\ absData' = DataIn(q, live) /\ absScope' = ScopeIn(q, live)
      /\ absSaved' = SavedIn(q, copies)
      /\ absChain' = [l \in Level |-> IF l <= level' THEN ListOf(q, live, copies, l) ELSE {}]
      /\ absDying' = IF phase' = "restore" THEN ListOf(q, live, copies, level' + 1) ELSE {}
  BY <1>1, <1>2, AbsNext
<1>4. level' = level => absChain' = ChainIn(m, live, copies)
  BY <1>2, <1>3 DEF ChainIn
<1> QED  BY <1>2, <1>3, <1>4

\* addToChain
LEMMA ChainLinked ==
  ASSUME NEW m, NEW live, NEW copies, NEW q, NEW others, NEW counts, NEW v,
         NEW s \in Level, s <= level,
         \A l : ListOf(q, others, counts, l) =
                  IF l = s THEN ListOf(m, live, copies, l) \cup {v} ELSE ListOf(m, live, copies, l)
  PROVE  ChainIn(q, others, counts) = Sets!Linked(ChainIn(m, live, copies), s, v)
  BY DEF ChainIn, Sets!Linked

\* The state of Context after makeCurrent().
CurrentAbs(m, live, copies, q, counts, o, s, e) ==
  /\ Counted(q, live, counts)
  /\ DataIn(q, live) = DataIn(m, live)
  /\ \/ /\ ScopeIn(m, live)[o] = level
        /\ ScopeIn(q, live) = ScopeIn(m, live)
        /\ SavedIn(q, counts) = SavedIn(m, copies)
        /\ ChainIn(q, live, counts) = ChainIn(m, live, copies)
     \/ /\ ScopeIn(m, live)[o] # level
        /\ ScopeIn(q, live) = [ScopeIn(m, live) EXCEPT ![o] = level]
        /\ SavedIn(q, counts) = [SavedIn(m, copies) EXCEPT ![o] = Append(s, e)]
        /\ ChainIn(q, live, counts)
             = Sets!Linked(ChainIn(m, live, copies), level, <<o, (Len(s) + 1) + 1>>)

\* makeCurrent(), seen from Context.
LEMMA MakeCurrentAbs ==
  ASSUME NEW m, IsMem(m), Sound(m, level, level), level \in Level, MaxLevel \in Nat,
         NEW live, NEW copies, Counted(m, live, copies), NEW o \in live
  PROVE  \E counts :
           CurrentAbs(m, live, copies, MakeCurrent(m, o), counts, o, SavedIn(m, copies)[o],
                      [data |-> DataIn(m, live)[o], scope |-> ScopeIn(m, live)[o]])
<1> DEFINE q == MakeCurrent(m, o)
           s == SavedIn(m, copies)[o]
           e == [data |-> DataIn(m, live)[o], scope |-> ScopeIn(m, live)[o]]
<1>1. /\ o \in Obj /\ copies[o] \in Nat /\ <<o, 0>> \in DOMAIN m.node
      /\ copies \in [Obj -> Nat] /\ Versioned(m, live, copies)
  BY CountedNodes DEF Counted
<1>2. \/ q = m /\ m.node[<<o, 0>>].scope = level
      \/ /\ m.node[<<o, 0>>].scope < level
         /\ Updated(m, q, <<o, 0>>, <<o, copies[o] + 1>>)
  BY <1>1, MakeCurrentRight
<1>3. ScopeIn(m, live)[o] = m.node[<<o, 0>>].scope
  BY <1>1 DEF ScopeIn
<1>4. level \in Nat /\ m.node[<<o, 0>>].scope \in Nat
  BY <1>1 DEF Sound, Linked, Level
<1> HIDE DEF q
<1> HIDE DEF s, e
<1>5. CASE q = m /\ m.node[<<o, 0>>].scope = level
  <2>1. CurrentAbs(m, live, copies, q, copies, o, s, e)
    BY <1>3, <1>5 DEF CurrentAbs
  <2> QED  BY <2>1 DEF q, s, e
<1>6. CASE m.node[<<o, 0>>].scope < level /\ Updated(m, q, <<o, 0>>, <<o, copies[o] + 1>>)
  <2> DEFINE counts == [copies EXCEPT ![o] = copies[o] + 1]
  <2>1. /\ Counted(q, live, counts)
        /\ Changed(m, live, copies, q, live, counts, o, DataIn(m, live)[o], level, Append(s, e))
        /\ \A l : ListOf(q, live, counts, l) =
                    IF l = level THEN ListOf(m, live, copies, l) \cup {<<o, copies[o] + 2>>}
                                 ELSE ListOf(m, live, copies, l)
    <3>1. UpdatedAbs(m, live, copies, q, counts, o)
      BY <1>4, <1>6, UpdateAbs
    <3> HIDE DEF counts
    <3> QED  BY <3>1 DEF UpdatedAbs, s, e
  <2> HIDE DEF counts
  <2>2. DataIn(q, live) = DataIn(m, live)
    BY <1>1, <2>1 DEF Changed, DataIn
  <2>3. ChainIn(q, live, counts)
          = Sets!Linked(ChainIn(m, live, copies), level, <<o, copies[o] + 2>>)
    BY <1>4, <2>1, ChainLinked
  <2>4. (Len(s) + 1) + 1 = copies[o] + 2
    BY <1>1, SavedLength DEF s
  <2>5. ScopeIn(m, live)[o] # level
    BY <1>3, <1>4, <1>6
  <2>6. ChainIn(q, live, counts)
          = Sets!Linked(ChainIn(m, live, copies), level, <<o, (Len(s) + 1) + 1>>)
    BY <2>3, <2>4
  <2>7. /\ ScopeIn(q, live) = [ScopeIn(m, live) EXCEPT ![o] = level]
        /\ SavedIn(q, counts) = [SavedIn(m, copies) EXCEPT ![o] = Append(s, e)]
    BY <2>1 DEF Changed
  <2>8. CurrentAbs(m, live, copies, q, counts, o, s, e)
    BY <2>1, <2>2, <2>5, <2>6, <2>7 DEF CurrentAbs
  <2> QED  BY <2>8 DEF q, s, e
<1> QED  BY <1>2, <1>5, <1>6

\* CDO::set
LEMMA SetAbs ==
  ASSUME Inv, Inv', NEW o \in Obj, NEW v \in Val, Set(o, v)
  PROVE  Sets!Set(o, v)
<1> DEFINE q == MakeCurrent(Mem, o)
           m == [q EXCEPT !.node[<<o, 0>>].data = v]
<1>1. /\ phase = "run" /\ Constructed(o) /\ Becomes(m)
      /\ UNCHANGED <<level, storage, target, phase>>
  BY DEF Set
<1>2. o \in Live /\ Live' = Live /\ node' = m.node
  BY <1>1 DEF Live, Constructed, Becomes
<1>3. level \in Level /\ MaxLevel \in Nat /\ IsMem(Mem) /\ Sound(Mem, level, level)
  BY <1>1, InvRun
<1> DEFINE K == Saves
<1>4. /\ Counted(Mem, Live, K)
      /\ absData = DataIn(Mem, Live) /\ absScope = ScopeIn(Mem, Live)
      /\ absSaved = SavedIn(Mem, K) /\ absChain = ChainIn(Mem, Live, K)
      /\ absDying = {}
  BY <1>1, AbsBefore
<1> HIDE DEF K
<1> DEFINE s == SavedIn(Mem, K)[o]
           e == [data |-> DataIn(Mem, Live)[o], scope |-> ScopeIn(Mem, Live)[o]]
<1>a. PICK counts : CurrentAbs(Mem, Live, K, q, counts, o, s, e)
  BY <1>2, <1>3, <1>4, MakeCurrentAbs
<1>5. /\ Counted(q, Live, counts)
      /\ DataIn(q, Live) = DataIn(Mem, Live)
      /\ \/ /\ ScopeIn(Mem, Live)[o] = level
            /\ ScopeIn(q, Live) = ScopeIn(Mem, Live)
            /\ SavedIn(q, counts) = SavedIn(Mem, K)
            /\ ChainIn(q, Live, counts) = ChainIn(Mem, Live, K)
         \/ /\ ScopeIn(Mem, Live)[o] # level
            /\ ScopeIn(q, Live) = [ScopeIn(Mem, Live) EXCEPT ![o] = level]
            /\ SavedIn(q, counts) = [SavedIn(Mem, K) EXCEPT ![o] = Append(s, e)]
            /\ ChainIn(q, Live, counts)
                 = Sets!Linked(ChainIn(Mem, Live, K), level, <<o, (Len(s) + 1) + 1>>)
  BY <1>a DEF CurrentAbs
<1>6. IsMem(q) /\ Sound(q, level, level) /\ <<o, 0>> \in DOMAIN q.node
  BY <1>2, <1>3, <1>4, MakeCurrentRight DEF Counted
<1> HIDE DEF q
<1>7. DataWritten(q, m, <<o, 0>>, v)
  BY <1>6, DataRelinks
<1> HIDE DEF m
<1>8. /\ Counted(m, Live, counts)
      /\ DataIn(m, Live) = [DataIn(q, Live) EXCEPT ![o] = v]
      /\ ScopeIn(m, Live) = ScopeIn(q, Live)
      /\ SavedIn(m, counts) = SavedIn(q, counts)
      /\ ChainIn(m, Live, counts) = ChainIn(q, Live, counts)
  BY <1>2, <1>5, <1>7, DataAbs DEF ChainIn
<1>9. /\ absData' = DataIn(m, Live) /\ absScope' = ScopeIn(m, Live)
      /\ absSaved' = SavedIn(m, counts) /\ absChain' = ChainIn(m, Live, counts)
      /\ absDying' = {}
  BY <1>1, <1>2, <1>8, AbsAfter
<1>10. absData' = [absData EXCEPT ![o] = v]
  BY <1>4, <1>5, <1>8, <1>9
<1>11. Sets!MakeCurrent(o)
  <2>1. CASE /\ ScopeIn(q, Live) = ScopeIn(Mem, Live) /\ ScopeIn(Mem, Live)[o] = level
             /\ SavedIn(q, counts) = SavedIn(Mem, K)
             /\ ChainIn(q, Live, counts) = ChainIn(Mem, Live, K)
    BY <1>4, <1>8, <1>9, <2>1 DEF Sets!MakeCurrent
  <2>2. CASE /\ ScopeIn(Mem, Live)[o] # level
             /\ ScopeIn(q, Live) = [ScopeIn(Mem, Live) EXCEPT ![o] = level]
             /\ SavedIn(q, counts) = [SavedIn(Mem, K) EXCEPT ![o] = Append(s, e)]
             /\ ChainIn(q, Live, counts)
                  = Sets!Linked(ChainIn(Mem, Live, K), level, <<o, (Len(s) + 1) + 1>>)
    <3>1. absScope[o] # level /\ absScope' = [absScope EXCEPT ![o] = level]
      BY <1>4, <1>8, <1>9, <2>2
    <3>2. absSaved' = [absSaved EXCEPT ![o] =
                         Append(absSaved[o], [data |-> absData[o], scope |-> absScope[o]])]
      BY <1>4, <1>8, <1>9, <2>2
    <3>3. absChain' = Sets!Linked(absChain, level, <<o, (Len(absSaved[o]) + 1) + 1>>)
      BY <1>4, <1>8, <1>9, <2>2
    <3> QED  BY <3>1, <3>2, <3>3 DEF Sets!MakeCurrent, Sets!Update, Sets!Last
  <2> QED  BY <1>5, <2>1, <2>2
<1>12. Sets!Constructed(o)
  BY <1>1 DEF Constructed, Sets!Constructed
<1> QED  BY <1>1, <1>4, <1>9, <1>10, <1>11, <1>12 DEF Sets!Set

\* A constructor, seen from Context.
LEMMA NewAbs ==
  ASSUME Inv, phase = "run", NEW o \in Obj, ~Constructed(o), NEW l \in 0..level
  PROVE  LET a == NewNode(Mem, o, l) IN
         /\ IsMem(a) /\ Sound(a, level, level)
         /\ Counted(a, Live \cup {o}, Saves)
         /\ DataIn(a, Live \cup {o}) = [absData EXCEPT ![o] = Default]
         /\ ScopeIn(a, Live \cup {o}) = [absScope EXCEPT ![o] = l]
         /\ SavedIn(a, Saves) = absSaved /\ absSaved[o] = <<>>
         /\ ChainIn(a, Live \cup {o}, Saves) = Sets!Linked(absChain, l, <<o, 1>>)
<1> DEFINE a == NewNode(Mem, o, l)
           others == Live \cup {o}
           K == Saves
<1>1. Created(Mem, a, <<o, 0>>, l) /\ IsMem(a) /\ Sound(a, level, level)
  BY NewRight
<1>2. /\ Counted(Mem, Live, K)
      /\ absData = DataIn(Mem, Live) /\ absScope = ScopeIn(Mem, Live)
      /\ absSaved = SavedIn(Mem, K) /\ absChain = ChainIn(Mem, Live, K)
  BY AbsBefore
<1>3. o \notin Live
  BY DEF Live
<1> HIDE DEF a, K
<1>4. /\ Counted(a, others, K)
      /\ Changed(Mem, Live, K, a, others, K, o, Default, l, <<>>)
      /\ SavedIn(Mem, K)[o] = <<>>
      /\ \A j : ListOf(a, others, K, j) =
                  IF j = l THEN ListOf(Mem, Live, K, j) \cup {<<o, 1>>} ELSE ListOf(Mem, Live, K, j)
  <2>1. Joined(Mem, Live, K, a, others, o, l)
    BY <1>1, <1>2, <1>3, CreatedAbs
  <2> QED  BY <2>1 DEF Joined
<1>5. l \in Level /\ l <= level
  BY InvRun DEF Level
<1> HIDE DEF others
<1>6. ChainIn(a, others, K) = Sets!Linked(ChainIn(Mem, Live, K), l, <<o, 1>>)
  BY <1>4, <1>5, ChainLinked
<1>7. /\ DataIn(a, others) = [DataIn(Mem, Live) EXCEPT ![o] = Default]
      /\ ScopeIn(a, others) = [ScopeIn(Mem, Live) EXCEPT ![o] = l]
      /\ SavedIn(a, K) = [SavedIn(Mem, K) EXCEPT ![o] = <<>>]
  BY <1>4 DEF Changed
<1>8. SavedIn(a, K) = SavedIn(Mem, K)
  <2>1. SavedIn(Mem, K) = [p \in Obj |-> SavedIn(Mem, K)[p]]
    BY DEF SavedIn
  <2> QED  BY <1>4, <1>7, <2>1
<1> QED  BY <1>1, <1>2, <1>4, <1>6, <1>7, <1>8 DEF a, others, K

\* CDO(context) and CDO(allocatedInCMM, context)
LEMMA ConstructAbs ==
  ASSUME Inv, Inv', NEW o \in Obj, NEW where \in {"heap", "cmm"}, Construct(o, where)
  PROVE  Sets!Construct(o, where)
<1> DEFINE l == IF where = "cmm" THEN level ELSE 0
           a == NewNode(Mem, o, l)
           K == Saves
<1>1. /\ phase = "run" /\ ~Constructed(o) /\ UNCHANGED <<level, target, phase>>
      /\ storage' = [storage EXCEPT ![o] = where] /\ node' = a.node
  BY DEF Construct, Becomes
<1>2. level \in Nat /\ l \in 0..level
  BY <1>1, InvRun
<1> HIDE DEF l
<1>3. /\ Counted(a, Live \cup {o}, K)
      /\ DataIn(a, Live \cup {o}) = [absData EXCEPT ![o] = Default]
      /\ ScopeIn(a, Live \cup {o}) = [absScope EXCEPT ![o] = l]
      /\ SavedIn(a, K) = absSaved
      /\ ChainIn(a, Live \cup {o}, K) = Sets!Linked(absChain, l, <<o, 1>>)
  BY <1>1, <1>2, NewAbs
<1> HIDE DEF a, K
<1>4. Live' = Live \cup {o}
  <2>1. storage \in [Obj -> {"none", "heap", "cmm"}]
    BY DEF Inv, Control
  <2> QED  BY <1>1, <2>1 DEF Live, Constructed
<1>5. /\ absData' = DataIn(a, Live \cup {o}) /\ absScope' = ScopeIn(a, Live \cup {o})
      /\ absSaved' = SavedIn(a, K) /\ absChain' = ChainIn(a, Live \cup {o}, K)
      /\ absDying' = {}
  BY <1>1, <1>3, <1>4, AbsAfter
<1>6. absDying = {}
  BY <1>1, AbsBefore
<1>7. ~Sets!Constructed(o)
  BY <1>1 DEF Constructed, Sets!Constructed
<1> QED  BY <1>1, <1>3, <1>5, <1>6, <1>7 DEF Sets!Construct, l

\* CDO(context, data)
LEMMA ConstructWithAbs ==
  ASSUME Inv, Inv', NEW o \in Obj, NEW v \in Val, ConstructWith(o, v)
  PROVE  Sets!ConstructWith(o, v)
<1> DEFINE a == NewNode(Mem, o, 0)
           q == MakeCurrent(a, o)
           m == [q EXCEPT !.node[<<o, 0>>].data = v]
           K == Saves
           others == Live \cup {o}
<1>1. /\ phase = "run" /\ ~Constructed(o) /\ UNCHANGED <<level, target, phase>>
      /\ storage' = [storage EXCEPT ![o] = "heap"] /\ node' = m.node
  BY DEF ConstructWith, Becomes
<1>2. level \in Nat /\ level \in Level /\ MaxLevel \in Nat /\ 0 \in 0..level
  BY <1>1, InvRun
<1>3. /\ IsMem(a) /\ Sound(a, level, level) /\ Counted(a, others, K)
      /\ DataIn(a, others) = [absData EXCEPT ![o] = Default]
      /\ ScopeIn(a, others) = [absScope EXCEPT ![o] = 0]
      /\ SavedIn(a, K) = absSaved /\ absSaved[o] = <<>>
      /\ ChainIn(a, others, K) = Sets!Linked(absChain, 0, <<o, 1>>)
  BY <1>1, <1>2, NewAbs
<1>4. DOMAIN absData = Obj /\ DOMAIN absScope = Obj /\ o \in others
  BY DEF absData, absScope
<1>5. Live' = others
  <2>1. storage \in [Obj -> {"none", "heap", "cmm"}]
    BY DEF Inv, Control
  <2> QED  BY <1>1, <2>1 DEF Live, Constructed
<1> HIDE DEF a, K, others
<1>6. DataIn(a, others)[o] = Default /\ ScopeIn(a, others)[o] = 0 /\ SavedIn(a, K)[o] = <<>>
  BY <1>3, <1>4
<1> DEFINE s == SavedIn(a, K)[o]
           e == [data |-> DataIn(a, others)[o], scope |-> ScopeIn(a, others)[o]]
<1>a. PICK counts : CurrentAbs(a, others, K, q, counts, o, s, e)
  BY <1>2, <1>3, <1>4, MakeCurrentAbs
<1>7. /\ Counted(q, others, counts)
      /\ DataIn(q, others) = DataIn(a, others)
      /\ \/ /\ ScopeIn(a, others)[o] = level
            /\ ScopeIn(q, others) = ScopeIn(a, others)
            /\ SavedIn(q, counts) = SavedIn(a, K)
            /\ ChainIn(q, others, counts) = ChainIn(a, others, K)
         \/ /\ ScopeIn(a, others)[o] # level
            /\ ScopeIn(q, others) = [ScopeIn(a, others) EXCEPT ![o] = level]
            /\ SavedIn(q, counts) = [SavedIn(a, K) EXCEPT ![o] = Append(s, e)]
            /\ ChainIn(q, others, counts)
                 = Sets!Linked(ChainIn(a, others, K), level, <<o, (Len(s) + 1) + 1>>)
  BY <1>a DEF CurrentAbs
<1>8. IsMem(q) /\ Sound(q, level, level) /\ <<o, 0>> \in DOMAIN q.node
  BY <1>2, <1>3, <1>4, MakeCurrentRight DEF Counted
<1> HIDE DEF q
<1>9. DataWritten(q, m, <<o, 0>>, v)
  BY <1>8, DataRelinks
<1> HIDE DEF m
<1>10. /\ Counted(m, others, counts)
       /\ DataIn(m, others) = [DataIn(q, others) EXCEPT ![o] = v]
       /\ ScopeIn(m, others) = ScopeIn(q, others)
       /\ SavedIn(m, counts) = SavedIn(q, counts)
       /\ ChainIn(m, others, counts) = ChainIn(q, others, counts)
  BY <1>4, <1>7, <1>9, DataAbs DEF ChainIn
<1>11. /\ absData' = DataIn(m, others) /\ absScope' = ScopeIn(m, others)
       /\ absSaved' = SavedIn(m, counts) /\ absChain' = ChainIn(m, others, counts)
       /\ absDying' = {}
  BY <1>1, <1>5, <1>10, AbsAfter
<1>12. absData' = [absData EXCEPT ![o] = v]
  BY <1>3, <1>4, <1>7, <1>10, <1>11
<1>13. /\ absScope' = [absScope EXCEPT ![o] = level]
       /\ IF level = 0
            THEN /\ absChain' = Sets!Linked(absChain, 0, <<o, 1>>)
                 /\ absSaved' = absSaved
            ELSE /\ absChain' = Sets!Linked(Sets!Linked(absChain, 0, <<o, 1>>), level, <<o, 2>>)
                 /\ absSaved' = [absSaved EXCEPT ![o] = <<[data |-> Default, scope |-> 0]>>]
  <2>1. CASE level = 0
    BY <1>3, <1>4, <1>6, <1>7, <1>10, <1>11, <2>1
  <2>2. CASE level # 0
    <3>1. s = <<>> /\ e = [data |-> Default, scope |-> 0]
      BY <1>6
    <3>2. /\ ScopeIn(q, others) = [ScopeIn(a, others) EXCEPT ![o] = level]
          /\ SavedIn(q, counts) = [SavedIn(a, K) EXCEPT ![o] = Append(s, e)]
          /\ ChainIn(q, others, counts)
               = Sets!Linked(ChainIn(a, others, K), level, <<o, (Len(s) + 1) + 1>>)
      BY <1>6, <1>7, <2>2
    <3> HIDE DEF s, e
    <3>3. absScope' = [absScope EXCEPT ![o] = level]
      BY <1>3, <1>4, <1>10, <1>11, <3>2
    <3>4. Append(s, e) = <<[data |-> Default, scope |-> 0]>> /\ (Len(s) + 1) + 1 = 2
      BY <3>1
    <3>5. absSaved' = [absSaved EXCEPT ![o] = <<[data |-> Default, scope |-> 0]>>]
      BY <1>3, <1>10, <1>11, <3>2, <3>4
    <3>6. absChain' = Sets!Linked(Sets!Linked(absChain, 0, <<o, 1>>), level, <<o, 2>>)
      BY <1>3, <1>10, <1>11, <3>2, <3>4
    <3> QED  BY <2>2, <3>3, <3>5, <3>6
  <2> QED  BY <2>1, <2>2
<1>14. absDying = {}
  BY <1>1, AbsBefore
<1>15. ~Sets!Constructed(o)
  BY <1>1 DEF Constructed, Sets!Constructed
<1> QED  BY <1>1, <1>11, <1>12, <1>13, <1>14, <1>15 DEF Sets!ConstructWith

\* ~CDO
LEMMA DestroyAbs ==
  ASSUME Inv, Inv', NEW o \in Obj, Destroy(o)
  PROVE  Sets!Destroy(o)
<1> DEFINE q == DestroyObj(Mem, o)
           K == Saves
           others == Live \ {o}
           counts == [K EXCEPT ![o] = 0]
<1>1. /\ phase = "run" /\ storage[o] = "heap" /\ UNCHANGED <<level, target, phase>>
      /\ storage' = [storage EXCEPT ![o] = "none"] /\ node' = q.node
  BY DEF Destroy, Becomes
<1>2. o \in Live /\ Live' = others
  <2>1. storage \in [Obj -> {"none", "heap", "cmm"}]
    BY DEF Inv, Control
  <2> QED  BY <1>1, <2>1 DEF Live, Constructed
<1>3. level \in Level /\ MaxLevel \in Nat /\ IsMem(Mem) /\ Sound(Mem, level, level)
  BY <1>1, InvRun
<1>4. /\ Counted(Mem, Live, K)
      /\ absData = DataIn(Mem, Live) /\ absScope = ScopeIn(Mem, Live)
      /\ absSaved = SavedIn(Mem, K) /\ absChain = ChainIn(Mem, Live, K)
      /\ absDying = {}
  BY <1>1, AbsBefore
<1>5. /\ Destroyed(Mem, q, o)
      /\ \E cs \in [Obj -> Nat] : Versioned(q, Live \ {o}, cs)
  BY <1>2, <1>3, <1>4, DestroyRelinks DEF Counted
<1> HIDE DEF q, K
<1>6. Versioned(q, Live \ {o}, [K EXCEPT ![o] = 0])
  BY <1>2, <1>4, <1>5, DestroyedCopies
<1>7. \A k \in DOMAIN Mem.node : k[1] # o => /\ q.node[k].data = Mem.node[k].data
                                             /\ q.node[k].scope = Mem.node[k].scope
  BY <1>5 DEF Destroyed
<1>8. /\ Counted(q, others, counts)
      /\ Changed(Mem, Live, K, q, others, counts, o, Default, 0, <<>>)
      /\ \A l : ListOf(q, others, counts, l) =
                  ListOf(Mem, Live, K, l) \ {<<o, i>> : i \in 1..(K[o] + 1)}
  <2>1. LeftOver(Mem, Live, K, q, others, counts, o)
    BY <1>2, <1>4, <1>6, <1>7, GoneAbs
  <2> HIDE DEF others, counts
  <2> QED  BY <2>1 DEF LeftOver
<1> HIDE DEF others, counts
<1>9. /\ absData' = DataIn(q, others) /\ absScope' = ScopeIn(q, others)
      /\ absSaved' = SavedIn(q, counts) /\ absChain' = ChainIn(q, others, counts)
      /\ absDying' = {}
  BY <1>1, <1>2, <1>8, AbsAfter
<1>10. /\ absData' = [absData EXCEPT ![o] = Default] /\ absScope' = [absScope EXCEPT ![o] = 0]
       /\ absSaved' = [absSaved EXCEPT ![o] = <<>>]
  BY <1>4, <1>8, <1>9 DEF Changed
<1>11. K[o] = Len(absSaved[o])
  <2>1. K[o] \in Nat
    BY <1>2, <1>4, CountedNodes
  <2> QED  BY <1>4, <2>1, SavedLength
<1>12. absChain' = [l \in Level |-> absChain[l] \ {<<o, i>> : i \in 1..(Len(absSaved[o]) + 1)}]
  BY <1>4, <1>8, <1>9, <1>11 DEF ChainIn
<1> QED  BY <1>1, <1>4, <1>9, <1>10, <1>12 DEF Sets!Destroy, Sets!Last, Level, Sets!Level

\* The object that ~Scope restores next, seen from Context.
LEMMA FirstAbs ==
  ASSUME Inv, Restore
  PROVE  \E o \in Live :
           /\ head[level + 1] = <<o, 0>> /\ node[<<o, 0>>].scope = level + 1
           /\ Saves[o] # 0 => Mem.node[<<o, Saves[o]>>].scope <= level
           /\ node[<<o, 0>>].restore = Null <=> Saves[o] = 0
           /\ <<o, Saves[o] + 1>> \in absDying
<1>1. phase = "restore" /\ head[level + 1] # Null
  BY DEF Restore
<1>2. /\ Counted(Mem, Live, Saves) /\ Mem.node = node
      /\ absDying = ListOf(Mem, Live, Saves, level + 1)
  BY <1>1, InvAbs, InvRestore DEF AbsState
<1> DEFINE K == Saves
           o == head[level + 1][1]
<1>3. K \in [Obj -> Nat] /\ Versioned(Mem, Live, K)
  BY <1>2 DEF Counted
<1>4. /\ o \in Live /\ head[level + 1] = <<o, 0>> /\ node[head[level + 1]].scope = level + 1
      /\ K[o] # 0 => node[<<o, K[o]>>].scope <= level
  <2> HIDE DEF K
  <2> QED  BY <1>1, <1>3, FirstIsObject
<1> HIDE DEF K, o
<1>5. o \in Obj /\ K[o] \in Nat
  BY <1>3, <1>4 DEF Live
<1>6. node[<<o, 0>>].restore = Null <=> K[o] = 0
  <2>1. node[<<o, 0>>].restore = IF K[o] = 0 THEN Null ELSE <<o, K[o]>>
    BY <1>2, <1>3, <1>4 DEF Versioned
  <2>2. <<o, K[o]>> # Null
    BY <1>5, NullNotId DEF Ids
  <2> QED  BY <2>1, <2>2
<1>7. <<o, K[o] + 1>> \in ListOf(Mem, Live, K, level + 1)
  <2>1. K[o] + 1 \in Nat \ {0}
    BY <1>5
  <2>2. OfScope(Mem, K, o, K[o] + 1, level + 1)
    BY <1>2, <1>4 DEF OfScope
  <2> QED  BY <1>4, <1>5, <2>1, <2>2, OwnVersions
<1> QED  BY <1>2, <1>4, <1>6, <1>7 DEF K

\* restoreAndContinue with a copy to restore, seen from Context.
LEMMA RestoreCopyAbs ==
  ASSUME Inv, Inv', Restore, NEW o \in Live, head[level + 1] = <<o, 0>>,
         node[<<o, 0>>].scope = level + 1, Saves[o] # 0,
         Mem.node[<<o, Saves[o]>>].scope <= level, node[<<o, 0>>].restore # Null,
         <<o, Saves[o] + 1>> \in absDying
  PROVE  Sets!Restore(o)
<1> DEFINE K == Saves
           q == RestoreObj(Mem, o)
           counts == [K EXCEPT ![o] = K[o] - 1]
           s == SavedIn(Mem, K)[o]
<1>1. /\ phase = "restore" /\ UNCHANGED <<level, target, phase>> /\ node' = q.node
      /\ storage' = [storage EXCEPT ![o] = @]
  BY DEF Restore
<1>2. /\ level \in Nat /\ level + 1 \in Nat /\ \A l \in 0..(level + 1) : l \in Level
      /\ IsMem(Mem) /\ Mem.node = node
  BY <1>1, InvRestore
<1>3. /\ Counted(Mem, Live, K)
      /\ absData = DataIn(Mem, Live) /\ absScope = ScopeIn(Mem, Live)
      /\ absSaved = SavedIn(Mem, K) /\ absChain = ChainIn(Mem, Live, K)
      /\ absDying = ListOf(Mem, Live, K, level + 1)
  BY <1>1, InvAbs DEF AbsState, ChainIn
<1> HIDE DEF K
<1>4. o \in Obj /\ K[o] \in Nat /\ K[o] > 0
  <2>1. K[o] # 0
    BY DEF K
  <2> QED  BY <1>3, <2>1, CountedNodes
<1>5. Restored(Mem, q, <<o, 0>>, <<o, K[o]>>)
  <2>1. Advanced.node = Mem.node /\ SoundWithout(Advanced, <<o, 0>>, level, level + 1)
    <3>1. <<o, 0>> # Null
      BY <1>4, NullNotId DEF Ids
    <3> QED  BY <1>1, <1>2, <3>1, AdvancedSound
  <2>2. Mem.node[<<o, K[o]>>].scope <= level
    BY DEF K
  <2>3. Versioned(Mem, Live, K) /\ level <= level + 1
    BY <1>2, <1>3 DEF Counted
  <2> QED  BY <1>2, <1>4, <2>1, <2>2, <2>3, RestoreRelinks
<1> HIDE DEF q
<1>6. Len(s) = K[o] /\ Regained(Mem, Live, K, q, counts, o, s, K[o])
  BY <1>3, <1>4, <1>5, RestoredAbs
<1> HIDE DEF counts, s
<1>7. /\ Counted(q, Live, counts)
      /\ Changed(Mem, Live, K, q, Live, counts, o, s[K[o]].data, s[K[o]].scope,
                 SubSeq(s, 1, K[o] - 1))
      /\ \A l : ListOf(q, Live, counts, l) =
                  ListOf(Mem, Live, K, l) \
                    (IF l = level + 1 THEN {<<o, K[o] + 1>>} ELSE {})
  BY <1>2, <1>6 DEF Regained
<1>8. storage' = storage /\ Live' = Live
  <2>1. storage \in [Obj -> {"none", "heap", "cmm"}]
    BY DEF Inv, Control
  <2>2. storage' = storage
    BY <1>1, <2>1
  <2> QED  BY <2>2 DEF Live, Constructed
<1>9. /\ absData' = DataIn(q, Live) /\ absScope' = ScopeIn(q, Live)
      /\ absSaved' = SavedIn(q, counts) /\ absChain' = ChainIn(q, Live, counts)
      /\ absDying' = ListOf(q, Live, counts, level + 1)
  BY <1>1, <1>7, <1>8, AbsAfter
<1>10. absChain' = absChain
  <2>1. \A l : l <= level => ListOf(q, Live, counts, l) = ListOf(Mem, Live, K, l)
    <3>1. ~(level + 1 <= level)
      BY <1>2
    <3> QED  BY <1>7, <3>1
  <2> QED  BY <1>3, <1>9, <2>1 DEF ChainIn
<1>11. absDying' = absDying \ {<<o, K[o] + 1>>}
  BY <1>3, <1>7, <1>9
<1>12. absSaved[o] = s
  BY <1>3 DEF s
<1>13. /\ absData' = [absData EXCEPT ![o] = s[K[o]].data]
       /\ absScope' = [absScope EXCEPT ![o] = s[K[o]].scope]
       /\ absSaved' = [absSaved EXCEPT ![o] = SubSeq(s, 1, K[o] - 1)]
  BY <1>3, <1>7, <1>9 DEF Changed
<1>14. Sets!RestoreCopy(o)
  BY <1>4, <1>6, <1>8, <1>12, <1>13 DEF Sets!RestoreCopy
<1>15. Sets!Last(o) = K[o] + 1 /\ <<o, K[o] + 1>> \in absDying
  BY <1>6, <1>12 DEF Sets!Last, K
<1> QED  BY <1>1, <1>10, <1>11, <1>14, <1>15 DEF Sets!Restore

\* ... and without: an object of the context memory, which vanishes.
LEMMA RestoreNullAbs ==
  ASSUME Inv, Inv', Restore, NEW o \in Live, head[level + 1] = <<o, 0>>,
         node[<<o, 0>>].scope = level + 1, Saves[o] = 0, node[<<o, 0>>].restore = Null,
         <<o, Saves[o] + 1>> \in absDying
  PROVE  Sets!Restore(o)
<1> DEFINE K == Saves
           q == Drop(Mem, {<<o, 0>>})
           counts == [K EXCEPT ![o] = 0]
           others == Live \ {o}
<1>1. /\ phase = "restore" /\ UNCHANGED <<level, target, phase>> /\ node' = q.node
      /\ storage' = [storage EXCEPT ![o] = "none"]
  BY DEF Restore
<1>2. /\ level \in Nat /\ level + 1 \in Nat /\ \A l \in 0..(level + 1) : l \in Level
      /\ IsMem(Mem) /\ Mem.node = node
  BY <1>1, InvRestore
<1>3. /\ Counted(Mem, Live, K)
      /\ absData = DataIn(Mem, Live) /\ absScope = ScopeIn(Mem, Live)
      /\ absSaved = SavedIn(Mem, K) /\ absChain = ChainIn(Mem, Live, K)
      /\ absDying = ListOf(Mem, Live, K, level + 1)
  BY <1>1, InvAbs DEF AbsState, ChainIn
<1>4. K[o] = 0 /\ <<o, K[o] + 1>> \in absDying
  OBVIOUS
<1> HIDE DEF K
<1>5. o \in Obj /\ K \in [Obj -> Nat] /\ counts = K
  BY <1>3, <1>4 DEF Counted, Live
<1>6. NodesDropped(Mem, q, {<<o, 0>>})
  BY <1>2, DropMem
<1> HIDE DEF q
<1>7. Versioned(q, others, counts)
  BY <1>3, <1>4, <1>5, <1>6, DropVersions DEF Counted
<1>8. \A k \in DOMAIN Mem.node : k[1] # o => /\ q.node[k].data = Mem.node[k].data
                                             /\ q.node[k].scope = Mem.node[k].scope
  <2>1. <<o, 0>>[1] = o
    OBVIOUS
  <2> QED  BY <1>6, <2>1 DEF NodesDropped
<1>9. LeftOver(Mem, Live, K, q, others, counts, o)
  BY <1>3, <1>7, <1>8, GoneAbs
<1> HIDE DEF counts
<1>10. /\ Counted(q, others, counts)
       /\ Changed(Mem, Live, K, q, others, counts, o, Default, 0, <<>>)
       /\ \A l : ListOf(q, others, counts, l) = ListOf(Mem, Live, K, l) \ {<<o, 1>>}
  <2>1. {<<o, i>> : i \in 1..(K[o] + 1)} = {<<o, 1>>}
    BY <1>4
  <2> HIDE DEF others
  <2> QED  BY <1>9, <2>1 DEF LeftOver
<1>11. Live' = others
  <2>1. storage \in [Obj -> {"none", "heap", "cmm"}]
    BY DEF Inv, Control
  <2> QED  BY <1>1, <1>5, <2>1 DEF Live, Constructed
<1> HIDE DEF others
<1>12. /\ absData' = DataIn(q, others) /\ absScope' = ScopeIn(q, others)
       /\ absSaved' = SavedIn(q, counts) /\ absChain' = ChainIn(q, others, counts)
       /\ absDying' = ListOf(q, others, counts, level + 1)
  BY <1>1, <1>10, <1>11, AbsAfter
<1>13. absChain' = absChain
  <2>1. \A l : l <= level => <<o, 1>> \notin ListOf(Mem, Live, K, l)
    <3>1. ASSUME NEW l, <<o, 1>> \in ListOf(Mem, Live, K, l) PROVE l = level + 1
      <4>1. OfScope(Mem, K, o, 1, l)
        <5>1. 1 \in Nat \ {0} /\ K[o] \in Nat
          BY <1>5
        <5> QED  BY <1>5, <3>1, <5>1, OwnVersions
      <4> QED  BY <1>2, <1>4, <4>1 DEF OfScope
    <3>2. ~(level + 1 <= level)
      BY <1>2
    <3> QED  BY <3>1, <3>2
  <2>2. \A l : l <= level => ListOf(q, others, counts, l) = ListOf(Mem, Live, K, l)
    BY <1>10, <2>1
  <2> QED  BY <1>3, <1>12, <2>2 DEF ChainIn
<1>14. absDying' = absDying \ {<<o, K[o] + 1>>}
  BY <1>3, <1>4, <1>10, <1>12
<1>15. absSaved[o] = <<>> /\ DOMAIN absSaved = Obj
  BY <1>3, <1>4, <1>5 DEF SavedIn
<1>16. /\ absData' = [absData EXCEPT ![o] = Default] /\ absScope' = [absScope EXCEPT ![o] = 0]
       /\ absSaved' = absSaved
  <2>1. absSaved' = [absSaved EXCEPT ![o] = <<>>]
    BY <1>3, <1>10, <1>12 DEF Changed
  <2>2. absSaved = [p \in Obj |-> absSaved[p]]
    BY <1>3 DEF SavedIn
  <2>3. absSaved' = absSaved
    BY <1>15, <2>1, <2>2
  <2> QED  BY <1>3, <1>10, <1>12, <2>3 DEF Changed
<1>17. Sets!RestoreNull(o)
  BY <1>1, <1>15, <1>16 DEF Sets!RestoreNull
<1>18. Sets!Last(o) = K[o] + 1
  BY <1>4, <1>15 DEF Sets!Last
<1> QED  BY <1>1, <1>4, <1>13, <1>14, <1>17, <1>18 DEF Sets!Restore

\* One iteration of the loop of ~Scope
LEMMA RestoreAbs ==
  ASSUME Inv, Inv', Restore
  PROVE  \E o \in Obj : Sets!Restore(o)
<1>1. PICK o \in Live :
        /\ head[level + 1] = <<o, 0>> /\ node[<<o, 0>>].scope = level + 1
        /\ Saves[o] # 0 => Mem.node[<<o, Saves[o]>>].scope <= level
        /\ node[<<o, 0>>].restore = Null <=> Saves[o] = 0
        /\ <<o, Saves[o] + 1>> \in absDying
  BY FirstAbs
<1>2. o \in Obj
  BY DEF Live
<1>3. CASE Saves[o] # 0
  BY <1>1, <1>2, <1>3, RestoreCopyAbs
<1>4. CASE Saves[o] = 0
  BY <1>1, <1>2, <1>4, RestoreNullAbs
<1> QED  BY <1>3, <1>4
-----------------------------------------------------------------------------
(* The refinement. *)

\* An empty context stands for an empty context.
LEMMA InitAbs == ASSUME Init PROVE Sets!Init
<1>1. /\ level = 0 /\ target = 0 /\ phase = "run" /\ storage = [o \in Obj |-> "none"]
      /\ node = <<>>
  BY DEF Init
<1>2. Inv
  BY InvInit
<1>3. /\ Counted(Mem, Live, Saves)
      /\ absData = DataIn(Mem, Live) /\ absScope = ScopeIn(Mem, Live)
      /\ absSaved = SavedIn(Mem, Saves) /\ absChain = ChainIn(Mem, Live, Saves)
      /\ absDying = {}
  BY <1>1, <1>2, AbsBefore
<1>4. Live = {}
  BY <1>1 DEF Live, Constructed
<1>5. absData = [o \in Obj |-> Default] /\ absScope = [o \in Obj |-> 0]
  BY <1>3, <1>4 DEF DataIn, ScopeIn
<1>6. absSaved = [o \in Obj |-> <<>>]
  <2> DEFINE K == Saves
  <2>1. \A o \in Obj : K[o] = 0
    BY <1>3, <1>4 DEF Counted
  <2> HIDE DEF K
  <2>2. ASSUME NEW o \in Obj PROVE SavedIn(Mem, K)[o] = <<>>
    BY <2>1 DEF SavedIn
  <2>3. SavedIn(Mem, K) = [o \in Obj |-> SavedIn(Mem, K)[o]]
    BY DEF SavedIn
  <2>4. SavedIn(Mem, K) = [o \in Obj |-> <<>>]
    BY <2>2, <2>3
  <2> QED  BY <1>3, <2>4 DEF K
<1>7. absChain = [l \in Level |-> {}]
  <2>1. \A l : ListOf(Mem, Live, Saves, l) = {}
    BY <1>4 DEF ListOf, Versions
  <2> QED  BY <1>3, <2>1 DEF ChainIn
<1> QED  BY <1>1, <1>3, <1>5, <1>6, <1>7 DEF Sets!Init, Level, Sets!Level

\* A step that leaves the lists alone leaves the sets alone.
LEMMA UnchangedAbs == ASSUME Inv, Inv', UNCHANGED vars PROVE UNCHANGED Sets!vars
<1>1. UNCHANGED <<level, storage, node, head, target, phase>>
  BY DEF vars
<1>2. /\ UNCHANGED <<absData, absScope, absSaved>> /\ ListsAt(level', phase')
  BY <1>1, StillAbs
<1>3. absChain' = absChain /\ absDying' = absDying
  <2>1. level' = level /\ phase' = phase
    BY <1>1
  <2>2. ListsAt(level, phase)
    BY <1>2, <2>1
  <2> QED  BY <2>2, InvAbs DEF ListsAt, AbsState
<1> QED  BY <1>1, <1>2, <1>3 DEF Sets!vars

\* Every step of the lists is a step of the sets, or leaves them alone.
LEMMA NextRefines ==
  ASSUME Inv, Inv', [Next]_vars
  PROVE  [Sets!Next]_(Sets!vars)
<1>1. CASE Push
  BY <1>1, PushAbs DEF Sets!Next
<1>2. ASSUME NEW t \in Level, PopTo(t) PROVE Sets!Next
  BY <1>2, PopToAbs DEF Sets!Next, Level, Sets!Level
<1>3. CASE Restore
  BY <1>3, RestoreAbs DEF Sets!Next
<1>4. CASE ScopeDeleted
  BY <1>4, ScopeDeletedAbs DEF Sets!Next
<1>5. ASSUME NEW o \in Obj, Construct(o, "heap") \/ Construct(o, "cmm") PROVE Sets!Next
  BY <1>5, ConstructAbs DEF Sets!Next
<1>6. ASSUME NEW o \in Obj, Destroy(o) PROVE Sets!Next
  BY <1>6, DestroyAbs DEF Sets!Next
<1>7. ASSUME NEW o \in Obj, NEW v \in Val, Set(o, v) \/ ConstructWith(o, v) PROVE Sets!Next
  <2>1. v \in Val \cup {Default}
    OBVIOUS
  <2>2. Sets!Set(o, v) \/ Sets!ConstructWith(o, v)
    BY <1>7, SetAbs, ConstructWithAbs
  <2> QED  BY <2>1, <2>2 DEF Sets!Next
<1>8. CASE UNCHANGED vars
  BY <1>8, UnchangedAbs
<1> QED  BY <1>1, <1>2, <1>3, <1>4, <1>5, <1>6, <1>7, <1>8 DEF Next

\* The linked lists implement the sets of versions of Context: through any interleaving of
\* saves, constructions, destructions and deleted scopes, relinking in ContextObj and Scope
\* never loses a version, restores one twice, or puts one back on the wrong list.
THEOREM ListsImplementSets == Spec => ImplementsContext
<1>1. Init => Sets!Init
  BY InitAbs
<1>2. Inv /\ Inv' /\ [Next]_vars => [Sets!Next]_(Sets!vars)
  BY NextRefines
<1> QED  BY <1>1, <1>2, InvHolds, PTL DEF Spec, ImplementsContext, Sets!Spec
-----------------------------------------------------------------------------
(* The objects to be notified. *)


\* The object that the walk will come to next.
Cursor == IF inCallback THEN stored ELSE pCNO

\* Each list is sorted by rank, largest first, and has all its objects.
Sorted(rank) ==
  /\ \A o \in alive :
       /\ next[o] # NULL => next[o] \in alive /\ list[next[o]] = list[o] /\ rank[next[o]] < rank[o]
       /\ \A p \in alive :
            list[p] = list[o] /\ rank[p] < rank[o] => next[o] # NULL /\ rank[p] <= rank[next[o]]
       /\ \A p \in alive : list[p] = list[o] /\ rank[p] = rank[o] => p = o
  /\ \A l \in Lists : d_pCNO[l] # NULL => d_pCNO[l] \in alive /\ list[d_pCNO[l]] = l
  /\ \A p \in alive : d_pCNO[list[p]] # NULL /\ rank[p] <= rank[d_pCNO[list[p]]]

\* Whether the walk has still to come to o.
Ahead(rank, o) == Cursor # NULL /\ rank[o] <= rank[Cursor]

\* The walk of a list: the objects ahead are not notified, those that were
\* there from the start and are not ahead are.
Walked(rank) ==
  /\ Cursor # NULL => Cursor \in alive /\ list[Cursor] = walking
  /\ \A o \in alive : list[o] = walking =>
       IF Ahead(rank, o) THEN told[o] = 0 ELSE o \in due => told[o] = 1

\* The lists while the context exists.
NotifyLinked ==
  \E rank \in [NotifyObj -> Nat] : Sorted(rank) /\ (walking # "idle" => Walked(rank))

\* Where pop() is: what the phases before and after this one have notified.
Progress ==
  /\ \A o \in alive : told[o] <= 1
  /\ walking = "pre" => pushes > 0 /\ \A o \in alive : list[o] = "post" => told[o] = 0
  /\ walking = "post" => \A o \in due : list[o] = "pre" => told[o] = 1
  /\ walking = "idle" => \A o \in due : told[o] = 1
  /\ walking = "idle" => ~inCallback
  /\ walking # "idle" => context # "gone"
  /\ inCallback => pCNO # NULL /\ stored # pCNO

\* The inductive invariant.
NotifyingInv ==
  /\ TypeOK /\ NoWildAccess /\ NotifyListsLinked /\ Progress
  /\ context # "gone" => NotifyLinked
  /\ context = "gone" => \A o \in alive : next[o] = NULL /\ prev[o] = NULL

-----------------------------------------------------------------------------
\* The invariant holds at first.
LEMMA InitInv == ASSUME ContextNotifyAssumption, NotifyInit PROVE NotifyingInv
<1>1. TypeOK
  <2>1. /\ d_pCNO \in [Lists -> NotifyObj \cup {NULL}] /\ next \in [NotifyObj -> NotifyObj \cup {NULL}]
        /\ prev \in [NotifyObj -> NotifyObj \cup Lists \cup {NULL}]
    BY DEF NotifyInit
  <2>2. list \in [NotifyObj -> Lists] /\ told \in [NotifyObj -> 0..2] 
    BY DEF NotifyInit, Lists
  <2>3. alive \subseteq NotifyObj /\ due \subseteq alive /\ {pCNO, stored} \subseteq NotifyObj \cup {NULL}
    BY DEF NotifyInit
  <2>4. pushes \in 0..MaxPushes /\ walking \in Lists \cup {"idle"} /\ context \in {"alive", "closing", "gone"}
    BY DEF NotifyInit, ContextNotifyAssumption
  <2>5. inCallback \in BOOLEAN /\ wild \in BOOLEAN
    BY Zenon DEF NotifyInit
  <2> QED  BY <2>1, <2>2, <2>3, <2>4, <2>5 DEF TypeOK
<1>2. NoWildAccess /\ NotifyListsLinked /\ Progress
  BY DEF NotifyInit, NoWildAccess, NotifyListsLinked, Progress
<1>3. NotifyLinked
  <2>1. [o \in NotifyObj |-> 0] \in [NotifyObj -> Nat]
    OBVIOUS
  <2>2. Sorted([o \in NotifyObj |-> 0])
    BY DEF NotifyInit, Sorted
  <2> QED  BY <2>1, <2>2 DEF NotifyLinked, NotifyInit
<1> QED  BY <1>1, <1>2, <1>3 DEF NotifyingInv, NotifyInit
\* Steps that leave the lists and the walk alone.
LEMMA SameLists ==
  ASSUME NotifyingInv, UNCHANGED <<links, alive, list, walk, due, told, wild>>, TypeOK',
         context' = "gone" <=> context = "gone", walking = "idle" \/ UNCHANGED pushes
  PROVE  NotifyingInv'
<1>1. UNCHANGED <<d_pCNO, next, prev, alive, list, walking, pCNO, stored, inCallback, due, told, wild>>
  BY DEF links, walk
<1>2. NoWildAccess' /\ NotifyListsLinked' /\ Progress'
  BY <1>1 DEF NotifyingInv, NoWildAccess, NotifyListsLinked, Progress
<1>3. ASSUME context' # "gone"
      PROVE  NotifyLinked'
  <2>1. PICK rank \in [NotifyObj -> Nat] : Sorted(rank) /\ (walking # "idle" => Walked(rank))
    BY <1>3 DEF NotifyingInv, NotifyLinked
  <2>2. Sorted(rank)'
    BY <1>1, <2>1 DEF Sorted
  <2>3. walking # "idle" => Walked(rank)'
    BY <1>1, <2>1 DEF Walked, Ahead, Cursor
  <2> QED  BY <1>1, <2>2, <2>3 DEF NotifyLinked
<1> QED  BY <1>1, <1>2, <1>3 DEF NotifyingInv

\* A push preserves it.
LEMMA PushInv == ASSUME ContextNotifyAssumption, NotifyingInv, push PROVE NotifyingInv'
<1>1. TypeOK'
  <2>1. pushes' \in 0..MaxPushes
    BY DEF ContextNotifyAssumption, NotifyingInv, TypeOK, push
  <2> QED  BY <2>1 DEF NotifyingInv, TypeOK, push, links, walk
<1> QED  BY <1>1, SameLists DEF push

\* So does the end of the scope's life.
LEMMA CloseInv == ASSUME NotifyingInv, Close PROVE NotifyingInv'
<1>1. TypeOK'
  BY DEF NotifyingInv, TypeOK, Close, links, walk
<1> QED  BY <1>1, SameLists DEF Close

\* So does a step that changes nothing.
LEMMA StutterInv == ASSUME NotifyingInv, UNCHANGED notifyVars PROVE NotifyingInv'
<1>1. TypeOK'
  BY DEF NotifyingInv, TypeOK, notifyVars
<1> QED  BY <1>1, SameLists DEF notifyVars, links, walk

-----------------------------------------------------------------------------
(* The steps of pop(). *)

\* Steps that walk on: neither the lists nor the objects change.
LEMMA WalkStep ==
  ASSUME NotifyingInv, UNCHANGED <<links, alive, list, context, due, wild>>, TypeOK', Progress',
         context # "gone",
         \A rank \in [NotifyObj -> Nat] :
           Sorted(rank) /\ (walking # "idle" => Walked(rank)) => (walking' # "idle" => Walked(rank)')
  PROVE  NotifyingInv'
<1>1. UNCHANGED <<d_pCNO, next, prev, alive, list, context, due, wild>>
  BY DEF links
<1>2. NoWildAccess' /\ NotifyListsLinked'
  BY <1>1 DEF NotifyingInv, NoWildAccess, NotifyListsLinked
<1>3. NotifyLinked'
  <2>1. PICK rank \in [NotifyObj -> Nat] : Sorted(rank) /\ (walking # "idle" => Walked(rank))
    BY DEF NotifyingInv, NotifyLinked
  <2>2. Sorted(rank)'
    BY <1>1, <2>1 DEF Sorted
  <2> QED  BY <2>1, <2>2 DEF NotifyLinked
<1> QED  BY <1>1, <1>2, <1>3 DEF NotifyingInv

\* So does the beginning of a pop.
LEMMA StartPopInv == ASSUME NotifyingInv, StartPop PROVE NotifyingInv'
<1>1. TypeOK'
  <2>1. told' \in [NotifyObj -> 0..2] /\ due' \subseteq alive'
    BY DEF NotifyingInv, TypeOK, StartPop
  <2>2. walking' \in Lists \cup {"idle"} /\ {pCNO', stored'} \subseteq NotifyObj \cup {NULL}
    BY DEF NotifyingInv, TypeOK, StartPop, Lists
  <2> QED  BY <2>1, <2>2 DEF NotifyingInv, TypeOK, StartPop, links
<1>2. Progress'
  BY DEF NotifyingInv, TypeOK, Progress, StartPop, CanPop
<1>3. UNCHANGED <<d_pCNO, next, prev, alive, list, context, wild, inCallback, stored>> /\ ~inCallback
  BY DEF StartPop, links, NotifyingInv, Progress
<1>4. NoWildAccess' /\ NotifyListsLinked'
  BY <1>3 DEF NotifyingInv, NoWildAccess, NotifyListsLinked
<1>5. NotifyLinked'
  <2>1. PICK rank \in [NotifyObj -> Nat] : Sorted(rank)
    BY DEF NotifyingInv, NotifyLinked, StartPop
  <2>2. Sorted(rank)'
    BY <1>3, <2>1 DEF Sorted
  <2>3. Cursor' = d_pCNO["pre"] /\ walking' = "pre" /\ told' = [o \in NotifyObj |-> 0]
    BY <1>3 DEF Cursor, StartPop
  <2>4. Walked(rank)'
    BY <1>3, <2>1, <2>3 DEF Walked, Ahead, Sorted, Lists, NotifyingInv, TypeOK
  <2> QED  BY <2>2, <2>4 DEF NotifyLinked
<1> QED  BY <1>1, <1>2, <1>3, <1>4, <1>5 DEF NotifyingInv, StartPop

\* The walk comes to objects that exist and are not notified yet.
LEMMA NotifyInv == ASSUME NotifyingInv, Notify PROVE NotifyingInv'
<1>1. PICK r \in [NotifyObj -> Nat] : Sorted(r) /\ Walked(r)
  BY DEF NotifyingInv, NotifyLinked, Notify, Progress
<1>2. Cursor = pCNO /\ pCNO \in alive /\ list[pCNO] = walking /\ pCNO \in NotifyObj
  BY <1>1 DEF Walked, Cursor, Notify, NotifyingInv, TypeOK
<1>3. told[pCNO] = 0
  <2>1. r[pCNO] <= r[pCNO] /\ pCNO # NULL
    BY <1>2 DEF Notify
  <2> QED  BY <1>1, <1>2, <2>1 DEF Walked, Ahead
<1>4. told' = [told EXCEPT ![pCNO] = 1]
  BY <1>3 DEF Notify
<1>5. UNCHANGED <<d_pCNO, next, prev, alive, list, pushes, walking, pCNO, context, due>>
  BY DEF Notify, links
<1>6. wild' = wild
  BY <1>2 DEF Notify, NotifyingInv, NoWildAccess, TypeOK
<1>7. TypeOK'
  <2>1. told' \in [NotifyObj -> 0..2]
    <3>1. told \in [NotifyObj -> 0..2] /\ 1 \in 0..2
      BY DEF NotifyingInv, TypeOK
    <3> QED  BY <1>4, <3>1
  <2>2. stored' \in NotifyObj \cup {NULL} /\ inCallback' \in BOOLEAN
    BY <1>2 DEF NotifyingInv, TypeOK, Notify
  <2> QED  BY <1>5, <1>6, <2>1, <2>2 DEF NotifyingInv, TypeOK
<1>8. Progress'
  <2>1. next[pCNO] # pCNO
    <3>1. r[pCNO] \in Nat /\ pCNO # NULL
      BY <1>2 DEF Notify
    <3> QED  BY <1>1, <1>2, <3>1 DEF Sorted
  <2>2. \A o \in NotifyObj : told'[o] = IF o = pCNO THEN 1 ELSE told[o]
    BY <1>4 DEF NotifyingInv, TypeOK
  <2>3. walking # "idle" /\ pCNO # NULL /\ inCallback' /\ stored' = next[pCNO]
    BY DEF Notify
  <2>4. \A o \in alive : o \in NotifyObj
    BY DEF NotifyingInv, TypeOK
  <2> QED  BY <1>2, <1>5, <2>1, <2>2, <2>3, <2>4 DEF NotifyingInv, Progress, TypeOK
<1>9. ASSUME NEW rank \in [NotifyObj -> Nat], Sorted(rank), Walked(rank)
      PROVE  Walked(rank)'
  <2>1. Cursor' = next[pCNO]
    BY DEF Cursor, Notify
  <2>2. Cursor' # NULL => Cursor' \in alive' /\ list'[Cursor'] = walking'
    BY <1>2, <1>5, <1>9, <2>1 DEF Sorted
  <2>3. ASSUME NEW o \in alive, list[o] = walking
        PROVE  IF Ahead(rank, o)' THEN told'[o] = 0 ELSE o \in due => told'[o] = 1
    <3>1. o \in NotifyObj /\ told'[o] = IF o = pCNO THEN 1 ELSE told[o]
      BY <1>4 DEF NotifyingInv, TypeOK
    <3>2. rank[o] \in Nat /\ rank[pCNO] \in Nat /\ pCNO # NULL
      BY <1>2, <3>1 DEF Notify
    <3>3. Ahead(rank, o) <=> rank[o] <= rank[pCNO]
      BY <1>2, <3>2 DEF Ahead
    <3>4. Ahead(rank, o)' <=> next[pCNO] # NULL /\ rank[o] <= rank[next[pCNO]]
      BY <2>1 DEF Ahead
    <3>5. next[pCNO] # NULL => rank[next[pCNO]] < rank[pCNO] /\ rank[next[pCNO]] \in Nat
      BY <1>2, <1>9 DEF Sorted, NotifyingInv, TypeOK
    <3>6. CASE Ahead(rank, o)'
      BY <1>9, <3>1, <3>2, <3>3, <3>4, <3>5, <3>6, <2>3 DEF Walked
    <3>7. CASE ~Ahead(rank, o)' /\ o = pCNO
      BY <3>1, <3>7
    <3>8. CASE ~Ahead(rank, o)' /\ o # pCNO
      <4>1. ~(rank[o] < rank[pCNO]) /\ rank[o] # rank[pCNO]
        BY <1>2, <1>9, <2>3, <3>4, <3>8 DEF Sorted
      <4> QED  BY <1>9, <2>3, <3>1, <3>2, <3>3, <3>8, <4>1 DEF Walked
    <3> QED  BY <3>6, <3>7, <3>8
  <2> QED  BY <1>5, <2>2, <2>3 DEF Walked
<1>10. context # "gone" /\ walking # "idle"
  BY DEF NotifyingInv, Progress, Notify
<1> QED  BY <1>5, <1>6, <1>7, <1>8, <1>9, <1>10, WalkStep DEF links

\* So does the return of a notification.
LEMMA ReturnInv == ASSUME NotifyingInv, Return PROVE NotifyingInv'
<1>1. UNCHANGED <<d_pCNO, next, prev, alive, list, pushes, walking, context, due, told, wild>>
  BY DEF Return, Continue, links
<1>2. pCNO' = stored /\ ~inCallback' /\ inCallback /\ stored' = NULL /\ inCallback' = FALSE
  BY Zenon DEF Return, Continue
<1>3. TypeOK'
  <2>1. {pCNO', stored'} \subseteq NotifyObj \cup {NULL} /\ inCallback' \in BOOLEAN
    BY <1>2 DEF NotifyingInv, TypeOK
  <2> QED  BY <1>1, <2>1 DEF NotifyingInv, TypeOK
<1>4. Progress'
  BY <1>1, <1>2 DEF NotifyingInv, Progress
<1>5. Cursor' = Cursor
  BY <1>2 DEF Cursor
<1>6. ASSUME NEW rank \in [NotifyObj -> Nat], Walked(rank)
      PROVE  Walked(rank)'
  BY <1>1, <1>5, <1>6 DEF Walked, Ahead
<1>7. context # "gone" /\ walking # "idle"
  BY <1>2 DEF NotifyingInv, Progress
<1> QED  BY <1>1, <1>3, <1>4, <1>6, <1>7, WalkStep DEF links

\* The first list is finished: all of it has been notified.
LEMMA RestoreInv == ASSUME ContextNotifyAssumption, NotifyingInv, RestoreScope PROVE NotifyingInv'
<1>1. UNCHANGED <<d_pCNO, next, prev, alive, list, stored, inCallback, context, due, told, wild>>
  BY DEF RestoreScope, links
<1>2. walking = "pre" /\ walking' = "post" /\ pCNO' = d_pCNO["post"] /\ Cursor = NULL /\ Cursor' = d_pCNO["post"]
      /\ ~inCallback
  BY <1>1 DEF RestoreScope, SecondList, Cursor
<1>3. TypeOK'
  <2>1. pushes' \in 0..MaxPushes
    BY DEF ContextNotifyAssumption, NotifyingInv, TypeOK, Progress, RestoreScope
  <2>2. walking' \in Lists \cup {"idle"} /\ {pCNO', stored'} \subseteq NotifyObj \cup {NULL}
    BY <1>1, <1>2 DEF NotifyingInv, TypeOK, Lists
  <2> QED  BY <1>1, <2>1, <2>2 DEF NotifyingInv, TypeOK
<1>4. Progress'
  <2>1. PICK r \in [NotifyObj -> Nat] : Walked(r)
    BY <1>2 DEF NotifyingInv, NotifyLinked, Progress
  <2>2. \A o \in due : list[o] = "pre" => told[o] = 1
    BY <1>2, <2>1 DEF Walked, Ahead, NotifyingInv, TypeOK
  <2> QED  BY <1>1, <1>2, <2>2 DEF NotifyingInv, Progress
<1>5. ASSUME NEW rank \in [NotifyObj -> Nat], Sorted(rank)
      PROVE  Walked(rank)'
  BY <1>1, <1>2, <1>5 DEF Walked, Ahead, Sorted, Lists, NotifyingInv, Progress
<1>6. context # "gone" /\ walking # "idle"
  BY <1>2 DEF NotifyingInv, Progress
<1> QED  BY <1>1, <1>3, <1>4, <1>5, <1>6, WalkStep DEF links

\* The second list is finished.
LEMMA EndPopInv == ASSUME NotifyingInv, EndPop PROVE NotifyingInv'
<1>1. UNCHANGED <<d_pCNO, next, prev, alive, list, pushes, pCNO, stored, inCallback, context, due, told, wild>>
  BY DEF EndPop, links
<1>2. walking = "post" /\ walking' = "idle" /\ Cursor = NULL /\ ~inCallback
  BY DEF EndPop, Cursor
<1>3. TypeOK'
  BY <1>1, <1>2 DEF NotifyingInv, TypeOK
<1>4. Progress'
  <2>1. PICK r \in [NotifyObj -> Nat] : Walked(r)
    BY <1>2 DEF NotifyingInv, NotifyLinked, Progress
  <2>2. \A o \in due : list[o] = "post" => told[o] = 1
    BY <1>2, <2>1 DEF Walked, Ahead, NotifyingInv, TypeOK
  <2>3. \A o \in due : list[o] = "pre" \/ list[o] = "post"
    BY DEF NotifyingInv, TypeOK, Lists
  <2> QED  BY <1>1, <1>2, <2>2, <2>3 DEF NotifyingInv, Progress
<1>5. context # "gone"
  BY <1>2 DEF NotifyingInv, Progress
<1> QED  BY <1>1, <1>2, <1>3, <1>4, <1>5, WalkStep DEF links

\* So does the end of an object.
LEMMA GoneInv == ASSUME NotifyingInv, Gone PROVE NotifyingInv'
<1>1. UNCHANGED <<alive, list, pushes, walking, pCNO, stored, inCallback, due, told, wild>>
  BY DEF Gone, walk
<1>2. context' = "gone" /\ walking = "idle"
  BY DEF Gone
<1>3. TypeOK'
  <2>1. next' \in [NotifyObj -> NotifyObj \cup {NULL}] /\ prev' \in [NotifyObj -> NotifyObj \cup Lists \cup {NULL}]
    BY DEF NotifyingInv, TypeOK, Gone, Forget
  <2>2. d_pCNO' \in [Lists -> NotifyObj \cup {NULL}]
    BY DEF Gone
  <2> QED  BY <1>1, <1>2, <2>1, <2>2 DEF NotifyingInv, TypeOK
<1>4. \A o \in alive' : next'[o] = NULL /\ prev'[o] = NULL
  BY <1>1 DEF Gone, Forget, NotifyingInv, TypeOK
<1>5. NoWildAccess' /\ NotifyListsLinked' /\ Progress'
  BY <1>1, <1>2 DEF NotifyingInv, NoWildAccess, NotifyListsLinked, Progress
<1> QED  BY <1>2, <1>3, <1>4, <1>5 DEF NotifyingInv
-----------------------------------------------------------------------------
(* Clients create and delete objects, between operations and in callbacks. *)

\* So does the beginning of one.
LEMMA NewInv ==
  ASSUME ContextNotifyAssumption, NotifyingInv, NEW o \in NotifyObj, NEW l \in Lists, New(o, l)
  PROVE  NotifyingInv'
<1> DEFINE H == d_pCNO[l]
<1>1. UNCHANGED <<pushes, walking, pCNO, stored, inCallback, context, due>>
  BY DEF New, walk
<1>2. /\ context # "gone" /\ o \notin alive /\ alive' = alive \cup {o}
      /\ list' = [list EXCEPT ![o] = l] /\ told' = [told EXCEPT ![o] = 0]
  BY DEF New
<1>3. /\ prev' = [p \in NotifyObj |-> IF p = o THEN l ELSE IF p = H THEN o ELSE prev[p]]
      /\ next' = [next EXCEPT ![o] = H] /\ d_pCNO' = [d_pCNO EXCEPT ![l] = o]
  BY DEF New, addNotifyObj
<1>4. H \in NotifyObj \cup {NULL} /\ (H # NULL => H \in alive /\ prev[H] = l)
  BY <1>2 DEF NotifyingInv, TypeOK, NotifyListsLinked
<1>5. ~wild'
  BY <1>2, <1>4 DEF New, addNotifyObj, NotifyingInv, NoWildAccess
<1>6. /\ alive \subseteq NotifyObj /\ due \subseteq alive /\ list \in [NotifyObj -> Lists] /\ told \in [NotifyObj -> 0..2]
      /\ next \in [NotifyObj -> NotifyObj \cup {NULL}] /\ d_pCNO \in [Lists -> NotifyObj \cup {NULL}]
      /\ prev \in [NotifyObj -> NotifyObj \cup Lists \cup {NULL}]
  BY DEF NotifyingInv, TypeOK
<1>7. NULL \notin NotifyObj /\ NotifyObj \cap Lists = {} /\ NULL \notin Lists
  BY DEF ContextNotifyAssumption
<1>8. /\ \A p \in NotifyObj : list'[p] = IF p = o THEN l ELSE list[p]
      /\ \A p \in NotifyObj : next'[p] = IF p = o THEN H ELSE next[p]
      /\ \A p \in NotifyObj : prev'[p] = IF p = o THEN l ELSE IF p = H THEN o ELSE prev[p]
      /\ \A k \in Lists : d_pCNO'[k] = IF k = l THEN o ELSE d_pCNO[k]
      /\ \A p \in NotifyObj : told'[p] = IF p = o THEN 0 ELSE told[p]
  BY <1>2, <1>3, <1>6
<1>9. TypeOK'
  <2>1. told' \in [NotifyObj -> 0..2]
    <3>1. 0 \in 0..2
      OBVIOUS
    <3> QED  BY <1>2, <1>6, <3>1
  <2>2. list' \in [NotifyObj -> Lists] /\ alive' \subseteq NotifyObj /\ due' \subseteq alive'
    BY <1>1, <1>2, <1>6
  <2>3. /\ d_pCNO' \in [Lists -> NotifyObj \cup {NULL}] /\ next' \in [NotifyObj -> NotifyObj \cup {NULL}]
        /\ prev' \in [NotifyObj -> NotifyObj \cup Lists \cup {NULL}]
    BY <1>3, <1>4, <1>6
  <2>4. wild' \in BOOLEAN
    BY Zenon DEF New, addNotifyObj
  <2> QED  BY <1>1, <2>1, <2>2, <2>3, <2>4 DEF NotifyingInv, TypeOK
<1> HIDE DEF H
<1>10. NotifyListsLinked'
  <2>1. \A p \in alive : /\ prev[p] \in alive \cup {list[p]}
                         /\ (IF prev[p] \in NotifyObj THEN next[prev[p]] ELSE d_pCNO[prev[p]]) = p
                         /\ next[p] # NULL => next[p] \in alive /\ prev[next[p]] = p /\ list[next[p]] = list[p]
    BY <1>2 DEF NotifyingInv, NotifyListsLinked
  <2>2. \A k \in Lists : d_pCNO[k] # NULL => d_pCNO[k] \in alive /\ prev[d_pCNO[k]] = k
    BY <1>2 DEF NotifyingInv, NotifyListsLinked
  <2>3. H = d_pCNO[l]
    BY DEF H
  <2>4. ASSUME NEW p \in alive', p # o
        PROVE  /\ prev'[p] \in alive' \cup {list'[p]}
               /\ (IF prev'[p] \in NotifyObj THEN next'[prev'[p]] ELSE d_pCNO'[prev'[p]]) = p
               /\ next'[p] # NULL => next'[p] \in alive' /\ prev'[next'[p]] = p /\ list'[next'[p]] = list'[p]
    <3>1. p \in alive /\ p \in NotifyObj /\ list[p] \in Lists
      BY <1>2, <1>6, <2>4
    <3>2. CASE p = H
      BY <1>2, <1>4, <1>6, <1>7, <1>8, <2>1, <2>3, <2>4, <3>1, <3>2
    <3>3. CASE p # H
      <4>1. prev'[p] = prev[p] /\ next'[p] = next[p] /\ list'[p] = list[p]
        BY <1>8, <2>4, <3>1, <3>3
      <4>2. prev[p] \in alive => next'[prev[p]] = p /\ prev[p] \in NotifyObj
        BY <1>2, <1>6, <1>8, <2>1, <3>1
      <4>3. prev[p] \in Lists => d_pCNO'[prev[p]] = p /\ prev[p] \notin NotifyObj
        BY <1>6, <1>7, <1>8, <2>1, <2>3, <3>1, <3>3
      <4>4. next[p] # NULL => next[p] \in alive /\ next[p] # o /\ next[p] # H /\ next[p] \in NotifyObj
        BY <1>2, <1>4, <1>6, <1>7, <2>1, <3>1
      <4> QED  BY <1>2, <1>8, <2>1, <3>1, <4>1, <4>2, <4>3, <4>4
    <3> QED  BY <3>2, <3>3
  <2>5. /\ prev'[o] \in alive' \cup {list'[o]}
        /\ (IF prev'[o] \in NotifyObj THEN next'[prev'[o]] ELSE d_pCNO'[prev'[o]]) = o
        /\ next'[o] # NULL => next'[o] \in alive' /\ prev'[next'[o]] = o /\ list'[next'[o]] = list'[o]
    <3>1. H # NULL => list[H] = l
      BY <1>4, <1>6, <1>7, <2>1
    <3> QED  BY <1>2, <1>4, <1>6, <1>7, <1>8, <3>1
  <2>6. \A k \in Lists : d_pCNO'[k] # NULL => d_pCNO'[k] \in alive' /\ prev'[d_pCNO'[k]] = k
    <3>1. ASSUME NEW k \in Lists, k # l, d_pCNO[k] # NULL
          PROVE  d_pCNO[k] \in alive /\ d_pCNO[k] # H /\ d_pCNO[k] # o
      BY <1>2, <1>4, <2>2, <3>1
    <3> QED  BY <1>2, <1>6, <1>8, <2>2, <3>1
  <2> QED  BY <2>4, <2>5, <2>6 DEF NotifyListsLinked
<1>11. Progress'
  BY <1>1, <1>2, <1>6, <1>8 DEF NotifyingInv, Progress
<1>12. NotifyLinked'
  <2>1. PICK r \in [NotifyObj -> Nat] : Sorted(r) /\ (walking # "idle" => Walked(r))
    BY <1>2 DEF NotifyingInv, NotifyLinked
  <2>2. PICK top \in Nat : top = IF H = NULL THEN 0 ELSE r[H] + 1
    BY <1>4
  <2>3. PICK q \in [NotifyObj -> Nat] : \A p \in NotifyObj : q[p] = IF p = o THEN top ELSE r[p]
    <3>1. [r EXCEPT ![o] = top] \in [NotifyObj -> Nat]
      OBVIOUS
    <3> QED  BY <3>1
  <2>4. \A p \in alive : list[p] = l => H # NULL /\ r[p] < top /\ r[p] \in Nat
    BY <1>4, <1>6, <2>1, <2>2 DEF Sorted, H
  <2>5. H # NULL => list[H] = l /\ r[H] < top /\ H # o /\ r[H] \in Nat
    BY <1>2, <1>4, <2>1, <2>2 DEF Sorted, H
  <2>6. Sorted(q)'
    <3>1. ASSUME NEW p \in alive'
          PROVE  /\ next'[p] # NULL => next'[p] \in alive' /\ list'[next'[p]] = list'[p] /\ q[next'[p]] < q[p]
                 /\ \A x \in alive' : list'[x] = list'[p] /\ q[x] < q[p]
                                        => next'[p] # NULL /\ q[x] <= q[next'[p]]
                 /\ \A x \in alive' : list'[x] = list'[p] /\ q[x] = q[p] => x = p
                 /\ d_pCNO'[list'[p]] # NULL /\ q[p] <= q[d_pCNO'[list'[p]]]
      <4>1. CASE p = o
        <5>1. list'[p] = l /\ next'[p] = H /\ q[p] = top /\ d_pCNO'[l] = o
          BY <1>8, <2>3, <4>1
        <5>2. H # NULL => H \in alive' /\ list'[H] = l /\ q[H] = r[H]
          BY <1>2, <1>4, <1>6, <1>8, <2>3, <2>5
        <5>3. ASSUME NEW x \in alive', list'[x] = l, x # o
              PROVE  q[x] = r[x] /\ H # NULL /\ r[x] < top /\ r[x] <= r[H]
          <6>1. x \in alive /\ x \in NotifyObj /\ list[x] = l
            BY <1>2, <1>6, <1>8, <5>3
          <6>2. r[x] <= r[d_pCNO[l]]
            BY <2>1, <6>1 DEF Sorted
          <6> QED  BY <2>3, <2>4, <5>3, <6>1, <6>2 DEF H
        <5>4. top \in Nat /\ o \in NotifyObj /\ o # NULL
          BY <1>7, <2>2
        <5>5. \A x \in alive' : list'[x] = l /\ x # o => r[x] \in Nat
          BY <1>2, <1>6
        <5> QED  BY <1>7, <2>3, <2>5, <4>1, <5>1, <5>2, <5>3, <5>4, <5>5
      <4>2. CASE p # o
        <5>1. p \in alive /\ p \in NotifyObj /\ list'[p] = list[p] /\ next'[p] = next[p] /\ q[p] = r[p]
              /\ r[p] \in Nat
          BY <1>2, <1>6, <1>8, <2>3, <4>2
        <5>2. next[p] # NULL => next[p] \in alive /\ next[p] # o /\ list[next[p]] = list[p] /\ r[next[p]] < r[p]
          BY <1>2, <2>1, <5>1 DEF Sorted
        <5>3. next[p] # NULL => list'[next[p]] = list[p] /\ q[next[p]] = r[next[p]]
          BY <1>6, <1>8, <2>3, <5>2
        <5>4. ASSUME NEW x \in alive, list[x] = list[p]
              PROVE  /\ r[x] < r[p] => next[p] # NULL /\ r[x] <= r[next[p]]
                     /\ r[x] = r[p] => x = p
          BY <2>1, <5>1, <5>4 DEF Sorted
        <5>5. ASSUME NEW x \in alive', list'[x] = list'[p], x # o
              PROVE  x \in alive /\ list[x] = list[p] /\ q[x] = r[x]
          BY <1>2, <1>6, <1>8, <2>3, <5>1, <5>5
        <5>6. list[p] = l => r[p] < top /\ top \in Nat /\ q[o] = top
          BY <2>2, <2>3, <2>4, <5>1
        <5>7. list'[o] = l
          BY <1>8
        <5>8. d_pCNO'[list[p]] # NULL /\ q[p] <= q[d_pCNO'[list[p]]]
          <6>1. CASE list[p] = l
            BY <1>7, <1>8, <5>1, <5>6, <6>1
          <6>2. CASE list[p] # l
            <7>1. list[p] \in Lists
              BY <1>6, <5>1
            <7>2. d_pCNO'[list[p]] = d_pCNO[list[p]]
              BY <1>8, <6>2, <7>1
            <7>3. d_pCNO[list[p]] # NULL /\ r[p] <= r[d_pCNO[list[p]]] /\ d_pCNO[list[p]] \in alive
              BY <2>1, <5>1, <7>1 DEF Sorted
            <7>4. q[d_pCNO[list[p]]] = r[d_pCNO[list[p]]]
              BY <1>2, <1>6, <2>3, <7>3
            <7> QED  BY <5>1, <7>2, <7>3, <7>4
          <6> QED  BY <6>1, <6>2
        <5>9. ASSUME NEW x \in alive', list'[x] = list'[p]
              PROVE  /\ q[x] < q[p] => next'[p] # NULL /\ q[x] <= q[next'[p]]
                     /\ q[x] = q[p] => x = p
          <6>1. CASE x = o
            BY <5>1, <5>6, <5>7, <5>9, <6>1
          <6>2. CASE x # o
            BY <5>1, <5>3, <5>4, <5>5, <5>9, <6>2
          <6> QED  BY <6>1, <6>2
        <5> QED  BY <1>2, <5>1, <5>2, <5>3, <5>8, <5>9
      <4> QED  BY <4>1, <4>2
    <3>2. ASSUME NEW k \in Lists, d_pCNO'[k] # NULL
          PROVE  d_pCNO'[k] \in alive' /\ list'[d_pCNO'[k]] = k
      <4>1. CASE k = l
        BY <1>2, <1>8, <4>1
      <4>2. CASE k # l
        <5>1. d_pCNO'[k] = d_pCNO[k]
          BY <1>8, <4>2
        <5>2. d_pCNO[k] \in alive /\ list[d_pCNO[k]] = k
          BY <2>1, <3>2, <5>1 DEF Sorted
        <5> QED  BY <1>2, <1>6, <1>8, <5>1, <5>2
      <4> QED  BY <4>1, <4>2
    <3> QED  BY <3>1, <3>2 DEF Sorted
  <2>7. ASSUME walking' # "idle"
        PROVE  Walked(q)'
    <3>1. Walked(r) /\ Cursor' = Cursor /\ walking' = walking
      BY <1>1, <2>1, <2>7 DEF Cursor
    <3>2. Cursor # NULL => /\ Cursor \in alive /\ list[Cursor] = walking /\ Cursor # o /\ Cursor \in NotifyObj
                           /\ list'[Cursor] = walking /\ q[Cursor] = r[Cursor]
      BY <1>2, <1>6, <1>8, <2>3, <3>1 DEF Walked
    <3>3. ASSUME NEW p \in alive', list'[p] = walking
          PROVE  IF Ahead(q, p)' THEN told'[p] = 0 ELSE p \in due' => told'[p] = 1
      <4>1. CASE p = o
        BY <1>1, <1>2, <1>6, <1>8, <4>1
      <4>2. CASE p # o
        <5>1. p \in alive /\ p \in NotifyObj /\ list[p] = walking /\ q[p] = r[p] /\ told'[p] = told[p]
          BY <1>2, <1>6, <1>8, <2>3, <3>3, <4>2
        <5>2. Ahead(q, p)' <=> Ahead(r, p)
          BY <3>1, <3>2, <5>1 DEF Ahead
        <5> QED  BY <1>1, <3>1, <5>1, <5>2 DEF Walked
      <4> QED  BY <4>1, <4>2
    <3> QED  BY <1>2, <3>1, <3>2, <3>3 DEF Walked
  <2> QED  BY <2>3, <2>6, <2>7 DEF NotifyLinked
<1> QED  BY <1>1, <1>2, <1>5, <1>9, <1>10, <1>11, <1>12 DEF NotifyingInv, NoWildAccess
\* After ~Context an object has no list to leave.
LEMMA DeleteGoneInv ==
  ASSUME ContextNotifyAssumption, NotifyingInv, NEW o \in NotifyObj, Delete(o), context = "gone"
  PROVE  NotifyingInv'
<1>1. /\ UNCHANGED <<list, pushes, walking, pCNO, stored, inCallback, context, told>>
      /\ o \in alive /\ alive' = alive \ {o} /\ due' = due \ {o}
  BY DEF Delete, walk
<1>2. next[o] = NULL /\ prev[o] = NULL
  BY <1>1 DEF NotifyingInv
<1>3. NULL \notin NotifyObj \cup Lists
  BY DEF ContextNotifyAssumption
<1>4. prev' = prev /\ next' = next /\ d_pCNO' = d_pCNO /\ ~wild' /\ wild' \in BOOLEAN
  <2>1. d_pCNO' = [l \in Lists |-> d_pCNO[l]] /\ next' = [p \in NotifyObj |-> next[p]] /\ prev' = prev
    BY <1>2, <1>3 DEF Delete, UnlinkNotifyObj
  <2>2. ~wild' /\ wild' \in BOOLEAN
    BY <1>2, Zenon DEF Delete, UnlinkNotifyObj, NotifyingInv, NoWildAccess
  <2> QED  BY <2>1, <2>2 DEF NotifyingInv, TypeOK
<1>5. TypeOK'
  BY <1>1, <1>4 DEF NotifyingInv, TypeOK
<1>6. NotifyListsLinked' /\ NoWildAccess'
  BY <1>1, <1>4 DEF NotifyListsLinked, NoWildAccess
<1>7. Progress'
  BY <1>1, <1>4 DEF NotifyingInv, Progress
<1> QED  BY <1>1, <1>4, <1>5, <1>6, <1>7 DEF NotifyingInv

\* An object leaves its list: its neighbours become neighbours of each other,
\* and the walk is not at the object.
LEMMA DeleteInv ==
  ASSUME ContextNotifyAssumption, NotifyingInv, NEW o \in NotifyObj, Delete(o), context # "gone"
  PROVE  NotifyingInv'
<1> DEFINE N == next[o]
<1> DEFINE P == prev[o]
<1>1. /\ UNCHANGED <<list, pushes, walking, pCNO, stored, inCallback, context, told>>
      /\ o \in alive /\ alive' = alive \ {o} /\ due' = due \ {o}
  BY DEF Delete, walk
<1>2. /\ alive \subseteq NotifyObj /\ due \subseteq alive /\ list \in [NotifyObj -> Lists]
      /\ next \in [NotifyObj -> NotifyObj \cup {NULL}] /\ d_pCNO \in [Lists -> NotifyObj \cup {NULL}]
      /\ prev \in [NotifyObj -> NotifyObj \cup Lists \cup {NULL}]
  BY DEF NotifyingInv, TypeOK
<1>3. NULL \notin NotifyObj /\ NULL \notin Lists /\ NotifyObj \cap Lists = {}
  BY DEF ContextNotifyAssumption
<1>4. /\ \A p \in alive : /\ prev[p] \in alive \cup {list[p]}
                          /\ (IF prev[p] \in NotifyObj THEN next[prev[p]] ELSE d_pCNO[prev[p]]) = p
                          /\ next[p] # NULL => next[p] \in alive /\ prev[next[p]] = p /\ list[next[p]] = list[p]
      /\ \A l \in Lists : d_pCNO[l] # NULL => d_pCNO[l] \in alive /\ prev[d_pCNO[l]] = l
  BY DEF NotifyingInv, NotifyListsLinked
<1>5. /\ N \in NotifyObj \cup {NULL} /\ (N # NULL => N \in alive /\ prev[N] = o /\ list[N] = list[o])
      /\ P \in alive \/ P = list[o]
      /\ P \in alive => next[P] = o /\ P \in NotifyObj /\ P \notin Lists
      /\ P \in Lists => d_pCNO[P] = o /\ P \notin NotifyObj /\ P = list[o]
      /\ list[o] \in Lists /\ o # NULL
  BY <1>1, <1>2, <1>3, <1>4
<1>6. ~wild' /\ wild' \in BOOLEAN
  BY <1>5, Zenon DEF Delete, UnlinkNotifyObj, Owned, NotifyingInv, NoWildAccess
<1>7. /\ prev' = IF N = NULL THEN prev ELSE [prev EXCEPT ![N] = P]
      /\ d_pCNO' = [l \in Lists |-> IF P = l THEN N ELSE d_pCNO[l]]
      /\ next' = [p \in NotifyObj |-> IF P = p THEN N ELSE next[p]]
  BY DEF Delete, UnlinkNotifyObj
<1> HIDE DEF N, P
<1>8. /\ \A p \in NotifyObj : next'[p] = IF P = p THEN N ELSE next[p]
      /\ \A p \in NotifyObj : prev'[p] = IF p = N THEN P ELSE prev[p]
      /\ \A l \in Lists : d_pCNO'[l] = IF P = l THEN N ELSE d_pCNO[l]
  BY <1>2, <1>3, <1>7
<1>9. TypeOK'
  <2>1. /\ d_pCNO' \in [Lists -> NotifyObj \cup {NULL}] /\ next' \in [NotifyObj -> NotifyObj \cup {NULL}]
        /\ prev' \in [NotifyObj -> NotifyObj \cup Lists \cup {NULL}]
    BY <1>2, <1>5, <1>7
  <2>2. alive' \subseteq NotifyObj /\ due' \subseteq alive'
    BY <1>1, <1>2
  <2> QED  BY <1>1, <1>6, <2>1, <2>2 DEF NotifyingInv, TypeOK
<1>10. Progress'
  BY <1>1 DEF NotifyingInv, Progress
\* The pointers of the others.
<1>11. ASSUME NEW p \in alive, p # o
       PROVE  /\ p \in NotifyObj /\ list[p] \in Lists
              /\ next'[p] = IF p = P THEN N ELSE next[p]
              /\ p # P => next[p] # o
              /\ next[p] # NULL => next[p] \in alive /\ prev[next[p]] = p /\ list[next[p]] = list[p]
              /\ next'[p] # o
  <2>1. p \in NotifyObj /\ list[p] \in Lists
    BY <1>2
  <2>2. next[p] = o => p = P
    BY <1>4, <1>5, <2>1 DEF P
  <2>3. N # o
    <3>1. PICK r \in [NotifyObj -> Nat] : Sorted(r)
      BY DEF NotifyingInv, NotifyLinked
    <3>2. N = o => r[o] < r[o] /\ r[o] \in Nat
      BY <1>1, <1>5, <3>1 DEF Sorted, N
    <3> QED  BY <3>2
  <2> QED  BY <1>4, <1>8, <2>1, <2>2, <2>3
<1>12. NotifyListsLinked'
  <2>1. ASSUME NEW p \in alive', p = N
        PROVE  /\ prev'[p] \in alive' \cup {list'[p]}
               /\ (IF prev'[p] \in NotifyObj THEN next'[prev'[p]] ELSE d_pCNO'[prev'[p]]) = p
    <3>1. p \in alive /\ p # o /\ p \in NotifyObj /\ p # NULL /\ prev[p] = o /\ list[p] = list[o]
      BY <1>1, <1>2, <1>3, <1>5, <2>1
    <3>2. prev'[p] = P
      BY <1>8, <2>1, <3>1
    <3>3. P # o
      BY <1>4, <1>5, <2>1, <3>1 DEF N
    <3>4. P \in alive => P \in alive' /\ next'[P] = N
      BY <1>1, <1>5, <1>8, <3>3
    <3>5. P \in Lists => d_pCNO'[P] = N
      BY <1>8
    <3> QED  BY <1>1, <1>5, <2>1, <3>1, <3>2, <3>4, <3>5
  <2>2. ASSUME NEW p \in alive', p # N
        PROVE  /\ prev'[p] \in alive' \cup {list'[p]}
               /\ (IF prev'[p] \in NotifyObj THEN next'[prev'[p]] ELSE d_pCNO'[prev'[p]]) = p
    <3>1. p \in alive /\ p # o /\ p \in NotifyObj /\ list[p] \in Lists
      BY <1>1, <1>2, <2>2
    <3>2. prev'[p] = prev[p]
      BY <1>8, <2>2, <3>1
    <3>3. prev[p] # o
      BY <1>4, <2>2, <3>1 DEF N
    <3>4. prev[p] \in alive => /\ prev[p] \in NotifyObj /\ next[prev[p]] = p /\ prev[p] # P
                               /\ next'[prev[p]] = p /\ prev[p] \in alive'
      BY <1>1, <1>2, <1>4, <1>5, <1>8, <3>1, <3>3
    <3>5. prev[p] \in Lists => /\ prev[p] \notin NotifyObj /\ d_pCNO[prev[p]] = p /\ prev[p] # P
                               /\ d_pCNO'[prev[p]] = p
      BY <1>3, <1>4, <1>5, <1>8, <3>1
    <3> QED  BY <1>1, <1>4, <3>1, <3>2, <3>4, <3>5
  <2>3. ASSUME NEW p \in alive', next'[p] # NULL
        PROVE  next'[p] \in alive' /\ prev'[next'[p]] = p /\ list'[next'[p]] = list'[p]
    <3>1. p \in alive /\ p # o /\ p \in NotifyObj
      BY <1>1, <1>2
    <3>2. CASE p = P
      BY <1>1, <1>2, <1>4, <1>5, <1>8, <1>11, <2>3, <3>1, <3>2
    <3>3. CASE p # P
      <4>1. next'[p] = next[p] /\ next[p] \in alive /\ next[p] \in NotifyObj /\ next[p] # o
            /\ prev[next[p]] = p /\ list[next[p]] = list[p]
        BY <1>2, <1>11, <2>3, <3>1, <3>3
      <4>2. next[p] # N
        BY <1>5, <3>1, <4>1, <1>3
      <4> QED  BY <1>1, <1>8, <4>1, <4>2
    <3> QED  BY <3>2, <3>3
  <2>4. ASSUME NEW l \in Lists, d_pCNO'[l] # NULL
        PROVE  d_pCNO'[l] \in alive' /\ prev'[d_pCNO'[l]] = l
    <3>1. CASE P = l
      <4>1. d_pCNO'[l] = N /\ N # NULL /\ N \in alive /\ N \in NotifyObj
        BY <1>2, <1>5, <1>8, <2>4, <3>1
      <4>2. N # o
        BY <1>3, <1>5, <3>1, <4>1 DEF P
      <4> QED  BY <1>1, <1>8, <3>1, <4>1, <4>2
    <3>2. CASE P # l
      <4>1. d_pCNO'[l] = d_pCNO[l] /\ d_pCNO[l] \in alive /\ d_pCNO[l] \in NotifyObj /\ prev[d_pCNO[l]] = l
        BY <1>2, <1>4, <1>8, <2>4, <3>2
      <4>2. d_pCNO[l] # o
        BY <3>2, <4>1 DEF P
      <4>3. d_pCNO[l] # N
        BY <1>3, <1>5, <4>1
      <4> QED  BY <1>1, <1>8, <4>1, <4>2, <4>3
    <3> QED  BY <3>1, <3>2
  <2> QED  BY <2>1, <2>2, <2>3, <2>4 DEF NotifyListsLinked
<1>13. NotifyLinked'
  <2>1. PICK r \in [NotifyObj -> Nat] : Sorted(r) /\ (walking # "idle" => Walked(r))
    BY DEF NotifyingInv, NotifyLinked
  <2>2. \A p \in alive : r[p] \in Nat
    BY <1>2
  <2>3. ASSUME NEW x \in alive, x # o, list[x] = list[o], r[x] <= r[o]
        PROVE  N # NULL /\ r[x] <= r[N]
    <3>1. r[x] # r[o]
      BY <1>1, <2>1, <2>3 DEF Sorted
    <3>2. r[x] < r[o]
      BY <1>1, <2>2, <2>3, <3>1
    <3> QED  BY <1>1, <2>1, <2>3, <3>2 DEF Sorted, N
  <2>4. N # NULL => r[N] < r[o] /\ r[N] \in Nat /\ r[o] \in Nat
    BY <1>1, <1>5, <2>1, <2>2 DEF Sorted, N
  <2>5. Sorted(r)'
    <3>1. ASSUME NEW p \in alive'
          PROVE  /\ next'[p] # NULL => next'[p] \in alive' /\ list'[next'[p]] = list'[p] /\ r[next'[p]] < r[p]
                 /\ \A x \in alive' : list'[x] = list'[p] /\ r[x] < r[p]
                                        => next'[p] # NULL /\ r[x] <= r[next'[p]]
                 /\ \A x \in alive' : list'[x] = list'[p] /\ r[x] = r[p] => x = p
                 /\ d_pCNO'[list'[p]] # NULL /\ r[p] <= r[d_pCNO'[list'[p]]]
      <4>1. p \in alive /\ p # o /\ p \in NotifyObj /\ list'[p] = list[p] /\ r[p] \in Nat
        BY <1>1, <1>2, <2>2
      <4>2. ASSUME NEW x \in alive'
            PROVE  x \in alive /\ x # o /\ r[x] \in Nat /\ list'[x] = list[x]
        BY <1>1, <2>2
      <4>3. ASSUME NEW x \in alive, list[x] = list[p]
            PROVE  /\ r[x] < r[p] => next[p] # NULL /\ r[x] <= r[next[p]]
                   /\ r[x] = r[p] => x = p
        BY <2>1, <4>1, <4>3 DEF Sorted
      <4>4. next[p] # NULL => r[next[p]] < r[p] /\ next[p] \in alive
        BY <2>1, <4>1 DEF Sorted
      <4>5. CASE p = P
        <5>1. next'[p] = N /\ next[p] = o /\ list[p] = list[o] /\ r[o] < r[p] /\ r[o] \in Nat
          BY <1>1, <1>4, <1>5, <1>11, <2>1, <2>2, <4>1, <4>5 DEF Sorted
        <5>2. next'[p] # NULL => next'[p] \in alive' /\ list'[next'[p]] = list'[p] /\ r[next'[p]] < r[p]
          BY <1>1, <1>5, <1>11, <2>4, <4>1, <5>1
        <5>3. ASSUME NEW x \in alive', list'[x] = list'[p], r[x] < r[p]
              PROVE  next'[p] # NULL /\ r[x] <= r[next'[p]]
          BY <2>3, <4>1, <4>2, <4>3, <5>1, <5>3
        <5>4. \A x \in alive' : list'[x] = list'[p] /\ r[x] = r[p] => x = p
          BY <4>1, <4>2, <4>3
        <5>5. d_pCNO'[list'[p]] # NULL /\ r[p] <= r[d_pCNO'[list'[p]]]
          <6>1. P \notin Lists
            BY <1>5, <4>1, <4>5
          <6>2. d_pCNO'[list[p]] = d_pCNO[list[p]]
            BY <1>2, <1>8, <4>1, <6>1
          <6> QED  BY <2>1, <4>1, <6>2 DEF Sorted
        <5> QED  BY <5>2, <5>3, <5>4, <5>5
      <4>6. CASE p # P
        <5>1. next'[p] = next[p] /\ next[p] # o
          BY <1>11, <4>1, <4>6
        <5>2. next'[p] # NULL => next'[p] \in alive' /\ list'[next'[p]] = list'[p] /\ r[next'[p]] < r[p]
          BY <1>1, <1>11, <4>1, <4>4, <5>1
        <5>3. \A x \in alive' : list'[x] = list'[p] /\ r[x] < r[p]
                                  => next'[p] # NULL /\ r[x] <= r[next'[p]]
          BY <4>1, <4>2, <4>3, <5>1
        <5>4. \A x \in alive' : list'[x] = list'[p] /\ r[x] = r[p] => x = p
          BY <4>1, <4>2, <4>3
        <5>5. d_pCNO'[list'[p]] # NULL /\ r[p] <= r[d_pCNO'[list'[p]]]
          <6>1. d_pCNO[list[p]] # NULL /\ r[p] <= r[d_pCNO[list[p]]] /\ list[p] \in Lists
            BY <1>2, <2>1, <4>1 DEF Sorted
          <6>2. CASE P = list[p]
            <7>1. d_pCNO[list[p]] = o /\ list[o] = list[p] /\ d_pCNO'[list[p]] = N
              BY <1>5, <1>8, <6>1, <6>2
            <7> QED  BY <2>3, <4>1, <6>1, <7>1
          <6>3. CASE P # list[p]
            BY <1>8, <4>1, <6>1, <6>3
          <6> QED  BY <6>2, <6>3
        <5> QED  BY <5>2, <5>3, <5>4, <5>5
      <4> QED  BY <4>5, <4>6
    <3>2. ASSUME NEW l \in Lists, d_pCNO'[l] # NULL
          PROVE  d_pCNO'[l] \in alive' /\ list'[d_pCNO'[l]] = l
      <4>1. d_pCNO'[l] \in alive'
        BY <1>1, <1>12, <3>2 DEF NotifyListsLinked
      <4>2. CASE P = l
        <5>1. d_pCNO'[l] = N /\ N # NULL /\ l = list[o]
          BY <1>5, <1>8, <3>2, <4>2
        <5>2. list[N] = list[o]
          BY <1>5, <5>1
        <5> QED  BY <1>1, <4>1, <5>1, <5>2
      <4>3. CASE P # l
        <5>1. d_pCNO'[l] = d_pCNO[l]
          BY <1>8, <4>3
        <5> QED  BY <1>1, <2>1, <3>2, <4>1, <5>1 DEF Sorted
      <4> QED  BY <4>1, <4>2, <4>3
    <3> QED  BY <3>1, <3>2 DEF Sorted
  <2>6. ASSUME walking' # "idle"
        PROVE  Walked(r)'
    <3>1. inCallback /\ o = pCNO /\ stored # pCNO /\ Cursor' = Cursor /\ Cursor = stored /\ Walked(r)
      BY <1>1, <2>1, <2>6 DEF Delete, ClientRuns, NotifyingInv, Progress, Cursor
    <3>2. Cursor # NULL => Cursor \in alive' /\ list'[Cursor] = walking'
      BY <1>1, <3>1 DEF Walked
    <3>3. ASSUME NEW p \in alive', list'[p] = walking'
          PROVE  IF Ahead(r, p)' THEN told'[p] = 0 ELSE p \in due' => told'[p] = 1
      <4>1. Ahead(r, p)' <=> Ahead(r, p)
        BY <3>1 DEF Ahead
      <4>2. p \in alive /\ list[p] = walking /\ (p \in due' => p \in due) /\ told' = told
        BY <1>1, <3>3
      <4> QED  BY <3>1, <4>1, <4>2 DEF Walked
    <3> QED  BY <3>1, <3>2, <3>3 DEF Walked
  <2> QED  BY <2>5, <2>6 DEF NotifyLinked
<1> QED  BY <1>1, <1>6, <1>9, <1>10, <1>12, <1>13 DEF NotifyingInv, NoWildAccess

-----------------------------------------------------------------------------
\* So does every step.
LEMMA NextInv == ASSUME ContextNotifyAssumption, NotifyingInv, [NotifyNext]_notifyVars PROVE NotifyingInv'
<1>1. CASE push
  BY <1>1, PushInv
<1>2. CASE Close
  BY <1>2, CloseInv
<1>3. ASSUME NEW o \in NotifyObj, Delete(o)
      PROVE  NotifyingInv'
  BY <1>3, DeleteGoneInv, DeleteInv
<1>4. ASSUME NEW o \in NotifyObj, NEW l \in Lists, New(o, l)
      PROVE  NotifyingInv'
  BY <1>4, NewInv
<1>5. CASE StartPop
  BY <1>5, StartPopInv
<1>6. CASE Notify
  BY <1>6, NotifyInv
<1>7. CASE Return
  BY <1>7, ReturnInv
<1>8. CASE RestoreScope
  BY <1>8, RestoreInv
<1>9. CASE EndPop
  BY <1>9, EndPopInv
<1>10. CASE Gone
  BY <1>10, GoneInv
<1>11. CASE UNCHANGED notifyVars
  BY <1>11, StutterInv
<1> QED
  BY <1>1, <1>2, <1>3, <1>4, <1>5, <1>6, <1>7, <1>8, <1>9, <1>10, <1>11, Zenon DEF NotifyNext, Client, Pop

\* It says what is wanted.
LEMMA InvRight == NotifyingInv => NotifyRight
<1> SUFFICES ASSUME NotifyingInv PROVE NotifyRight
  OBVIOUS
<1>1. ASSUME NEW o \in due
      PROVE  IF list[o] = "pre" THEN walking # "pre" => told[o] = 1
             ELSE IF walking = "idle" THEN told[o] = 1 ELSE walking = "pre" => told[o] = 0
  <2>1. o \in alive /\ list[o] \in Lists /\ walking \in Lists \cup {"idle"}
    BY DEF NotifyingInv, TypeOK
  <2> QED  BY <2>1 DEF NotifyingInv, Progress, Lists
<1> QED  BY <1>1 DEF NotifyingInv, Progress, NotifyRight, EachToldOnce

\* Notification is safe and complete (context.cpp:82-100, 311-336), for every
\* number of objects and of levels, and whatever objects the callbacks create
\* or delete: no freed object and no pointer of a deleted Context is used, the
\* two lists stay well linked, and an object that exists from the beginning to
\* the end of a pop is told once, before or after the restoring as it asked.
THEOREM NotifyCorrect == ASSUME ContextNotifyAssumption PROVE NotifySpec => []NotifyRight
<1>1. NotifyInit => NotifyingInv
  BY InitInv
<1>2. NotifyingInv /\ [NotifyNext]_notifyVars => NotifyingInv'
  BY NextInv
<1> QED  BY <1>1, <1>2, InvRight, PTL DEF NotifySpec
=============================================================================
