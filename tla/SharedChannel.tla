---------------------------- MODULE SharedChannel ----------------------------
(***************************************************************************)
(* SynchronizedSharedChannel (util/channel.h): the bounded buffer through  *)
(* which the threads of the portfolio exchange lemmas.  One mutex, two     *)
(* condition variables.  A step here is one stretch of code under the      *)
(* mutex, or one notify_one(), which the code calls after it has unlocked. *)
(***************************************************************************)
EXTENDS Naturals, Sequences, FiniteSets

CONSTANTS Producers, \* the threads that call push()
          Consumers, \* the threads that call pop()
          Items,     \* the pickled lemmas
          capacity   \* the constructor's argument

ASSUME CapacityAssumption == capacity \in Nat \ {0}
ASSUME ThreadsAssumption ==
  Producers \cap Consumers = {} /\ IsFiniteSet(Producers) /\ IsFiniteSet(Consumers)

VARIABLES
  m_container, \* the circular buffer, front first; read items stay in it
  m_unread,    \* how many of its first items have not been popped
  pc,          \* where each thread is: "out" of the channel, "waiting" on its
               \* condition variable, "woken" by it, about to "notify" the other
  arg,         \* arg[p]: the item that the push() of p is to add
  ret          \* ret[c]: what the last pop() of c returned

vars == <<m_container, m_unread, pc, arg, ret>>

Threads == Producers \cup Consumers

\* The threads waiting on m_not_full are producers, on m_not_empty consumers.
WaitingOn(kind) == {t \in kind : pc[t] = "waiting"}

is_not_full == m_unread < capacity
is_not_empty == m_unread > 0

-----------------------------------------------------------------------------
Init == /\ m_container = << >>
        /\ m_unread = 0
        /\ pc = [t \in Threads |-> "out"]
        /\ arg = [p \in Producers |-> << >>]
        /\ ret = [c \in Consumers |-> << >>]

\* circular_buffer::push_front: at capacity the last item is overwritten.
push_front(x) ==
  m_container' = <<x>> \o SubSeq(m_container, 1,
                                 IF Len(m_container) = capacity THEN capacity - 1
                                                                ELSE Len(m_container))

\* push() enters with x, takes the mutex and finds the channel full, or a
\* woken producer finds it full again: it waits, which releases the mutex.
PushWaits(p) ==
  /\ ~is_not_full
  /\ \/ pc[p] = "out" /\ \E x \in Items : arg' = [arg EXCEPT ![p] = <<x>>]
     \/ pc[p] = "woken" /\ UNCHANGED arg
  /\ pc' = [pc EXCEPT ![p] = "waiting"]
  /\ UNCHANGED <<m_container, m_unread, ret>>

\* The rest of push() up to lock.unlock().
PushAdds(p) ==
  /\ is_not_full
  /\ \/ pc[p] = "out" /\ \E x \in Items : push_front(x)
     \/ pc[p] = "woken" /\ push_front(arg[p][1])
  /\ m_unread' = m_unread + 1
  /\ pc' = [pc EXCEPT ![p] = "notify"]
  /\ arg' = [arg EXCEPT ![p] = << >>]
  /\ UNCHANGED ret

PopWaits(c) ==
  /\ ~is_not_empty
  /\ pc[c] \in {"out", "woken"}
  /\ pc' = [pc EXCEPT ![c] = "waiting"]
  /\ UNCHANGED <<m_container, m_unread, arg, ret>>

\* Faulty variant of PopTakes: the newest item instead of the oldest.
PopTakesNewest(c) ==
  /\ is_not_empty
  /\ pc[c] \in {"out", "woken"}
  /\ m_unread' = m_unread - 1
  /\ ret' = [ret EXCEPT ![c] = <<m_container[1]>>]
  /\ pc' = [pc EXCEPT ![c] = "notify"]
  /\ UNCHANGED <<m_container, arg>>

\* ret = m_container[--m_unread]: the C++ index counts from 0.
PopTakes(c) ==
  /\ is_not_empty
  /\ pc[c] \in {"out", "woken"}
  /\ m_unread' = m_unread - 1
  /\ ret' = [ret EXCEPT ![c] = <<m_container[m_unread]>>]
  /\ pc' = [pc EXCEPT ![c] = "notify"]
  /\ UNCHANGED <<m_container, arg>>

\* notify_one() wakes one of the threads waiting on the variable, if any.
notify_one(t, kind) ==
  /\ pc[t] = "notify"
  /\ IF WaitingOn(kind) = {}
     THEN pc' = [pc EXCEPT ![t] = "out"]
     ELSE \E w \in WaitingOn(kind) : pc' = [pc EXCEPT ![t] = "out", ![w] = "woken"]
  /\ UNCHANGED <<m_container, m_unread, arg, ret>>

\* Faulty variant of PushNotifies: only the push into an empty channel wakes a
\* reader.
PushNotifiesFirst(p) ==
  IF m_unread = 1 THEN notify_one(p, Consumers)
  ELSE /\ pc[p] = "notify"
       /\ pc' = [pc EXCEPT ![p] = "out"]
       /\ UNCHANGED <<m_container, m_unread, arg, ret>>

PushNotifies(p) == notify_one(p, Consumers)
PopNotifies(c) == notify_one(c, Producers)

\* A condition variable may also wake a thread for no reason, which is why
\* wait() is given the predicate to test again.
WakesAlone(t) ==
  /\ pc[t] = "waiting"
  /\ pc' = [pc EXCEPT ![t] = "woken"]
  /\ UNCHANGED <<m_container, m_unread, arg, ret>>

ProducerStep(p) == PushWaits(p) \/ PushAdds(p) \/ PushNotifies(p)
ConsumerStep(c) == PopWaits(c) \/ PopTakes(c) \/ PopNotifies(c)

Next == \/ \E p \in Producers : ProducerStep(p) \/ WakesAlone(p)
        \/ \E c \in Consumers : ConsumerStep(c) \/ WakesAlone(c)

Spec == Init /\ [][Next]_vars

\* The operating system runs every thread that is inside push() or pop(); the
\* thread at the reading end keeps calling pop() (the sharing thread does,
\* once every sharingBroadcastInterval, for as long as it runs).
Fairness == /\ \A p \in Producers : WF_vars(pc[p] # "out" /\ ProducerStep(p))
            /\ \A c \in Consumers : WF_vars(ConsumerStep(c))

-----------------------------------------------------------------------------
TypeOK ==
  /\ m_container \in Seq(Items) /\ Len(m_container) <= capacity
  /\ m_unread \in 0..Len(m_container)
  /\ pc \in [Threads -> {"out", "waiting", "woken", "notify"}]
  /\ arg \in [Producers -> {<< >>} \cup {<<x>> : x \in Items}]
  /\ ret \in [Consumers -> {<< >>} \cup {<<x>> : x \in Items}]
  /\ \A p \in Producers : (arg[p] # << >>) <=> pc[p] \in {"waiting", "woken"}

\* No wake-up is missed on m_not_full: when a producer waits although there is
\* room, some thread is still to take the room (a producer already woken) or
\* still to notify (a consumer between its unlock and its notify_one).
\* Both sides unlock before they notify, so the wake-up comes late, and a
\* thread may start to wait in between.
NoMissedRoom ==
  WaitingOn(Producers) # {} /\ is_not_full =>
    \/ \E c \in Consumers : pc[c] = "notify"
    \/ \E p \in Producers : pc[p] = "woken"

\* The same of m_not_empty and the consumers.
NoMissedItem ==
  WaitingOn(Consumers) # {} /\ is_not_empty =>
    \/ \E p \in Producers : pc[p] = "notify"
    \/ \E c \in Consumers : pc[c] = "woken"

\* At neither end.
NoMissedWakeup == NoMissedRoom /\ NoMissedItem

\* The unread items, oldest first: pop() reads from index m_unread - 1 down.
unread == [i \in 1..m_unread |-> m_container[m_unread + 1 - i]]

Queue == INSTANCE BoundedQueue WITH q <- unread

\* The channel is a first-in first-out queue: although read items stay in the
\* buffer and are only overwritten by later pushes, no item is lost, repeated
\* or overtaken.
IsFifo == Queue!Spec

\* A push() that waits on a full channel returns, as long as the other end is
\* read.
PushReturns == \A p \in Producers : pc[p] = "waiting" ~> pc[p] = "out"
=============================================================================
