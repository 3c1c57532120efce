---------------------------- MODULE BoundedQueue ----------------------------
(***************************************************************************)
(* What a lemma channel promises to the threads at its two ends: a bounded *)
(* first-in first-out queue whose push and pop are single steps.           *)
(* SharedChannel is shown to implement it.                                 *)
(***************************************************************************)
EXTENDS Naturals, Sequences

CONSTANTS Consumers, \* the threads that pop
          Items,     \* what is sent
          capacity   \* how many unread items there may be

VARIABLES q,  \* the items pushed and not yet popped, oldest first
          ret \* ret[c]: what the last pop of c returned, <<>> before the first

Init == /\ q = << >>
        /\ ret = [c \in Consumers |-> << >>]

Put(x) == /\ Len(q) < capacity
          /\ q' = Append(q, x)
          /\ UNCHANGED ret

Get(c) == /\ q # << >>
          /\ q' = Tail(q)
          /\ ret' = [ret EXCEPT ![c] = <<Head(q)>>]

Next == (\E x \in Items : Put(x)) \/ (\E c \in Consumers : Get(c))

Spec == Init /\ [][Next]_<<q, ret>>
=============================================================================
