----------------------------- MODULE FifoQueue -----------------------------
(***************************************************************************)
(* What SafeQueue promises its users: push() and pop() each take effect at *)
(* one instant between call and return, pop() takes the oldest item, and   *)
(* takes effect only when there is one. AudioServer is written against it. *)
(***************************************************************************)
EXTENDS Naturals, Sequences

CONSTANTS Producers, Consumers, Items, NoItem

VARIABLES
  queue,
  push,   \* per producer: the item of a push() that has not taken effect
  got     \* per consumer: the items its pop() calls have taken

fifoVars == <<queue, push, got>>

Init ==
  /\ queue = <<>>
  /\ push = [p \in Producers |-> NoItem]
  /\ got = [c \in Consumers |-> <<>>]

CallPush(p, i) ==
  /\ push[p] = NoItem
  /\ push' = [push EXCEPT ![p] = i]
  /\ UNCHANGED <<queue, got>>

Push(p) ==
  /\ push[p] # NoItem
  /\ queue' = Append(queue, push[p])
  /\ push' = [push EXCEPT ![p] = NoItem]
  /\ UNCHANGED got

Pop(c) ==
  /\ queue # <<>>
  /\ queue' = Tail(queue)
  /\ got' = [got EXCEPT ![c] = Append(@, Head(queue))]
  /\ UNCHANGED push

Next ==
  \/ \E p \in Producers : Push(p) \/ \E i \in Items : CallPush(p, i)
  \/ \E c \in Consumers : Pop(c)

Spec == Init /\ [][Next]_fifoVars
=============================================================================
