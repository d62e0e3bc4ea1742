----------------------------- MODULE SafeQueue -----------------------------
(***************************************************************************)
(* SafeQueue<T> (include/safe_queue.h) down to its mutex and condition     *)
(* variable, for any number of threads on either side; AudioServer has one *)
(* of each. The mutex and the condition variable are external: lock()      *)
(* waits for a free mutex and promises no order, wait() releases it and    *)
(* sleeps in one step, notify_one() wakes one sleeper if there is any, and *)
(* a sleeper may wake for no reason.                                       *)
(***************************************************************************)
EXTENDS Integers, Sequences, FiniteSets

CONSTANTS
  Producers, Consumers,   \* threads that call push(), that call pop()
  NoThread, NoItem,
  MaxItems                \* bound: calls of push() per producer

Threads == Producers \cup Consumers
Items == Producers \X (1 .. MaxItems)

\* A process has finitely many threads, and each is on one side of the queue.
ASSUME QueueAssumption ==
  /\ IsFiniteSet(Producers) /\ IsFiniteSet(Consumers)
  /\ Producers \cap Consumers = {}
  /\ NoThread \notin Threads
  /\ NoItem \notin Items
  /\ MaxItems \in Nat

VARIABLES
  queue_,
  mutex_,   \* its holder
  pc,       \* each thread's next step; the sleepers of cond_ are at "asleep"
  item,     \* push()'s argument
  front,    \* pop()'s item: moved out of queue_, not yet removed from it
  calls,    \* history: calls of push() so far, per producer
  got       \* history: what each consumer's pop() calls returned

queueVars == <<queue_, mutex_, pc, item, front, calls, got>>

Sleepers == {c \in Consumers : pc[c] = "asleep"}

Init ==
  /\ queue_ = <<>>
  /\ mutex_ = NoThread
  /\ pc = [t \in Threads |-> "idle"]
  /\ item = [p \in Producers |-> NoItem]
  /\ front = [c \in Consumers |-> NoItem]
  /\ calls = [p \in Producers |-> 0]
  /\ got = [c \in Consumers |-> <<>>]

Goto(t, l) == pc' = [pc EXCEPT ![t] = l]

Acquire(t) == mutex_ = NoThread /\ mutex_' = t
Release(t) == mutex_ = t /\ mutex_' = NoThread

-----------------------------------------------------------------------------
(* push()                                                                    *)

CallPush(p) ==
  /\ pc[p] = "idle" /\ calls[p] < MaxItems
  /\ calls' = [calls EXCEPT ![p] = @ + 1]
  /\ item' = [item EXCEPT ![p] = <<p, calls'[p]>>]
  /\ Goto(p, "lock")
  /\ UNCHANGED <<queue_, mutex_, front, got>>

Lock(p) ==
  /\ pc[p] = "lock"
  /\ Acquire(p)
  /\ Goto(p, "insert")
  /\ UNCHANGED <<queue_, item, front, calls, got>>

\* Mutant of Inserted: push at the front.
InsertedFirst(p) == <<item[p]>> \o queue_

Inserted(p) == Append(queue_, item[p])

Insert(p) ==
  /\ pc[p] = "insert"
  /\ queue_' = Inserted(p)
  /\ item' = [item EXCEPT ![p] = NoItem]
  /\ Goto(p, "notify")
  /\ UNCHANGED <<mutex_, front, calls, got>>

\* Mutants of Woken: notify only on the transition from empty; test for it too late.
WokenByFirst == IF Len(queue_) = 1 THEN Sleepers ELSE {}
WokenBySecond == IF Len(queue_) > 1 THEN Sleepers ELSE {}

\* Those notify_one() may wake.
Woken == Sleepers

\* notify_one(), with the lock held.
NotifyOne(p) ==
  /\ pc[p] = "notify"
  /\ \/ \E c \in Woken : pc' = [pc EXCEPT ![p] = "unlock", ![c] = "relock"]
     \/ Woken = {} /\ Goto(p, "unlock")
  /\ UNCHANGED <<queue_, mutex_, item, front, calls, got>>

\* The lock_guard's end, and pop()'s unique_lock's.
Unlock(t) ==
  /\ pc[t] = "unlock"
  /\ Release(t)
  /\ Goto(t, "idle")
  /\ UNCHANGED <<queue_, item, front, calls, got>>

-----------------------------------------------------------------------------
(* pop()                                                                     *)

\* The first lock of a call, or the one wait() takes before it returns.
LockToTest(c) ==
  /\ pc[c] \in {"idle", "relock"}
  /\ Acquire(c)
  /\ Goto(c, "test")
  /\ UNCHANGED <<queue_, item, front, calls, got>>

\* Mutant of Sleep: wait without releasing the lock.
SleepHoldingLock(c) == Goto(c, "asleep") /\ UNCHANGED mutex_

Sleep(c) == Goto(c, "asleep") /\ Release(c)

\* wait()'s loop on the predicate.
Test(c) ==
  /\ pc[c] = "test"
  /\ \/ queue_ # <<>> /\ Goto(c, "take") /\ UNCHANGED mutex_
     \/ queue_ = <<>> /\ Sleep(c)
  /\ UNCHANGED <<queue_, item, front, calls, got>>

WakeSpuriously(c) ==
  /\ pc[c] = "asleep"
  /\ Goto(c, "relock")
  /\ UNCHANGED <<queue_, mutex_, item, front, calls, got>>

\* Mutant of Front: the lock's scope ends before the removal.
FrontAlone(c) ==
  /\ pc[c] = "take"
  /\ front' = [front EXCEPT ![c] = IF queue_ = <<>> THEN NoItem ELSE Head(queue_)]
  /\ Release(c)
  /\ Goto(c, "remove")
  /\ UNCHANGED <<queue_, item, calls, got>>

\* Line 18: the item is moved out, its place is still in the queue.
Front(c) ==
  /\ pc[c] = "take"
  /\ front' = [front EXCEPT ![c] = Head(queue_)]
  /\ Goto(c, "remove")
  /\ UNCHANGED <<queue_, mutex_, item, calls, got>>

\* Lines 19-20: whatever is at the front now goes, and the item is returned.
Remove(c) ==
  /\ pc[c] = "remove"
  /\ queue_' = SubSeq(queue_, 2, Len(queue_))
  /\ got' = [got EXCEPT ![c] = Append(@, front[c])]
  /\ front' = [front EXCEPT ![c] = NoItem]
  /\ Goto(c, "unlock")
  /\ UNCHANGED <<mutex_, item, calls>>

-----------------------------------------------------------------------------
PushStep(p) == Lock(p) \/ Insert(p) \/ NotifyOne(p) \/ Unlock(p)
PopStep(c) == LockToTest(c) \/ Test(c) \/ Front(c) \/ Remove(c) \/ Unlock(c)

Next ==
  \/ \E p \in Producers : CallPush(p) \/ PushStep(p)
  \/ \E c \in Consumers : PopStep(c) \/ WakeSpuriously(c)

\* A thread that can go on does; nobody has to call push(), and a spurious wakeup
\* never has to happen. Consumers call pop() again and again, as worker_loop() does.
Fairness ==
  /\ \A p \in Producers : WF_queueVars(PushStep(p))
  /\ \A c \in Consumers : WF_queueVars(PopStep(c))

Spec == Init /\ [][Next]_queueVars /\ Fairness

-----------------------------------------------------------------------------
\* The types, and that the mutex is held exactly by the thread inside its section:
\* never across a wait, never by nobody while the queue is touched.
TypeOK ==
  /\ queue_ \in Seq(Items)
  /\ mutex_ \in Threads \cup {NoThread}
  /\ \A p \in Producers : pc[p] \in {"idle", "lock", "insert", "notify", "unlock"}
  /\ \A c \in Consumers : pc[c] \in {"idle", "relock", "test", "asleep", "take", "remove", "unlock"}
  /\ \A t \in Threads :
        mutex_ = t <=> pc[t] \in {"insert", "notify", "unlock", "test", "take", "remove"}
  /\ item \in [Producers -> Items \cup {NoItem}]
  /\ front \in [Consumers -> Items \cup {NoItem}]
  /\ calls \in [Producers -> 0 .. MaxItems]
  /\ got \in [Consumers -> Seq(Items)]

\* While a consumer sleeps, every item in the queue has a consumer awake that has yet
\* to look at it, or a producer about to notify: however pushes, pops, wakeups and
\* consumers that take another's item interleave, no wakeup is lost.
NoLostWakeup ==
  Sleepers # {} =>
    Len(queue_) <=
      Cardinality({c \in Consumers : pc[c] \in {"relock", "test", "take", "remove"}})
      + Cardinality({p \in Producers : pc[p] = "notify"})

\* Every item in the queue is taken, without relying on spurious wakeups or on a fair
\* mutex. (An item still to be inserted may wait for a mutex that nothing is fair
\* about while consumers wake spuriously for ever.)
EveryItemTaken ==
  \A p \in Producers : \A k \in 1 .. MaxItems :
    (\E i \in DOMAIN queue_ : queue_[i] = <<p, k>>) ~>
      \E c \in Consumers : \E i \in DOMAIN got[c] : got[c][i] = <<p, k>>

\* push() and pop() are atomic and first in, first out, though pop() reads the front and
\* removes it in two operations: no push between them, no item taken twice or unread.
Fifo == INSTANCE FifoQueue WITH queue <- queue_, push <- item
ImplementsFifo == Fifo!Spec
=============================================================================
