--------------------------- MODULE SafeQueueProofs ---------------------------
(***************************************************************************)
(* Theorems about SafeQueue for any finite number of producers, consumers  *)
(* and items: its mutex discipline, that no wakeup is lost, and that it    *)
(* implements FifoQueue. All three rest on one inductive invariant, IInv.  *)
(***************************************************************************)
EXTENDS SafeQueue, FiniteSetTheorems, TLAPS

Steps == {"idle", "lock", "insert", "notify", "unlock", "relock", "test", "asleep", "take",
          "remove"}

\* push()'s argument is there from the call until the insertion.
ArgumentHeld == \A p \in Producers : item[p] # NoItem <=> pc[p] \in {"lock", "insert"}

\* What wait() saw under the mutex still holds when the item is taken.
TakesFromSome == \A c \in Consumers : pc[c] \in {"take", "remove"} => queue_ # <<>>

\* What pop() removes is what it has read.
RemovesWhatItRead == \A c \in Consumers : pc[c] = "remove" => front[c] = Head(queue_)

\* NoLostWakeup is inductive once the mutex is known to be held by one thread.
IInv ==
  /\ pc \in [Threads -> Steps]
  /\ TypeOK
  /\ ArgumentHeld
  /\ TakesFromSome
  /\ RemovesWhatItRead
  /\ NoLostWakeup

Looking == {c \in Consumers : pc[c] \in {"relock", "test", "take", "remove"}}
Notifying == {p \in Producers : pc[p] = "notify"}

-----------------------------------------------------------------------------
\* The two sets NoLostWakeup counts are finite, so that their sizes add up.
LEMMA CountsAreNumbers ==
  /\ IsFiniteSet(Looking) /\ Cardinality(Looking) \in Nat
  /\ IsFiniteSet(Notifying) /\ Cardinality(Notifying) \in Nat
<1>1. Looking \in SUBSET Consumers /\ Notifying \in SUBSET Producers
  BY DEF Looking, Notifying
<1>2. IsFiniteSet(Looking) /\ IsFiniteSet(Notifying)
  BY <1>1, QueueAssumption, FS_Subset
<1>3. QED
  BY <1>2, FS_CardinalityType

\* NoLostWakeup in the words of the two sets.
LEMMA WakeupBound ==
  NoLostWakeup <=>
    (Sleepers # {} => Len(queue_) <= Cardinality(Looking) + Cardinality(Notifying))
BY DEF NoLostWakeup, Looking, Notifying

\* A step that leaves the queue, the sleepers and both counts alone loses no wakeup.
LEMMA CountsUnchanged ==
  ASSUME NoLostWakeup, queue_' = queue_, Sleepers' = Sleepers,
         Looking' = Looking, Notifying' = Notifying
  PROVE  NoLostWakeup'
BY WakeupBound DEF NoLostWakeup, Looking, Notifying

-----------------------------------------------------------------------------
\* Nothing is queued, held or waited for at the start.
LEMMA InitIInv == Init => IInv
<1> SUFFICES ASSUME Init PROVE IInv
  OBVIOUS
<1> USE QueueAssumption DEF Init
<1>1. pc \in [Threads -> Steps]
  BY DEF Steps
<1>2. TypeOK
  BY DEF TypeOK, Threads
<1>3. ArgumentHeld /\ TakesFromSome /\ RemovesWhatItRead
  BY DEF ArgumentHeld, TakesFromSome, RemovesWhatItRead, Threads
<1>4. NoLostWakeup
  BY DEF NoLostWakeup, Sleepers, Threads
<1>5. QED
  BY <1>1, <1>2, <1>3, <1>4 DEF IInv

\* A call of push() hands an item over and touches nothing shared.
LEMMA CallPushStep ==
  ASSUME IInv, NEW p \in Producers, CallPush(p) PROVE IInv'
<1> USE QueueAssumption DEF CallPush, Goto
<1>0. p \in Threads /\ p \notin Consumers
  BY DEF Threads
<1>1. pc' \in [Threads -> Steps]
  BY <1>0 DEF IInv, Steps
<1>2. calls[p] + 1 \in 1 .. MaxItems /\ calls'[p] = calls[p] + 1
  BY DEF IInv, TypeOK
<1>3. <<p, calls'[p]>> \in Items /\ <<p, calls'[p]>> # NoItem
  BY <1>2 DEF Items
<1>4. TypeOK'
  BY <1>0, <1>2, <1>3 DEF IInv, TypeOK, Threads
<1>5. ArgumentHeld' /\ TakesFromSome' /\ RemovesWhatItRead'
  BY <1>0, <1>3 DEF IInv, TypeOK, ArgumentHeld, TakesFromSome, RemovesWhatItRead, Threads
<1>6. Sleepers' = Sleepers /\ Looking' = Looking /\ Notifying' = Notifying
  BY <1>0 DEF IInv, Sleepers, Looking, Notifying, Threads
<1>7. NoLostWakeup'
  BY <1>6, CountsUnchanged DEF IInv
<1>8. QED
  BY <1>1, <1>4, <1>5, <1>7 DEF IInv

\* push() takes the mutex that nobody holds.
LEMMA LockStep ==
  ASSUME IInv, NEW p \in Producers, Lock(p) PROVE IInv'
<1> USE QueueAssumption DEF Lock, Acquire, Goto
<1>0. p \in Threads /\ p \notin Consumers
  BY DEF Threads
<1>1. pc' \in [Threads -> Steps]
  BY <1>0 DEF IInv, Steps
<1>2. TypeOK'
  BY <1>0 DEF IInv, TypeOK, Threads
<1>3. ArgumentHeld' /\ TakesFromSome' /\ RemovesWhatItRead'
  BY <1>0 DEF IInv, ArgumentHeld, TakesFromSome, RemovesWhatItRead, Threads
<1>4. Sleepers' = Sleepers /\ Looking' = Looking /\ Notifying' = Notifying
  BY <1>0 DEF IInv, Sleepers, Looking, Notifying, Threads
<1>5. NoLostWakeup'
  BY <1>4, CountsUnchanged DEF IInv
<1>6. QED
  BY <1>1, <1>2, <1>3, <1>5 DEF IInv

\* The item that push() inserts is covered by its own notify_one(), still to come.
LEMMA InsertStep ==
  ASSUME IInv, NEW p \in Producers, Insert(p) PROVE IInv'
<1> USE QueueAssumption DEF Insert, Inserted, Goto
<1>0. p \in Threads /\ p \notin Consumers
  BY DEF Threads
<1>1. pc' \in [Threads -> Steps]
  BY <1>0 DEF IInv, Steps
<1>2. item[p] \in Items
  BY DEF IInv, TypeOK, ArgumentHeld
<1>3. queue_' \in Seq(Items) /\ queue_' # <<>> /\ Len(queue_') = Len(queue_) + 1
  <2>1. queue_ \in Seq(Items) /\ queue_' = Append(queue_, item[p])
    BY DEF IInv, TypeOK
  <2>2. QED
    BY <1>2, <2>1
<1>4. TypeOK'
  BY <1>0, <1>3 DEF IInv, TypeOK, Threads
<1>5. ArgumentHeld' /\ TakesFromSome' /\ RemovesWhatItRead'
  BY <1>0, <1>3 DEF IInv, TypeOK, ArgumentHeld, TakesFromSome, RemovesWhatItRead, Threads
<1>6. NoLostWakeup'
  <2>1. Sleepers' = Sleepers /\ Looking' = Looking
    BY <1>0 DEF IInv, Sleepers, Looking, Threads
  <2>2. p \notin Notifying /\ Notifying' = Notifying \cup {p}
    BY <1>0 DEF IInv, Notifying, Threads
  <2>3. Cardinality(Notifying') = Cardinality(Notifying) + 1
    BY <2>2, CountsAreNumbers, FS_AddElement
  <2>4. Sleepers' # {} => Len(queue_') <= Cardinality(Looking') + Cardinality(Notifying')
    BY <1>3, <2>1, <2>3, CountsAreNumbers, WakeupBound DEF IInv, TypeOK
  <2>5. QED
    BY <2>4 DEF NoLostWakeup, Looking, Notifying
<1>7. QED
  BY <1>1, <1>4, <1>5, <1>6 DEF IInv

\* notify_one() hands its share of the count to the consumer it wakes.
LEMMA NotifyOneStep ==
  ASSUME IInv, NEW p \in Producers, NotifyOne(p) PROVE IInv'
<1> USE QueueAssumption DEF NotifyOne, Goto, Woken
<1>0. p \in Threads /\ p \notin Consumers /\ Consumers \subseteq Threads
  BY DEF Threads
<1>1. CASE \E c \in Sleepers : pc' = [pc EXCEPT ![p] = "unlock", ![c] = "relock"]
  <2>1. PICK c \in Sleepers : pc' = [pc EXCEPT ![p] = "unlock", ![c] = "relock"]
    BY <1>1
  <2>2. c \in Consumers /\ c \in Threads /\ c # p /\ pc[c] = "asleep"
    BY <1>0 DEF Sleepers
  <2>3. pc' \in [Threads -> Steps]
    BY <1>0, <2>1, <2>2 DEF IInv, Steps
  <2>4. TypeOK'
    BY <1>0, <2>1, <2>2 DEF IInv, TypeOK, Threads
  <2>5. ArgumentHeld' /\ TakesFromSome' /\ RemovesWhatItRead'
    BY <1>0, <2>1, <2>2 DEF IInv, ArgumentHeld, TakesFromSome, RemovesWhatItRead, Threads
  <2>6. NoLostWakeup'
    <3>1. c \notin Looking /\ Looking' = Looking \cup {c}
      BY <1>0, <2>1, <2>2 DEF IInv, Looking, Threads
    <3>2. p \in Notifying /\ Notifying' = Notifying \ {p}
      BY <1>0, <2>1, <2>2 DEF IInv, Notifying, Threads
    <3>3. Cardinality(Looking') = Cardinality(Looking) + 1
      BY <3>1, CountsAreNumbers, FS_AddElement
    <3>4. Cardinality(Notifying') = Cardinality(Notifying) - 1
      BY <3>2, CountsAreNumbers, FS_RemoveElement
    <3>5. Len(queue_) <= Cardinality(Looking) + Cardinality(Notifying)
      BY <2>1, WakeupBound DEF IInv
    <3>6. Len(queue_') <= Cardinality(Looking') + Cardinality(Notifying')
      BY <3>3, <3>4, <3>5, CountsAreNumbers DEF IInv, TypeOK
    <3>7. QED
      BY <3>6 DEF NoLostWakeup, Looking, Notifying
  <2>7. QED
    BY <2>3, <2>4, <2>5, <2>6 DEF IInv
<1>2. CASE Sleepers = {} /\ pc' = [pc EXCEPT ![p] = "unlock"]
  <2>1. pc' \in [Threads -> Steps]
    BY <1>0, <1>2 DEF IInv, Steps
  <2>2. TypeOK'
    BY <1>0, <1>2 DEF IInv, TypeOK, Threads
  <2>3. ArgumentHeld' /\ TakesFromSome' /\ RemovesWhatItRead'
    BY <1>0, <1>2 DEF IInv, ArgumentHeld, TakesFromSome, RemovesWhatItRead, Threads
  <2>4. Sleepers' = {}
    BY <1>0, <1>2 DEF IInv, Sleepers, Threads
  <2>5. QED
    BY <2>1, <2>2, <2>3, <2>4 DEF IInv, NoLostWakeup
<1>3. QED
  BY <1>1, <1>2

\* Either call's way out releases the mutex.
LEMMA UnlockStep ==
  ASSUME IInv, NEW t \in Threads, Unlock(t) PROVE IInv'
<1> USE QueueAssumption DEF Unlock, Release, Goto
<1>1. pc' \in [Threads -> Steps]
  BY DEF IInv, Steps
<1>2. TypeOK'
  BY DEF IInv, TypeOK, Threads
<1>3. ArgumentHeld' /\ TakesFromSome' /\ RemovesWhatItRead'
  BY DEF IInv, ArgumentHeld, TakesFromSome, RemovesWhatItRead, Threads
<1>4. Sleepers' = Sleepers /\ Looking' = Looking /\ Notifying' = Notifying
  BY DEF IInv, Sleepers, Looking, Notifying, Threads
<1>5. NoLostWakeup'
  BY <1>4, CountsUnchanged DEF IInv
<1>6. QED
  BY <1>1, <1>2, <1>3, <1>5 DEF IInv

\* pop() takes the mutex to look at the queue: it counts from here on.
LEMMA LockToTestStep ==
  ASSUME IInv, NEW c \in Consumers, LockToTest(c) PROVE IInv'
<1> USE QueueAssumption DEF LockToTest, Acquire, Goto
<1>0. c \in Threads /\ c \notin Producers
  BY DEF Threads
<1>1. pc' \in [Threads -> Steps]
  BY <1>0 DEF IInv, Steps
<1>2. TypeOK'
  BY <1>0 DEF IInv, TypeOK, Threads
<1>3. ArgumentHeld' /\ TakesFromSome' /\ RemovesWhatItRead'
  BY <1>0 DEF IInv, ArgumentHeld, TakesFromSome, RemovesWhatItRead, Threads
<1>4. NoLostWakeup'
  <2>1. Sleepers' = Sleepers /\ Notifying' = Notifying /\ Looking' = Looking \cup {c}
    BY <1>0 DEF IInv, Sleepers, Looking, Notifying, Threads
  <2>2. Cardinality(Looking \cup {c}) =
          IF c \in Looking THEN Cardinality(Looking) ELSE Cardinality(Looking) + 1
    BY CountsAreNumbers, FS_AddElement
  <2>3. Cardinality(Looking') \in Nat /\ Cardinality(Looking') >= Cardinality(Looking)
    BY <2>1, <2>2, CountsAreNumbers
  <2>4. Sleepers' # {} => Len(queue_') <= Cardinality(Looking') + Cardinality(Notifying')
    BY <2>1, <2>3, CountsAreNumbers, WakeupBound DEF IInv, TypeOK
  <2>5. QED
    BY <2>4 DEF NoLostWakeup, Looking, Notifying
<1>5. QED
  BY <1>1, <1>2, <1>3, <1>4 DEF IInv

\* pop() sees an item and will take it, or sees none and falls asleep in the same
\* step: at that moment there is nothing to be woken for.
LEMMA TestStep ==
  ASSUME IInv, NEW c \in Consumers, Test(c) PROVE IInv'
<1> USE QueueAssumption DEF Test, Sleep, Release, Goto
<1>0. c \in Threads /\ c \notin Producers
  BY DEF Threads
<1>1. pc' \in [Threads -> Steps]
  BY <1>0 DEF IInv, Steps
<1>2. TypeOK'
  BY <1>0 DEF IInv, TypeOK, Threads
<1>3. ArgumentHeld' /\ TakesFromSome' /\ RemovesWhatItRead'
  BY <1>0 DEF IInv, ArgumentHeld, TakesFromSome, RemovesWhatItRead, Threads
<1>4. CASE queue_ # <<>>
  <2>1. Sleepers' = Sleepers /\ Looking' = Looking /\ Notifying' = Notifying
    BY <1>0, <1>4 DEF IInv, Sleepers, Looking, Notifying, Threads
  <2>2. NoLostWakeup'
    BY <2>1, CountsUnchanged DEF IInv
  <2>3. QED
    BY <1>1, <1>2, <1>3, <2>2 DEF IInv
<1>5. CASE queue_ = <<>>
  <2>1. Notifying' = Notifying /\ Looking' = Looking \ {c} /\ Len(queue_') = 0
    BY <1>0, <1>5 DEF IInv, Looking, Notifying, Threads
  <2>2. Cardinality(Looking') \in Nat
    BY <2>1, CountsAreNumbers, FS_RemoveElement, FS_CardinalityType
  <2>3. Len(queue_') <= Cardinality(Looking') + Cardinality(Notifying')
    BY <2>1, <2>2, CountsAreNumbers
  <2>4. NoLostWakeup'
    BY <2>3 DEF NoLostWakeup, Looking, Notifying
  <2>5. QED
    BY <1>1, <1>2, <1>3, <2>4 DEF IInv
<1>6. QED
  BY <1>4, <1>5

\* A wakeup for no reason only adds a consumer that will look.
LEMMA WakeSpuriouslyStep ==
  ASSUME IInv, NEW c \in Consumers, WakeSpuriously(c) PROVE IInv'
<1> USE QueueAssumption DEF WakeSpuriously, Goto
<1>0. c \in Threads /\ c \notin Producers
  BY DEF Threads
<1>1. pc' \in [Threads -> Steps]
  BY <1>0 DEF IInv, Steps
<1>2. TypeOK'
  BY <1>0 DEF IInv, TypeOK, Threads
<1>3. ArgumentHeld' /\ TakesFromSome' /\ RemovesWhatItRead'
  BY <1>0 DEF IInv, ArgumentHeld, TakesFromSome, RemovesWhatItRead, Threads
<1>4. NoLostWakeup'
  <2>1. /\ c \in Sleepers /\ c \notin Looking
        /\ Notifying' = Notifying /\ Looking' = Looking \cup {c}
    BY <1>0 DEF IInv, Sleepers, Looking, Notifying, Threads
  <2>2. Cardinality(Looking') = Cardinality(Looking) + 1
    BY <2>1, CountsAreNumbers, FS_AddElement
  <2>3. Len(queue_') <= Cardinality(Looking') + Cardinality(Notifying')
    BY <2>1, <2>2, CountsAreNumbers, WakeupBound DEF IInv, TypeOK
  <2>4. QED
    BY <2>3 DEF NoLostWakeup, Looking, Notifying
<1>5. QED
  BY <1>1, <1>2, <1>3, <1>4 DEF IInv

\* pop() reads the front with the mutex in hand; nothing is removed yet.
LEMMA FrontStep ==
  ASSUME IInv, NEW c \in Consumers, Front(c) PROVE IInv'
<1> USE QueueAssumption DEF Front, Goto
<1>0. c \in Threads /\ c \notin Producers
  BY DEF Threads
<1>1. pc' \in [Threads -> Steps]
  BY <1>0 DEF IInv, Steps
<1>2. queue_ # <<>> /\ queue_ \in Seq(Items) /\ Head(queue_) \in Items
  BY DEF IInv, TakesFromSome, TypeOK
<1>3. TypeOK'
  BY <1>0, <1>2 DEF IInv, TypeOK, Threads
<1>4. ArgumentHeld' /\ TakesFromSome' /\ RemovesWhatItRead'
  BY <1>0, <1>2 DEF IInv, TypeOK, ArgumentHeld, TakesFromSome, RemovesWhatItRead, Threads
<1>5. Sleepers' = Sleepers /\ Looking' = Looking /\ Notifying' = Notifying
  BY <1>0 DEF IInv, Sleepers, Looking, Notifying, Threads
<1>6. NoLostWakeup'
  BY <1>5, CountsUnchanged DEF IInv
<1>7. QED
  BY <1>1, <1>3, <1>4, <1>6 DEF IInv

\* A consumer that takes an item leaves with it: the queue and the count both lose one.
LEMMA RemoveStep ==
  ASSUME IInv, NEW c \in Consumers, Remove(c) PROVE IInv'
<1> USE QueueAssumption DEF Remove, Goto
<1>0. c \in Threads /\ c \notin Producers
  BY DEF Threads
<1>1. pc' \in [Threads -> Steps]
  BY <1>0 DEF IInv, Steps
<1>2. queue_ # <<>> /\ queue_ \in Seq(Items)
  BY DEF IInv, TakesFromSome, TypeOK
<1>3. front[c] \in Items /\ queue_' \in Seq(Items) /\ Len(queue_') = Len(queue_) - 1
  <2>1. front[c] = Head(queue_) /\ queue_' = SubSeq(queue_, 2, Len(queue_))
    BY DEF IInv, RemovesWhatItRead
  <2>2. SubSeq(queue_, 2, Len(queue_)) = Tail(queue_) /\ Head(queue_) \in Items
    BY <1>2
  <2>3. Tail(queue_) \in Seq(Items) /\ Len(Tail(queue_)) = Len(queue_) - 1
    BY <1>2
  <2>4. QED
    BY <2>1, <2>2, <2>3
<1>4. got' \in [Consumers -> Seq(Items)]
  BY <1>3 DEF IInv, TypeOK
<1>5. TypeOK'
  BY <1>0, <1>3, <1>4 DEF IInv, TypeOK, Threads
<1>6. ArgumentHeld' /\ TakesFromSome' /\ RemovesWhatItRead'
  BY <1>0 DEF IInv, TypeOK, ArgumentHeld, TakesFromSome, RemovesWhatItRead, Threads
<1>7. NoLostWakeup'
  <2>1. /\ Sleepers' = Sleepers /\ Notifying' = Notifying
        /\ c \in Looking /\ Looking' = Looking \ {c}
    BY <1>0 DEF IInv, Sleepers, Looking, Notifying, Threads
  <2>2. Cardinality(Looking') = Cardinality(Looking) - 1
    BY <2>1, CountsAreNumbers, FS_RemoveElement
  <2>3. Sleepers' # {} => Len(queue_') <= Cardinality(Looking') + Cardinality(Notifying')
    BY <1>2, <1>3, <2>1, <2>2, CountsAreNumbers, WakeupBound DEF IInv
  <2>4. QED
    BY <2>3 DEF NoLostWakeup, Looking, Notifying
<1>8. QED
  BY <1>1, <1>5, <1>6, <1>7 DEF IInv

-----------------------------------------------------------------------------
\* Every step of every thread keeps the invariant.
LEMMA NextStep == IInv /\ [Next]_queueVars => IInv'
<1> SUFFICES ASSUME IInv, [Next]_queueVars PROVE IInv'
  OBVIOUS
<1>1. ASSUME NEW p \in Producers, CallPush(p) \/ PushStep(p) PROVE IInv'
  <2>1. p \in Threads
    BY DEF Threads
  <2>2. QED
    BY <1>1, <2>1, CallPushStep, LockStep, InsertStep, NotifyOneStep, UnlockStep DEF PushStep
<1>2. ASSUME NEW c \in Consumers, PopStep(c) \/ WakeSpuriously(c) PROVE IInv'
  <2>1. c \in Threads
    BY DEF Threads
  <2>2. QED
    BY <1>2, <2>1, LockToTestStep, TestStep, FrontStep, RemoveStep, UnlockStep,
       WakeSpuriouslyStep
    DEF PopStep
<1>3. CASE UNCHANGED queueVars
  BY <1>3 DEF queueVars, IInv, TypeOK, ArgumentHeld, TakesFromSome, RemovesWhatItRead, NoLostWakeup, Sleepers
<1>4. QED
  BY <1>1, <1>2, <1>3 DEF Next

\* The inductive invariant holds throughout.
THEOREM Invariant == Spec => []IInv
BY InitIInv, NextStep, PTL DEF Spec

\* push() and pop() touch the queue only with the mutex in hand, and nobody else
\* holds it then, for any number of threads.
THEOREM TypesAndMutex == Spec => []TypeOK
<1>1. IInv => TypeOK
  BY DEF IInv
<1>2. QED
  BY <1>1, Invariant, PTL

\* notify_one() once per push() is enough: while a consumer sleeps, every item in the
\* queue has another thread that is yet to look at it or to notify.
THEOREM NoWakeupLost == Spec => []NoLostWakeup
<1>1. IInv => NoLostWakeup
  BY DEF IInv
<1>2. QED
  BY <1>1, Invariant, PTL

-----------------------------------------------------------------------------
\* A thread's step on the queue is the step of FifoQueue it stands for, or none.
LEMMA StepRefines == IInv /\ [Next]_queueVars => [Fifo!Next]_(Fifo!fifoVars)
<1> SUFFICES ASSUME IInv, [Next]_queueVars PROVE [Fifo!Next]_(Fifo!fifoVars)
  OBVIOUS
<1> USE DEF Fifo!fifoVars
<1>1. ASSUME NEW p \in Producers, CallPush(p)
      PROVE  \E i \in Items : Fifo!CallPush(p, i)
  <2>1. item[p] = NoItem
    BY <1>1 DEF CallPush, IInv, ArgumentHeld
  <2>2. <<p, calls'[p]>> \in Items
    BY <1>1, QueueAssumption DEF CallPush, IInv, TypeOK, Items
  <2>3. QED
    BY <1>1, <2>1, <2>2 DEF CallPush, Fifo!CallPush
<1>2. ASSUME NEW p \in Producers, Insert(p) PROVE Fifo!Push(p)
  BY <1>2 DEF Insert, Inserted, IInv, ArgumentHeld, Fifo!Push
<1>3. ASSUME NEW c \in Consumers, Remove(c) PROVE Fifo!Pop(c)
  <2>1. queue_ # <<>> /\ queue_ \in Seq(Items) /\ front[c] = Head(queue_)
    BY <1>3 DEF Remove, IInv, TypeOK, TakesFromSome, RemovesWhatItRead
  <2>2. SubSeq(queue_, 2, Len(queue_)) = Tail(queue_)
    BY <2>1
  <2>3. QED
    BY <1>3, <2>1, <2>2 DEF Remove, Fifo!Pop
<1>4. ASSUME NEW p \in Producers, Lock(p) \/ NotifyOne(p) \/ Unlock(p)
      PROVE  UNCHANGED Fifo!fifoVars
  BY <1>4 DEF Lock, NotifyOne, Unlock
<1>5. ASSUME NEW c \in Consumers, \/ LockToTest(c) \/ Test(c) \/ Front(c)
                                 \/ Unlock(c) \/ WakeSpuriously(c)
      PROVE  UNCHANGED Fifo!fifoVars
  BY <1>5 DEF LockToTest, Test, Front, Unlock, WakeSpuriously
<1>6. CASE UNCHANGED queueVars
  BY <1>6 DEF queueVars
<1>7. QED
  BY <1>1, <1>2, <1>3, <1>4, <1>5, <1>6 DEF Next, PushStep, PopStep, Fifo!Next

\* SafeQueue implements FifoQueue: each call takes effect at one instant, pop()
\* returns the oldest item, and only when there is one.
THEOREM Refinement == Spec => ImplementsFifo
<1>1. Init => Fifo!Init
  BY DEF Init, Fifo!Init
<1>2. QED
  BY <1>1, StepRefines, Invariant, PTL DEF Spec, ImplementsFifo, Fifo!Spec
=============================================================================
