---------------------------- MODULE MonitorQueue ----------------------------
(***************************************************************************)
(* The class queue<T> of util.cpp: a deque guarded by a mutex, with a      *)
(* condition variable on which pop() waits.  Each step is one atomic       *)
(* action of a thread: taking the mutex, changing the deque, releasing the *)
(* mutex, notifying.  push() notifies after it has released the mutex, so  *)
(* other threads run between the insertion and the notification.  wait()   *)
(* releases the mutex and blocks atomically, a blocked thread may wake up  *)
(* spuriously, and a woken thread must take the mutex again before it      *)
(* re-evaluates the predicate, while newcomers may overtake it.            *)
(*                                                                         *)
(* The deque is the sequence d_queue from its back to its front: push()    *)
(* adds at the front, the end of the sequence, and pop() takes the back,   *)
(* the head of the sequence.                                               *)
(***************************************************************************)
EXTENDS Naturals, Sequences, FiniteSets

CONSTANTS Producers,            \* the threads that call push()
          Consumers,            \* the threads that call pop()
          Items,                \* what they push
          NoThread,             \* the mutex is free
          MaxPushes,            \* bound: calls of push() in a behaviour
          MaxSpurious           \* bound: spurious wake-ups in a behaviour

Threads == Producers \cup Consumers

ASSUME ThreadsAssumption ==
  /\ Producers \cap Consumers = {}
  /\ NoThread \notin Threads
  /\ IsFiniteSet(Producers) /\ IsFiniteSet(Consumers)

ASSUME BoundsAssumption == MaxPushes \in Nat /\ MaxSpurious \in Nat

VARIABLES d_mutex,              \* the thread that holds the mutex, or NoThread
          d_queue,              \* the deque, from its back to its front
          d_condition,          \* the threads blocked in d_condition.wait()
          pc,                   \* where each thread is
          pushes,               \* calls of push() begun
          spurious,             \* spurious wake-ups so far
          popped                \* history: the values in the order of removal

queueVars == <<d_mutex, d_queue, d_condition, pc, pushes, spurious, popped>>

\* A producer is outside push(), or about to insert, to unlock, to notify; a
\* consumer is outside pop(), or about to evaluate the predicate of wait(),
\* blocked, woken and waiting for the mutex, or about to unlock and return.
ProducerPC == {"outside", "insert", "unlock", "notify"}
ConsumerPC == {"outside", "check", "blocked", "woken", "return"}
Critical == {"insert", "unlock", "check", "return"}

QueueInit == /\ d_mutex = NoThread
             /\ d_queue = <<>>
             /\ d_condition = {}
             /\ pc = [t \in Threads |-> "outside"]
             /\ pushes = 0
             /\ spurious = 0
             /\ popped = <<>>

Goto(t, label) == pc' = [pc EXCEPT ![t] = label]

Acquire(t) == d_mutex = NoThread /\ d_mutex' = t

\* Mutant: the mutex is never given back (a lock() without its unlock()).
ReleaseForgotten(t) == d_mutex = t /\ UNCHANGED d_mutex

Release(t) == d_mutex = t /\ d_mutex' = NoThread

-----------------------------------------------------------------------------
(* push()                                                                  *)

\* std::unique_lock lock(d_mutex)
PushLock(p) ==
  /\ pc[p] = "outside"
  /\ pushes < MaxPushes
  /\ Acquire(p)
  /\ Goto(p, "insert")
  /\ pushes' = pushes + 1
  /\ UNCHANGED <<d_queue, d_condition, spurious, popped>>

\* Mutant: push_back(value), which makes a stack of the queue.
PushedBack(v) == <<v>> \o d_queue

\* The deque after d_queue.push_front(value)
PushedFront(v) == Append(d_queue, v)

PushInsert(p, v) ==
  /\ pc[p] = "insert"
  /\ d_queue' = PushedFront(v)
  /\ Goto(p, "unlock")
  /\ UNCHANGED <<d_mutex, d_condition, pushes, spurious, popped>>

\* The block ends: the lock is destroyed before notify_one is called.
PushUnlock(p) ==
  /\ pc[p] = "unlock"
  /\ Release(p)
  /\ Goto(p, "notify")
  /\ UNCHANGED <<d_queue, d_condition, pushes, spurious, popped>>

\* Mutant: notify only when the deque was empty before the push.
NotifiedIfFirst == IF Len(d_queue) = 1 THEN d_condition ELSE {}

\* The threads one of which notify_one() wakes
Notified == d_condition

NotifyOne(p) ==
  /\ pc[p] = "notify"
  /\ \/ /\ Notified = {}
        /\ Goto(p, "outside")
        /\ UNCHANGED d_condition
     \/ \E c \in Notified :
          /\ d_condition' = d_condition \ {c}
          /\ pc' = [pc EXCEPT ![p] = "outside", ![c] = "woken"]
  /\ UNCHANGED <<d_mutex, d_queue, pushes, spurious, popped>>

-----------------------------------------------------------------------------
(* pop()                                                                   *)

\* std::unique_lock lock(d_mutex)
PopLock(c) ==
  /\ pc[c] = "outside"
  /\ Acquire(c)
  /\ Goto(c, "check")
  /\ UNCHANGED <<d_queue, d_condition, pushes, spurious, popped>>

\* The predicate of wait() is false: release the mutex and block, in one step.
PopWait(c) ==
  /\ pc[c] = "check"
  /\ d_queue = <<>>
  /\ Release(c)
  /\ d_condition' = d_condition \cup {c}
  /\ Goto(c, "blocked")
  /\ UNCHANGED <<d_queue, pushes, spurious, popped>>

\* A wake-up nobody asked for, which the C++ standard allows.
SpuriousWakeup(c) ==
  /\ c \in d_condition
  /\ spurious < MaxSpurious
  /\ spurious' = spurious + 1
  /\ d_condition' = d_condition \ {c}
  /\ Goto(c, "woken")
  /\ UNCHANGED <<d_mutex, d_queue, pushes, popped>>

\* A woken thread takes the mutex and evaluates the predicate once more.
PopRelock(c) ==
  /\ pc[c] = "woken"
  /\ Acquire(c)
  /\ Goto(c, "check")
  /\ UNCHANGED <<d_queue, d_condition, pushes, spurious, popped>>

\* The predicate holds: rc = d_queue.back(), d_queue.pop_back()
PopTake(c) ==
  /\ pc[c] = "check"
  /\ d_queue # <<>>
  /\ popped' = Append(popped, Head(d_queue))
  /\ d_queue' = Tail(d_queue)
  /\ Goto(c, "return")
  /\ UNCHANGED <<d_mutex, d_condition, pushes, spurious>>

\* return rc, which destroys the lock
PopReturn(c) ==
  /\ pc[c] = "return"
  /\ Release(c)
  /\ Goto(c, "outside")
  /\ UNCHANGED <<d_queue, d_condition, pushes, spurious, popped>>

-----------------------------------------------------------------------------
PushStep(p) == \/ PushLock(p)
               \/ \E v \in Items : PushInsert(p, v)
               \/ PushUnlock(p)
               \/ NotifyOne(p)

PopStep(c) == \/ PopLock(c)
              \/ PopWait(c)
              \/ PopRelock(c)
              \/ PopTake(c)
              \/ PopReturn(c)

QueueNext == \/ \E p \in Producers : PushStep(p)
             \/ \E c \in Consumers : PopStep(c) \/ SpuriousWakeup(c)

QueueSpec == QueueInit /\ [][QueueNext]_queueVars

\* The scheduler runs every thread that can run; nothing forces a spurious
\* wake-up.  Weak fairness is enough: no thread needs the mutex while others
\* take it for ever.
Fairness == /\ \A p \in Producers : WF_queueVars(PushStep(p))
            /\ \A c \in Consumers : WF_queueVars(PopStep(c))

FairQueueSpec == QueueSpec /\ Fairness

-----------------------------------------------------------------------------
(* Properties                                                              *)

\* Type correctness, with the two facts that make a program counter mean what
\* it says: a thread is in a critical section exactly when it holds the mutex,
\* and it is blocked exactly when the condition variable knows it.
QueueTypeOK ==
  /\ d_mutex \in Threads \cup {NoThread}
  /\ d_queue \in Seq(Items)
  /\ d_condition \subseteq Consumers
  /\ pc \in [Threads -> ProducerPC \cup ConsumerPC]
  /\ \A p \in Producers : pc[p] \in ProducerPC
  /\ \A c \in Consumers : pc[c] \in ConsumerPC
  /\ \A t \in Threads : pc[t] \in Critical <=> d_mutex = t
  /\ \A c \in Consumers : pc[c] = "blocked" <=> c \in d_condition
  /\ pushes \in Nat /\ spurious \in Nat
  /\ popped \in Seq(Items)

\* The producers that have inserted a value and not notified yet, and the
\* consumers that are going to evaluate the predicate before they block.
Notifying == {p \in Producers : pc[p] \in {"unlock", "notify"}}
Awake == {c \in Consumers : pc[c] \in {"woken", "check"}}

\* No lost wake-up: as long as a consumer is blocked, each value in the deque is
\* covered by a notification still to come or by a consumer that is going to
\* look.  notify_one is called after the mutex is released, a notification
\* that finds nobody blocked is lost, woken consumers are overtaken and
\* wake-ups may be spurious: none of it leaves a consumer asleep beside a
\* value that nobody else is going to take.
NoLostWakeup ==
  d_condition # {} =>
    Len(d_queue) <= Cardinality(Notifying) + Cardinality(Awake)

\* The queue implements the channel: values leave in the order of their
\* insertion, each exactly once, whatever the interleaving of push() and pop().
Fifo == INSTANCE FifoChannel WITH Values <- Items, contents <- d_queue,
                                  delivered <- popped
ImplementsFifo == Fifo!ChSpec

\* Every inserted value is eventually taken, since the consumers of the
\* programs call pop() again until they are done: once n values have been
\* inserted, n values are eventually removed.
EveryPushIsPopped ==
  \A n \in 1..MaxPushes : Len(popped) + Len(d_queue) >= n ~> Len(popped) >= n
=============================================================================
