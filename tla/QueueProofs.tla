----------------------------- MODULE QueueProofs -----------------------------
(***************************************************************************)
(* Theorems about the two unbounded queues between the threads of the      *)
(* programs, each of which implements its channel.  First the queue of     *)
(* util.cpp, MonitorQueue, for any finite sets of producers and consumers, *)
(* any values and any bounds: the type invariant, the absence of lost      *)
(* wake-ups and the refinement.                                            *)
(*                                                                         *)
(* Then the queue of FastFlow, UnboundedSpsc, for rings of every size and  *)
(* caches of every capacity.  Its invariant numbers the rings, and the     *)
(* nodes of inuse, in the order in which they are put in, for an address   *)
(* comes back again and again: G[k] and C[k] are the addresses of the k-th *)
(* ring and node and V[k] counts the values pushed before that ring came.  *)
(* At every moment the rings lo to hi are in place, and nearly everything  *)
(* follows from this: what is in place is not in a cache, the contents are *)
(* those of the rings in place one after the other, and a ring between the *)
(* two threads is never empty.                                             *)
(***************************************************************************)
EXTENDS MonitorQueue, UnboundedSpsc, FiniteSetTheorems, SequenceTheorems, TLAPS


-----------------------------------------------------------------------------
(* The queue of util.cpp                                                   *)

\* The queue of util.cpp is type correct, and a thread is in a critical section
\* of push() or pop() exactly when it holds d_mutex.
THEOREM TypeCorrect == QueueSpec => []QueueTypeOK
<1> USE ThreadsAssumption, BoundsAssumption
      DEF Threads, ProducerPC, ConsumerPC, Critical, Goto
<1>1. QueueInit => QueueTypeOK
  BY DEF QueueInit, QueueTypeOK
<1>2. QueueTypeOK /\ [QueueNext]_queueVars => QueueTypeOK'
  <2> SUFFICES ASSUME QueueTypeOK, [QueueNext]_queueVars PROVE QueueTypeOK'
    OBVIOUS
  <2> USE DEF QueueTypeOK
  <2>1. ASSUME NEW p \in Producers, PushLock(p) PROVE QueueTypeOK'
    BY <2>1 DEF PushLock, Acquire
  <2>2. ASSUME NEW p \in Producers, NEW v \in Items, PushInsert(p, v)
        PROVE QueueTypeOK'
    BY <2>2 DEF PushInsert, PushedFront
  <2>3. ASSUME NEW p \in Producers, PushUnlock(p) PROVE QueueTypeOK'
    BY <2>3 DEF PushUnlock, Release
  <2>4. ASSUME NEW p \in Producers, NotifyOne(p) PROVE QueueTypeOK'
    BY <2>4 DEF NotifyOne, Notified
  <2>5. ASSUME NEW c \in Consumers, PopLock(c) PROVE QueueTypeOK'
    BY <2>5 DEF PopLock, Acquire
  <2>6. ASSUME NEW c \in Consumers, PopWait(c) PROVE QueueTypeOK'
    BY <2>6 DEF PopWait, Release
  <2>7. ASSUME NEW c \in Consumers, PopRelock(c) PROVE QueueTypeOK'
    BY <2>7 DEF PopRelock, Acquire
  <2>8. ASSUME NEW c \in Consumers, PopTake(c) PROVE QueueTypeOK'
    BY <2>8 DEF PopTake
  <2>9. ASSUME NEW c \in Consumers, PopReturn(c) PROVE QueueTypeOK'
    BY <2>9 DEF PopReturn, Release
  <2>10. ASSUME NEW c \in Consumers, SpuriousWakeup(c) PROVE QueueTypeOK'
    BY <2>10 DEF SpuriousWakeup
  <2>11. CASE UNCHANGED queueVars
    BY <2>11 DEF queueVars
  <2>12. QED
    BY <2>1, <2>2, <2>3, <2>4, <2>5, <2>6, <2>7, <2>8, <2>9, <2>10, <2>11
       DEF QueueNext, PushStep, PopStep
<1>3. QED
  BY <1>1, <1>2, PTL DEF QueueSpec

-----------------------------------------------------------------------------
\* The two sets that NoLostWakeup counts are finite, so adding a thread to one
\* of them, or removing it, changes its cardinality by one.
LEMMA CountsAreNat ==
  /\ IsFiniteSet(Notifying) /\ Cardinality(Notifying) \in Nat
  /\ IsFiniteSet(Awake) /\ Cardinality(Awake) \in Nat
BY ThreadsAssumption, FS_Subset, FS_CardinalityType DEF Notifying, Awake

\* Every value in the deque of util.cpp is covered, while a consumer is blocked
\* in d_condition.wait(), by a notify_one() still to come or by a consumer on
\* its way to the predicate.  The invariant is inductive relative to QueueTypeOK:
\* what push() inserts it announces, a notification turns a notifier into an
\* awake consumer, an awake consumer removes a value or finds none.
THEOREM WakeupsAreNotLost == QueueSpec => []NoLostWakeup
<1>1. QueueInit => NoLostWakeup
  BY DEF QueueInit, NoLostWakeup
<1>2. QueueTypeOK /\ QueueTypeOK' /\ NoLostWakeup /\ [QueueNext]_queueVars
        => NoLostWakeup'
  <2> SUFFICES ASSUME QueueTypeOK, QueueTypeOK', NoLostWakeup, [QueueNext]_queueVars
               PROVE  NoLostWakeup'
    OBVIOUS
  <2> USE DEF Goto, Threads
  <2> DEFINE N == Notifying
             A == Awake
  <2>f. /\ IsFiniteSet(N) /\ Cardinality(N) \in Nat
        /\ IsFiniteSet(A) /\ Cardinality(A) \in Nat
    BY CountsAreNat
  <2>q. Len(d_queue) \in Nat
    BY DEF QueueTypeOK
  <2>add. \A S, x : IsFiniteSet(S) /\ x \notin S
                       => Cardinality(S \cup {x}) = Cardinality(S) + 1
    BY FS_AddElement
  <2>rem. \A S, x : IsFiniteSet(S) /\ x \in S
                       => Cardinality(S \ {x}) = Cardinality(S) - 1
    BY FS_RemoveElement
  <2> HIDE DEF N, A
  <2>1. ASSUME NEW p \in Producers, PushLock(p) PROVE NoLostWakeup'
    <3>1. N' = N /\ A' = A
      BY <2>1, ThreadsAssumption DEF PushLock, N, A, Notifying, Awake, QueueTypeOK
    <3>2. QED
      BY <2>1, <3>1 DEF PushLock, NoLostWakeup, N, A
  <2>2. ASSUME NEW p \in Producers, NEW v \in Items, PushInsert(p, v)
        PROVE  NoLostWakeup'
    <3>1. N' = N \cup {p} /\ p \notin N /\ A' = A
      BY <2>2, ThreadsAssumption DEF PushInsert, N, A, Notifying, Awake, QueueTypeOK
    <3>2. Cardinality(N') = Cardinality(N) + 1
      BY <3>1, <2>f, <2>add
    <3>3. Len(d_queue') = Len(d_queue) + 1
      BY <2>2 DEF PushInsert, PushedFront, QueueTypeOK
    <3>4. QED
      BY <2>2, <2>f, <2>q, <3>1, <3>2, <3>3 DEF PushInsert, NoLostWakeup, N, A
  <2>3. ASSUME NEW p \in Producers, PushUnlock(p) PROVE NoLostWakeup'
    <3>1. N' = N /\ A' = A
      BY <2>3, ThreadsAssumption DEF PushUnlock, N, A, Notifying, Awake, QueueTypeOK
    <3>2. QED
      BY <2>3, <3>1 DEF PushUnlock, NoLostWakeup, N, A
  <2>4. ASSUME NEW p \in Producers, NotifyOne(p) PROVE NoLostWakeup'
    <3>1. N' = N \ {p} /\ p \in N
      BY <2>4, ThreadsAssumption
         DEF NotifyOne, Notified, N, Notifying, QueueTypeOK, ConsumerPC
    <3>2. Cardinality(N') = Cardinality(N) - 1
      BY <3>1, <2>f, <2>rem
    <3>3. CASE d_condition = {}
      BY <2>4, <3>3 DEF NotifyOne, Notified, NoLostWakeup
    <3>4. ASSUME NEW c \in Notified,
                 d_condition' = d_condition \ {c},
                 pc' = [pc EXCEPT ![p] = "outside", ![c] = "woken"]
          PROVE  NoLostWakeup'
      <4>1. A' = A \cup {c} /\ c \notin A
        BY <3>4, ThreadsAssumption DEF Notified, A, Awake, QueueTypeOK
      <4>2. Cardinality(A') = Cardinality(A) + 1
        BY <4>1, <2>f, <2>add
      <4>3. d_queue' = d_queue /\ d_condition # {}
        BY <2>4, <3>4 DEF NotifyOne, Notified
      <4>4. QED
        BY <2>f, <2>q, <3>2, <4>2, <4>3 DEF NoLostWakeup, N, A
    <3>5. QED
      BY <2>4, <3>3, <3>4 DEF NotifyOne, Notified
  <2>5. ASSUME NEW c \in Consumers, PopLock(c) PROVE NoLostWakeup'
    <3>1. N' = N /\ A' = A \cup {c} /\ c \notin A
      BY <2>5, ThreadsAssumption DEF PopLock, N, A, Notifying, Awake, QueueTypeOK
    <3>2. Cardinality(A') = Cardinality(A) + 1
      BY <3>1, <2>f, <2>add
    <3>3. QED
      BY <2>5, <2>f, <2>q, <3>1, <3>2 DEF PopLock, NoLostWakeup, N, A
  <2>6. ASSUME NEW c \in Consumers, PopWait(c) PROVE NoLostWakeup'
    <3>1. d_queue' = <<>>
      BY <2>6 DEF PopWait
    <3>2. Cardinality(Notifying') \in Nat /\ Cardinality(Awake') \in Nat
      <4>1. IsFiniteSet(Notifying') /\ IsFiniteSet(Awake')
        BY ThreadsAssumption, FS_Subset DEF Notifying, Awake
      <4>2. QED
        BY <4>1, FS_CardinalityType
    <3>3. QED
      BY <3>1, <3>2 DEF NoLostWakeup
  <2>7. ASSUME NEW c \in Consumers, PopRelock(c) PROVE NoLostWakeup'
    <3>1. N' = N /\ A' = A
      BY <2>7, ThreadsAssumption DEF PopRelock, N, A, Notifying, Awake, QueueTypeOK
    <3>2. QED
      BY <2>7, <3>1 DEF PopRelock, NoLostWakeup, N, A
  <2>8. ASSUME NEW c \in Consumers, PopTake(c) PROVE NoLostWakeup'
    <3>1. N' = N /\ A' = A \ {c} /\ c \in A
      BY <2>8, ThreadsAssumption DEF PopTake, N, A, Notifying, Awake, QueueTypeOK
    <3>2. Cardinality(A') = Cardinality(A) - 1
      BY <3>1, <2>f, <2>rem
    <3>3. Len(d_queue') = Len(d_queue) - 1
      BY <2>8 DEF PopTake, QueueTypeOK
    <3>4. QED
      BY <2>8, <2>f, <2>q, <3>1, <3>2, <3>3 DEF PopTake, NoLostWakeup, N, A
  <2>9. ASSUME NEW c \in Consumers, PopReturn(c) PROVE NoLostWakeup'
    <3>1. N' = N /\ A' = A
      BY <2>9, ThreadsAssumption DEF PopReturn, N, A, Notifying, Awake, QueueTypeOK
    <3>2. QED
      BY <2>9, <3>1 DEF PopReturn, NoLostWakeup, N, A
  <2>10. ASSUME NEW c \in Consumers, SpuriousWakeup(c) PROVE NoLostWakeup'
    <3>1. N' = N /\ A' = A \cup {c} /\ c \notin A
      BY <2>10, ThreadsAssumption
         DEF SpuriousWakeup, N, A, Notifying, Awake, QueueTypeOK
    <3>2. Cardinality(A') = Cardinality(A) + 1
      BY <3>1, <2>f, <2>add
    <3>3. QED
      BY <2>10, <2>f, <2>q, <3>1, <3>2 DEF SpuriousWakeup, NoLostWakeup, N, A
  <2>11. CASE UNCHANGED queueVars
    BY <2>11 DEF queueVars, NoLostWakeup, Notifying, Awake
  <2>12. QED
    BY <2>1, <2>2, <2>3, <2>4, <2>5, <2>6, <2>7, <2>8, <2>9, <2>10, <2>11
       DEF QueueNext, PushStep, PopStep
<1>3. QED
  BY <1>1, <1>2, TypeCorrect, PTL DEF QueueSpec

-----------------------------------------------------------------------------
\* The queue of util.cpp implements FifoChannel: push() takes effect when it
\* inserts, pop() when it removes, every other step of either leaves the
\* contents and the values delivered alone.
THEOREM QueueImplementsChannel == QueueSpec => ImplementsFifo
<1>1. QueueInit => Fifo!ChInit
  BY DEF QueueInit, Fifo!ChInit
<1>2. QueueTypeOK /\ [QueueNext]_queueVars => [Fifo!ChNext]_(Fifo!chVars)
  <2> SUFFICES ASSUME QueueTypeOK, [QueueNext]_queueVars
               PROVE  Fifo!ChNext \/ UNCHANGED <<d_queue, popped>>
    BY DEF Fifo!chVars
  <2>1. ASSUME NEW p \in Producers, NEW v \in Items, PushInsert(p, v)
        PROVE  Fifo!Push(v)
    BY <2>1 DEF PushInsert, PushedFront, Fifo!Push
  <2>2. ASSUME NEW c \in Consumers, PopTake(c) PROVE Fifo!Pop
    BY <2>2 DEF PopTake, Fifo!Pop
  <2>3. ASSUME NEW p \in Producers, PushLock(p) \/ PushUnlock(p) \/ NotifyOne(p)
        PROVE  UNCHANGED <<d_queue, popped>>
    BY <2>3 DEF PushLock, PushUnlock, NotifyOne
  <2>4. ASSUME NEW c \in Consumers,
               \/ PopLock(c) \/ PopWait(c) \/ PopRelock(c) \/ PopReturn(c)
               \/ SpuriousWakeup(c)
        PROVE  UNCHANGED <<d_queue, popped>>
    BY <2>4 DEF PopLock, PopWait, PopRelock, PopReturn, SpuriousWakeup
  <2>5. CASE UNCHANGED queueVars
    BY <2>5 DEF queueVars
  <2>6. QED
    BY <2>1, <2>2, <2>3, <2>4, <2>5 DEF QueueNext, PushStep, PopStep, Fifo!ChNext
<1>3. QED
  BY <1>1, <1>2, TypeCorrect, PTL DEF QueueSpec, ImplementsFifo, Fifo!ChSpec

-----------------------------------------------------------------------------
(* What the rings of FastFlow's queue hold: consecutive numbers            *)

\* The numbers after a up to b, as a sequence
Span(a, b) == [i \in 1..(b - a) |-> a + i]

\* What a sequence holds, and that it holds nothing twice
Held(s) == {s[i] : i \in 1..Len(s)}
Distinct(s) == \A i, j \in 1..Len(s) : s[i] = s[j] => i = j

\* A span is a queue of consecutive numbers.
LEMMA SpanIsQueue ==
  \A a, b \in Nat : a <= b =>
    /\ Span(a, b) \in Seq(Nat)
    /\ Len(Span(a, b)) = b - a
    /\ Span(a, b) = <<>> <=> a = b
    /\ Append(Span(a, b), b + 1) = Span(a, b + 1)
    /\ a < b => Head(Span(a, b)) = a + 1 /\ Tail(Span(a, b)) = Span(a + 1, b)
<1> SUFFICES ASSUME NEW a \in Nat, NEW b \in Nat, a <= b
             PROVE  /\ Span(a, b) \in Seq(Nat)
                    /\ Len(Span(a, b)) = b - a
                    /\ Span(a, b) = <<>> <=> a = b
                    /\ Append(Span(a, b), b + 1) = Span(a, b + 1)
                    /\ a < b => Head(Span(a, b)) = a + 1 /\ Tail(Span(a, b)) = Span(a + 1, b)
  OBVIOUS
<1> DEFINE s == Span(a, b)
<1>1. s \in Seq(Nat)
  BY IsASeq, b - a \in Nat DEF Span
<1>2. Len(s) = b - a /\ \A i \in 1..(b - a) : s[i] = a + i
  BY <1>1, b - a \in Nat DEF Span
<1>3. s = <<>> <=> a = b
  <2>1. s = <<>> => Len(s) = 0
    BY EmptySeq
  <2>2. Len(s) = 0 => s = <<>>
    BY <1>1, EmptySeq
  <2>3. QED
    BY <1>2, <2>1, <2>2
<1>4. Append(s, b + 1) = Span(a, b + 1)
  <2>1. Span(a, b + 1) \in Seq(Nat)
    BY IsASeq, b + 1 - a \in Nat DEF Span
  <2>2. Len(Span(a, b + 1)) = b + 1 - a /\ \A i \in 1..(b + 1 - a) : Span(a, b + 1)[i] = a + i
    BY <2>1, b + 1 - a \in Nat DEF Span
  <2>3. /\ Append(s, b + 1) \in Seq(Nat) /\ Len(Append(s, b + 1)) = Len(s) + 1
        /\ \A i \in 1..Len(s) : Append(s, b + 1)[i] = s[i]
        /\ Append(s, b + 1)[Len(s) + 1] = b + 1
    BY <1>1, AppendProperties
  <2> HIDE DEF s
  <2>4. \A i \in 1..(b + 1 - a) : Append(s, b + 1)[i] = a + i
    BY <1>2, <2>3
  <2>5. Len(Append(s, b + 1)) = Len(Span(a, b + 1))
    BY <1>2, <2>2, <2>3
  <2>6. \A i \in 1..Len(Append(s, b + 1)) : Append(s, b + 1)[i] = Span(a, b + 1)[i]
    BY <1>2, <2>2, <2>3, <2>4
  <2>7. QED
    BY <2>1, <2>3, <2>5, <2>6, SeqEqual
<1>5. ASSUME a < b PROVE Head(s) = a + 1 /\ Tail(s) = Span(a + 1, b)
  <2>1. s # <<>>
    BY <1>3, <1>5
  <2>2. Span(a + 1, b) \in Seq(Nat)
    BY <1>5, IsASeq, b - (a + 1) \in Nat DEF Span
  <2>3. /\ Len(Span(a + 1, b)) = b - (a + 1)
        /\ \A i \in 1..(b - (a + 1)) : Span(a + 1, b)[i] = a + 1 + i
    BY <1>5, <2>2, b - (a + 1) \in Nat DEF Span
  <2>4. /\ Tail(s) \in Seq(Nat) /\ Len(Tail(s)) = Len(s) - 1
        /\ \A i \in 1..Len(Tail(s)) : Tail(s)[i] = s[i + 1]
        /\ Head(s) = s[1]
    BY <1>1, <2>1, HeadTailProperties
  <2> HIDE DEF s
  <2>5. Len(Tail(s)) = Len(Span(a + 1, b))
    BY <1>2, <2>3, <2>4
  <2>6. \A i \in 1..Len(Tail(s)) : Tail(s)[i] = Span(a + 1, b)[i]
    BY <1>2, <1>5, <2>3, <2>4
  <2>7. Tail(s) = Span(a + 1, b)
    BY <2>2, <2>4, <2>5, <2>6, SeqEqual
  <2>8. QED
    BY <1>2, <1>5, <2>4, <2>7
<1>6. QED
  BY <1>1, <1>2, <1>3, <1>4, <1>5

\* What is held after Append and after Tail
LEMMA HeldAppend ==
  ASSUME NEW S, NEW s \in Seq(S), NEW x \in S
  PROVE  /\ Held(Append(s, x)) = Held(s) \cup {x}
         /\ Distinct(s) /\ x \notin Held(s) => Distinct(Append(s, x))
<1>1. /\ Append(s, x) \in Seq(S) /\ Len(Append(s, x)) = Len(s) + 1
      /\ \A i \in 1..Len(s) : Append(s, x)[i] = s[i]
      /\ Append(s, x)[Len(s) + 1] = x
  BY AppendProperties
<1>2. Len(s) \in Nat
  OBVIOUS
<1> DEFINE a == Append(s, x)
           l == Len(s)
<1> HIDE DEF a, l
<1>3. \A i \in 1..(l + 1) : i \in 1..l \/ i = l + 1
  BY <1>2 DEF l
<1>4. Held(a) = Held(s) \cup {x}
  BY <1>1, <1>2, <1>3 DEF Held, a, l
<1>5. ASSUME Distinct(s), x \notin Held(s) PROVE Distinct(a)
  BY <1>1, <1>2, <1>3, <1>5 DEF Distinct, Held, a, l
<1>6. QED
  BY <1>4, <1>5 DEF a

\* A sequence that holds nothing twice loses its head with Tail.
LEMMA HeldTail ==
  ASSUME NEW S, NEW s \in Seq(S), s # <<>>, Distinct(s)
  PROVE  /\ Head(s) \in Held(s) /\ Tail(s) \in Seq(S)
         /\ Held(Tail(s)) = Held(s) \ {Head(s)}
         /\ Distinct(Tail(s))
<1>1. /\ Tail(s) \in Seq(S) /\ Len(Tail(s)) = Len(s) - 1
      /\ \A i \in 1..Len(Tail(s)) : Tail(s)[i] = s[i + 1]
      /\ Head(s) = s[1]
  BY HeadTailProperties
<1>2. Len(s) \in Nat \ {0}
  BY EmptySeq
<1> DEFINE r == Tail(s)
           l == Len(s)
<1> HIDE DEF r, l
<1>3. Head(s) \in Held(s)
  BY <1>1, <1>2 DEF Held
<1>4. Held(r) = Held(s) \ {Head(s)}
  <2>1. ASSUME NEW v \in Held(r) PROVE v \in Held(s) \ {Head(s)}
    <3>1. PICK i \in 1..(l - 1) : v = s[i + 1]
      BY <1>1, <2>1 DEF Held, r, l
    <3>2. i + 1 \in 1..l /\ 1 \in 1..l /\ i + 1 # 1
      BY <1>2, <3>1 DEF l
    <3>3. QED
      BY <1>1, <3>1, <3>2 DEF Held, Distinct, l
  <2>2. ASSUME NEW v \in Held(s) \ {Head(s)} PROVE v \in Held(r)
    <3>1. PICK i \in 1..l : v = s[i]
      BY <2>2 DEF Held, l
    <3>2. i # 1
      BY <1>1, <2>2, <3>1
    <3>3. i - 1 \in 1..(l - 1) /\ (i - 1) + 1 = i
      BY <1>2, <3>1, <3>2 DEF l
    <3>4. r[i - 1] = v
      BY <1>1, <3>1, <3>3 DEF r, l
    <3>5. QED
      BY <1>1, <3>3, <3>4 DEF Held, r, l
  <2>3. QED
    BY <2>1, <2>2
<1>5. Distinct(r)
  <2>1. \A i \in 1..(l - 1) : i + 1 \in 1..l
    BY <1>2 DEF l
  <2>2. QED
    BY <1>1, <1>2, <2>1 DEF Distinct, r, l
<1>6. QED
  BY <1>1, <1>3, <1>4, <1>5 DEF r

\* The empty sequence holds nothing.
LEMMA HeldNone == Held(<<>>) = {} /\ Distinct(<<>>)
BY DEF Held, Distinct

\* The same facts one by one
LEMMA SpanEmpty ==
  ASSUME NEW a \in Nat, NEW b \in Nat, a <= b
  PROVE  Span(a, b) = <<>> <=> a = b
BY SpanIsQueue, Zenon

LEMMA SpanLen ==
  ASSUME NEW a \in Nat, NEW b \in Nat, a <= b
  PROVE  Len(Span(a, b)) = b - a
BY SpanIsQueue, Zenon

LEMMA SpanAppend ==
  ASSUME NEW a \in Nat, NEW b \in Nat, a <= b
  PROVE  Append(Span(a, b), b + 1) = Span(a, b + 1)
BY SpanIsQueue, Zenon

LEMMA SpanTail ==
  ASSUME NEW a \in Nat, NEW b \in Nat, a < b
  PROVE  Head(Span(a, b)) = a + 1 /\ Tail(Span(a, b)) = Span(a + 1, b)
<1>1. a <= b
  OBVIOUS
<1>2. QED
  BY <1>1, SpanIsQueue, Zenon

-----------------------------------------------------------------------------
(* The chain of rings and nodes                                            *)

\* The rings, and the nodes of inuse, that the queue has ever had are numbered in
\* the order in which they were put in.  Of such a numbering F the members from
\* the a-th to the b-th are in place: live, not in the cache s, and different; what
\* the cache holds is live too, and held once.
Apart(F, a, b, live, s) ==
  /\ \A k \in Nat : a <= k /\ k <= b => F[k] \in live /\ F[k] \notin Held(s)
  /\ \A j, k \in Nat : a <= j /\ j < k /\ k <= b => F[j] # F[k]
  /\ Held(s) \subseteq live /\ Distinct(s)

\* The values up to V[k] were pushed before the k-th ring came: it has the ones
\* after V[k] up to V[k+1].
Rising(V, a, b) == \A j, k \in Nat : a <= j /\ j <= k /\ k <= b => V[j] <= V[k]
Filled(R, G, V, a, b) == \A k \in Nat : a <= k /\ k <= b => R[G[k]] = Span(V[k], V[k + 1])

\* Each node from the a-th on leads to the one after it, those from the l-th to
\* the b-th to none; the k-th node brings the k-th ring.
Chain(N, C, a, l, b) ==
  /\ \A k \in Nat : a <= k /\ k < l => N[C[k]] = C[k + 1]
  /\ \A k \in Nat : l <= k /\ k <= b => N[C[k]] = NoNode
Bringing(I, C, G, a, b) == \A k \in Nat : a < k /\ k <= b => I[C[k]] = G[k]

\* The oldest member goes back: to the cache, or it is freed.
LEMMA GiveBack ==
  ASSUME NEW S, NEW F \in [Nat -> S], NEW s \in Seq(S), NEW live,
         NEW a \in Nat, NEW b \in Nat, a <= b, Apart(F, a, b, live, s)
  PROVE  /\ Apart(F, a + 1, b, live, Append(s, F[a]))
         /\ Apart(F, a + 1, b, live \ {F[a]}, s)
<1>1. /\ Held(Append(s, F[a])) = Held(s) \cup {F[a]}
      /\ Distinct(s) /\ F[a] \notin Held(s) => Distinct(Append(s, F[a]))
  <2>1. F[a] \in S
    OBVIOUS
  <2>2. QED
    BY <2>1, HeldAppend, Zenon
<1>2. /\ \A k \in Nat : a <= k /\ k <= b => F[k] \in live /\ F[k] \notin Held(s)
      /\ \A j, k \in Nat : a <= j /\ j < k /\ k <= b => F[j] # F[k]
      /\ Held(s) \subseteq live /\ Distinct(s)
  BY DEF Apart
<1>3. F[a] \in live /\ F[a] \notin Held(s)
  BY <1>2
<1>4. \A k \in Nat : a + 1 <= k /\ k <= b => a <= k /\ F[k] # F[a]
  BY <1>2
<1>5. \A j, k \in Nat : a + 1 <= j /\ j < k /\ k <= b => F[j] # F[k]
  BY <1>2
<1>6. Apart(F, a + 1, b, live, Append(s, F[a]))
  BY <1>1, <1>2, <1>3, <1>4, <1>5 DEF Apart
<1>7. Apart(F, a + 1, b, live \ {F[a]}, s)
  BY <1>2, <1>3, <1>4, <1>5 DEF Apart
<1>8. QED
  BY <1>6, <1>7

\* A new member comes: from the cache, or from malloc.
LEMMA TakeNew ==
  ASSUME NEW S, NEW F \in [Nat -> S], NEW s \in Seq(S), NEW live,
         NEW a \in Nat, NEW b \in Nat, a <= b, Apart(F, a, b, live, s)
  PROVE  /\ s # <<>> => Apart([F EXCEPT ![b + 1] = Head(s)], a, b + 1, live, Tail(s))
         /\ \A x \in S : x \notin live =>
              Apart([F EXCEPT ![b + 1] = x], a, b + 1, live \cup {x}, s)
<1>2. /\ \A k \in Nat : a <= k /\ k <= b => F[k] \in live /\ F[k] \notin Held(s)
      /\ \A j, k \in Nat : a <= j /\ j < k /\ k <= b => F[j] # F[k]
      /\ Held(s) \subseteq live /\ Distinct(s)
  BY DEF Apart
<1>3. ASSUME NEW x \in S, NEW l, NEW r, Held(r) \subseteq l, Distinct(r), live \subseteq l,
             x \in l, x \notin Held(r), Held(r) \subseteq Held(s),
             x \in Held(s) \/ x \notin live
      PROVE  Apart([F EXCEPT ![b + 1] = x], a, b + 1, l, r)
  <2> DEFINE F2 == [F EXCEPT ![b + 1] = x]
  <2>1. F2[b + 1] = x
    OBVIOUS
  <2>2. \A k \in Nat : k <= b => F2[k] = F[k]
    OBVIOUS
  <2> HIDE DEF F2
  <2>3. \A k \in Nat : k <= b + 1 => k <= b \/ k = b + 1
    OBVIOUS
  <2>4. \A k \in Nat : a <= k /\ k <= b => F[k] # x
    BY <1>2, <1>3
  <2>5. ASSUME NEW k \in Nat, a <= k, k <= b + 1 PROVE F2[k] \in l /\ F2[k] \notin Held(r)
    <3>1. CASE k <= b
      BY <1>2, <1>3, <2>2, <2>5, <3>1
    <3>2. CASE k = b + 1
      BY <1>3, <2>1, <3>2
    <3>3. QED
      BY <2>3, <2>5, <3>1, <3>2
  <2>6. ASSUME NEW j \in Nat, NEW k \in Nat, a <= j, j < k, k <= b + 1 PROVE F2[j] # F2[k]
    <3>1. j <= b /\ F2[j] = F[j]
      BY <2>2, <2>6
    <3>2. CASE k <= b
      BY <1>2, <2>2, <2>6, <3>1, <3>2
    <3>3. CASE k = b + 1
      BY <2>1, <2>4, <2>6, <3>1, <3>3
    <3>4. QED
      BY <2>3, <2>6, <3>2, <3>3
  <2>7. QED
    BY <1>3, <2>5, <2>6 DEF Apart, F2
<1>4. ASSUME s # <<>> PROVE Apart([F EXCEPT ![b + 1] = Head(s)], a, b + 1, live, Tail(s))
  <2>1. /\ Head(s) \in Held(s) /\ Held(Tail(s)) = Held(s) \ {Head(s)} /\ Distinct(Tail(s))
    BY <1>2, <1>4, HeldTail, Zenon
  <2>2. Head(s) \in S
    BY <1>4, HeadTailProperties, Zenon
  <2>3. QED
    BY <1>2, <1>3, <2>1, <2>2
<1>5. ASSUME NEW x \in S, x \notin live
      PROVE Apart([F EXCEPT ![b + 1] = x], a, b + 1, live \cup {x}, s)
  BY <1>2, <1>3, <1>5
<1>6. QED
  BY <1>4, <1>5

\* A value is put into the newest ring.
LEMMA PutNewest ==
  ASSUME NEW B, NEW T, NEW G \in [Nat -> B], NEW V \in [Nat -> Nat], NEW R \in [B -> T],
         NEW a \in Nat, NEW b \in Nat, a <= b,
         Filled(R, G, V, a, b), Rising(V, a, b + 1),
         \A j, k \in Nat : a <= j /\ j < k /\ k <= b => G[j] # G[k]
  PROVE  /\ Filled([R EXCEPT ![G[b]] = Append(@, V[b + 1] + 1)], G, [V EXCEPT ![b + 1] = @ + 1], a, b)
         /\ Rising([V EXCEPT ![b + 1] = @ + 1], a, b + 1)
<1> DEFINE V2 == [V EXCEPT ![b + 1] = @ + 1]
           R2 == [R EXCEPT ![G[b]] = Append(@, V[b + 1] + 1)]
<1>1. V2[b + 1] = V[b + 1] + 1 /\ V2 \in [Nat -> Nat] /\ \A k \in Nat : k <= b => V2[k] = V[k]
  OBVIOUS
<1>2. G[b] \in B /\ \A k \in Nat : G[k] \in B
  OBVIOUS
<1>3. /\ R2[G[b]] = Append(R[G[b]], V[b + 1] + 1)
      /\ \A r \in B : r # G[b] => R2[r] = R[r]
  BY <1>2
<1> HIDE DEF V2, R2
<1>4. V[b] <= V[b + 1] /\ V[b] \in Nat /\ V[b + 1] \in Nat
  BY DEF Rising
<1>5. R[G[b]] = Span(V[b], V[b + 1])
  BY DEF Filled
<1>6. R2[G[b]] = Span(V2[b], V2[b + 1])
  <2>1. Append(Span(V[b], V[b + 1]), V[b + 1] + 1) = Span(V[b], V[b + 1] + 1)
    BY <1>4, SpanAppend, Zenon
  <2>2. V2[b] = V[b]
    BY <1>1
  <2>3. QED
    BY <1>1, <1>3, <1>5, <2>1, <2>2, Zenon
<1>7. ASSUME NEW k \in Nat, a <= k, k <= b PROVE R2[G[k]] = Span(V2[k], V2[k + 1])
  <2>1. CASE k = b
    BY <1>6, <2>1
  <2>2. CASE k < b
    <3>1. G[k] # G[b] /\ G[k] \in B
      BY <1>7, <2>2
    <3>2. V2[k] = V[k] /\ V2[k + 1] = V[k + 1]
      BY <1>1, <2>2
    <3>3. R[G[k]] = Span(V[k], V[k + 1])
      BY <1>7 DEF Filled
    <3>4. QED
      BY <1>3, <3>1, <3>2, <3>3, Zenon
  <2>3. QED
    BY <1>7, <2>1, <2>2
<1>8. ASSUME NEW j \in Nat, NEW k \in Nat, a <= j, j <= k, k <= b + 1 PROVE V2[j] <= V2[k]
  <2>1. V[j] <= V[k] /\ V[j] \in Nat /\ V[k] \in Nat
    BY <1>8 DEF Rising
  <2>2. CASE k <= b
    BY <1>1, <1>8, <2>1, <2>2
  <2>3. CASE k = b + 1
    BY <1>1, <1>8, <2>1, <2>3
  <2>4. QED
    BY <1>8, <2>2, <2>3
<1>9. QED
  BY <1>7, <1>8 DEF Filled, Rising, V2, R2

\* A value is taken out of the oldest ring.
LEMMA TakeOldest ==
  ASSUME NEW B, NEW T, NEW G \in [Nat -> B], NEW V \in [Nat -> Nat], NEW R \in [B -> T],
         NEW a \in Nat, NEW b \in Nat, a <= b, V[a] < V[a + 1],
         Filled(R, G, V, a, b), Rising(V, a, b + 1),
         \A j, k \in Nat : a <= j /\ j < k /\ k <= b => G[j] # G[k]
  PROVE  /\ Filled([R EXCEPT ![G[a]] = Tail(@)], G, [V EXCEPT ![a] = @ + 1], a, b)
         /\ Rising([V EXCEPT ![a] = @ + 1], a, b + 1)
<1> DEFINE V2 == [V EXCEPT ![a] = @ + 1]
           R2 == [R EXCEPT ![G[a]] = Tail(@)]
<1>1. V2[a] = V[a] + 1 /\ V2 \in [Nat -> Nat] /\ \A k \in Nat : a < k => V2[k] = V[k]
  OBVIOUS
<1>2. G[a] \in B /\ \A k \in Nat : G[k] \in B
  OBVIOUS
<1>3. R2[G[a]] = Tail(R[G[a]]) /\ \A r \in B : r # G[a] => R2[r] = R[r]
  BY <1>2
<1> HIDE DEF V2, R2
<1>4. V[a] \in Nat /\ V[a + 1] \in Nat
  OBVIOUS
<1>5. R[G[a]] = Span(V[a], V[a + 1])
  BY DEF Filled
<1>6. R2[G[a]] = Span(V2[a], V2[a + 1])
  <2>1. Tail(Span(V[a], V[a + 1])) = Span(V[a] + 1, V[a + 1])
    BY <1>4, SpanTail, Zenon
  <2>2. V2[a + 1] = V[a + 1]
    BY <1>1
  <2>3. QED
    BY <1>1, <1>3, <1>5, <2>1, <2>2, Zenon
<1>7. ASSUME NEW k \in Nat, a <= k, k <= b PROVE R2[G[k]] = Span(V2[k], V2[k + 1])
  <2>1. CASE k = a
    BY <1>6, <2>1
  <2>2. CASE a < k
    <3>1. G[k] # G[a] /\ G[k] \in B
      BY <1>7, <2>2
    <3>2. V2[k] = V[k] /\ V2[k + 1] = V[k + 1]
      BY <1>1, <2>2
    <3>3. R[G[k]] = Span(V[k], V[k + 1])
      BY <1>7 DEF Filled
    <3>4. QED
      BY <1>3, <3>1, <3>2, <3>3, Zenon
  <2>3. QED
    BY <1>7, <2>1, <2>2
<1>8. ASSUME NEW j \in Nat, NEW k \in Nat, a <= j, j <= k, k <= b + 1 PROVE V2[j] <= V2[k]
  <2>1. V[j] <= V[k] /\ V[j] \in Nat /\ V[k] \in Nat
    BY <1>8 DEF Rising
  <2>2. CASE a < j
    BY <1>1, <1>8, <2>1, <2>2
  <2>3. CASE k = a
    <3>1. j = k /\ V2[k] \in Nat
      BY <1>1, <1>8, <2>3
    <3>2. QED
      BY <3>1
  <2>4. CASE j = a /\ a < k
    <3>1. V[a + 1] <= V[k]
      BY <1>8, <2>4 DEF Rising
    <3>2. QED
      BY <1>1, <1>4, <2>1, <2>4, <3>1
  <2>5. QED
    BY <1>8, <2>2, <2>3, <2>4
<1>9. QED
  BY <1>7, <1>8 DEF Filled, Rising, V2, R2

\* A new node is filled; it is not linked yet.
LEMMA FillChain ==
  ASSUME NEW M, NEW C \in [Nat -> M], NEW N \in [M -> M \cup {NoNode}], NEW x \in M,
         NEW a \in Nat, NEW b \in Nat, a <= b, Chain(N, C, a, b, b),
         \A k \in Nat : a <= k /\ k <= b => C[k] # x
  PROVE  Chain([N EXCEPT ![x] = NoNode], [C EXCEPT ![b + 1] = x], a, b, b + 1)
<1> DEFINE N2 == [N EXCEPT ![x] = NoNode]
           C2 == [C EXCEPT ![b + 1] = x]
<1>1. C2[b + 1] = x /\ \A k \in Nat : k <= b => C2[k] = C[k]
  OBVIOUS
<1>2. N2[x] = NoNode /\ \A m \in M : m # x => N2[m] = N[m]
  OBVIOUS
<1>3. \A k \in Nat : C[k] \in M
  OBVIOUS
<1> HIDE DEF N2, C2
<1>4. \A k \in Nat : a <= k /\ k <= b => N2[C2[k]] = N[C[k]]
  BY <1>1, <1>2, <1>3
<1>5. ASSUME NEW k \in Nat, a <= k, k < b PROVE N2[C2[k]] = C2[k + 1]
  <2>1. C2[k + 1] = C[k + 1] /\ k <= b
    BY <1>1, <1>5
  <2>2. N[C[k]] = C[k + 1]
    BY <1>5 DEF Chain
  <2>3. QED
    BY <1>4, <1>5, <2>1, <2>2
<1>6. ASSUME NEW k \in Nat, b <= k, k <= b + 1 PROVE N2[C2[k]] = NoNode
  <2>1. CASE k = b
    <3>1. N[C[b]] = NoNode
      BY DEF Chain
    <3>2. QED
      BY <1>4, <2>1, <3>1
  <2>2. CASE k = b + 1
    BY <1>1, <1>2, <2>2
  <2>3. QED
    BY <1>6, <2>1, <2>2
<1>7. QED
  BY <1>5, <1>6 DEF Chain, N2, C2

\* The node before it leads to it.
LEMMA LinkChain ==
  ASSUME NEW M, NEW C \in [Nat -> M], NEW N \in [M -> M \cup {NoNode}],
         NEW a \in Nat, NEW b \in Nat, a <= b, Chain(N, C, a, b, b + 1),
         \A j, k \in Nat : a <= j /\ j < k /\ k <= b + 1 => C[j] # C[k]
  PROVE  Chain([N EXCEPT ![C[b]] = C[b + 1]], C, a, b + 1, b + 1)
<1> DEFINE N2 == [N EXCEPT ![C[b]] = C[b + 1]]
<1>1. C[b] \in M /\ C[b + 1] \in M /\ \A k \in Nat : C[k] \in M
  OBVIOUS
<1>2. N2[C[b]] = C[b + 1] /\ \A m \in M : m # C[b] => N2[m] = N[m]
  BY <1>1
<1> HIDE DEF N2
<1>3. \A k \in Nat : a <= k /\ k < b => C[k] # C[b] /\ N[C[k]] = C[k + 1]
  BY DEF Chain
<1>4. C[b + 1] # C[b] /\ N[C[b + 1]] = NoNode
  BY DEF Chain
<1>5. ASSUME NEW k \in Nat, a <= k, k < b + 1 PROVE N2[C[k]] = C[k + 1]
  <2>1. CASE k = b
    BY <1>2, <2>1
  <2>2. CASE k < b
    BY <1>1, <1>2, <1>3, <1>5, <2>2
  <2>3. QED
    BY <1>5, <2>1, <2>2
<1>6. ASSUME NEW k \in Nat, b + 1 <= k, k <= b + 1 PROVE N2[C[k]] = NoNode
  <2>1. k = b + 1
    BY <1>6
  <2>2. QED
    BY <1>1, <1>2, <1>4, <2>1
<1>7. QED
  BY <1>5, <1>6 DEF Chain, N2

-----------------------------------------------------------------------------
(* The queue of FastFlow                                                   *)

\* Where the two threads can be
Pushing == {"outside", "put", "fill", "link", "tail", "turn"}
Popping == {"outside", "compare", "again", "next", "head", "recycle", "reset", "release",
            "turn", "take"}

UnboundedTypeOK ==
  /\ size \in Nat \ {0} /\ fixedsize \in BOOLEAN
  /\ ring \in [Buffers -> Seq(Nat)]
  /\ allocated \subseteq Buffers /\ bufcache \in Seq(Buffers)
  /\ buf_w \in Buffers /\ buf_r \in Buffers
  /\ ppc \in Pushing /\ t \in Buffers \cup {NoBuffer} /\ n \in Nodes \cup {NoNode}
  /\ cpc \in Popping /\ tmp \in Buffers \cup {NoBuffer} /\ old \in Nodes \cup {NoNode}
  /\ seen \in Nat
  /\ head \in Nodes /\ tail \in Nodes
  /\ next \in [Nodes -> Nodes \cup {NoNode}]
  /\ item \in [Nodes -> Buffers \cup {NoBuffer}]
  /\ mallocated \subseteq Nodes /\ cache \in Seq(Nodes)

\* G[lo] is the consumer's ring and G[hi] the producer's, C[lo] and C[hi] are the
\* nodes that brought them.  Near both ends it depends on the step a thread is at
\* which of them are in place.
Extending == {"fill", "link", "tail", "turn"}
GivingUp == {"next", "head", "recycle", "reset", "release", "turn"}
RingLow(lo) == IF cpc = "turn" THEN lo + 1 ELSE lo
RingHigh(hi) == IF ppc \in Extending THEN hi + 1 ELSE hi
NodeLow(lo) == IF cpc \in {"reset", "release", "turn"} THEN lo + 1 ELSE lo
NodeHigh(hi) == IF ppc \in {"link", "tail", "turn"} THEN hi + 1 ELSE hi
HeadAt(lo) == IF cpc \in {"recycle", "reset", "release", "turn"} THEN lo + 1 ELSE lo
TailAt(hi) == IF ppc = "turn" THEN hi + 1 ELSE hi
LastLinked(hi) == IF ppc \in {"tail", "turn"} THEN hi + 1 ELSE hi

\* The variables that hold rings point where the numbering says.
RingPointers(G, lo, hi) ==
  /\ cpc = "again" \/ cpc \in GivingUp => lo < hi
  /\ cpc # "turn" => buf_r = G[lo]
  /\ buf_w = G[hi]
  /\ tmp = IF cpc \in GivingUp \ {"next"} THEN G[lo + 1] ELSE NoBuffer
  /\ t = IF ppc \in Extending THEN G[hi + 1] ELSE NoBuffer

RingsApart(G, lo, hi) == Apart(G, RingLow(lo), RingHigh(hi), allocated, bufcache)

\* A ring that waits to be used is empty, wherever it waits.
Spare(b) == b \notin allocated \/ b \in Held(bufcache)

ValuesInPlace(G, V, lo, hi) ==
  /\ Filled(ring, G, V, RingLow(lo), hi)
  /\ Rising(V, RingLow(lo), hi + 1)
  /\ ppc \in Extending => ring[G[hi + 1]] = <<>>
  /\ \A b \in Buffers : Spare(b) => ring[b] = <<>>

HistoryInPlace(V, lo, hi) ==
  /\ delivered = Span(0, V[RingLow(lo)]) /\ contents = Span(V[RingLow(lo)], V[hi + 1])
  /\ ppc # "outside" => V[hi + 1] < MaxPush

\* A ring behind the consumer's is not empty, unless the producer has just turned
\* to it; neither is the consumer's when it is about to take.  One it gives up is,
\* and so was all of the queue if pop() finds both threads in the same ring.
NoGap(V, lo, hi) ==
  /\ \A k \in Nat : lo < k /\ k <= hi => V[k] < V[k + 1] \/ (k = hi /\ ppc = "put")
  /\ cpc = "take" => V[lo] < V[lo + 1] \/ (lo = hi /\ ppc = "put")
  /\ cpc \in GivingUp => V[lo] = V[lo + 1]
  /\ cpc = "compare" /\ seen > 0 => lo < hi

NodesInPlace(C, G, lo, hi) ==
  /\ head = C[HeadAt(lo)]
  /\ tail = C[TailAt(hi)]
  /\ ppc \in {"link", "tail"} => n = C[hi + 1]
  /\ cpc = "recycle" => old = C[lo]
  /\ Chain(next, C, HeadAt(lo), LastLinked(hi), NodeHigh(hi))
  /\ Bringing(item, C, G, HeadAt(lo), NodeHigh(hi))

NodesApart(C, lo, hi) == Apart(C, NodeLow(lo), NodeHigh(hi), mallocated, cache)

Numbered(C, G, V, lo, hi) ==
  /\ lo <= hi
  /\ UnboundedTypeOK
  /\ RingPointers(G, lo, hi) /\ RingsApart(G, lo, hi)
  /\ ValuesInPlace(G, V, lo, hi)
  /\ HistoryInPlace(V, lo, hi) /\ NoGap(V, lo, hi)
  /\ NodesInPlace(C, G, lo, hi) /\ NodesApart(C, lo, hi)

\* There is such a numbering.
UnboundedInv ==
  \E lo, hi \in Nat, C \in [Nat -> Nodes], G \in [Nat -> Buffers], V \in [Nat -> Nat] :
    Numbered(C, G, V, lo, hi)

\* malloc returns an address nobody uses.
LEMMA MallocIsFresh ==
  ASSUME NEW A, NEW U, U # A, U \subseteq A
  PROVE  Malloc(A, U) \in A \ U
BY DEF Malloc

\* There is one ring, and one node.
LEMMA InitUnbounded == Init => UnboundedInv
<1> SUFFICES ASSUME Init PROVE UnboundedInv
  OBVIOUS
<1> USE UnboundedAssumption
<1>1. Malloc(Nodes, {}) \in Nodes /\ Malloc(Buffers, {}) \in Buffers
  BY MallocIsFresh
<1>2. UnboundedTypeOK
  BY <1>1 DEF Init, DynInit, UnboundedTypeOK, Pushing, Popping
<1> DEFINE C == [k \in Nat |-> head]
           G == [k \in Nat |-> buf_r]
           V == [k \in Nat |-> 0]
<1>3. C \in [Nat -> Nodes] /\ G \in [Nat -> Buffers] /\ V \in [Nat -> Nat]
  BY <1>2 DEF UnboundedTypeOK
<1>s. Span(0, 0) = <<>>
  BY SpanIsQueue
<1>4. Numbered(C, G, V, 0, 0)
  <2>1. RingPointers(G, 0, 0)
    BY DEF Init, RingPointers, Extending, GivingUp
  <2>2. RingsApart(G, 0, 0)
    BY HeldNone DEF Init, RingsApart, Apart, RingLow, RingHigh, Extending
  <2>3. ValuesInPlace(G, V, 0, 0)
    BY <1>1, <1>s DEF Init, ValuesInPlace, Filled, Rising, RingLow, Extending
  <2>4. HistoryInPlace(V, 0, 0) /\ NoGap(V, 0, 0)
    BY <1>s DEF Init, HistoryInPlace, NoGap, RingLow, GivingUp
  <2>5. NodesInPlace(C, G, 0, 0)
    BY <1>1 DEF Init, DynInit, NodesInPlace, Chain, Bringing, HeadAt, TailAt, LastLinked, NodeHigh
  <2>6. NodesApart(C, 0, 0)
    BY <1>1, HeldNone DEF Init, DynInit, NodesApart, Apart, NodeLow, NodeHigh
  <2>7. QED
    BY <1>2, <2>1, <2>2, <2>3, <2>4, <2>5, <2>6 DEF Numbered
<1>5. QED
  BY <1>3, <1>4 DEF UnboundedInv

\* The places in the numbering, and what it says about the number of values
LEMMA Places ==
  ASSUME NEW lo \in Nat, NEW hi \in Nat,
         NEW C \in [Nat -> Nodes], NEW G \in [Nat -> Buffers], NEW V \in [Nat -> Nat],
         Numbered(C, G, V, lo, hi)
  PROVE  /\ RingLow(lo) \in Nat /\ lo <= RingLow(lo) /\ RingLow(lo) <= hi
         /\ RingHigh(hi) \in Nat /\ hi <= RingHigh(hi) /\ RingHigh(hi) <= hi + 1
         /\ NodeLow(lo) \in Nat /\ NodeLow(lo) <= HeadAt(lo)
         /\ HeadAt(lo) \in Nat /\ lo <= HeadAt(lo) /\ HeadAt(lo) <= hi
         /\ TailAt(hi) \in Nat /\ hi <= TailAt(hi) /\ TailAt(hi) <= LastLinked(hi)
         /\ LastLinked(hi) \in Nat /\ LastLinked(hi) <= NodeHigh(hi)
         /\ NodeHigh(hi) \in Nat /\ NodeHigh(hi) <= RingHigh(hi)
<1>1. lo <= hi /\ RingPointers(G, lo, hi)
  BY DEF Numbered
<1>2. cpc \in {"recycle", "reset", "release", "turn"} => lo + 1 <= hi
  BY <1>1 DEF RingPointers, GivingUp
<1>3. RingLow(lo) \in Nat /\ lo <= RingLow(lo) /\ RingLow(lo) <= hi
  BY <1>1, <1>2 DEF RingLow
<1>4. HeadAt(lo) \in Nat /\ lo <= HeadAt(lo) /\ HeadAt(lo) <= hi
  BY <1>1, <1>2 DEF HeadAt
<1>5. NodeLow(lo) \in Nat /\ NodeLow(lo) <= HeadAt(lo)
  BY DEF HeadAt, NodeLow
<1>6. RingHigh(hi) \in Nat /\ hi <= RingHigh(hi) /\ RingHigh(hi) <= hi + 1
  BY DEF RingHigh
<1>7. /\ TailAt(hi) \in Nat /\ hi <= TailAt(hi) /\ TailAt(hi) <= LastLinked(hi)
      /\ LastLinked(hi) \in Nat /\ LastLinked(hi) <= NodeHigh(hi)
      /\ NodeHigh(hi) \in Nat /\ NodeHigh(hi) <= RingHigh(hi)
  BY DEF TailAt, LastLinked, NodeHigh, RingHigh, Extending
<1>8. QED
  BY <1>3, <1>4, <1>5, <1>6, <1>7

LEMMA CountOfValues ==
  ASSUME NEW lo \in Nat, NEW hi \in Nat,
         NEW C \in [Nat -> Nodes], NEW G \in [Nat -> Buffers], NEW V \in [Nat -> Nat],
         Numbered(C, G, V, lo, hi)
  PROVE  /\ V[RingLow(lo)] <= V[hi + 1]
         /\ Len(contents) = V[hi + 1] - V[RingLow(lo)]
         /\ Len(delivered) + Len(contents) = V[hi + 1]
         /\ contents = <<>> <=> V[RingLow(lo)] = V[hi + 1]
<1> DEFINE r == RingLow(lo)
<1>1. r \in Nat /\ r <= hi
  BY Places
<1>2. contents = Span(V[r], V[hi + 1]) /\ delivered = Span(0, V[r])
  BY DEF Numbered, HistoryInPlace
<1>i. Rising(V, r, hi + 1)
  BY DEF Numbered, ValuesInPlace
<1> HIDE DEF r
<1>3. V[r] <= V[hi + 1]
  BY <1>1, <1>i DEF Rising
<1>4. V[r] \in Nat /\ V[hi + 1] \in Nat
  BY <1>1
<1>5. /\ Len(contents) = V[hi + 1] - V[r] /\ Len(delivered) = V[r] - 0
      /\ contents = <<>> <=> V[r] = V[hi + 1]
  <2>1. Len(Span(V[r], V[hi + 1])) = V[hi + 1] - V[r]
    BY <1>3, <1>4, SpanLen, Zenon
  <2>2. Len(Span(0, V[r])) = V[r] - 0
    <3>1. 0 \in Nat /\ 0 <= V[r]
      BY <1>4
    <3>2. QED
      BY <1>4, <3>1, SpanLen, Zenon
  <2>3. Span(V[r], V[hi + 1]) = <<>> <=> V[r] = V[hi + 1]
    BY <1>3, <1>4, SpanEmpty, Zenon
  <2>4. QED
    BY <1>2, <1>4, <2>1, <2>2, <2>3, Zenon
<1> DEFINE c == Len(contents)
           d == Len(delivered)
<1> HIDE DEF c, d
<1>6. c = V[hi + 1] - V[r] /\ d = V[r] - 0
  BY <1>5 DEF c, d
<1>7. d + c = V[hi + 1]
  BY <1>4, <1>6
<1>8. QED
  BY <1>3, <1>5, <1>7 DEF r, c, d

\* The consumer's ring is empty if and only if the numbering gives it no value.
LEMMA EmptyRing ==
  ASSUME NEW lo \in Nat, NEW hi \in Nat,
         NEW C \in [Nat -> Nodes], NEW G \in [Nat -> Buffers], NEW V \in [Nat -> Nat],
         Numbered(C, G, V, lo, hi), cpc # "turn"
  PROVE  /\ buf_r = G[lo] /\ ring[buf_r] = Span(V[lo], V[lo + 1])
         /\ V[lo] <= V[lo + 1]
         /\ ring[buf_r] = <<>> <=> V[lo] = V[lo + 1]
<1>1. lo <= hi /\ RingLow(lo) = lo /\ buf_r = G[lo]
  BY DEF Numbered, RingLow, RingPointers
<1>2. Filled(ring, G, V, lo, hi) /\ Rising(V, lo, hi + 1)
  BY <1>1 DEF Numbered, ValuesInPlace
<1>3. V[lo] <= V[lo + 1]
  BY <1>1, <1>2 DEF Rising
<1>4. ring[buf_r] = Span(V[lo], V[lo + 1])
  BY <1>1, <1>2 DEF Filled
<1>5. V[lo] \in Nat /\ V[lo + 1] \in Nat
  OBVIOUS
<1>6. ring[buf_r] = <<>> <=> V[lo] = V[lo + 1]
  BY <1>3, <1>4, <1>5, SpanEmpty, Zenon
<1>7. QED
  BY <1>1, <1>3, <1>4, <1>6

-----------------------------------------------------------------------------
(* Its steps                                                               *)

\* push() when the ring has room
LEMMA FindRoomInv ==
  ASSUME NEW lo \in Nat, NEW hi \in Nat,
         NEW C \in [Nat -> Nodes], NEW G \in [Nat -> Buffers], NEW V \in [Nat -> Nat],
         Numbered(C, G, V, lo, hi), FindRoom
  PROVE  Numbered(C, G, V, lo, hi)'
<1>a. ppc = "outside" /\ ppc' = "put"
  BY DEF FindRoom
<1>u. UNCHANGED <<head, tail, next, item, mallocated, cache, size, fixedsize, ring,
                allocated, bufcache, buf_w, buf_r, t, n, cpc, tmp, old, seen, contents,
                delivered>>
  BY DEF FindRoom, dynqueue, parameters, pool, consumer, history
<1>0. /\ lo <= hi
      /\ RingPointers(G, lo, hi) /\ RingsApart(G, lo, hi) /\ ValuesInPlace(G, V, lo, hi)
      /\ HistoryInPlace(V, lo, hi) /\ NoGap(V, lo, hi)
      /\ NodesInPlace(C, G, lo, hi) /\ NodesApart(C, lo, hi)
  BY DEF Numbered
<1>t. UnboundedTypeOK
  BY DEF Numbered
<1>b. V[hi + 1] < MaxPush
  BY CountOfValues DEF FindRoom
<1>p. /\ RingLow(lo)' = RingLow(lo) /\ NodeLow(lo)' = NodeLow(lo) /\ HeadAt(lo)' = HeadAt(lo)
      /\ RingHigh(hi)' = RingHigh(hi) /\ NodeHigh(hi)' = NodeHigh(hi)
      /\ TailAt(hi)' = TailAt(hi) /\ LastLinked(hi)' = LastLinked(hi)
  BY <1>a, <1>u DEF RingLow, NodeLow, HeadAt, RingHigh, NodeHigh, TailAt, LastLinked, Extending
<1>1. UnboundedTypeOK'
  BY <1>a, <1>u, <1>t DEF UnboundedTypeOK, Pushing, Popping
<1>2. RingPointers(G, lo, hi)'
  BY <1>a, <1>u, <1>0 DEF RingPointers, Extending, GivingUp
<1>3. RingsApart(G, lo, hi)'
  BY <1>p, <1>u, <1>0 DEF RingsApart
<1>4. ValuesInPlace(G, V, lo, hi)'
  BY <1>p, <1>a, <1>u, <1>0 DEF ValuesInPlace, Spare, Extending
<1>5. HistoryInPlace(V, lo, hi)'
  BY <1>p, <1>b, <1>u, <1>0 DEF HistoryInPlace
<1>6. NoGap(V, lo, hi)'
  BY <1>a, <1>u, <1>0 DEF NoGap, GivingUp
<1>7. NodesInPlace(C, G, lo, hi)'
  BY <1>p, <1>a, <1>u, <1>0 DEF NodesInPlace
<1>8. NodesApart(C, lo, hi)'
  BY <1>p, <1>u, <1>0 DEF NodesApart
<1>9. QED
  BY <1>0, <1>1, <1>2, <1>3, <1>4, <1>5, <1>6, <1>7, <1>8 DEF Numbered

\* The first look
LEMMA LookFirstInv ==
  ASSUME NEW lo \in Nat, NEW hi \in Nat,
         NEW C \in [Nat -> Nodes], NEW G \in [Nat -> Buffers], NEW V \in [Nat -> Nat],
         Numbered(C, G, V, lo, hi), LookFirst
  PROVE  Numbered(C, G, V, lo, hi)'
<1>a. cpc = "outside" /\ cpc' \in {"compare", "take"}
  BY DEF LookFirst
<1>u. UNCHANGED <<head, tail, next, item, mallocated, cache, size, fixedsize, ring,
                allocated, bufcache, buf_w, buf_r, ppc, t, n, tmp, old, contents,
                delivered>>
  BY DEF LookFirst, dynqueue, parameters, pool, producer, history
<1>0. /\ lo <= hi
      /\ RingPointers(G, lo, hi) /\ RingsApart(G, lo, hi) /\ ValuesInPlace(G, V, lo, hi)
      /\ HistoryInPlace(V, lo, hi) /\ NoGap(V, lo, hi)
      /\ NodesInPlace(C, G, lo, hi) /\ NodesApart(C, lo, hi)
  BY DEF Numbered
<1>t. UnboundedTypeOK
  BY DEF Numbered
<1>e. /\ V[lo] <= V[lo + 1] /\ V[lo + 1] <= V[hi + 1]
      /\ cpc' = "take" => V[lo] # V[lo + 1]
      /\ cpc' = "compare" => V[lo] = V[lo + 1]
  <2>1. V[lo] <= V[lo + 1] /\ (ring[buf_r] = <<>> <=> V[lo] = V[lo + 1])
    BY <1>a, EmptyRing
  <2>2. ring[buf_r] = <<>> => cpc' = "compare"
    BY DEF LookFirst, Empty
  <2>3. ring[buf_r] # <<>> => cpc' = "take"
    BY DEF LookFirst, Empty
  <2>4. Rising(V, lo, hi + 1)
    BY <1>a, <1>0 DEF ValuesInPlace, RingLow
  <2>5. V[lo + 1] <= V[hi + 1]
    BY <1>0, <2>4 DEF Rising
  <2>6. QED
    BY <2>1, <2>2, <2>3, <2>5
<1>s. seen' = V[hi + 1] - V[lo] /\ seen' \in Nat
  <2>1. seen' = V[hi + 1] - V[RingLow(lo)] /\ V[RingLow(lo)] <= V[hi + 1]
    BY CountOfValues DEF LookFirst
  <2>2. RingLow(lo) = lo /\ V[lo] \in Nat /\ V[hi + 1] \in Nat
    BY <1>a DEF RingLow
  <2>3. QED
    BY <2>1, <2>2
<1>p. /\ RingLow(lo)' = RingLow(lo) /\ NodeLow(lo)' = NodeLow(lo) /\ HeadAt(lo)' = HeadAt(lo)
      /\ RingHigh(hi)' = RingHigh(hi) /\ NodeHigh(hi)' = NodeHigh(hi)
      /\ TailAt(hi)' = TailAt(hi) /\ LastLinked(hi)' = LastLinked(hi)
  BY <1>a, <1>u DEF RingLow, NodeLow, HeadAt, RingHigh, NodeHigh, TailAt, LastLinked, Extending
<1>1. UnboundedTypeOK'
  BY <1>s, <1>a, <1>u, <1>t DEF UnboundedTypeOK, Pushing, Popping
<1>2. RingPointers(G, lo, hi)'
  BY <1>a, <1>u, <1>0 DEF RingPointers, Extending, GivingUp
<1>3. RingsApart(G, lo, hi)'
  BY <1>p, <1>u, <1>0 DEF RingsApart
<1>4. ValuesInPlace(G, V, lo, hi)'
  BY <1>p, <1>a, <1>u, <1>0 DEF ValuesInPlace, Spare, Extending
<1>5. HistoryInPlace(V, lo, hi)'
  BY <1>p, <1>a, <1>u, <1>0 DEF HistoryInPlace
<1>6. NoGap(V, lo, hi)'
  <2>1. V[lo] \in Nat /\ V[lo + 1] \in Nat /\ V[hi + 1] \in Nat
    OBVIOUS
  <2>2. cpc' = "take" => V[lo] < V[lo + 1]
    BY <1>e, <2>1
  <2>3. cpc' = "compare" /\ seen' > 0 => lo < hi
    BY <1>0, <1>e, <1>s, <2>1
  <2>4. QED
    BY <1>a, <1>u, <1>0, <2>2, <2>3 DEF NoGap, GivingUp
<1>7. NodesInPlace(C, G, lo, hi)'
  BY <1>p, <1>a, <1>u, <1>0 DEF NodesInPlace
<1>8. NodesApart(C, lo, hi)'
  BY <1>p, <1>u, <1>0 DEF NodesApart
<1>9. QED
  BY <1>0, <1>1, <1>2, <1>3, <1>4, <1>5, <1>6, <1>7, <1>8 DEF Numbered

\* The comparison of buf_r and buf_w
LEMMA CompareInv ==
  ASSUME NEW lo \in Nat, NEW hi \in Nat,
         NEW C \in [Nat -> Nodes], NEW G \in [Nat -> Buffers], NEW V \in [Nat -> Nat],
         Numbered(C, G, V, lo, hi), Compare
  PROVE  Numbered(C, G, V, lo, hi)'
<1>a. cpc = "compare" /\ cpc' \in {"outside", "again"}
  BY DEF Compare
<1>u. UNCHANGED <<head, tail, next, item, mallocated, cache, size, fixedsize, ring,
                allocated, bufcache, buf_w, buf_r, ppc, t, n, tmp, old, seen, contents,
                delivered>>
  BY DEF Compare, dynqueue, parameters, pool, producer, history
<1>0. /\ lo <= hi
      /\ RingPointers(G, lo, hi) /\ RingsApart(G, lo, hi) /\ ValuesInPlace(G, V, lo, hi)
      /\ HistoryInPlace(V, lo, hi) /\ NoGap(V, lo, hi)
      /\ NodesInPlace(C, G, lo, hi) /\ NodesApart(C, lo, hi)
  BY DEF Numbered
<1>t. UnboundedTypeOK
  BY DEF Numbered
<1>e. cpc' = "again" => buf_r # buf_w
  BY DEF Compare
<1>p. /\ RingLow(lo)' = RingLow(lo) /\ NodeLow(lo)' = NodeLow(lo) /\ HeadAt(lo)' = HeadAt(lo)
      /\ RingHigh(hi)' = RingHigh(hi) /\ NodeHigh(hi)' = NodeHigh(hi)
      /\ TailAt(hi)' = TailAt(hi) /\ LastLinked(hi)' = LastLinked(hi)
  BY <1>a, <1>u DEF RingLow, NodeLow, HeadAt, RingHigh, NodeHigh, TailAt, LastLinked, Extending
<1>1. UnboundedTypeOK'
  BY <1>a, <1>u, <1>t DEF UnboundedTypeOK, Pushing, Popping
<1>2. RingPointers(G, lo, hi)'
  <2>1. cpc' = "again" => lo < hi
    BY <1>e, <1>a, <1>0 DEF RingPointers
  <2>2. QED
    BY <2>1, <1>a, <1>u, <1>0 DEF RingPointers, Extending, GivingUp
<1>3. RingsApart(G, lo, hi)'
  BY <1>p, <1>u, <1>0 DEF RingsApart
<1>4. ValuesInPlace(G, V, lo, hi)'
  BY <1>p, <1>a, <1>u, <1>0 DEF ValuesInPlace, Spare, Extending
<1>5. HistoryInPlace(V, lo, hi)'
  BY <1>p, <1>a, <1>u, <1>0 DEF HistoryInPlace
<1>6. NoGap(V, lo, hi)'
  BY <1>a, <1>u, <1>0 DEF NoGap, GivingUp
<1>7. NodesInPlace(C, G, lo, hi)'
  BY <1>p, <1>a, <1>u, <1>0 DEF NodesInPlace
<1>8. NodesApart(C, lo, hi)'
  BY <1>p, <1>u, <1>0 DEF NodesApart
<1>9. QED
  BY <1>0, <1>1, <1>2, <1>3, <1>4, <1>5, <1>6, <1>7, <1>8 DEF Numbered

\* The second look
LEMMA LookAgainInv ==
  ASSUME NEW lo \in Nat, NEW hi \in Nat,
         NEW C \in [Nat -> Nodes], NEW G \in [Nat -> Buffers], NEW V \in [Nat -> Nat],
         Numbered(C, G, V, lo, hi), LookAgain
  PROVE  Numbered(C, G, V, lo, hi)'
<1>a. cpc = "again" /\ cpc' \in {"next", "take"}
  BY DEF LookAgain
<1>u. UNCHANGED <<head, tail, next, item, mallocated, cache, size, fixedsize, ring,
                allocated, bufcache, buf_w, buf_r, ppc, t, n, tmp, old, seen, contents,
                delivered>>
  BY DEF LookAgain, dynqueue, parameters, pool, producer, history
<1>0. /\ lo <= hi
      /\ RingPointers(G, lo, hi) /\ RingsApart(G, lo, hi) /\ ValuesInPlace(G, V, lo, hi)
      /\ HistoryInPlace(V, lo, hi) /\ NoGap(V, lo, hi)
      /\ NodesInPlace(C, G, lo, hi) /\ NodesApart(C, lo, hi)
  BY DEF Numbered
<1>t. UnboundedTypeOK
  BY DEF Numbered
<1>e. /\ V[lo] <= V[lo + 1]
      /\ cpc' = "take" => V[lo] # V[lo + 1]
      /\ cpc' = "next" => V[lo] = V[lo + 1]
  <2>1. V[lo] <= V[lo + 1] /\ (ring[buf_r] = <<>> <=> V[lo] = V[lo + 1])
    BY <1>a, EmptyRing
  <2>2. ring[buf_r] = <<>> => cpc' = "next"
    BY DEF LookAgain, StillEmpty, Empty
  <2>3. ring[buf_r] # <<>> => cpc' = "take"
    BY DEF LookAgain, StillEmpty, Empty
  <2>4. QED
    BY <2>1, <2>2, <2>3
<1>p. /\ RingLow(lo)' = RingLow(lo) /\ NodeLow(lo)' = NodeLow(lo) /\ HeadAt(lo)' = HeadAt(lo)
      /\ RingHigh(hi)' = RingHigh(hi) /\ NodeHigh(hi)' = NodeHigh(hi)
      /\ TailAt(hi)' = TailAt(hi) /\ LastLinked(hi)' = LastLinked(hi)
  BY <1>a, <1>u DEF RingLow, NodeLow, HeadAt, RingHigh, NodeHigh, TailAt, LastLinked, Extending
<1>1. UnboundedTypeOK'
  BY <1>a, <1>u, <1>t DEF UnboundedTypeOK, Pushing, Popping
<1>2. RingPointers(G, lo, hi)'
  BY <1>a, <1>u, <1>0 DEF RingPointers, Extending, GivingUp
<1>3. RingsApart(G, lo, hi)'
  BY <1>p, <1>u, <1>0 DEF RingsApart
<1>4. ValuesInPlace(G, V, lo, hi)'
  BY <1>p, <1>a, <1>u, <1>0 DEF ValuesInPlace, Spare, Extending
<1>5. HistoryInPlace(V, lo, hi)'
  BY <1>p, <1>a, <1>u, <1>0 DEF HistoryInPlace
<1>6. NoGap(V, lo, hi)'
  <2>1. V[lo] \in Nat /\ V[lo + 1] \in Nat
    OBVIOUS
  <2>2. cpc' = "take" => V[lo] < V[lo + 1]
    BY <1>e, <2>1
  <2>3. QED
    BY <1>a, <1>e, <1>u, <1>0, <2>2 DEF NoGap, GivingUp
<1>7. NodesInPlace(C, G, lo, hi)'
  BY <1>p, <1>a, <1>u, <1>0 DEF NodesInPlace
<1>8. NodesApart(C, lo, hi)'
  BY <1>p, <1>u, <1>0 DEF NodesApart
<1>9. QED
  BY <1>0, <1>1, <1>2, <1>3, <1>4, <1>5, <1>6, <1>7, <1>8 DEF Numbered

\* next_w(): a ring from the cache, or a new one
LEMMA NewRingInv ==
  ASSUME NEW lo \in Nat, NEW hi \in Nat,
         NEW C \in [Nat -> Nodes], NEW G \in [Nat -> Buffers], NEW V \in [Nat -> Nat],
         Numbered(C, G, V, lo, hi), NEW b \in Buffers, NewRing(b)
  PROVE  Numbered(C, [G EXCEPT ![hi + 1] = b], V, lo, hi)'
<1> DEFINE G2 == [G EXCEPT ![hi + 1] = b]
<1>a. ppc = "outside" /\ ppc' = "fill" /\ t' = b
  BY DEF NewRing
<1>u. UNCHANGED <<head, tail, next, item, mallocated, cache, size, fixedsize, ring, buf_w,
                buf_r, n, cpc, tmp, old, seen, contents, delivered>>
  BY DEF NewRing, dynqueue, parameters, consumer, history
<1>0. /\ lo <= hi
      /\ RingPointers(G, lo, hi) /\ RingsApart(G, lo, hi) /\ ValuesInPlace(G, V, lo, hi)
      /\ HistoryInPlace(V, lo, hi) /\ NoGap(V, lo, hi)
      /\ NodesInPlace(C, G, lo, hi) /\ NodesApart(C, lo, hi)
  BY DEF Numbered
<1>t. UnboundedTypeOK
  BY DEF Numbered
<1>b. V[hi + 1] < MaxPush
  BY CountOfValues DEF NewRing
<1>g. G2[hi + 1] = b /\ G2 \in [Nat -> Buffers] /\ \A k \in Nat : k <= hi => G2[k] = G[k]
  OBVIOUS
<1>c. /\ bufcache' \in Seq(Buffers) /\ allocated' \subseteq Buffers
      /\ allocated \subseteq allocated' /\ Held(bufcache') \subseteq Held(bufcache)
      /\ Spare(b) /\ Apart(G2, RingLow(lo), hi + 1, allocated', bufcache')
  <2>1. Apart(G, RingLow(lo), hi, allocated, bufcache)
    BY <1>a, <1>0 DEF RingsApart, RingHigh, Extending
  <2>2. bufcache \in Seq(Buffers) /\ allocated \subseteq Buffers
    BY <1>t DEF UnboundedTypeOK
  <2>3. RingLow(lo) \in Nat /\ RingLow(lo) <= hi
    BY Places
  <2>4. /\ bufcache # <<>> => Apart([G EXCEPT ![hi + 1] = Head(bufcache)],
                                   RingLow(lo), hi + 1, allocated, Tail(bufcache))
        /\ \A x \in Buffers : x \notin allocated =>
             Apart([G EXCEPT ![hi + 1] = x], RingLow(lo), hi + 1, allocated \cup {x}, bufcache)
    BY <2>1, <2>2, <2>3, TakeNew, Zenon
  <2>5. CASE bufcache # <<>>
    <3>1. b = Head(bufcache) /\ bufcache' = Tail(bufcache) /\ allocated' = allocated
      BY <2>5 DEF NewRing
    <3>2. Distinct(bufcache)
      BY <2>1 DEF Apart
    <3>3. /\ Head(bufcache) \in Held(bufcache) /\ Tail(bufcache) \in Seq(Buffers)
          /\ Held(Tail(bufcache)) = Held(bufcache) \ {Head(bufcache)}
      BY <2>2, <2>5, <3>2, HeldTail, Zenon
    <3>4. Spare(b)
      BY <3>1, <3>3 DEF Spare
    <3>5. Apart(G2, RingLow(lo), hi + 1, allocated', bufcache')
      BY <2>4, <2>5, <3>1, Zenon
    <3>6. Held(bufcache') \subseteq Held(bufcache)
      BY <3>1, <3>3, Zenon
    <3>7. QED
      BY <2>2, <3>1, <3>3, <3>4, <3>5, <3>6, Zenon
  <2>6. CASE bufcache = <<>>
    <3>1. /\ allocated # Buffers /\ b = Malloc(Buffers, allocated)
          /\ allocated' = allocated \cup {b} /\ bufcache' = bufcache
      BY <2>6 DEF NewRing
    <3>2. b \notin allocated
      BY <2>2, <3>1, MallocIsFresh, Zenon
    <3>3. Apart(G2, RingLow(lo), hi + 1, allocated', bufcache')
      BY <2>4, <3>1, <3>2, Zenon
    <3>4. Spare(b)
      BY <3>2 DEF Spare
    <3>5. QED
      BY <2>2, <3>1, <3>3, <3>4, Zenon
  <2>7. QED
    BY <2>5, <2>6
<1>p. /\ RingLow(lo)' = RingLow(lo) /\ NodeLow(lo)' = NodeLow(lo) /\ HeadAt(lo)' = HeadAt(lo)
      /\ RingHigh(hi)' = hi + 1 /\ NodeHigh(hi)' = hi /\ NodeHigh(hi) = hi
      /\ TailAt(hi)' = TailAt(hi) /\ LastLinked(hi)' = LastLinked(hi)
  BY <1>a, <1>u DEF RingLow, NodeLow, HeadAt, RingHigh, NodeHigh, TailAt, LastLinked, Extending
<1> HIDE DEF G2
<1>1. UnboundedTypeOK'
  BY <1>a, <1>c, <1>u, <1>t DEF UnboundedTypeOK, Pushing
<1>2. RingPointers(G2, lo, hi)'
  BY <1>a, <1>g, <1>u, <1>0 DEF RingPointers, Extending, GivingUp
<1>3. RingsApart(G2, lo, hi)'
  BY <1>c, <1>p DEF RingsApart
<1>4. ValuesInPlace(G2, V, lo, hi)'
  <2>1. Filled(ring, G, V, RingLow(lo), hi) /\ Rising(V, RingLow(lo), hi + 1)
    BY <1>0 DEF ValuesInPlace
  <2>2. Filled(ring, G2, V, RingLow(lo), hi)
    BY <1>g, <2>1 DEF Filled
  <2>3. \A r \in Buffers : Spare(r) => ring[r] = <<>>
    BY <1>0 DEF ValuesInPlace
  <2>4. ring[G2[hi + 1]] = <<>>
    BY <1>c, <1>g, <2>3
  <2>5. \A r \in Buffers : Spare(r)' => Spare(r)
    BY <1>c DEF Spare
  <2>6. \A r \in Buffers : Spare(r)' => ring[r] = <<>>
    BY <2>3, <2>5
  <2>7. QED
    BY <1>p, <1>u, <2>1, <2>2, <2>4, <2>6 DEF ValuesInPlace
<1>5. HistoryInPlace(V, lo, hi)'
  BY <1>p, <1>b, <1>u, <1>0 DEF HistoryInPlace
<1>6. NoGap(V, lo, hi)'
  BY <1>a, <1>u, <1>0 DEF NoGap, GivingUp
<1>7. NodesInPlace(C, G2, lo, hi)'
  <2>1. Bringing(item, C, G, HeadAt(lo), hi)
    BY <1>p, <1>0 DEF NodesInPlace
  <2>2. Bringing(item, C, G2, HeadAt(lo), hi)
    BY <1>g, <2>1 DEF Bringing
  <2>3. QED
    BY <1>p, <1>a, <1>u, <1>0, <2>2 DEF NodesInPlace
<1>8. NodesApart(C, lo, hi)'
  BY <1>p, <1>u, <1>0 DEF NodesApart
<1>9. QED
  BY <1>0, <1>1, <1>2, <1>3, <1>4, <1>5, <1>6, <1>7, <1>8 DEF Numbered, G2

\* inuse.push(t): a node of the cache, or a new one, is filled
LEMMA InusePushFillsInv ==
  ASSUME NEW lo \in Nat, NEW hi \in Nat,
         NEW C \in [Nat -> Nodes], NEW G \in [Nat -> Buffers], NEW V \in [Nat -> Nat],
         Numbered(C, G, V, lo, hi), NEW m \in Nodes, InusePush, ppc = "fill", n' = m, FillNode(m, t)
  PROVE  Numbered([C EXCEPT ![hi + 1] = m], G, V, lo, hi)'
<1> DEFINE C2 == [C EXCEPT ![hi + 1] = m]
<1>a. ppc = "fill" /\ ppc' = "link" /\ n' = m
  BY DEF InusePush
<1>u. UNCHANGED <<size, fixedsize, ring, allocated, bufcache, buf_w, buf_r, t, cpc, tmp,
                old, seen, contents, delivered>>
  BY DEF InusePush, parameters, pool, consumer, history
<1>0. /\ lo <= hi
      /\ RingPointers(G, lo, hi) /\ RingsApart(G, lo, hi) /\ ValuesInPlace(G, V, lo, hi)
      /\ HistoryInPlace(V, lo, hi) /\ NoGap(V, lo, hi)
      /\ NodesInPlace(C, G, lo, hi) /\ NodesApart(C, lo, hi)
  BY DEF Numbered
<1>t. UnboundedTypeOK
  BY DEF Numbered
<1>f. /\ item' = [item EXCEPT ![m] = t] /\ next' = [next EXCEPT ![m] = NoNode]
      /\ head' = head /\ tail' = tail
  BY DEF FillNode
<1>g. C2[hi + 1] = m /\ C2 \in [Nat -> Nodes] /\ \A k \in Nat : k <= hi => C2[k] = C[k]
  OBVIOUS
<1>c. /\ cache' \in Seq(Nodes) /\ mallocated' \subseteq Nodes
      /\ Apart(C2, NodeLow(lo), hi + 1, mallocated', cache')
      /\ \A k \in Nat : NodeLow(lo) <= k /\ k <= hi => C[k] # m
  <2>1. Apart(C, NodeLow(lo), hi, mallocated, cache)
    BY <1>a, <1>0 DEF NodesApart, NodeHigh
  <2>2. cache \in Seq(Nodes) /\ mallocated \subseteq Nodes
    BY <1>t DEF UnboundedTypeOK
  <2>3. NodeLow(lo) \in Nat /\ NodeLow(lo) <= hi
    <3>1. /\ NodeLow(lo) \in Nat /\ HeadAt(lo) \in Nat
          /\ NodeLow(lo) <= HeadAt(lo) /\ HeadAt(lo) <= hi
      BY Places
    <3>2. QED
      BY <3>1
  <2>4. /\ cache # <<>> => Apart([C EXCEPT ![hi + 1] = Head(cache)],
                                NodeLow(lo), hi + 1, mallocated, Tail(cache))
        /\ \A x \in Nodes : x \notin mallocated =>
             Apart([C EXCEPT ![hi + 1] = x], NodeLow(lo), hi + 1, mallocated \cup {x}, cache)
    BY <2>1, <2>2, <2>3, TakeNew, Zenon
  <2> DEFINE Taken == /\ cache' \in Seq(Nodes) /\ mallocated' \subseteq Nodes
                       /\ Apart(C2, NodeLow(lo), hi + 1, mallocated', cache')
  <2>5. ASSUME cache # <<>> PROVE Taken
    <3>1. m = Head(cache) /\ cache' = Tail(cache) /\ mallocated' = mallocated
      BY <2>5 DEF FillNode, AllocNode
    <3>2. Tail(cache) \in Seq(Nodes)
      BY <2>2, <2>5, HeadTailProperties, Zenon
    <3>3. Apart(C2, NodeLow(lo), hi + 1, mallocated', cache')
      BY <2>4, <2>5, <3>1, Zenon
    <3>4. QED
      BY <2>2, <3>1, <3>2, <3>3, Zenon
  <2>6. ASSUME cache = <<>> PROVE Taken
    <3>1. /\ mallocated # Nodes /\ m = Malloc(Nodes, mallocated)
          /\ mallocated' = mallocated \cup {m} /\ cache' = cache
      BY <2>6 DEF FillNode, AllocNode
    <3>2. m \notin mallocated
      BY <2>2, <3>1, MallocIsFresh, Zenon
    <3>3. Apart(C2, NodeLow(lo), hi + 1, mallocated', cache')
      BY <2>4, <3>1, <3>2, Zenon
    <3>4. QED
      BY <2>2, <3>1, <3>3, Zenon
  <2>7. Taken
    BY <2>5, <2>6
  <2> HIDE DEF C2
  <2>8. \A k \in Nat : NodeLow(lo) <= k /\ k <= hi => C[k] # m
    BY <1>g, <2>7 DEF Apart
  <2>9. QED
    BY <2>7, <2>8
<1>p. /\ RingLow(lo)' = RingLow(lo) /\ NodeLow(lo)' = NodeLow(lo) /\ HeadAt(lo)' = HeadAt(lo)
      /\ RingHigh(hi)' = RingHigh(hi) /\ NodeHigh(hi)' = hi + 1
      /\ TailAt(hi)' = hi /\ TailAt(hi) = hi /\ LastLinked(hi)' = hi /\ LastLinked(hi) = hi
  BY <1>a, <1>u DEF RingLow, NodeLow, HeadAt, RingHigh, NodeHigh, TailAt, LastLinked, Extending
<1> HIDE DEF C2
<1>1. UnboundedTypeOK'
  <2>1. t \in Buffers \cup {NoBuffer} /\ item \in [Nodes -> Buffers \cup {NoBuffer}]
        /\ next \in [Nodes -> Nodes \cup {NoNode}]
    BY <1>t DEF UnboundedTypeOK
  <2>2. item' \in [Nodes -> Buffers \cup {NoBuffer}] /\ next' \in [Nodes -> Nodes \cup {NoNode}]
    BY <1>f, <2>1
  <2>3. QED
    BY <1>a, <1>c, <1>f, <1>u, <1>t, <2>2 DEF UnboundedTypeOK, Pushing
<1>2. RingPointers(G, lo, hi)'
  BY <1>a, <1>u, <1>0 DEF RingPointers, Extending, GivingUp
<1>3. RingsApart(G, lo, hi)'
  BY <1>p, <1>u, <1>0 DEF RingsApart
<1>4. ValuesInPlace(G, V, lo, hi)'
  BY <1>p, <1>a, <1>u, <1>0 DEF ValuesInPlace, Spare, Extending
<1>5. HistoryInPlace(V, lo, hi)'
  BY <1>p, <1>a, <1>u, <1>0 DEF HistoryInPlace
<1>6. NoGap(V, lo, hi)'
  BY <1>a, <1>u, <1>0 DEF NoGap, GivingUp
<1>7. NodesInPlace(C2, G, lo, hi)'
  <2>1. NodeHigh(hi) = hi /\ t = G[hi + 1]
    BY <1>a, <1>0 DEF NodeHigh, RingPointers, Extending
  <2>2. /\ HeadAt(lo) \in Nat /\ NodeLow(lo) <= HeadAt(lo) /\ HeadAt(lo) <= hi
        /\ NodeLow(lo) \in Nat
    BY Places
  <2>3. \A k \in Nat : HeadAt(lo) <= k /\ k <= hi => C[k] # m
    BY <1>c, <2>2
  <2>4. next \in [Nodes -> Nodes \cup {NoNode}] /\ item \in [Nodes -> Buffers \cup {NoBuffer}]
    BY <1>t DEF UnboundedTypeOK
  <2>5. Chain(next, C, HeadAt(lo), hi, hi) /\ Bringing(item, C, G, HeadAt(lo), hi)
    BY <1>p, <1>0, <2>1 DEF NodesInPlace
  <2>6. Chain(next', C2, HeadAt(lo), hi, hi + 1)
    BY <1>f, <2>2, <2>3, <2>4, <2>5, FillChain, Zenon DEF C2
  <2>7. Bringing(item', C2, G, HeadAt(lo), hi + 1)
    <3>1. item'[m] = t /\ \A x \in Nodes : x # m => item'[x] = item[x]
      BY <1>f, <2>4
    <3>2. ASSUME NEW k \in Nat, HeadAt(lo) < k, k <= hi + 1 PROVE item'[C2[k]] = G[k]
      <4>1. CASE k = hi + 1
        BY <1>g, <2>1, <3>1, <4>1
      <4>2. CASE k <= hi
        <5>1. C[k] # m /\ C[k] \in Nodes /\ C2[k] = C[k]
          BY <1>g, <2>2, <2>3, <3>2, <4>2
        <5>2. item[C[k]] = G[k]
          BY <2>5, <3>2, <4>2 DEF Bringing
        <5>3. QED
          BY <3>1, <5>1, <5>2
      <4>3. QED
        BY <3>2, <4>1, <4>2
    <3>3. QED
      BY <3>2 DEF Bringing
  <2>8. head = C2[HeadAt(lo)] /\ tail = C2[hi]
    BY <1>g, <1>p, <1>0, <2>2 DEF NodesInPlace
  <2>9. cpc = "recycle" => old = C2[lo]
    BY <1>g, <1>0 DEF NodesInPlace
  <2>10. QED
    BY <1>a, <1>f, <1>g, <1>p, <1>u, <2>6, <2>7, <2>8, <2>9 DEF NodesInPlace
<1>8. NodesApart(C2, lo, hi)'
  BY <1>c, <1>p DEF NodesApart
<1>9. QED
  BY <1>0, <1>1, <1>2, <1>3, <1>4, <1>5, <1>6, <1>7, <1>8 DEF Numbered, C2

\* tail->next = n
LEMMA InusePushLinksInv ==
  ASSUME NEW lo \in Nat, NEW hi \in Nat,
         NEW C \in [Nat -> Nodes], NEW G \in [Nat -> Buffers], NEW V \in [Nat -> Nat],
         Numbered(C, G, V, lo, hi), InusePush, ppc = "link"
  PROVE  Numbered(C, G, V, lo, hi)'
<1>a. ppc = "link" /\ ppc' = "tail" /\ n' = n
  BY DEF InusePush
<1>u. UNCHANGED <<size, fixedsize, ring, allocated, bufcache, buf_w, buf_r, t, cpc, tmp,
                old, seen, contents, delivered>>
  BY DEF InusePush, parameters, pool, consumer, history
<1>0. /\ lo <= hi
      /\ RingPointers(G, lo, hi) /\ RingsApart(G, lo, hi) /\ ValuesInPlace(G, V, lo, hi)
      /\ HistoryInPlace(V, lo, hi) /\ NoGap(V, lo, hi)
      /\ NodesInPlace(C, G, lo, hi) /\ NodesApart(C, lo, hi)
  BY DEF Numbered
<1>t. UnboundedTypeOK
  BY DEF Numbered
<1>f. next' = [next EXCEPT ![tail] = n] /\ UNCHANGED <<head, tail, item, mallocated, cache>>
  BY <1>a DEF InusePush, LinkNode
<1>p. /\ RingLow(lo)' = RingLow(lo) /\ NodeLow(lo)' = NodeLow(lo) /\ HeadAt(lo)' = HeadAt(lo)
      /\ RingHigh(hi)' = RingHigh(hi) /\ NodeHigh(hi)' = hi + 1 /\ NodeHigh(hi) = hi + 1
      /\ TailAt(hi)' = hi /\ TailAt(hi) = hi /\ LastLinked(hi)' = hi + 1 /\ LastLinked(hi) = hi
  BY <1>a, <1>u DEF RingLow, NodeLow, HeadAt, RingHigh, NodeHigh, TailAt, LastLinked, Extending
<1>n. tail = C[hi] /\ n = C[hi + 1] /\ next \in [Nodes -> Nodes \cup {NoNode}]
  BY <1>a, <1>p, <1>0, <1>t DEF NodesInPlace, UnboundedTypeOK
<1>1. UnboundedTypeOK'
  <2>1. next' \in [Nodes -> Nodes \cup {NoNode}]
    BY <1>f, <1>n
  <2>2. QED
    BY <1>a, <1>f, <1>u, <1>t, <2>1 DEF UnboundedTypeOK, Pushing
<1>2. RingPointers(G, lo, hi)'
  BY <1>a, <1>u, <1>0 DEF RingPointers, Extending, GivingUp
<1>3. RingsApart(G, lo, hi)'
  BY <1>p, <1>u, <1>0 DEF RingsApart
<1>4. ValuesInPlace(G, V, lo, hi)'
  BY <1>p, <1>a, <1>u, <1>0 DEF ValuesInPlace, Spare, Extending
<1>5. HistoryInPlace(V, lo, hi)'
  BY <1>p, <1>a, <1>u, <1>0 DEF HistoryInPlace
<1>6. NoGap(V, lo, hi)'
  BY <1>a, <1>u, <1>0 DEF NoGap, GivingUp
<1>7. NodesInPlace(C, G, lo, hi)'
  <2>1. /\ HeadAt(lo) \in Nat /\ NodeLow(lo) <= HeadAt(lo) /\ HeadAt(lo) <= hi
        /\ NodeLow(lo) \in Nat
    BY Places
  <2>2. \A j, k \in Nat : HeadAt(lo) <= j /\ j < k /\ k <= hi + 1 => C[j] # C[k]
    BY <1>0, <1>p, <2>1 DEF NodesApart, Apart
  <2>3. Chain(next, C, HeadAt(lo), hi, hi + 1)
    BY <1>0, <1>p DEF NodesInPlace
  <2>4. Chain(next', C, HeadAt(lo), hi + 1, hi + 1)
    BY <1>f, <1>n, <2>1, <2>2, <2>3, LinkChain, Zenon
  <2>5. QED
    BY <1>a, <1>f, <1>p, <1>u, <1>0, <2>4 DEF NodesInPlace
<1>8. NodesApart(C, lo, hi)'
  BY <1>f, <1>p, <1>0 DEF NodesApart
<1>9. QED
  BY <1>0, <1>1, <1>2, <1>3, <1>4, <1>5, <1>6, <1>7, <1>8 DEF Numbered

\* tail = n
LEMMA InusePushMovesTailInv ==
  ASSUME NEW lo \in Nat, NEW hi \in Nat,
         NEW C \in [Nat -> Nodes], NEW G \in [Nat -> Buffers], NEW V \in [Nat -> Nat],
         Numbered(C, G, V, lo, hi), InusePush, ppc = "tail"
  PROVE  Numbered(C, G, V, lo, hi)'
<1>a. ppc = "tail" /\ ppc' = "turn" /\ n' = NoNode
  BY DEF InusePush
<1>u. UNCHANGED <<size, fixedsize, ring, allocated, bufcache, buf_w, buf_r, t, cpc, tmp,
                old, seen, contents, delivered>>
  BY DEF InusePush, parameters, pool, consumer, history
<1>0. /\ lo <= hi
      /\ RingPointers(G, lo, hi) /\ RingsApart(G, lo, hi) /\ ValuesInPlace(G, V, lo, hi)
      /\ HistoryInPlace(V, lo, hi) /\ NoGap(V, lo, hi)
      /\ NodesInPlace(C, G, lo, hi) /\ NodesApart(C, lo, hi)
  BY DEF Numbered
<1>t. UnboundedTypeOK
  BY DEF Numbered
<1>f. tail' = n /\ UNCHANGED <<head, next, item, mallocated, cache>>
  BY <1>a DEF InusePush, MoveTail
<1>p. /\ RingLow(lo)' = RingLow(lo) /\ NodeLow(lo)' = NodeLow(lo) /\ HeadAt(lo)' = HeadAt(lo)
      /\ RingHigh(hi)' = RingHigh(hi) /\ NodeHigh(hi)' = NodeHigh(hi)
      /\ TailAt(hi)' = hi + 1 /\ LastLinked(hi)' = LastLinked(hi)
  BY <1>a, <1>u DEF RingLow, NodeLow, HeadAt, RingHigh, NodeHigh, TailAt, LastLinked, Extending
<1>n. n = C[hi + 1] /\ n \in Nodes
  BY <1>a, <1>0 DEF NodesInPlace
<1>1. UnboundedTypeOK'
  BY <1>f, <1>n, <1>a, <1>u, <1>t DEF UnboundedTypeOK, Pushing, Popping
<1>2. RingPointers(G, lo, hi)'
  BY <1>a, <1>u, <1>0 DEF RingPointers, Extending, GivingUp
<1>3. RingsApart(G, lo, hi)'
  BY <1>p, <1>u, <1>0 DEF RingsApart
<1>4. ValuesInPlace(G, V, lo, hi)'
  BY <1>p, <1>a, <1>u, <1>0 DEF ValuesInPlace, Spare, Extending
<1>5. HistoryInPlace(V, lo, hi)'
  BY <1>p, <1>a, <1>u, <1>0 DEF HistoryInPlace
<1>6. NoGap(V, lo, hi)'
  BY <1>a, <1>u, <1>0 DEF NoGap, GivingUp
<1>7. NodesInPlace(C, G, lo, hi)'
  BY <1>f, <1>n, <1>p, <1>a, <1>u, <1>0 DEF NodesInPlace
<1>8. NodesApart(C, lo, hi)'
  BY <1>f, <1>p, <1>u, <1>0 DEF NodesApart
<1>9. QED
  BY <1>0, <1>1, <1>2, <1>3, <1>4, <1>5, <1>6, <1>7, <1>8 DEF Numbered

\* buf_w = t
LEMMA TurnToNewRingInv ==
  ASSUME NEW lo \in Nat, NEW hi \in Nat,
         NEW C \in [Nat -> Nodes], NEW G \in [Nat -> Buffers], NEW V \in [Nat -> Nat],
         Numbered(C, G, V, lo, hi), TurnToNewRing
  PROVE  Numbered(C, G, [V EXCEPT ![hi + 2] = V[hi + 1]], lo, hi + 1)'
<1> DEFINE V2 == [V EXCEPT ![hi + 2] = V[hi + 1]]
<1>a. ppc = "turn" /\ ppc' = "put" /\ buf_w' = t /\ t' = NoBuffer
  BY DEF TurnToNewRing
<1>u. UNCHANGED <<head, tail, next, item, mallocated, cache, size, fixedsize, ring,
                allocated, bufcache, buf_r, n, cpc, tmp, old, seen, contents, delivered>>
  BY DEF TurnToNewRing, dynqueue, parameters, pool, consumer, history
<1>0. /\ lo <= hi
      /\ RingPointers(G, lo, hi) /\ RingsApart(G, lo, hi) /\ ValuesInPlace(G, V, lo, hi)
      /\ HistoryInPlace(V, lo, hi) /\ NoGap(V, lo, hi)
      /\ NodesInPlace(C, G, lo, hi) /\ NodesApart(C, lo, hi)
  BY DEF Numbered
<1>t. UnboundedTypeOK
  BY DEF Numbered
<1>g. /\ V2[hi + 2] = V[hi + 1] /\ V2 \in [Nat -> Nat]
      /\ \A k \in Nat : k <= hi + 1 => V2[k] = V[k]
  OBVIOUS
<1>p. /\ RingLow(lo)' = RingLow(lo) /\ NodeLow(lo)' = NodeLow(lo) /\ HeadAt(lo)' = HeadAt(lo)
      /\ RingHigh(hi + 1)' = RingHigh(hi) /\ NodeHigh(hi + 1)' = NodeHigh(hi)
      /\ TailAt(hi + 1)' = TailAt(hi) /\ LastLinked(hi + 1)' = LastLinked(hi)
  BY <1>a, <1>u DEF RingLow, NodeLow, HeadAt, RingHigh, NodeHigh, TailAt, LastLinked, Extending
<1>l. RingLow(lo) \in Nat /\ RingLow(lo) <= hi /\ (hi + 1) + 1 = hi + 2 /\ hi + 1 \in Nat
  <2>1. RingLow(lo) \in Nat /\ RingLow(lo) <= hi
    BY Places
  <2>2. QED
    BY <2>1
<1>w. t = G[hi + 1] /\ t \in Buffers
  BY <1>a, <1>0 DEF RingPointers, Extending
<1> HIDE DEF V2
<1>1. UnboundedTypeOK'
  BY <1>w, <1>a, <1>u, <1>t DEF UnboundedTypeOK, Pushing, Popping
<1>2. RingPointers(G, lo, hi + 1)'
  <2>1. t = G[hi + 1] /\ (cpc = "again" \/ cpc \in GivingUp => lo < hi + 1)
    BY <1>a, <1>0 DEF RingPointers, Extending
  <2>2. QED
    BY <1>a, <1>u, <1>0, <2>1 DEF RingPointers, Extending, GivingUp
<1>3. RingsApart(G, lo, hi + 1)'
  BY <1>p, <1>u, <1>0 DEF RingsApart
<1>4. ValuesInPlace(G, V2, lo, hi + 1)'
  <2>1. Filled(ring, G, V, RingLow(lo), hi) /\ Rising(V, RingLow(lo), hi + 1)
    BY <1>0 DEF ValuesInPlace
  <2>2. Filled(ring, G, V2, RingLow(lo), hi + 1)
    <3>1. ASSUME NEW k \in Nat, RingLow(lo) <= k, k <= hi + 1
          PROVE  ring[G[k]] = Span(V2[k], V2[k + 1])
      <4>1. CASE k <= hi
        BY <1>g, <2>1, <3>1, <4>1 DEF Filled
      <4>2. CASE k = hi + 1
        <5>1. V2[k] = V[hi + 1] /\ V2[k + 1] = V[hi + 1] /\ V[hi + 1] \in Nat
          BY <1>g, <1>l, <4>2
        <5>2. ring[G[hi + 1]] = <<>>
          BY <1>a, <1>0 DEF ValuesInPlace, Extending
        <5>3. Span(V[hi + 1], V[hi + 1]) = <<>>
          BY <5>1, SpanEmpty
        <5>4. QED
          BY <4>2, <5>1, <5>2, <5>3
      <4>3. QED
        BY <3>1, <4>1, <4>2
    <3>2. QED
      BY <3>1 DEF Filled
  <2>3. Rising(V2, RingLow(lo), hi + 2)
    <3>1. ASSUME NEW j \in Nat, NEW k \in Nat, RingLow(lo) <= j, j <= k, k <= hi + 2
          PROVE  V2[j] <= V2[k]
      <4>1. CASE k <= hi + 1
        BY <1>g, <2>1, <3>1, <4>1 DEF Rising
      <4>2. CASE k = hi + 2 /\ j <= hi + 1
        <5>1. V[j] <= V[hi + 1]
          BY <2>1, <3>1, <4>2 DEF Rising
        <5>2. QED
          BY <1>g, <4>2, <5>1
      <4>3. CASE k = hi + 2 /\ j = hi + 2
        <5>1. V2[k] \in Nat /\ j = k
          BY <1>g, <4>3
        <5>2. QED
          BY <5>1
      <4>4. QED
        BY <3>1, <4>1, <4>2, <4>3
    <3>2. QED
      BY <3>1 DEF Rising
  <2>4. QED
    BY <1>a, <1>l, <1>p, <1>u, <1>0, <2>2, <2>3 DEF ValuesInPlace, Spare, Extending
<1>5. HistoryInPlace(V2, lo, hi + 1)'
  <2>1. V2[RingLow(lo)] = V[RingLow(lo)] /\ V2[(hi + 1) + 1] = V[hi + 1]
    BY <1>g, <1>l
  <2>2. V[hi + 1] < MaxPush
    BY <1>a, <1>0 DEF HistoryInPlace
  <2>3. QED
    BY <1>p, <1>u, <1>0, <2>1, <2>2 DEF HistoryInPlace
<1>6. NoGap(V2, lo, hi + 1)'
  <2>1. \A k \in Nat : k <= hi => V2[k] = V[k] /\ V2[k + 1] = V[k + 1]
    BY <1>g
  <2>2. \A k \in Nat : lo < k /\ k <= hi => V[k] < V[k + 1]
    BY <1>a, <1>0 DEF NoGap
  <2>3. /\ cpc = "take" => V[lo] < V[lo + 1]
        /\ cpc \in GivingUp => V[lo] = V[lo + 1]
        /\ cpc = "compare" /\ seen > 0 => lo < hi
    BY <1>a, <1>0 DEF NoGap
  <2>4. V2[lo] = V[lo] /\ V2[lo + 1] = V[lo + 1]
    BY <1>0, <2>1
  <2>5. \A k \in Nat : lo < k /\ k <= hi + 1 => V2[k] < V2[k + 1] \/ k = hi + 1
    BY <2>1, <2>2
  <2>6. cpc = "compare" /\ seen > 0 => lo < hi + 1
    BY <2>3
  <2>7. QED
    BY <1>a, <1>u, <2>3, <2>4, <2>5, <2>6 DEF NoGap
<1>7. NodesInPlace(C, G, lo, hi + 1)'
  BY <1>p, <1>a, <1>u, <1>0 DEF NodesInPlace
<1>8. NodesApart(C, lo, hi + 1)'
  BY <1>p, <1>u, <1>0 DEF NodesApart
<1>9. QED
  BY <1>0, <1>l, <1>1, <1>2, <1>3, <1>4, <1>5, <1>6, <1>7, <1>8 DEF Numbered, V2

\* buf_w->push(data)
LEMMA PutInv ==
  ASSUME NEW lo \in Nat, NEW hi \in Nat,
         NEW C \in [Nat -> Nodes], NEW G \in [Nat -> Buffers], NEW V \in [Nat -> Nat],
         Numbered(C, G, V, lo, hi), Put
  PROVE  Numbered(C, G, [V EXCEPT ![hi + 1] = @ + 1], lo, hi)'
<1> DEFINE V2 == [V EXCEPT ![hi + 1] = @ + 1]
<1>a. ppc = "put" /\ ppc' = "outside"
  BY DEF Put
<1>u. UNCHANGED <<head, tail, next, item, mallocated, cache, size, fixedsize, allocated,
                bufcache, buf_w, buf_r, t, n, cpc, tmp, old, seen, delivered>>
  BY DEF Put, dynqueue, parameters, pool, consumer
<1>0. /\ lo <= hi
      /\ RingPointers(G, lo, hi) /\ RingsApart(G, lo, hi) /\ ValuesInPlace(G, V, lo, hi)
      /\ HistoryInPlace(V, lo, hi) /\ NoGap(V, lo, hi)
      /\ NodesInPlace(C, G, lo, hi) /\ NodesApart(C, lo, hi)
  BY DEF Numbered
<1>t. UnboundedTypeOK
  BY DEF Numbered
<1>d. /\ ring' = [ring EXCEPT ![G[hi]] = Append(@, V[hi + 1] + 1)]
      /\ contents' = Append(contents, V[hi + 1] + 1)
  <2>1. Data = V[hi + 1] + 1
    BY CountOfValues DEF Data
  <2>2. buf_w = G[hi]
    BY <1>0 DEF RingPointers
  <2>3. QED
    BY <2>1, <2>2 DEF Put
<1>g. /\ V2[hi + 1] = V[hi + 1] + 1 /\ V2 \in [Nat -> Nat]
      /\ \A k \in Nat : k <= hi => V2[k] = V[k]
  OBVIOUS
<1>l. RingLow(lo) \in Nat /\ RingLow(lo) <= hi /\ hi <= RingHigh(hi) /\ RingHigh(hi) \in Nat
  BY Places
<1>v. V[RingLow(lo)] <= V[hi + 1]
  BY CountOfValues
<1>r. /\ \A j, k \in Nat : RingLow(lo) <= j /\ j < k /\ k <= hi => G[j] # G[k]
      /\ G[hi] \in allocated /\ G[hi] \notin Held(bufcache)
  BY <1>l, <1>0 DEF RingsApart, Apart
<1>p. /\ RingLow(lo)' = RingLow(lo) /\ NodeLow(lo)' = NodeLow(lo) /\ HeadAt(lo)' = HeadAt(lo)
      /\ RingHigh(hi)' = RingHigh(hi) /\ NodeHigh(hi)' = NodeHigh(hi)
      /\ TailAt(hi)' = TailAt(hi) /\ LastLinked(hi)' = LastLinked(hi)
  BY <1>a, <1>u DEF RingLow, NodeLow, HeadAt, RingHigh, NodeHigh, TailAt, LastLinked, Extending
<1> HIDE DEF V2
<1>1. UnboundedTypeOK'
  <2>1. ring \in [Buffers -> Seq(Nat)] /\ G[hi] \in Buffers /\ V[hi + 1] + 1 \in Nat
    <3>1. ring \in [Buffers -> Seq(Nat)]
      BY <1>t DEF UnboundedTypeOK
    <3>2. G[hi] \in Buffers /\ V[hi + 1] + 1 \in Nat
      OBVIOUS
    <3>3. QED
      BY <3>1, <3>2
  <2>2. ring[G[hi]] \in Seq(Nat)
    BY <2>1, Zenon
  <2>3. Append(ring[G[hi]], V[hi + 1] + 1) \in Seq(Nat)
    BY <2>1, <2>2, AppendProperties, Zenon
  <2>4. ring' \in [Buffers -> Seq(Nat)]
    BY <1>d, <2>1, <2>3
  <2>5. QED
    BY <1>a, <1>u, <1>t, <2>4 DEF UnboundedTypeOK, Pushing
<1>2. RingPointers(G, lo, hi)'
  BY <1>a, <1>u, <1>0 DEF RingPointers, Extending, GivingUp
<1>3. RingsApart(G, lo, hi)'
  BY <1>p, <1>u, <1>0 DEF RingsApart
<1>4. ValuesInPlace(G, V2, lo, hi)'
  <2>1. Filled(ring, G, V, RingLow(lo), hi) /\ Rising(V, RingLow(lo), hi + 1)
    BY <1>0 DEF ValuesInPlace
  <2>2. ring \in [Buffers -> Seq(Nat)]
    BY <1>t DEF UnboundedTypeOK
  <2>3. Filled(ring', G, V2, RingLow(lo), hi) /\ Rising(V2, RingLow(lo), hi + 1)
    BY <1>d, <1>l, <1>r, <2>1, <2>2, PutNewest, Zenon DEF V2
  <2>4. ASSUME NEW b \in Buffers, Spare(b) PROVE ring'[b] = <<>>
    <3>1. ring[b] = <<>>
      BY <1>0, <2>4 DEF ValuesInPlace
    <3>2. b # G[hi]
      BY <1>r, <2>4 DEF Spare
    <3>3. QED
      BY <1>d, <2>2, <3>1, <3>2
  <2>5. \A b \in Buffers : Spare(b)' <=> Spare(b)
    BY <1>u DEF Spare
  <2>6. QED
    BY <1>a, <1>p, <2>3, <2>4, <2>5 DEF ValuesInPlace, Extending
<1>5. HistoryInPlace(V2, lo, hi)'
  <2>1. V[RingLow(lo)] \in Nat /\ V[hi + 1] \in Nat /\ V2[RingLow(lo)] = V[RingLow(lo)]
    BY <1>g, <1>l
  <2>2. Append(Span(V[RingLow(lo)], V[hi + 1]), V[hi + 1] + 1)
          = Span(V[RingLow(lo)], V[hi + 1] + 1)
    BY <1>v, <2>1, SpanAppend, Zenon
  <2>3. contents = Span(V[RingLow(lo)], V[hi + 1]) /\ delivered = Span(0, V[RingLow(lo)])
    BY <1>0 DEF HistoryInPlace
  <2>4. contents' = Span(V2[RingLow(lo)], V2[hi + 1])
    BY <1>d, <1>g, <2>1, <2>2, <2>3, Zenon
  <2>5. QED
    BY <1>a, <1>p, <1>u, <2>1, <2>3, <2>4 DEF HistoryInPlace
<1>6. NoGap(V2, lo, hi)'
  <2>1. V[hi] <= V[hi + 1]
    <3>1. Rising(V, RingLow(lo), hi + 1)
      BY <1>0 DEF ValuesInPlace
    <3>2. QED
      BY <1>l, <3>1 DEF Rising
  <2>2. \A k \in Nat : lo < k /\ k <= hi => V2[k] < V2[k + 1]
    <3>1. ASSUME NEW k \in Nat, lo < k, k <= hi PROVE V2[k] < V2[k + 1]
      <4>1. CASE k = hi
        BY <1>g, <1>l, <2>1, <4>1
      <4>2. CASE k < hi
        <5>1. V[k] < V[k + 1]
          BY <1>0, <3>1, <4>2 DEF NoGap
        <5>2. V2[k] = V[k] /\ V2[k + 1] = V[k + 1]
          BY <1>g, <4>2
        <5>3. QED
          BY <5>1, <5>2
      <4>3. QED
        BY <3>1, <4>1, <4>2
    <3>2. QED
      BY <3>1
  <2>3. cpc = "take" => V2[lo] < V2[lo + 1]
    <3>1. CASE lo = hi /\ cpc = "take"
      <4>1. V[lo] <= V[hi + 1]
        BY <1>v, <3>1 DEF RingLow
      <4>2. QED
        BY <1>g, <3>1, <4>1
    <3>2. CASE lo < hi
      <4>1. V2[lo] = V[lo] /\ V2[lo + 1] = V[lo + 1]
        BY <1>g, <3>2
      <4>2. QED
        BY <1>0, <3>2, <4>1 DEF NoGap
    <3>3. QED
      BY <1>0, <3>1, <3>2
  <2>4. cpc \in GivingUp => V2[lo] = V2[lo + 1]
    <3>1. ASSUME cpc \in GivingUp PROVE V2[lo] = V[lo] /\ V2[lo + 1] = V[lo + 1]
      <4>1. lo < hi
        BY <1>0, <3>1 DEF RingPointers
      <4>2. QED
        BY <1>g, <4>1
    <3>2. QED
      BY <1>0, <3>1 DEF NoGap
  <2>5. QED
    BY <1>a, <1>u, <1>0, <2>2, <2>3, <2>4 DEF NoGap
<1>7. NodesInPlace(C, G, lo, hi)'
  BY <1>p, <1>a, <1>u, <1>0 DEF NodesInPlace
<1>8. NodesApart(C, lo, hi)'
  BY <1>p, <1>u, <1>0 DEF NodesApart
<1>9. QED
  BY <1>0, <1>1, <1>2, <1>3, <1>4, <1>5, <1>6, <1>7, <1>8 DEF Numbered, V2

\* inuse.pop(): the data
LEMMA InusePopReadsInv ==
  ASSUME NEW lo \in Nat, NEW hi \in Nat,
         NEW C \in [Nat -> Nodes], NEW G \in [Nat -> Buffers], NEW V \in [Nat -> Nat],
         Numbered(C, G, V, lo, hi), InusePop, cpc = "next"
  PROVE  Numbered(C, G, V, lo, hi)'
<1>a. cpc = "next"
  BY DEF InusePop
<1>u. UNCHANGED <<size, fixedsize, ring, allocated, bufcache, buf_w, buf_r, ppc, t, n, seen,
                contents, delivered>>
  BY DEF InusePop, parameters, pool, producer, history
<1>0. /\ lo <= hi
      /\ RingPointers(G, lo, hi) /\ RingsApart(G, lo, hi) /\ ValuesInPlace(G, V, lo, hi)
      /\ HistoryInPlace(V, lo, hi) /\ NoGap(V, lo, hi)
      /\ NodesInPlace(C, G, lo, hi) /\ NodesApart(C, lo, hi)
  BY DEF Numbered
<1>t. UnboundedTypeOK
  BY DEF Numbered
<1>g. lo < hi /\ V[lo] = V[lo + 1]
  BY <1>a, <1>0 DEF RingPointers, NoGap, GivingUp
<1>l. /\ HeadAt(lo) = lo /\ LastLinked(hi) \in Nat /\ hi <= LastLinked(hi)
      /\ NodeHigh(hi) \in Nat /\ hi <= NodeHigh(hi)
  <2>1. HeadAt(lo) = lo
    BY <1>a DEF HeadAt
  <2>2. QED
    BY <2>1 DEF LastLinked, NodeHigh
<1>n. head = C[lo] /\ next[C[lo]] = C[lo + 1] /\ item[C[lo + 1]] = G[lo + 1]
  <2>1. head = C[lo]
    BY <1>l, <1>0 DEF NodesInPlace
  <2>2. Chain(next, C, lo, LastLinked(hi), NodeHigh(hi)) /\ Bringing(item, C, G, lo, NodeHigh(hi))
    BY <1>l, <1>0 DEF NodesInPlace
  <2>3. next[C[lo]] = C[lo + 1]
    BY <1>g, <1>l, <2>2 DEF Chain
  <2>4. item[C[lo + 1]] = G[lo + 1]
    BY <1>g, <1>l, <2>2 DEF Bringing
  <2>5. QED
    BY <2>1, <2>3, <2>4
<1>m. G[lo + 1] \in Buffers
  OBVIOUS
<1>b. cpc' = "head" /\ tmp' = G[lo + 1] /\ UNCHANGED <<head, tail, next, item, mallocated, cache, old>>
  <2>1. Linked /\ FirstItem = G[lo + 1]
    <3>1. C[lo + 1] \in Nodes
      OBVIOUS
    <3>2. C[lo + 1] # NoNode
      BY <3>1, UnboundedAssumption
    <3>3. QED
      BY <1>n, <3>2 DEF Linked, FirstItem
  <2>2. QED
    BY <1>a, <2>1 DEF InusePop, dynqueue
<1>p. /\ RingLow(lo)' = RingLow(lo) /\ NodeLow(lo)' = NodeLow(lo) /\ HeadAt(lo)' = HeadAt(lo)
      /\ RingHigh(hi)' = RingHigh(hi) /\ NodeHigh(hi)' = NodeHigh(hi)
      /\ TailAt(hi)' = TailAt(hi) /\ LastLinked(hi)' = LastLinked(hi)
  BY <1>a, <1>b, <1>u DEF RingLow, NodeLow, HeadAt, RingHigh, NodeHigh, TailAt, LastLinked, Extending
<1>1. UnboundedTypeOK'
  BY <1>b, <1>m, <1>a, <1>u, <1>t DEF UnboundedTypeOK, Pushing, Popping
<1>2. RingPointers(G, lo, hi)'
  BY <1>b, <1>g, <1>a, <1>u, <1>0 DEF RingPointers, Extending, GivingUp
<1>3. RingsApart(G, lo, hi)'
  BY <1>p, <1>u, <1>0 DEF RingsApart
<1>4. ValuesInPlace(G, V, lo, hi)'
  BY <1>b, <1>p, <1>a, <1>u, <1>0 DEF ValuesInPlace, Spare, Extending
<1>5. HistoryInPlace(V, lo, hi)'
  BY <1>p, <1>a, <1>u, <1>0 DEF HistoryInPlace
<1>6. NoGap(V, lo, hi)'
  BY <1>b, <1>g, <1>a, <1>u, <1>0 DEF NoGap, GivingUp
<1>7. NodesInPlace(C, G, lo, hi)'
  BY <1>b, <1>p, <1>a, <1>u, <1>0 DEF NodesInPlace
<1>8. NodesApart(C, lo, hi)'
  BY <1>b, <1>p, <1>u, <1>0 DEF NodesApart
<1>9. QED
  BY <1>0, <1>1, <1>2, <1>3, <1>4, <1>5, <1>6, <1>7, <1>8 DEF Numbered

\* inuse.pop(): head moves on
LEMMA InusePopMovesHeadInv ==
  ASSUME NEW lo \in Nat, NEW hi \in Nat,
         NEW C \in [Nat -> Nodes], NEW G \in [Nat -> Buffers], NEW V \in [Nat -> Nat],
         Numbered(C, G, V, lo, hi), InusePop, cpc = "head"
  PROVE  Numbered(C, G, V, lo, hi)'
<1>a. cpc = "head" /\ cpc' = "recycle" /\ tmp' = tmp /\ old' = head
  BY DEF InusePop
<1>u. UNCHANGED <<size, fixedsize, ring, allocated, bufcache, buf_w, buf_r, ppc, t, n, seen,
                contents, delivered>>
  BY DEF InusePop, parameters, pool, producer, history
<1>0. /\ lo <= hi
      /\ RingPointers(G, lo, hi) /\ RingsApart(G, lo, hi) /\ ValuesInPlace(G, V, lo, hi)
      /\ HistoryInPlace(V, lo, hi) /\ NoGap(V, lo, hi)
      /\ NodesInPlace(C, G, lo, hi) /\ NodesApart(C, lo, hi)
  BY DEF Numbered
<1>t. UnboundedTypeOK
  BY DEF Numbered
<1>b. head' = next[head] /\ UNCHANGED <<tail, next, item, mallocated, cache>>
  BY <1>a DEF InusePop, MoveHead
<1>g. lo < hi /\ V[lo] = V[lo + 1]
  BY <1>a, <1>0 DEF RingPointers, NoGap, GivingUp
<1>p. /\ RingLow(lo)' = RingLow(lo) /\ NodeLow(lo)' = NodeLow(lo) /\ HeadAt(lo)' = lo + 1 /\ HeadAt(lo) = lo
      /\ RingHigh(hi)' = RingHigh(hi) /\ NodeHigh(hi)' = NodeHigh(hi)
      /\ TailAt(hi)' = TailAt(hi) /\ LastLinked(hi)' = LastLinked(hi)
  BY <1>a, <1>u DEF RingLow, NodeLow, HeadAt, RingHigh, NodeHigh, TailAt, LastLinked, Extending
<1>l. /\ LastLinked(hi) \in Nat /\ hi <= LastLinked(hi) /\ lo + 1 \in Nat
      /\ NodeHigh(hi) \in Nat /\ hi <= NodeHigh(hi)
  BY DEF LastLinked, NodeHigh
<1>n. head = C[lo] /\ head' = C[lo + 1] /\ head' \in Nodes /\ head \in Nodes
  <2>1. head = C[lo] /\ Chain(next, C, lo, LastLinked(hi), NodeHigh(hi))
    BY <1>p, <1>0 DEF NodesInPlace
  <2>2. next[C[lo]] = C[lo + 1]
    BY <1>g, <1>l, <2>1 DEF Chain
  <2>3. QED
    BY <1>b, <2>1, <2>2
<1>1. UnboundedTypeOK'
  BY <1>b, <1>n, <1>a, <1>u, <1>t DEF UnboundedTypeOK, Pushing, Popping
<1>2. RingPointers(G, lo, hi)'
  BY <1>a, <1>u, <1>0 DEF RingPointers, Extending, GivingUp
<1>3. RingsApart(G, lo, hi)'
  BY <1>p, <1>u, <1>0 DEF RingsApart
<1>4. ValuesInPlace(G, V, lo, hi)'
  BY <1>b, <1>p, <1>a, <1>u, <1>0 DEF ValuesInPlace, Spare, Extending
<1>5. HistoryInPlace(V, lo, hi)'
  BY <1>p, <1>a, <1>u, <1>0 DEF HistoryInPlace
<1>6. NoGap(V, lo, hi)'
  BY <1>a, <1>u, <1>0 DEF NoGap, GivingUp
<1>7. NodesInPlace(C, G, lo, hi)'
  <2>1. Chain(next, C, lo, LastLinked(hi), NodeHigh(hi)) /\ Bringing(item, C, G, lo, NodeHigh(hi))
    BY <1>p, <1>0 DEF NodesInPlace
  <2>2. Chain(next, C, lo + 1, LastLinked(hi), NodeHigh(hi))
    BY <1>l, <2>1 DEF Chain
  <2>3. Bringing(item, C, G, lo + 1, NodeHigh(hi))
    BY <1>l, <2>1 DEF Bringing
  <2>4. QED
    BY <1>a, <1>b, <1>n, <1>p, <1>u, <1>0, <2>2, <2>3 DEF NodesInPlace
<1>8. NodesApart(C, lo, hi)'
  BY <1>b, <1>p, <1>u, <1>0 DEF NodesApart
<1>9. QED
  BY <1>0, <1>1, <1>2, <1>3, <1>4, <1>5, <1>6, <1>7, <1>8 DEF Numbered

\* inuse.pop(): the old dummy goes back
LEMMA InusePopRecyclesInv ==
  ASSUME NEW lo \in Nat, NEW hi \in Nat,
         NEW C \in [Nat -> Nodes], NEW G \in [Nat -> Buffers], NEW V \in [Nat -> Nat],
         Numbered(C, G, V, lo, hi), InusePop, cpc = "recycle"
  PROVE  Numbered(C, G, V, lo, hi)'
<1>a. cpc = "recycle" /\ cpc' = "reset" /\ tmp' = tmp /\ old' = NoNode
  BY DEF InusePop
<1>u. UNCHANGED <<size, fixedsize, ring, allocated, bufcache, buf_w, buf_r, ppc, t, n, seen,
                contents, delivered>>
  BY DEF InusePop, parameters, pool, producer, history
<1>0. /\ lo <= hi
      /\ RingPointers(G, lo, hi) /\ RingsApart(G, lo, hi) /\ ValuesInPlace(G, V, lo, hi)
      /\ HistoryInPlace(V, lo, hi) /\ NoGap(V, lo, hi)
      /\ NodesInPlace(C, G, lo, hi) /\ NodesApart(C, lo, hi)
  BY DEF Numbered
<1>t. UnboundedTypeOK
  BY DEF Numbered
<1>b. Recycled(old) /\ UNCHANGED <<head, tail, next, item>>
  BY <1>a DEF InusePop, RecycleNode
<1>g. lo < hi
  BY <1>a, <1>0 DEF RingPointers, GivingUp
<1>p. /\ RingLow(lo)' = RingLow(lo) /\ NodeLow(lo)' = lo + 1 /\ NodeLow(lo) = lo /\ HeadAt(lo)' = HeadAt(lo)
      /\ RingHigh(hi)' = RingHigh(hi) /\ NodeHigh(hi)' = NodeHigh(hi)
      /\ TailAt(hi)' = TailAt(hi) /\ LastLinked(hi)' = LastLinked(hi)
  BY <1>a, <1>u DEF RingLow, NodeLow, HeadAt, RingHigh, NodeHigh, TailAt, LastLinked, Extending
<1>c. /\ cache' \in Seq(Nodes) /\ mallocated' \subseteq Nodes
      /\ Apart(C, lo + 1, NodeHigh(hi), mallocated', cache')
  <2>1. Apart(C, lo, NodeHigh(hi), mallocated, cache)
    BY <1>p, <1>0 DEF NodesApart
  <2>2. cache \in Seq(Nodes) /\ mallocated \subseteq Nodes /\ C[lo] \in Nodes
    BY <1>t DEF UnboundedTypeOK
  <2>3. NodeHigh(hi) \in Nat /\ lo <= NodeHigh(hi)
    BY <1>g DEF NodeHigh
  <2>4. old = C[lo]
    BY <1>a, <1>0 DEF NodesInPlace
  <2>5. /\ Apart(C, lo + 1, NodeHigh(hi), mallocated, Append(cache, C[lo]))
        /\ Apart(C, lo + 1, NodeHigh(hi), mallocated \ {C[lo]}, cache)
    BY <2>1, <2>2, <2>3, GiveBack, Zenon
  <2>6. Append(cache, C[lo]) \in Seq(Nodes)
    BY <2>2, AppendProperties, Zenon
  <2>7. \/ cache' = Append(cache, C[lo]) /\ mallocated' = mallocated
        \/ mallocated' = mallocated \ {C[lo]} /\ cache' = cache
    BY <1>b, <2>4 DEF Recycled
  <2>8. QED
    BY <2>2, <2>5, <2>6, <2>7, Zenon
<1>1. UnboundedTypeOK'
  BY <1>b, <1>c, <1>a, <1>u, <1>t DEF UnboundedTypeOK, Pushing, Popping
<1>2. RingPointers(G, lo, hi)'
  BY <1>a, <1>u, <1>0 DEF RingPointers, Extending, GivingUp
<1>3. RingsApart(G, lo, hi)'
  BY <1>p, <1>u, <1>0 DEF RingsApart
<1>4. ValuesInPlace(G, V, lo, hi)'
  BY <1>b, <1>p, <1>a, <1>u, <1>0 DEF ValuesInPlace, Spare, Extending
<1>5. HistoryInPlace(V, lo, hi)'
  BY <1>p, <1>a, <1>u, <1>0 DEF HistoryInPlace
<1>6. NoGap(V, lo, hi)'
  BY <1>a, <1>u, <1>0 DEF NoGap, GivingUp
<1>7. NodesInPlace(C, G, lo, hi)'
  BY <1>b, <1>p, <1>a, <1>u, <1>0 DEF NodesInPlace
<1>8. NodesApart(C, lo, hi)'
  BY <1>c, <1>p DEF NodesApart
<1>9. QED
  BY <1>0, <1>1, <1>2, <1>3, <1>4, <1>5, <1>6, <1>7, <1>8 DEF Numbered

\* buf_r->reset(): the ring is empty already
LEMMA ResetRingInv ==
  ASSUME NEW lo \in Nat, NEW hi \in Nat,
         NEW C \in [Nat -> Nodes], NEW G \in [Nat -> Buffers], NEW V \in [Nat -> Nat],
         Numbered(C, G, V, lo, hi), ResetRing
  PROVE  Numbered(C, G, V, lo, hi)'
<1>a. cpc = "reset" /\ cpc' = "release"
  BY DEF ResetRing
<1>u. UNCHANGED <<head, tail, next, item, mallocated, cache, size, fixedsize, allocated,
                bufcache, buf_w, buf_r, ppc, t, n, tmp, old, seen, contents, delivered>>
  BY DEF ResetRing, dynqueue, parameters, pool, producer, history
<1>0. /\ lo <= hi
      /\ RingPointers(G, lo, hi) /\ RingsApart(G, lo, hi) /\ ValuesInPlace(G, V, lo, hi)
      /\ HistoryInPlace(V, lo, hi) /\ NoGap(V, lo, hi)
      /\ NodesInPlace(C, G, lo, hi) /\ NodesApart(C, lo, hi)
  BY DEF Numbered
<1>t. UnboundedTypeOK
  BY DEF Numbered
<1>r. ring' = ring
  <2>1. ring[buf_r] = <<>>
    <3>1. V[lo] = V[lo + 1]
      BY <1>a, <1>0 DEF NoGap, GivingUp
    <3>2. V[lo] <= V[lo + 1] /\ (ring[buf_r] = <<>> <=> V[lo] = V[lo + 1])
      BY <1>a, EmptyRing
    <3>3. QED
      BY <3>1, <3>2
  <2>2. ring \in [Buffers -> Seq(Nat)]
    BY <1>t DEF UnboundedTypeOK
  <2>3. ring' = [ring EXCEPT ![buf_r] = <<>>]
    BY DEF ResetRing
  <2>4. QED
    BY <2>1, <2>2, <2>3
<1>p. /\ RingLow(lo)' = RingLow(lo) /\ NodeLow(lo)' = NodeLow(lo) /\ HeadAt(lo)' = HeadAt(lo)
      /\ RingHigh(hi)' = RingHigh(hi) /\ NodeHigh(hi)' = NodeHigh(hi)
      /\ TailAt(hi)' = TailAt(hi) /\ LastLinked(hi)' = LastLinked(hi)
  BY <1>a, <1>u DEF RingLow, NodeLow, HeadAt, RingHigh, NodeHigh, TailAt, LastLinked, Extending
<1>1. UnboundedTypeOK'
  BY <1>r, <1>a, <1>u, <1>t DEF UnboundedTypeOK, Pushing, Popping
<1>2. RingPointers(G, lo, hi)'
  BY <1>a, <1>u, <1>0 DEF RingPointers, Extending, GivingUp
<1>3. RingsApart(G, lo, hi)'
  BY <1>p, <1>u, <1>0 DEF RingsApart
<1>4. ValuesInPlace(G, V, lo, hi)'
  BY <1>r, <1>p, <1>a, <1>u, <1>0 DEF ValuesInPlace, Spare, Extending
<1>5. HistoryInPlace(V, lo, hi)'
  BY <1>p, <1>a, <1>u, <1>0 DEF HistoryInPlace
<1>6. NoGap(V, lo, hi)'
  BY <1>a, <1>u, <1>0 DEF NoGap, GivingUp
<1>7. NodesInPlace(C, G, lo, hi)'
  BY <1>p, <1>a, <1>u, <1>0 DEF NodesInPlace
<1>8. NodesApart(C, lo, hi)'
  BY <1>p, <1>u, <1>0 DEF NodesApart
<1>9. QED
  BY <1>0, <1>1, <1>2, <1>3, <1>4, <1>5, <1>6, <1>7, <1>8 DEF Numbered

\* pool.release(buf_r): the ring goes to the cache, or it is freed
LEMMA ReleaseRingInv ==
  ASSUME NEW lo \in Nat, NEW hi \in Nat,
         NEW C \in [Nat -> Nodes], NEW G \in [Nat -> Buffers], NEW V \in [Nat -> Nat],
         Numbered(C, G, V, lo, hi), ReleaseRing
  PROVE  Numbered(C, G, V, lo, hi)'
<1>a. cpc = "release" /\ cpc' = "turn"
  BY DEF ReleaseRing
<1>u. UNCHANGED <<head, tail, next, item, mallocated, cache, size, fixedsize, ring, buf_w,
                buf_r, ppc, t, n, tmp, old, seen, contents, delivered>>
  BY DEF ReleaseRing, dynqueue, parameters, producer, history
<1>0. /\ lo <= hi
      /\ RingPointers(G, lo, hi) /\ RingsApart(G, lo, hi) /\ ValuesInPlace(G, V, lo, hi)
      /\ HistoryInPlace(V, lo, hi) /\ NoGap(V, lo, hi)
      /\ NodesInPlace(C, G, lo, hi) /\ NodesApart(C, lo, hi)
  BY DEF Numbered
<1>t. UnboundedTypeOK
  BY DEF Numbered
<1>g. lo < hi /\ V[lo] = V[lo + 1] /\ buf_r = G[lo] /\ lo + 1 \in Nat
  BY <1>a, <1>0 DEF RingPointers, NoGap, GivingUp
<1>p. /\ RingLow(lo)' = lo + 1 /\ RingLow(lo) = lo /\ NodeLow(lo)' = NodeLow(lo) /\ HeadAt(lo)' = HeadAt(lo)
      /\ RingHigh(hi)' = RingHigh(hi) /\ NodeHigh(hi)' = NodeHigh(hi)
      /\ TailAt(hi)' = TailAt(hi) /\ LastLinked(hi)' = LastLinked(hi)
  BY <1>a, <1>u DEF RingLow, NodeLow, HeadAt, RingHigh, NodeHigh, TailAt, LastLinked, Extending
<1>c. /\ bufcache' \in Seq(Buffers) /\ allocated' \subseteq Buffers
      /\ Apart(G, lo + 1, RingHigh(hi), allocated', bufcache')
      /\ \A b \in Buffers : Spare(b)' => Spare(b) \/ b = G[lo]
  <2>1. Apart(G, lo, RingHigh(hi), allocated, bufcache)
    BY <1>p, <1>0 DEF RingsApart
  <2>2. bufcache \in Seq(Buffers) /\ allocated \subseteq Buffers /\ G[lo] \in Buffers
    BY <1>t DEF UnboundedTypeOK
  <2>3. RingHigh(hi) \in Nat /\ lo <= RingHigh(hi)
    BY <1>g DEF RingHigh
  <2>4. /\ Apart(G, lo + 1, RingHigh(hi), allocated, Append(bufcache, G[lo]))
        /\ Apart(G, lo + 1, RingHigh(hi), allocated \ {G[lo]}, bufcache)
    BY <2>1, <2>2, <2>3, GiveBack, Zenon
  <2>5. /\ Append(bufcache, G[lo]) \in Seq(Buffers)
        /\ Held(Append(bufcache, G[lo])) = Held(bufcache) \cup {G[lo]}
    <3>1. Append(bufcache, G[lo]) \in Seq(Buffers)
      BY <2>2, AppendProperties, Zenon
    <3>2. /\ Held(Append(bufcache, G[lo])) = Held(bufcache) \cup {G[lo]}
          /\ Distinct(bufcache) /\ G[lo] \notin Held(bufcache) => Distinct(Append(bufcache, G[lo]))
      BY <2>2, HeldAppend, Zenon
    <3>3. QED
      BY <3>1, <3>2
  <2>6. CASE bufcache' = Append(bufcache, G[lo]) /\ allocated' = allocated
    <3>1. Held(bufcache') = Held(bufcache) \cup {G[lo]}
      BY <2>5, <2>6, Zenon
    <3>2. \A b \in Buffers : Spare(b)' => Spare(b) \/ b = G[lo]
      BY <2>6, <3>1, Zenon DEF Spare
    <3>3. QED
      BY <2>2, <2>4, <2>5, <2>6, <3>2, Zenon
  <2>7. CASE allocated' = allocated \ {G[lo]} /\ bufcache' = bufcache
    <3>1. \A b \in Buffers : Spare(b)' => Spare(b) \/ b = G[lo]
      BY <2>7, Zenon DEF Spare
    <3>2. QED
      BY <2>2, <2>4, <2>7, <3>1, Zenon
  <2>8. \/ bufcache' = Append(bufcache, G[lo]) /\ allocated' = allocated
        \/ allocated' = allocated \ {G[lo]} /\ bufcache' = bufcache
    BY <1>g DEF ReleaseRing, Released
  <2>9. QED
    BY <2>6, <2>7, <2>8
<1>1. UnboundedTypeOK'
  BY <1>c, <1>a, <1>u, <1>t DEF UnboundedTypeOK, Pushing, Popping
<1>2. RingPointers(G, lo, hi)'
  BY <1>a, <1>u, <1>0 DEF RingPointers, Extending, GivingUp
<1>3. RingsApart(G, lo, hi)'
  BY <1>c, <1>p, <1>u DEF RingsApart
<1>4. ValuesInPlace(G, V, lo, hi)'
  <2>1. Filled(ring, G, V, lo, hi) /\ Rising(V, lo, hi + 1)
    BY <1>p, <1>0 DEF ValuesInPlace
  <2>2. Filled(ring, G, V, lo + 1, hi) /\ Rising(V, lo + 1, hi + 1)
    BY <1>g, <2>1 DEF Filled, Rising
  <2>3. ring[G[lo]] = <<>>
    <3>1. V[lo] <= V[lo + 1] /\ (ring[buf_r] = <<>> <=> V[lo] = V[lo + 1])
      BY <1>a, EmptyRing
    <3>2. QED
      BY <1>g, <3>1
  <2>4. \A b \in Buffers : Spare(b)' => ring[b] = <<>>
    BY <1>c, <1>0, <2>3 DEF ValuesInPlace
  <2>5. ppc \in Extending => ring[G[hi + 1]] = <<>>
    BY <1>0 DEF ValuesInPlace
  <2>6. QED
    BY <1>p, <1>u, <2>2, <2>4, <2>5 DEF ValuesInPlace
<1>5. HistoryInPlace(V, lo, hi)'
  BY <1>g, <1>p, <1>a, <1>u, <1>0 DEF HistoryInPlace
<1>6. NoGap(V, lo, hi)'
  BY <1>a, <1>u, <1>0 DEF NoGap, GivingUp
<1>7. NodesInPlace(C, G, lo, hi)'
  BY <1>p, <1>a, <1>u, <1>0 DEF NodesInPlace
<1>8. NodesApart(C, lo, hi)'
  BY <1>p, <1>u, <1>0 DEF NodesApart
<1>9. QED
  BY <1>0, <1>1, <1>2, <1>3, <1>4, <1>5, <1>6, <1>7, <1>8 DEF Numbered

\* buf_r = tmp
LEMMA TurnToNextRingInv ==
  ASSUME NEW lo \in Nat, NEW hi \in Nat,
         NEW C \in [Nat -> Nodes], NEW G \in [Nat -> Buffers], NEW V \in [Nat -> Nat],
         Numbered(C, G, V, lo, hi), TurnToNextRing
  PROVE  Numbered(C, G, V, lo + 1, hi)'
<1>a. cpc = "turn" /\ cpc' = "take" /\ buf_r' = tmp /\ tmp' = NoBuffer
  BY DEF TurnToNextRing
<1>u. UNCHANGED <<head, tail, next, item, mallocated, cache, size, fixedsize, ring,
                allocated, bufcache, buf_w, ppc, t, n, old, seen, contents, delivered>>
  BY DEF TurnToNextRing, dynqueue, parameters, pool, producer, history
<1>0. /\ lo <= hi
      /\ RingPointers(G, lo, hi) /\ RingsApart(G, lo, hi) /\ ValuesInPlace(G, V, lo, hi)
      /\ HistoryInPlace(V, lo, hi) /\ NoGap(V, lo, hi)
      /\ NodesInPlace(C, G, lo, hi) /\ NodesApart(C, lo, hi)
  BY DEF Numbered
<1>t. UnboundedTypeOK
  BY DEF Numbered
<1>g. lo + 1 <= hi /\ tmp = G[lo + 1] /\ lo + 1 \in Nat
  BY <1>a, <1>0 DEF RingPointers, GivingUp
<1>m. tmp \in Buffers
  BY <1>g
<1>p. /\ RingLow(lo + 1)' = RingLow(lo) /\ NodeLow(lo + 1)' = NodeLow(lo)
      /\ HeadAt(lo + 1)' = HeadAt(lo) /\ RingHigh(hi)' = RingHigh(hi)
      /\ NodeHigh(hi)' = NodeHigh(hi) /\ TailAt(hi)' = TailAt(hi)
      /\ LastLinked(hi)' = LastLinked(hi)
  BY <1>a, <1>u DEF RingLow, NodeLow, HeadAt, RingHigh, NodeHigh, TailAt, LastLinked
<1>1. UnboundedTypeOK'
  BY <1>m, <1>a, <1>u, <1>t DEF UnboundedTypeOK, Pushing, Popping
<1>2. RingPointers(G, lo + 1, hi)'
  BY <1>g, <1>a, <1>u, <1>0 DEF RingPointers, Extending, GivingUp
<1>3. RingsApart(G, lo + 1, hi)'
  BY <1>p, <1>u, <1>0 DEF RingsApart
<1>4. ValuesInPlace(G, V, lo + 1, hi)'
  BY <1>p, <1>a, <1>u, <1>0 DEF ValuesInPlace, Spare, Extending
<1>5. HistoryInPlace(V, lo + 1, hi)'
  BY <1>p, <1>a, <1>u, <1>0 DEF HistoryInPlace
<1>6. NoGap(V, lo + 1, hi)'
  <2>1. \A k \in Nat : lo < k /\ k <= hi => V[k] < V[k + 1] \/ (k = hi /\ ppc = "put")
    BY <1>0 DEF NoGap
  <2>2. V[lo + 1] < V[(lo + 1) + 1] \/ (lo + 1 = hi /\ ppc = "put")
    BY <1>g, <2>1
  <2>3. \A k \in Nat : lo + 1 < k => lo < k
    OBVIOUS
  <2>4. QED
    BY <1>a, <1>u, <2>1, <2>2, <2>3 DEF NoGap, GivingUp
<1>7. NodesInPlace(C, G, lo + 1, hi)'
  BY <1>p, <1>a, <1>u, <1>0 DEF NodesInPlace
<1>8. NodesApart(C, lo + 1, hi)'
  BY <1>p, <1>u, <1>0 DEF NodesApart
<1>9. QED
  BY <1>g, <1>1, <1>2, <1>3, <1>4, <1>5, <1>6, <1>7, <1>8 DEF Numbered

\* buf_r->pop(data) of an empty ring
LEMMA TakeNothingInv ==
  ASSUME NEW lo \in Nat, NEW hi \in Nat,
         NEW C \in [Nat -> Nodes], NEW G \in [Nat -> Buffers], NEW V \in [Nat -> Nat],
         Numbered(C, G, V, lo, hi), Take, Empty(buf_r)
  PROVE  Numbered(C, G, V, lo, hi)'
<1>a. cpc = "take" /\ cpc' = "outside"
  BY DEF Take
<1>u. UNCHANGED <<head, tail, next, item, mallocated, cache, size, fixedsize, allocated,
                bufcache, buf_w, buf_r, ppc, t, n, tmp, old, seen>>
  BY DEF Take, dynqueue, parameters, pool, producer
<1>0. /\ lo <= hi
      /\ RingPointers(G, lo, hi) /\ RingsApart(G, lo, hi) /\ ValuesInPlace(G, V, lo, hi)
      /\ HistoryInPlace(V, lo, hi) /\ NoGap(V, lo, hi)
      /\ NodesInPlace(C, G, lo, hi) /\ NodesApart(C, lo, hi)
  BY DEF Numbered
<1>t. UnboundedTypeOK
  BY DEF Numbered
<1>b. UNCHANGED <<ring, contents, delivered>>
  BY DEF Take, history
<1>p. /\ RingLow(lo)' = RingLow(lo) /\ NodeLow(lo)' = NodeLow(lo) /\ HeadAt(lo)' = HeadAt(lo)
      /\ RingHigh(hi)' = RingHigh(hi) /\ NodeHigh(hi)' = NodeHigh(hi)
      /\ TailAt(hi)' = TailAt(hi) /\ LastLinked(hi)' = LastLinked(hi)
  BY <1>a, <1>u DEF RingLow, NodeLow, HeadAt, RingHigh, NodeHigh, TailAt, LastLinked, Extending
<1>1. UnboundedTypeOK'
  BY <1>b, <1>a, <1>u, <1>t DEF UnboundedTypeOK, Pushing, Popping
<1>2. RingPointers(G, lo, hi)'
  BY <1>a, <1>u, <1>0 DEF RingPointers, Extending, GivingUp
<1>3. RingsApart(G, lo, hi)'
  BY <1>p, <1>u, <1>0 DEF RingsApart
<1>4. ValuesInPlace(G, V, lo, hi)'
  BY <1>b, <1>p, <1>a, <1>u, <1>0 DEF ValuesInPlace, Spare, Extending
<1>5. HistoryInPlace(V, lo, hi)'
  BY <1>b, <1>p, <1>a, <1>u, <1>0 DEF HistoryInPlace
<1>6. NoGap(V, lo, hi)'
  BY <1>a, <1>u, <1>0 DEF NoGap, GivingUp
<1>7. NodesInPlace(C, G, lo, hi)'
  BY <1>p, <1>a, <1>u, <1>0 DEF NodesInPlace
<1>8. NodesApart(C, lo, hi)'
  BY <1>p, <1>u, <1>0 DEF NodesApart
<1>9. QED
  BY <1>0, <1>1, <1>2, <1>3, <1>4, <1>5, <1>6, <1>7, <1>8 DEF Numbered

\* buf_r->pop(data) when there is data
LEMMA TakeValueInv ==
  ASSUME NEW lo \in Nat, NEW hi \in Nat,
         NEW C \in [Nat -> Nodes], NEW G \in [Nat -> Buffers], NEW V \in [Nat -> Nat],
         Numbered(C, G, V, lo, hi), Take, ~Empty(buf_r)
  PROVE  Numbered(C, G, [V EXCEPT ![lo] = @ + 1], lo, hi)'
<1> DEFINE V2 == [V EXCEPT ![lo] = @ + 1]
<1>a. cpc = "take" /\ cpc' = "outside"
  BY DEF Take
<1>u. UNCHANGED <<head, tail, next, item, mallocated, cache, size, fixedsize, allocated,
                bufcache, buf_w, buf_r, ppc, t, n, tmp, old, seen>>
  BY DEF Take, dynqueue, parameters, pool, producer
<1>0. /\ lo <= hi
      /\ RingPointers(G, lo, hi) /\ RingsApart(G, lo, hi) /\ ValuesInPlace(G, V, lo, hi)
      /\ HistoryInPlace(V, lo, hi) /\ NoGap(V, lo, hi)
      /\ NodesInPlace(C, G, lo, hi) /\ NodesApart(C, lo, hi)
  BY DEF Numbered
<1>t. UnboundedTypeOK
  BY DEF Numbered
<1>p. /\ RingLow(lo)' = RingLow(lo) /\ NodeLow(lo)' = NodeLow(lo) /\ HeadAt(lo)' = HeadAt(lo)
      /\ RingHigh(hi)' = RingHigh(hi) /\ NodeHigh(hi)' = NodeHigh(hi)
      /\ TailAt(hi)' = TailAt(hi) /\ LastLinked(hi)' = LastLinked(hi)
  BY <1>a, <1>u DEF RingLow, NodeLow, HeadAt, RingHigh, NodeHigh, TailAt, LastLinked, Extending
<1>l. RingLow(lo) = lo /\ RingHigh(hi) \in Nat /\ hi <= RingHigh(hi)
  BY <1>a DEF RingLow, RingHigh
<1>v. /\ buf_r = G[lo] /\ ring[buf_r] = Span(V[lo], V[lo + 1])
      /\ V[lo] < V[lo + 1] /\ V[lo + 1] <= V[hi + 1]
  <2>1. /\ buf_r = G[lo] /\ ring[buf_r] = Span(V[lo], V[lo + 1])
        /\ V[lo] <= V[lo + 1] /\ V[lo] # V[lo + 1]
    <3>1. /\ buf_r = G[lo] /\ ring[buf_r] = Span(V[lo], V[lo + 1])
          /\ V[lo] <= V[lo + 1] /\ (ring[buf_r] = <<>> <=> V[lo] = V[lo + 1])
      BY <1>a, EmptyRing
    <3>2. QED
      BY <3>1 DEF Empty
  <2>2. Rising(V, lo, hi + 1)
    BY <1>l, <1>0 DEF ValuesInPlace
  <2>3. V[lo + 1] <= V[hi + 1] /\ V[lo] \in Nat /\ V[lo + 1] \in Nat
    BY <1>0, <2>2 DEF Rising
  <2>4. V[lo] < V[lo + 1]
    BY <2>1, <2>3
  <2>5. QED
    BY <2>1, <2>3, <2>4
<1>d. /\ ring' = [ring EXCEPT ![G[lo]] = Tail(@)]
      /\ delivered' = Append(delivered, V[lo] + 1)
      /\ contents' = Tail(contents)
  <2>1. V[lo] \in Nat /\ V[lo + 1] \in Nat
    OBVIOUS
  <2>2. Head(ring[buf_r]) = V[lo] + 1
    BY <1>v, <2>1, SpanTail, Zenon
  <2>3. QED
    BY <1>v, <2>2 DEF Take
<1>g. V2[lo] = V[lo] + 1 /\ V2 \in [Nat -> Nat] /\ \A k \in Nat : lo < k => V2[k] = V[k]
  OBVIOUS
<1>r. /\ \A j, k \in Nat : lo <= j /\ j < k /\ k <= hi => G[j] # G[k]
      /\ G[lo] \in allocated /\ G[lo] \notin Held(bufcache)
  BY <1>l, <1>0 DEF RingsApart, Apart
<1> HIDE DEF V2
<1>1. UnboundedTypeOK'
  <2>1. ring \in [Buffers -> Seq(Nat)]
    BY <1>t DEF UnboundedTypeOK
  <2>2. G[lo] \in Buffers
    OBVIOUS
  <2>3. ring[G[lo]] \in Seq(Nat) /\ ring[G[lo]] # <<>>
    <3>1. ring[G[lo]] \in Seq(Nat)
      BY <2>1, <2>2, Zenon
    <3>2. ring[G[lo]] # <<>>
      BY <1>v, Zenon DEF Empty
    <3>3. QED
      BY <3>1, <3>2
  <2>4. Tail(ring[G[lo]]) \in Seq(Nat)
    BY <2>3, HeadTailProperties, Zenon
  <2>5. ring' \in [Buffers -> Seq(Nat)]
    BY <1>d, <2>1, <2>4
  <2>6. QED
    BY <1>a, <1>u, <1>t, <2>5 DEF UnboundedTypeOK, Popping
<1>2. RingPointers(G, lo, hi)'
  BY <1>a, <1>u, <1>0 DEF RingPointers, Extending, GivingUp
<1>3. RingsApart(G, lo, hi)'
  BY <1>p, <1>u, <1>0 DEF RingsApart
<1>4. ValuesInPlace(G, V2, lo, hi)'
  <2>1. Filled(ring, G, V, lo, hi) /\ Rising(V, lo, hi + 1)
    BY <1>l, <1>0 DEF ValuesInPlace
  <2>2. ring \in [Buffers -> Seq(Nat)]
    BY <1>t DEF UnboundedTypeOK
  <2>3. Filled(ring', G, V2, lo, hi) /\ Rising(V2, lo, hi + 1)
    BY <1>d, <1>v, <1>0, <1>r, <2>1, <2>2, TakeOldest, Zenon DEF V2
  <2>4. \A b \in Buffers : Spare(b) => ring[b] = <<>> /\ b # G[lo]
    BY <1>0, <1>r DEF ValuesInPlace, Spare
  <2>5. \A b \in Buffers : Spare(b) => ring'[b] = <<>>
    BY <1>d, <2>2, <2>4
  <2>6. ppc \in Extending => ring'[G[hi + 1]] = <<>>
    <3>1. ASSUME ppc \in Extending PROVE G[hi + 1] # G[lo] /\ ring[G[hi + 1]] = <<>>
      <4>1. RingHigh(hi) = hi + 1
        BY <3>1 DEF RingHigh
      <4>2. G[hi + 1] # G[lo]
        BY <1>l, <1>0, <4>1 DEF RingsApart, Apart
      <4>3. QED
        BY <1>0, <3>1, <4>2 DEF ValuesInPlace
    <3>2. G[hi + 1] \in Buffers
      OBVIOUS
    <3>3. QED
      BY <1>d, <2>2, <3>1, <3>2
  <2>7. \A b \in Buffers : Spare(b)' <=> Spare(b)
    BY <1>u DEF Spare
  <2>8. QED
    BY <1>l, <1>p, <1>u, <2>3, <2>5, <2>6, <2>7 DEF ValuesInPlace
<1>5. HistoryInPlace(V2, lo, hi)'
  <2>1. V[lo] \in Nat /\ V[hi + 1] \in Nat /\ V[lo] < V[hi + 1] /\ 0 \in Nat /\ 0 <= V[lo]
    <3>1. V[lo] \in Nat /\ V[lo + 1] \in Nat /\ V[hi + 1] \in Nat
      OBVIOUS
    <3>2. QED
      BY <1>v, <3>1
  <2>2. contents = Span(V[lo], V[hi + 1]) /\ delivered = Span(0, V[lo])
    BY <1>l, <1>0 DEF HistoryInPlace
  <2>3. contents' = Span(V[lo] + 1, V[hi + 1])
    BY <1>d, <2>1, <2>2, SpanTail, Zenon
  <2>4. delivered' = Span(0, V[lo] + 1)
    BY <1>d, <2>1, <2>2, SpanAppend, Zenon
  <2>5. V2[lo] = V[lo] + 1 /\ V2[hi + 1] = V[hi + 1]
    BY <1>g, <1>0
  <2>6. QED
    BY <1>l, <1>p, <1>u, <1>0, <2>3, <2>4, <2>5 DEF HistoryInPlace
<1>6. NoGap(V2, lo, hi)'
  <2>1. \A k \in Nat : lo < k => V2[k] = V[k] /\ V2[k + 1] = V[k + 1]
    BY <1>g
  <2>2. \A k \in Nat : lo < k /\ k <= hi => V2[k] < V2[k + 1] \/ (k = hi /\ ppc = "put")
    BY <1>0, <2>1 DEF NoGap
  <2>3. QED
    BY <1>a, <1>u, <2>2 DEF NoGap, GivingUp
<1>7. NodesInPlace(C, G, lo, hi)'
  BY <1>p, <1>a, <1>u, <1>0 DEF NodesInPlace
<1>8. NodesApart(C, lo, hi)'
  BY <1>p, <1>u, <1>0 DEF NodesApart
<1>9. QED
  BY <1>0, <1>1, <1>2, <1>3, <1>4, <1>5, <1>6, <1>7, <1>8 DEF Numbered, V2

\* Nothing happens
LEMMA StutterInv ==
  ASSUME NEW lo \in Nat, NEW hi \in Nat,
         NEW C \in [Nat -> Nodes], NEW G \in [Nat -> Buffers], NEW V \in [Nat -> Nat],
         Numbered(C, G, V, lo, hi), UNCHANGED vars
  PROVE  Numbered(C, G, V, lo, hi)'
<1> USE DEF vars, dynqueue, parameters, pool, producer, consumer, history
<1>0. /\ lo <= hi
      /\ RingPointers(G, lo, hi) /\ RingsApart(G, lo, hi) /\ ValuesInPlace(G, V, lo, hi)
      /\ HistoryInPlace(V, lo, hi) /\ NoGap(V, lo, hi)
      /\ NodesInPlace(C, G, lo, hi) /\ NodesApart(C, lo, hi)
  BY DEF Numbered
<1>t. UnboundedTypeOK
  BY DEF Numbered
<1>p. /\ RingLow(lo)' = RingLow(lo) /\ NodeLow(lo)' = NodeLow(lo) /\ HeadAt(lo)' = HeadAt(lo)
      /\ RingHigh(hi)' = RingHigh(hi) /\ NodeHigh(hi)' = NodeHigh(hi)
      /\ TailAt(hi)' = TailAt(hi) /\ LastLinked(hi)' = LastLinked(hi)
  BY DEF RingLow, NodeLow, HeadAt, RingHigh, NodeHigh, TailAt, LastLinked
<1>1. UnboundedTypeOK'
  BY <1>t DEF UnboundedTypeOK, Pushing, Popping
<1>2. RingPointers(G, lo, hi)'
  BY <1>0 DEF RingPointers, Extending, GivingUp
<1>3. RingsApart(G, lo, hi)'
  BY <1>p, <1>0 DEF RingsApart
<1>4. ValuesInPlace(G, V, lo, hi)'
  BY <1>p, <1>0 DEF ValuesInPlace, Spare, Extending
<1>5. HistoryInPlace(V, lo, hi)'
  BY <1>p, <1>0 DEF HistoryInPlace
<1>6. NoGap(V, lo, hi)'
  BY <1>0 DEF NoGap, GivingUp
<1>7. NodesInPlace(C, G, lo, hi)'
  BY <1>p, <1>0 DEF NodesInPlace
<1>8. NodesApart(C, lo, hi)'
  BY <1>p, <1>0 DEF NodesApart
<1>9. QED
  BY <1>0, <1>1, <1>2, <1>3, <1>4, <1>5, <1>6, <1>7, <1>8 DEF Numbered

\* reset() between two runs: both threads are in the same ring, and it is empty.
LEMMA ResetInv ==
  ASSUME NEW lo \in Nat, NEW hi \in Nat,
         NEW C \in [Nat -> Nodes], NEW G \in [Nat -> Buffers], NEW V \in [Nat -> Nat],
         Numbered(C, G, V, lo, hi), Reset
  PROVE  Numbered(C, G, V, lo, hi)'
<1>a. ppc = "outside" /\ cpc = "outside" /\ contents = <<>>
  BY DEF Reset
<1>0. /\ lo <= hi
      /\ RingPointers(G, lo, hi) /\ RingsApart(G, lo, hi) /\ ValuesInPlace(G, V, lo, hi)
      /\ HistoryInPlace(V, lo, hi) /\ NoGap(V, lo, hi)
      /\ NodesInPlace(C, G, lo, hi) /\ NodesApart(C, lo, hi)
  BY DEF Numbered
<1>t. UnboundedTypeOK
  BY DEF Numbered
<1>1. lo = hi /\ V[lo] = V[lo + 1]
  <2>1. RingLow(lo) = lo /\ V[lo] = V[hi + 1]
    BY <1>a, CountOfValues DEF RingLow
  <2>2. Rising(V, lo, hi + 1)
    BY <1>0, <2>1 DEF ValuesInPlace
  <2>3. V[lo] <= V[hi] /\ V[lo] \in Nat /\ V[hi] \in Nat /\ V[hi + 1] \in Nat
    BY <1>0, <2>2 DEF Rising
  <2>4. lo < hi => V[hi] < V[hi + 1]
    BY <1>a, <1>0 DEF NoGap
  <2>5. lo = hi
    BY <1>0, <2>1, <2>3, <2>4
  <2>6. QED
    BY <2>1, <2>5
<1>2. buf_r = G[lo] /\ buf_w = G[lo] /\ ring[buf_r] = <<>>
  <2>1. buf_r = G[lo] /\ buf_w = G[lo] /\ cpc # "turn"
    BY <1>a, <1>0, <1>1 DEF RingPointers
  <2>2. V[lo] <= V[lo + 1] /\ (ring[buf_r] = <<>> <=> V[lo] = V[lo + 1])
    BY <1>a, EmptyRing
  <2>3. QED
    BY <1>1, <2>1, <2>2
<1>3. ring' = ring
  <2>1. ring \in [Buffers -> Seq(Nat)] /\ buf_r \in Buffers
    BY <1>t DEF UnboundedTypeOK
  <2>2. ring' = [ring EXCEPT ![buf_r] = <<>>, ![buf_w] = <<>>]
    BY DEF Reset
  <2>3. QED
    BY <1>2, <2>1, <2>2
<1>4. ~Linked
  <2>1. HeadAt(lo) = lo /\ LastLinked(hi) = lo /\ NodeHigh(hi) = lo
    BY <1>a, <1>1 DEF HeadAt, LastLinked, NodeHigh
  <2>2. head = C[lo] /\ Chain(next, C, lo, lo, lo)
    BY <1>0, <2>1 DEF NodesInPlace
  <2>3. next[C[lo]] = NoNode
    BY <2>2 DEF Chain
  <2>4. QED
    BY <2>2, <2>3 DEF Linked
<1>5. UNCHANGED vars
  BY <1>2, <1>3, <1>4 DEF Reset, vars, dynqueue, parameters, pool, producer, consumer, history
<1>6. QED
  BY <1>5, StutterInv

\* Every step leaves a numbering.
LEMMA UnboundedStep ==
  ASSUME UnboundedInv, [Next]_vars
  PROVE  UnboundedInv'
<1>1. PICK lo \in Nat, hi \in Nat,
           C \in [Nat -> Nodes], G \in [Nat -> Buffers], V \in [Nat -> Nat] :
             Numbered(C, G, V, lo, hi)
  BY DEF UnboundedInv
<1>2. ASSUME NEW l \in Nat, NEW h \in Nat,
             NEW C2 \in [Nat -> Nodes], NEW G2 \in [Nat -> Buffers], NEW V2 \in [Nat -> Nat],
             Numbered(C2, G2, V2, l, h)'
      PROVE  UnboundedInv'
  BY <1>2, Zenon DEF UnboundedInv
<1>3. lo + 1 \in Nat /\ hi + 1 \in Nat
  OBVIOUS
<1>4. CASE FindRoom
  BY <1>1, <1>2, <1>4, FindRoomInv, Zenon
<1>5. ASSUME NEW b \in Buffers, NewRing(b) PROVE UnboundedInv'
  <2>1. Numbered(C, [G EXCEPT ![hi + 1] = b], V, lo, hi)'
    BY <1>1, <1>5, NewRingInv, Zenon
  <2>2. [G EXCEPT ![hi + 1] = b] \in [Nat -> Buffers]
    OBVIOUS
  <2>3. QED
    BY <1>2, <2>1, <2>2, Zenon
<1>6. CASE InusePush
  <2>1. CASE ppc = "fill"
    <3>1. PICK m \in Nodes : FillNode(m, t) /\ n' = m
      BY <1>6, <2>1 DEF InusePush
    <3>2. Numbered([C EXCEPT ![hi + 1] = m], G, V, lo, hi)'
      BY <1>1, <1>6, <2>1, <3>1, InusePushFillsInv, Zenon
    <3>3. [C EXCEPT ![hi + 1] = m] \in [Nat -> Nodes]
      OBVIOUS
    <3>4. QED
      BY <1>2, <3>2, <3>3, Zenon
  <2>2. CASE ppc = "link"
    BY <1>1, <1>2, <1>6, <2>2, InusePushLinksInv, Zenon
  <2>3. CASE ppc = "tail"
    BY <1>1, <1>2, <1>6, <2>3, InusePushMovesTailInv, Zenon
  <2>4. QED
    BY <1>6, <2>1, <2>2, <2>3 DEF InusePush
<1>7. CASE TurnToNewRing
  <2>1. Numbered(C, G, [V EXCEPT ![hi + 2] = V[hi + 1]], lo, hi + 1)'
    BY <1>1, <1>7, TurnToNewRingInv, Zenon
  <2>2. [V EXCEPT ![hi + 2] = V[hi + 1]] \in [Nat -> Nat]
    OBVIOUS
  <2>3. QED
    BY <1>2, <1>3, <2>1, <2>2, Zenon
<1>8. CASE Put
  <2>1. Numbered(C, G, [V EXCEPT ![hi + 1] = @ + 1], lo, hi)'
    BY <1>1, <1>8, PutInv, Zenon
  <2>2. [V EXCEPT ![hi + 1] = @ + 1] \in [Nat -> Nat]
    OBVIOUS
  <2>3. QED
    BY <1>2, <2>1, <2>2, Zenon
<1>9. CASE LookFirst
  BY <1>1, <1>2, <1>9, LookFirstInv, Zenon
<1>10. CASE Compare
  BY <1>1, <1>2, <1>10, CompareInv, Zenon
<1>11. CASE LookAgain
  BY <1>1, <1>2, <1>11, LookAgainInv, Zenon
<1>12. CASE InusePop
  <2>1. CASE cpc = "next"
    BY <1>1, <1>2, <1>12, <2>1, InusePopReadsInv, Zenon
  <2>2. CASE cpc = "head"
    BY <1>1, <1>2, <1>12, <2>2, InusePopMovesHeadInv, Zenon
  <2>3. CASE cpc = "recycle"
    BY <1>1, <1>2, <1>12, <2>3, InusePopRecyclesInv, Zenon
  <2>4. QED
    BY <1>12, <2>1, <2>2, <2>3 DEF InusePop
<1>13. CASE ResetRing
  BY <1>1, <1>2, <1>13, ResetRingInv, Zenon
<1>14. CASE ReleaseRing
  BY <1>1, <1>2, <1>14, ReleaseRingInv, Zenon
<1>15. CASE TurnToNextRing
  <2>1. Numbered(C, G, V, lo + 1, hi)'
    BY <1>1, <1>15, TurnToNextRingInv, Zenon
  <2>2. QED
    BY <1>2, <1>3, <2>1, Zenon
<1>16. CASE Take
  <2>1. CASE Empty(buf_r)
    BY <1>1, <1>2, <1>16, <2>1, TakeNothingInv, Zenon
  <2>2. CASE ~Empty(buf_r)
    <3>1. Numbered(C, G, [V EXCEPT ![lo] = @ + 1], lo, hi)'
      BY <1>1, <1>16, <2>2, TakeValueInv, Zenon
    <3>2. [V EXCEPT ![lo] = @ + 1] \in [Nat -> Nat]
      OBVIOUS
    <3>3. QED
      BY <1>2, <3>1, <3>2, Zenon
  <2>3. QED
    BY <2>1, <2>2
<1>17. CASE Reset
  BY <1>1, <1>2, <1>17, ResetInv, Zenon
<1>18. CASE UNCHANGED vars
  <2>1. Numbered(C, G, V, lo, hi)'
    BY <1>1, <1>18, StutterInv
  <2>2. QED
    BY <1>2, <2>1, Zenon
<1>19. QED
  BY <1>4, <1>5, <1>6, <1>7, <1>8, <1>9, <1>10, <1>11, <1>12, <1>13, <1>14, <1>15, <1>16,
     <1>17, <1>18 DEF Next, Producer, Consumer

\* The rings and the nodes can be numbered as described in every reachable state.
THEOREM UnboundedNumbered == Spec => []UnboundedInv
<1>1. Init => UnboundedInv
  BY InitUnbounded
<1>2. UnboundedInv /\ [Next]_vars => UnboundedInv'
  BY UnboundedStep
<1>3. QED
  BY <1>1, <1>2, PTL DEF Spec

\* No ring and no node is used by one thread while it waits in a cache or is freed.
THEOREM RecycledIsNeverUsed == Spec => []RecycledIsUnused
<1>1. ASSUME UnboundedInv PROVE RecycledIsUnused
  <2>1. PICK lo \in Nat, hi \in Nat,
             C \in [Nat -> Nodes], G \in [Nat -> Buffers], V \in [Nat -> Nat] :
               Numbered(C, G, V, lo, hi)
    BY <1>1 DEF UnboundedInv
  <2>2. /\ RingPointers(G, lo, hi) /\ RingsApart(G, lo, hi) /\ ValuesInPlace(G, V, lo, hi)
        /\ NodesInPlace(C, G, lo, hi) /\ NodesApart(C, lo, hi) /\ lo <= hi
    BY <2>1 DEF Numbered
  <2>3. UnboundedTypeOK
    BY <2>1 DEF Numbered
  <2>4. /\ RingLow(lo) \in Nat /\ lo <= RingLow(lo) /\ RingLow(lo) <= hi
        /\ RingHigh(hi) \in Nat /\ hi <= RingHigh(hi)
        /\ NodeLow(lo) \in Nat /\ NodeLow(lo) <= HeadAt(lo)
        /\ HeadAt(lo) \in Nat /\ HeadAt(lo) <= hi
        /\ NodeHigh(hi) \in Nat /\ hi <= NodeHigh(hi)
    <3>1. NodeHigh(hi) \in Nat /\ hi <= NodeHigh(hi)
      BY DEF NodeHigh
    <3>2. QED
      BY <2>1, <3>1, Places
  <2>5. \A k \in Nat : RingLow(lo) <= k /\ k <= RingHigh(hi)
                        => G[k] \in allocated /\ G[k] \notin Held(bufcache)
    BY <2>2 DEF RingsApart, Apart
  <2>6. \A k \in Nat : NodeLow(lo) <= k /\ k <= NodeHigh(hi)
                        => C[k] \in mallocated /\ C[k] \notin Held(cache)
    BY <2>2 DEF NodesApart, Apart
  <2>7. buf_w \in allocated /\ buf_w \notin Held(bufcache)
    BY <2>2, <2>4, <2>5 DEF RingPointers
  <2>8. cpc # "turn" => buf_r \in allocated /\ buf_r \notin Held(bufcache)
    <3>1. cpc # "turn" => RingLow(lo) = lo /\ buf_r = G[lo]
      BY <2>2 DEF RingLow, RingPointers
    <3>2. QED
      BY <2>2, <2>4, <2>5, <3>1
  <2>9. \A b \in Held(bufcache) : b \in allocated /\ ring[b] = <<>>
    <3>1. Held(bufcache) \subseteq allocated
      BY <2>2 DEF RingsApart, Apart
    <3>2. allocated \subseteq Buffers
      BY <2>3 DEF UnboundedTypeOK
    <3>3. QED
      BY <2>2, <3>1, <3>2, Zenon DEF ValuesInPlace, Spare
  <2>10. t # NoBuffer => t \in allocated /\ ring[t] = <<>>
    <3>1. ASSUME t # NoBuffer PROVE ppc \in Extending /\ t = G[hi + 1]
      BY <2>2, <3>1 DEF RingPointers
    <3>2. ASSUME ppc \in Extending PROVE G[hi + 1] \in allocated
      <4>1. RingHigh(hi) = hi + 1
        BY <3>2 DEF RingHigh
      <4>2. QED
        BY <2>4, <2>5, <4>1
    <3>3. ppc \in Extending => ring[G[hi + 1]] = <<>>
      BY <2>2 DEF ValuesInPlace
    <3>4. QED
      BY <3>1, <3>2, <3>3, Zenon
  <2>11. \A k \in Nat : NodeLow(lo) <= k /\ k <= NodeHigh(hi) => Usable(C[k])
    BY <2>6, Zenon DEF Usable, Held
  <2>12. Usable(head)
    BY <2>2, <2>4, <2>11 DEF NodesInPlace
  <2>13. ppc = "link" => Usable(tail) /\ Usable(n)
    <3>1. ASSUME ppc = "link" PROVE NodeHigh(hi) = hi + 1 /\ tail = C[hi] /\ n = C[hi + 1]
      BY <2>2, <3>1 DEF NodeHigh, TailAt, NodesInPlace
    <3>2. QED
      BY <2>4, <2>11, <3>1
  <2>14. QED
    BY <2>7, <2>8, <2>9, <2>10, <2>12, <2>13, Zenon DEF RecycledIsUnused, Held, Empty
<1>2. QED
  BY <1>1, UnboundedNumbered, PTL

\* pop() tells the consumer that the queue is empty only if it was, at some moment
\* of the call.
THEOREM EmptyIsHonest == Spec => []HonestEmpty
<1>1. ASSUME UnboundedInv PROVE HonestEmpty
  <2>1. PICK lo \in Nat, hi \in Nat,
             C \in [Nat -> Nodes], G \in [Nat -> Buffers], V \in [Nat -> Nat] :
               Numbered(C, G, V, lo, hi)
    BY <1>1 DEF UnboundedInv
  <2>2. RingPointers(G, lo, hi) /\ RingsApart(G, lo, hi) /\ NoGap(V, lo, hi) /\ lo <= hi
    BY <2>1 DEF Numbered
  <2>3. seen \in Nat
    BY <2>1 DEF Numbered, UnboundedTypeOK
  <2>4. ASSUME cpc = "compare", buf_r = buf_w PROVE seen = 0
    <3>1. RingLow(lo) = lo /\ G[lo] = G[hi]
      BY <2>2, <2>4 DEF RingLow, RingPointers
    <3>2. RingHigh(hi) \in Nat /\ hi <= RingHigh(hi)
      BY DEF RingHigh
    <3>3. ~(lo < hi)
      BY <2>2, <3>1, <3>2 DEF RingsApart, Apart
    <3>4. QED
      BY <2>2, <2>3, <2>4, <3>3 DEF NoGap
  <2>5. ASSUME cpc = "take", Empty(buf_r) PROVE contents = <<>>
    <3>1. V[lo] <= V[lo + 1] /\ (ring[buf_r] = <<>> <=> V[lo] = V[lo + 1])
      BY <2>1, <2>5, EmptyRing
    <3>2. V[lo] = V[lo + 1]
      BY <2>5, <3>1 DEF Empty
    <3>3. lo = hi
      BY <2>2, <2>5, <3>2 DEF NoGap
    <3>4. RingLow(lo) = lo
      BY <2>5 DEF RingLow
    <3>5. contents = <<>> <=> V[RingLow(lo)] = V[hi + 1]
      BY <2>1, CountOfValues
    <3>6. QED
      BY <3>2, <3>3, <3>4, <3>5
  <2>6. QED
    BY <2>4, <2>5 DEF HonestEmpty
<1>2. QED
  BY <1>1, UnboundedNumbered, PTL

\* The chain of rings is one first-in first-out channel: a push() puts its value
\* behind all the others and a pop() takes the oldest, whatever ring it is in.
THEOREM UnboundedImplementsChannel == Spec => ImplementsChannel
<1>1. Init => Channel!ChInit
  BY DEF Init, Channel!ChInit
<1>2. ASSUME UnboundedInv, [Next]_vars PROVE [Channel!ChNext]_(Channel!chVars)
  <2>1. PICK lo \in Nat, hi \in Nat,
             C \in [Nat -> Nodes], G \in [Nat -> Buffers], V \in [Nat -> Nat] :
               Numbered(C, G, V, lo, hi)
    BY <1>2 DEF UnboundedInv
  <2>2. CASE Put
    <3>1. Data = V[hi + 1] + 1 /\ V[hi + 1] \in Nat
      <4>1. Len(delivered) + Len(contents) = V[hi + 1]
        BY <2>1, CountOfValues
      <4>2. QED
        BY <4>1 DEF Data
    <3>2. V[hi + 1] < MaxPush
      BY <2>1, <2>2 DEF Numbered, HistoryInPlace, Put
    <3>3. Data \in 1..MaxPush
      BY <3>1, <3>2, UnboundedAssumption
    <3>4. contents' = Append(contents, Data) /\ delivered' = delivered
      BY <2>2 DEF Put
    <3>5. QED
      BY <3>3, <3>4, Zenon DEF Channel!ChNext, Channel!Push
  <2>3. CASE Take /\ ~Empty(buf_r)
    <3>1. delivered' = Append(delivered, Head(ring[buf_r])) /\ contents' = Tail(contents)
      BY <2>3 DEF Take
    <3>2. /\ RingLow(lo) = lo /\ contents = Span(V[lo], V[hi + 1])
          /\ Rising(V, lo, hi + 1) /\ lo <= hi
      <4>1. RingLow(lo) = lo
        BY <2>3 DEF Take, RingLow
      <4>2. HistoryInPlace(V, lo, hi) /\ ValuesInPlace(G, V, lo, hi) /\ lo <= hi
        BY <2>1 DEF Numbered
      <4>3. QED
        BY <4>1, <4>2 DEF HistoryInPlace, ValuesInPlace
    <3>3. /\ ring[buf_r] = Span(V[lo], V[lo + 1]) /\ V[lo] <= V[lo + 1]
          /\ (ring[buf_r] = <<>> <=> V[lo] = V[lo + 1])
      <4>1. cpc # "turn"
        BY <2>3 DEF Take
      <4>2. QED
        BY <2>1, <4>1, EmptyRing
    <3>4. V[lo] # V[lo + 1]
      BY <2>3, <3>3 DEF Empty
    <3>5. V[lo + 1] <= V[hi + 1] /\ V[lo] \in Nat /\ V[lo + 1] \in Nat /\ V[hi + 1] \in Nat
      BY <3>2 DEF Rising
    <3>6. V[lo] <= V[lo + 1]
      BY <3>3
    <3>7. V[lo] < V[lo + 1] /\ V[lo] < V[hi + 1] /\ V[lo] <= V[hi + 1] /\ V[lo] # V[hi + 1]
      BY <3>4, <3>5, <3>6
    <3>8. Head(ring[buf_r]) = Head(contents)
      <4>1. Head(Span(V[lo], V[lo + 1])) = V[lo] + 1
        BY <3>5, <3>7, SpanTail, Zenon
      <4>2. Head(Span(V[lo], V[hi + 1])) = V[lo] + 1
        BY <3>5, <3>7, SpanTail, Zenon
      <4>3. QED
        BY <3>2, <3>3, <4>1, <4>2, Zenon
    <3>9. contents # <<>>
      <4>1. Span(V[lo], V[hi + 1]) # <<>>
        BY <3>5, <3>7, SpanEmpty, Zenon
      <4>2. QED
        BY <3>2, <4>1, Zenon
    <3>10. Channel!Pop
      BY <3>1, <3>8, <3>9, Zenon DEF Channel!Pop
    <3>11. QED
      BY <3>10 DEF Channel!ChNext
  <2>4. CASE Take /\ Empty(buf_r)
    BY <2>4 DEF Take, history, Channel!chVars
  <2>5. ASSUME ~Put, ~Take PROVE UNCHANGED <<contents, delivered>>
    BY <1>2, <2>5 DEF Next, Producer, Consumer, FindRoom, NewRing, InusePush, TurnToNewRing,
      LookFirst, Compare, LookAgain, InusePop, ResetRing, ReleaseRing, TurnToNextRing, Reset,
      vars, history
  <2>6. QED
    BY <2>2, <2>3, <2>4, <2>5 DEF Channel!chVars
<1>3. QED
  BY <1>1, <1>2, UnboundedNumbered, PTL DEF Spec, ImplementsChannel, Channel!ChSpec
==============================================================================
