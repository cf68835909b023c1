---------------------------- MODULE FFFarmProofs ----------------------------
(***************************************************************************)
(* The farm skeleton of FastFlow, for every number of workers, every size  *)
(* of the input queues and whatever the programs send through it: the EOS  *)
(* is the last thing in each queue, and neither main()'s early reset of    *)
(* running nor the gatherer's polling of the workers still online can go   *)
(* wrong.                                                                  *)
(*                                                                         *)
(* Tasks is what the program sends: FastflowFarmProofs takes the photos    *)
(* for it, FastflowMapProofs the portions.  What its svc() does in between *)
(* does not matter here.  The second half follows a single task: it is in  *)
(* the farm once from SendOut to Collected, and waits until a worker has   *)
(* taken it.                                                               *)
(***************************************************************************)
EXTENDS FFFarm, DataProofs

\* The types of the skeleton, and what is in hand while a task is
FFTypes(Tasks) ==
  /\ lb \in {"svc", "schedule", "broadcast", "retry", "returned"}
  /\ sending \in Tasks \cup {EOS} /\ (lb = "schedule" => sending \in Tasks)
  /\ nextw \in (-1)..(number_of_workers - 1)
  /\ running \in {number_of_workers, -1}
  /\ turn \in 0..number_of_workers
  /\ retry \in Seq(Workers)
  /\ inq \in [Workers -> Seq(Tasks \cup {EOS})]
  /\ outq \in [Workers -> Seq(Tasks \cup {EOS})]
  /\ worker \in [Workers -> {"pop", "svc", "eos", "returned"}]
  /\ task \in [Workers -> Tasks \cup {EOS}]
  /\ \A w \in Workers : worker[w] = "svc" => task[w] \in Tasks
  /\ gt \in {"gather", "svc", "returned"}
  /\ gathered \in Tasks \cup {EOS} /\ (gt = "svc" => gathered \in Tasks)
  /\ nextr \in (-1)..(number_of_workers - 1)
  /\ offline \subseteq Workers
  /\ main \in {"workers", "lb", "gt", "joined"}

\* The broadcast begins when the emitter has ended; the workers whose queue was
\* full are behind it, each once.
BroadcastInv ==
  /\ lb \in {"svc", "schedule"} => turn = 0 /\ retry = <<>>
  /\ \A j \in DOMAIN retry : retry[j] < turn
  /\ \A j, k \in DOMAIN retry : j < k => retry[j] < retry[k]
  /\ lb \in {"retry", "returned"} => turn = number_of_workers
  /\ lb = "returned" => retry = <<>>

\* The load balancer has still to send worker w its EOS.
Pending(w) == turn <= w \/ \E k \in DOMAIN retry : retry[k] = w

\* The EOS of a worker is sent once, nothing follows it in its queues, and the
\* worker and the gatherer go by it.
WorkerEOS(w) ==
  /\ EndsAt(EOS, inq[w]) /\ EndsAt(EOS, outq[w])
  /\ Pending(w) => ~IsIn(EOS, inq[w]) /\ worker[w] \in {"pop", "svc"}
  /\ worker[w] \in {"eos", "returned"} => inq[w] = <<>>
  /\ IsIn(EOS, outq[w]) => worker[w] = "returned"
  /\ w \in offline => worker[w] = "returned" /\ outq[w] = <<>>

EOSInv == \A w \in Workers : WorkerEOS(w)

\* The gatherer counts the workers that are offline.
GathererInv ==
  IF gt = "returned" THEN offline = Workers
  ELSE neos = Cardinality(offline) /\ neos < number_of_workers

\* main() joins the workers, the load balancer and the gatherer in this order.
MainInv == /\ main = "workers" <=> running = number_of_workers
           /\ main \in {"gt", "joined"} => lb = "returned"
           /\ main = "joined" => gt = "returned"

\* What the skeleton keeps, whatever the program does
FFInv(Tasks) == /\ FFTypes(Tasks) /\ BroadcastInv /\ EOSInv /\ GathererInv
                /\ ResetIsHarmless /\ MainInv

\* Any step of the farm, with the tasks the program sends
FFStep(Tasks) == \/ \E t \in Tasks : SendOut(t)
                 \/ EmitterEnds \/ LBStep
                 \/ \E w \in Workers : WorkerStep(w) \/ WorkerPush(w)
                 \/ Gather \/ Collected
                 \/ MainStep

-----------------------------------------------------------------------------
(* Lemmas about the operators                                              *)

\* vector::pop_back()
LEMMA FrontOf ==
  ASSUME NEW S, NEW s \in Seq(S), s # <<>>
  PROVE  /\ Last(s) = s[Len(s)] /\ Len(s) \in DOMAIN s /\ Last(s) \in S
         /\ Front(s) \in Seq(S) /\ Len(Front(s)) = Len(s) - 1
         /\ DOMAIN Front(s) = 1..(Len(s) - 1)
         /\ \A k \in DOMAIN Front(s) : Front(s)[k] = s[k] /\ k \in DOMAIN s
<1>1. Last(s) = s[Len(s)] /\ Front(s) = SubSeq(s, 1, Len(s) - 1)
  BY Zenon DEF Last, Front
<1>2. Len(s) \in Nat \ {0} /\ DOMAIN s = 1..Len(s)
  OBVIOUS
<1>3. Len(s) \in DOMAIN s /\ s[Len(s)] \in S
  BY <1>2
<1>4. \A k \in 1..(Len(s) - 1) : s[k] \in S
  BY <1>2
<1>5. SubSeq(s, 1, Len(s) - 1) = [k \in 1..(Len(s) - 1) |-> s[k]]
  BY <1>2, SMT
<1>6. /\ SubSeq(s, 1, Len(s) - 1) \in Seq(S)
      /\ Len(SubSeq(s, 1, Len(s) - 1)) = Len(s) - 1
  BY <1>2, <1>4
<1>7. QED
  BY <1>1, <1>2, <1>3, <1>5, <1>6

\* put() to, and get() from, the queue of worker v
LEMMA QueueAppend ==
  ASSUME NEW S, NEW f \in [Workers -> Seq(S)], NEW v \in Workers, NEW x \in S
  PROVE  /\ [f EXCEPT ![v] = Append(@, x)] \in [Workers -> Seq(S)]
         /\ \A w \in Workers : [f EXCEPT ![v] = Append(@, x)][w] =
                                 IF w = v THEN Append(f[v], x) ELSE f[w]
<1>1. f[v] \in Seq(S)
  OBVIOUS
<1>2. Append(f[v], x) \in Seq(S)
  BY <1>1
<1>3. QED
  BY <1>2, Zenon

\* What a step that takes from one queue does to the queues
LEMMA QueueTail ==
  ASSUME NEW S, NEW f \in [Workers -> Seq(S)], NEW v \in Workers, f[v] # <<>>
  PROVE  /\ [f EXCEPT ![v] = Tail(@)] \in [Workers -> Seq(S)]
         /\ \A w \in Workers : [f EXCEPT ![v] = Tail(@)][w] =
                                 IF w = v THEN Tail(f[v]) ELSE f[w]
         /\ Head(f[v]) \in S
<1>1. f[v] \in Seq(S)
  OBVIOUS
<1>2. Tail(f[v]) \in Seq(S) /\ Head(f[v]) \in S
  BY <1>1
<1>3. QED
  BY <1>2, Zenon

\* selectworker() of the load balancer: a worker
LEMMA NextIsWorker ==
  ASSUME running = number_of_workers, nextw \in (-1)..(number_of_workers - 1)
  PROVE  NextWorker \in Workers
<1>1. nextw + 1 \in Nat /\ number_of_workers \in Nat \ {0}
  BY FFAssumption
<1>2. (nextw + 1) % number_of_workers \in 0..(number_of_workers - 1)
  BY <1>1, Division
<1>3. QED
  BY <1>2 DEF NextWorker, Workers

\* selectworker() of the gatherer: a worker that is not offline, if there is one
LEMMA SelectedIsOnline ==
  ASSUME nextr \in (-1)..(number_of_workers - 1), offline \subseteq Workers,
         Workers \ offline # {}
  PROVE  Selected \in Workers \ offline
<1> DEFINE n == number_of_workers
           Online(k) == (nextr + k) % n \notin offline
           K == {k \in 1..n : Online(k)}
<1>1. n \in Nat \ {0}
  BY FFAssumption
<1>2. K # {}
  <2>1. PICK w \in Workers : w \notin offline
    OBVIOUS
  <2>2. w \in 0..(n - 1)
    BY <2>1 DEF Workers
  <2>3. CASE w > nextr
    <3>1. w - nextr \in 1..n /\ nextr + (w - nextr) = w
      BY <1>1, <2>2, <2>3
    <3>2. w % n = w
      BY <1>1, <2>2, Remainder
    <3>3. w - nextr \in K
      BY <2>1, <3>1, <3>2
    <3>4. QED
      BY <3>3
  <2>4. CASE w <= nextr
    <3>1. w + n - nextr \in 1..n /\ nextr + (w + n - nextr) = w + n
      BY <1>1, <2>2, <2>4
    <3>2. (w + n) % n = w
      BY <1>1, <2>2, Remainder
    <3>3. w + n - nextr \in K
      BY <2>1, <3>1, <3>2
    <3>4. QED
      BY <3>3
  <2>5. QED
    BY <1>1, <2>2, <2>3, <2>4
<1>3. PICK l \in K : \A k \in K : l <= k
  <2>1. K \subseteq Nat
    OBVIOUS
  <2>2. QED
    BY <1>2, <2>1, LeastNatural
<1>4. l \in 1..n /\ Skips(l) /\ (nextr + l) % n \notin offline
  <2>1. ASSUME NEW j \in 1..(l - 1) PROVE (nextr + j) % n \in offline
    <3>1. j \in 1..n /\ j < l
      BY <1>1
    <3>2. QED
      BY <1>3, <3>1
  <2>2. QED
    BY <1>3, <2>1 DEF Skips
<1> DEFINE c == CHOOSE k \in 1..n : Skips(k) /\ (nextr + k) % n \notin offline
<1>5. c \in 1..n /\ (nextr + c) % n \notin offline
  BY <1>4
<1>6. nextr + c \in Nat
  BY <1>1, <1>5
<1> HIDE DEF c
<1>7. (nextr + c) % n \in 0..(n - 1)
  BY <1>1, <1>6, Division
<1>8. Selected = (nextr + c) % n
  BY Zenon DEF Selected, c
<1>9. QED
  BY <1>5, <1>7, <1>8 DEF Workers

-----------------------------------------------------------------------------
(* The invariant holds at first and is kept by every step.                 *)

\* A worker with all its queues empty is at the start of its EOS order.
LEMMA FFInitInv ==
  ASSUME NEW Tasks, EOS \notin Tasks, FFInit
  PROVE  FFInv(Tasks)
<1>1. number_of_workers \in Nat \ {0} /\ number_of_workers > 0
  BY FFAssumption
<1>2. FFTypes(Tasks)
  BY <1>1 DEF FFInit, FFTypes, Workers
<1>3. BroadcastInv
  BY DEF FFInit, BroadcastInv
<1>4. EOSInv
  BY DEF FFInit, EOSInv, WorkerEOS, EndsAt, IsIn, Places
<1>5. GathererInv
  BY <1>1, FS_EmptySet DEF FFInit, GathererInv
<1>6. ResetIsHarmless /\ MainInv
  BY <1>1 DEF FFInit, ResetIsHarmless, MainInv
<1>7. QED
  BY <1>2, <1>3, <1>4, <1>5, <1>6 DEF FFInv

\* The queues, the workers and the gatherer see nothing of most steps of the
\* load balancer.
LEMMA EOSUntouched ==
  ASSUME EOSInv, UNCHANGED <<turn, retry, inq, outq, worker, offline>>
  PROVE  EOSInv'
BY DEF EOSInv, WorkerEOS, Pending, EndsAt

\* The gatherer and main() see nothing of the steps of the others.
LEMMA GathererUntouched ==
  ASSUME GathererInv, UNCHANGED <<gt, offline, neos>>
  PROVE  GathererInv'
BY DEF GathererInv

\* The emitter hands a task to the load balancer.
LEMMA SendOutInv ==
  ASSUME NEW Tasks, EOS \notin Tasks, NEW t \in Tasks, FFInv(Tasks), SendOut(t)
  PROVE  FFInv(Tasks)'
<1>1. FFTypes(Tasks)'
  BY DEF FFInv, FFTypes, SendOut, workerVars, gtVars
<1>2. BroadcastInv'
  BY DEF FFInv, BroadcastInv, SendOut
<1>3. EOSInv' /\ GathererInv'
  BY EOSUntouched, GathererUntouched DEF FFInv, SendOut, workerVars, gtVars
<1>4. ResetIsHarmless' /\ MainInv'
  BY DEF FFInv, ResetIsHarmless, MainInv, SendOut, gtVars
<1>5. QED
  BY <1>1, <1>2, <1>3, <1>4 DEF FFInv

\* The emitter is done and the broadcast of the EOS begins.
LEMMA EmitterEndsInv ==
  ASSUME NEW Tasks, EOS \notin Tasks, FFInv(Tasks), EmitterEnds
  PROVE  FFInv(Tasks)'
<1>1. FFTypes(Tasks)'
  BY DEF FFInv, FFTypes, EmitterEnds, workerVars, gtVars
<1>2. BroadcastInv'
  BY DEF FFInv, BroadcastInv, EmitterEnds
<1>3. EOSInv' /\ GathererInv'
  BY EOSUntouched, GathererUntouched DEF FFInv, EmitterEnds, workerVars, gtVars
<1>4. ResetIsHarmless' /\ MainInv'
  BY DEF FFInv, ResetIsHarmless, MainInv, EmitterEnds, gtVars
<1>5. QED
  BY <1>1, <1>2, <1>3, <1>4 DEF FFInv

\* While the load balancer schedules, no worker has been sent its EOS, so a task
\* follows no EOS.
LEMMA ScheduleInv ==
  ASSUME NEW Tasks, EOS \notin Tasks, FFInv(Tasks), Schedule
  PROVE  FFInv(Tasks)'
<1> DEFINE v == NextWorker
<1>1. lb = "schedule" /\ turn = 0 /\ retry = <<>> /\ sending \in Tasks
  BY DEF FFInv, FFTypes, BroadcastInv, Schedule
<1>2. running = number_of_workers
  BY <1>1 DEF FFInv, FFTypes, ResetIsHarmless
<1>3. v \in Workers
  BY <1>2, NextIsWorker DEF FFInv, FFTypes
<1>4. \A w \in Workers : w \in Nat /\ Pending(w)
  BY <1>1, FFAssumption DEF Pending, Workers
<1>5. /\ nextw' = v /\ lb' \in {"svc", "schedule"}
      /\ inq' = [inq EXCEPT ![v] = Append(@, sending)] \/ inq' = inq
      /\ UNCHANGED <<sending, running, turn, retry, outq, worker, task, gt, gathered,
                     nextr, offline, neos, main>>
  BY DEF Schedule, workerVars, gtVars
<1> HIDE DEF v
<1>6. FFTypes(Tasks)'
  <2>1. nextw' \in (-1)..(number_of_workers - 1)
    BY <1>3, <1>5, FFAssumption DEF Workers
  <2>2. inq' \in [Workers -> Seq(Tasks \cup {EOS})]
    <3>1. inq \in [Workers -> Seq(Tasks \cup {EOS})] /\ sending \in Tasks \cup {EOS}
      BY <1>1 DEF FFInv, FFTypes
    <3>2. [inq EXCEPT ![v] = Append(@, sending)] \in [Workers -> Seq(Tasks \cup {EOS})]
      BY <1>3, <3>1, QueueAppend
    <3>3. QED
      BY <1>5, <3>1, <3>2
  <2>3. QED
    BY <1>1, <1>5, <2>1, <2>2 DEF FFInv, FFTypes
<1>7. BroadcastInv'
  BY <1>1, <1>5 DEF FFInv, BroadcastInv
<1>8. EOSInv'
  <2> SUFFICES ASSUME NEW w \in Workers PROVE WorkerEOS(w)'
    BY DEF EOSInv
  <2>1. WorkerEOS(w) /\ Pending(w) /\ w \in Nat
    BY <1>4 DEF FFInv, EOSInv
  <2>2. ~IsIn(EOS, inq[w]) /\ worker[w] \in {"pop", "svc"}
    BY <2>1 DEF WorkerEOS
  <2>3. EndsAt(EOS, inq'[w]) /\ ~IsIn(EOS, inq'[w])
    <3>1. inq[w] \in Seq(Tasks \cup {EOS}) /\ sending \in Tasks \cup {EOS}
          /\ sending # EOS
      BY <1>1 DEF FFInv, FFTypes
    <3>2. inq'[w] \in {inq[w], Append(inq[w], sending)}
      BY <1>3, <1>5 DEF FFInv, FFTypes
    <3>3. /\ EndsAt(EOS, Append(inq[w], sending))
          /\ ~IsIn(EOS, Append(inq[w], sending))
      BY <2>2, <3>1, EndsAppend, IsInAppend
    <3>4. EndsAt(EOS, inq[w])
      BY <2>1 DEF WorkerEOS
    <3>5. QED
      BY <2>2, <3>2, <3>3, <3>4, Zenon
  <2>4. QED
    BY <1>5, <2>1, <2>2, <2>3 DEF WorkerEOS, EndsAt
<1>9. GathererInv'
  BY <1>5, GathererUntouched DEF FFInv
<1>10. ResetIsHarmless' /\ MainInv'
  BY <1>1, <1>2, <1>5, FFAssumption DEF FFInv, ResetIsHarmless, MainInv
<1>11. QED
  BY <1>6, <1>7, <1>8, <1>9, <1>10 DEF FFInv

\* A worker is sent its EOS: it was pending, so its queue had none.
LEMMA SentEOS ==
  ASSUME NEW Tasks, EOS \notin Tasks, FFTypes(Tasks), EOSInv, NEW v \in Workers,
         Pending(v), ~Pending(v)',
         \A w \in Workers \ {v} : Pending(w)' => Pending(w),
         inq' = [inq EXCEPT ![v] = Append(@, EOS)],
         UNCHANGED <<outq, worker, offline>>
  PROVE  EOSInv'
<1> SUFFICES ASSUME NEW w \in Workers PROVE WorkerEOS(w)'
  BY DEF EOSInv
<1>1. WorkerEOS(w) /\ inq[w] \in Seq(Tasks \cup {EOS})
  BY DEF EOSInv, FFTypes
<1>2. CASE w = v
  <2>1. inq'[w] = Append(inq[w], EOS)
    BY <1>2 DEF FFTypes
  <2>2. ~IsIn(EOS, inq[w]) /\ worker[w] \in {"pop", "svc"}
    BY <1>1, <1>2 DEF WorkerEOS
  <2>3. EndsAt(EOS, inq'[w])
    BY <1>1, <2>1, <2>2, EndsAppend
  <2>4. QED
    BY <1>1, <1>2, <2>2, <2>3 DEF WorkerEOS, EndsAt
<1>3. CASE w # v
  <2>1. inq'[w] = inq[w]
    BY <1>3 DEF FFTypes
  <2>2. QED
    BY <1>1, <1>3, <2>1 DEF WorkerEOS, EndsAt
<1>4. QED
  BY <1>2, <1>3

\* Broadcast goes through the workers in order, so that the next one is in no
\* retry list yet and the retry list stays sorted.
LEMMA BroadcastStepInv ==
  ASSUME NEW Tasks, EOS \notin Tasks, FFInv(Tasks), Broadcast
  PROVE  FFInv(Tasks)'
<1>1. /\ lb = "broadcast" /\ turn < running /\ turn' = turn + 1
      /\ UNCHANGED <<lb, sending, nextw, running, outq, worker, task, gt, gathered,
                     nextr, offline, neos, main>>
  BY DEF Broadcast, workerVars, gtVars
<1>2. running = number_of_workers /\ turn \in Workers /\ turn \in Nat
      /\ number_of_workers \in Nat
  BY <1>1, FFAssumption DEF FFInv, FFTypes, Workers
<1>3. FFTypes(Tasks) /\ BroadcastInv /\ EOSInv
  BY DEF FFInv
<1>4. retry \in Seq(Workers) /\ \A k \in DOMAIN retry : retry[k] < turn /\ retry[k] \in Nat
  <2>1. retry \in Seq(Workers) /\ \A k \in DOMAIN retry : retry[k] < turn
    BY <1>3 DEF FFTypes, BroadcastInv
  <2>2. \A w \in Workers : w \in Nat
    BY FFAssumption DEF Workers
  <2>3. \A k \in DOMAIN retry : retry[k] \in Workers
    BY <2>1
  <2>4. QED
    BY <2>1, <2>2, <2>3
<1>5. turn' \in 0..number_of_workers
  BY <1>1, <1>2
<1>6. GathererInv' /\ ResetIsHarmless' /\ MainInv'
  BY <1>1, <1>2, GathererUntouched, FFAssumption DEF FFInv, ResetIsHarmless, MainInv
<1>7. CASE HasRoom(turn)
  <2>1. inq' = [inq EXCEPT ![turn] = Append(@, EOS)] /\ retry' = retry
    BY <1>7 DEF Broadcast
  <2>2. inq' \in [Workers -> Seq(Tasks \cup {EOS})]
    BY <1>2, <1>3, <2>1, QueueAppend DEF FFTypes
  <2>3. FFTypes(Tasks)'
    BY <1>1, <1>3, <1>5, <2>1, <2>2 DEF FFTypes
  <2>4. BroadcastInv'
    BY <1>1, <1>2, <1>3, <1>4, <2>1 DEF BroadcastInv
  <2>5. EOSInv'
    <3>1. PICK u \in Workers : u = turn
      BY <1>2
    <3>2. Pending(u) /\ inq' = [inq EXCEPT ![u] = Append(@, EOS)]
      BY <1>2, <2>1, <3>1 DEF Pending
    <3>3. ~(turn' <= u) /\ ~ \E k \in DOMAIN retry : retry[k] = u
      BY <1>1, <1>2, <1>4, <3>1
    <3>4. \A w \in Workers : turn' <= w => turn <= w
      BY <1>1, <1>2 DEF Workers
    <3>5. ~Pending(u)' /\ \A w \in Workers \ {u} : Pending(w)' => Pending(w)
      BY <2>1, <3>3, <3>4 DEF Pending
    <3>6. QED
      BY <1>1, <1>3, <3>2, <3>5, SentEOS
  <2>6. QED
    BY <1>6, <2>3, <2>4, <2>5 DEF FFInv
<1>8. CASE ~HasRoom(turn)
  <2>1. retry' = Append(retry, turn) /\ inq' = inq
    BY <1>8 DEF Broadcast, Remembered
  <2>2. /\ retry' \in Seq(Workers) /\ DOMAIN retry' = 1..(Len(retry) + 1)
        /\ DOMAIN retry = 1..Len(retry) /\ Len(retry) \in Nat
        /\ \A k \in DOMAIN retry : retry'[k] = retry[k]
        /\ retry'[Len(retry) + 1] = turn
    BY <1>2, <1>4, <2>1
  <2>3. FFTypes(Tasks)'
    BY <1>1, <1>3, <1>5, <2>1, <2>2 DEF FFTypes
  <2>4. BroadcastInv'
    <3>1. \A k \in DOMAIN retry' : retry'[k] < turn'
      BY <1>1, <1>2, <1>4, <2>2
    <3>2. ASSUME NEW j \in DOMAIN retry', NEW k \in DOMAIN retry', j < k
          PROVE  retry'[j] < retry'[k]
      <4>1. j \in DOMAIN retry
        BY <2>2, <3>2
      <4>2. CASE k \in DOMAIN retry
        BY <1>3, <2>2, <3>2, <4>1, <4>2 DEF BroadcastInv
      <4>3. CASE k = Len(retry) + 1
        BY <1>4, <2>2, <4>1, <4>3
      <4>4. QED
        BY <2>2, <4>2, <4>3
    <3>3. QED
      BY <1>1, <3>1, <3>2 DEF BroadcastInv
  <2>5. EOSInv'
    <3>1. ASSUME NEW w \in Workers, Pending(w)' PROVE Pending(w)
      <4>1. turn' <= w \/ \E k \in DOMAIN retry' : retry'[k] = w
        BY <3>1 DEF Pending
      <4>2. CASE turn' <= w
        BY <1>1, <1>2, <4>2 DEF Pending, Workers
      <4>3. CASE \E k \in DOMAIN retry' : retry'[k] = w
        <5>1. PICK k \in DOMAIN retry' : retry'[k] = w
          BY <4>3
        <5>2. CASE k \in DOMAIN retry
          BY <2>2, <5>1, <5>2 DEF Pending
        <5>3. CASE k = Len(retry) + 1
          BY <1>2, <2>2, <5>1, <5>3 DEF Pending
        <5>4. QED
          BY <2>2, <5>2, <5>3
      <4>4. QED
        BY <4>1, <4>2, <4>3
    <3>2. QED
      BY <1>1, <1>3, <2>1, <3>1 DEF EOSInv, WorkerEOS, EndsAt
  <2>6. QED
    BY <1>6, <2>3, <2>4, <2>5 DEF FFInv
<1>9. QED
  BY <1>7, <1>8

\* If main() has reset running, the loop had been through already.
LEMMA BroadcastDoneInv ==
  ASSUME NEW Tasks, EOS \notin Tasks, FFInv(Tasks), BroadcastDone
  PROVE  FFInv(Tasks)'
<1>1. /\ lb = "broadcast" /\ lb' = "retry" /\ turn >= running
      /\ UNCHANGED <<sending, nextw, running, turn, retry, inq, outq, worker, task, gt,
                     gathered, nextr, offline, neos, main>>
  BY DEF BroadcastDone, workerVars, gtVars
<1>2. turn = number_of_workers
  BY <1>1, FFAssumption DEF FFInv, FFTypes, ResetIsHarmless
<1>3. FFTypes(Tasks)' /\ BroadcastInv'
  BY <1>1, <1>2 DEF FFInv, FFTypes, BroadcastInv
<1>4. EOSInv' /\ GathererInv'
  BY <1>1, EOSUntouched, GathererUntouched DEF FFInv
<1>5. ResetIsHarmless' /\ MainInv'
  BY <1>1, <1>2 DEF FFInv, ResetIsHarmless, MainInv
<1>6. QED
  BY <1>3, <1>4, <1>5 DEF FFInv

\* The worker at the back of the retry list is nowhere else in it.
LEMMA RetryInv ==
  ASSUME NEW Tasks, EOS \notin Tasks, FFInv(Tasks), Retry
  PROVE  FFInv(Tasks)'
<1>1. /\ lb = "retry"
      /\ UNCHANGED <<sending, nextw, running, turn, outq, worker, task, gt, gathered,
                     nextr, offline, neos, main>>
  BY DEF Retry, workerVars, gtVars
<1>2. FFTypes(Tasks) /\ BroadcastInv /\ EOSInv /\ turn = number_of_workers
  BY <1>1 DEF FFInv, BroadcastInv
<1>3. CASE retry = <<>>
  <2>1. lb' = "returned" /\ inq' = inq /\ retry' = retry
    BY <1>3 DEF Retry
  <2>2. FFTypes(Tasks)' /\ BroadcastInv'
    BY <1>1, <1>2, <1>3, <2>1 DEF FFTypes, BroadcastInv
  <2>3. EOSInv' /\ GathererInv'
    BY <1>1, <2>1, EOSUntouched, GathererUntouched DEF FFInv
  <2>4. ResetIsHarmless' /\ MainInv'
    BY <1>1, <2>1 DEF FFInv, ResetIsHarmless, MainInv
  <2>5. QED
    BY <2>2, <2>3, <2>4 DEF FFInv
<1>4. CASE retry # <<>>
  <2> DEFINE v == Last(retry)
             l == Len(retry)
  <2>1. inq' = [inq EXCEPT ![v] = Append(@, EOS)] /\ retry' = Front(retry) /\ lb' = lb
    BY <1>4 DEF Retry
  <2>2. retry \in Seq(Workers)
    BY <1>2 DEF FFTypes
  <2>3. /\ v = retry[l] /\ l \in DOMAIN retry /\ v \in Workers /\ l \in Nat
        /\ DOMAIN retry' = 1..(l - 1) /\ retry' \in Seq(Workers)
        /\ \A k \in DOMAIN retry' : retry'[k] = retry[k] /\ k \in DOMAIN retry
    BY <1>4, <2>1, <2>2, FrontOf
  <2> HIDE DEF v, l
  <2>4. \A k \in DOMAIN retry' : retry'[k] < v
    BY <1>2, <2>3 DEF BroadcastInv
  <2>5. v < number_of_workers /\ v \in Nat /\ number_of_workers \in Nat
    BY <2>3, FFAssumption DEF Workers
  <2>6. FFTypes(Tasks)'
    <3>1. inq' \in [Workers -> Seq(Tasks \cup {EOS})]
      <4>1. inq \in [Workers -> Seq(Tasks \cup {EOS})] /\ EOS \in Tasks \cup {EOS}
        BY <1>2 DEF FFTypes
      <4>2. [inq EXCEPT ![v] = Append(@, EOS)] \in [Workers -> Seq(Tasks \cup {EOS})]
        BY <2>3, <4>1, QueueAppend
      <4>3. QED
        BY <2>1, <4>2
    <3>2. QED
      BY <1>1, <1>2, <2>1, <2>3, <3>1 DEF FFTypes
  <2>7. BroadcastInv'
    BY <1>1, <1>2, <2>1, <2>3 DEF BroadcastInv
  <2>8. EOSInv'
    <3>1. PICK u \in Workers : u = v
      BY <2>3
    <3>2. Pending(u) /\ inq' = [inq EXCEPT ![u] = Append(@, EOS)]
      <4>1. Pending(u)
        BY <2>3, <3>1 DEF Pending
      <4>2. inq' = [inq EXCEPT ![u] = Append(@, EOS)]
        BY <2>1, <3>1
      <4>3. QED
        BY <4>1, <4>2
    <3>3. ~(turn <= u) /\ ~ \E k \in DOMAIN retry' : retry'[k] = u
      BY <1>2, <2>4, <2>5, <3>1
    <3>4. ~Pending(u)'
      BY <1>1, <3>3 DEF Pending
    <3>5. \A w \in Workers \ {u} : Pending(w)' => Pending(w)
      <4>1. \A w \in Workers : Pending(w)' => turn <= w \/ \E k \in DOMAIN retry' : retry'[k] = w
        BY <1>1 DEF Pending
      <4>2. \A w \in Workers : (\E k \in DOMAIN retry' : retry'[k] = w)
                                 => \E k \in DOMAIN retry : retry[k] = w
        BY <2>3
      <4>3. QED
        BY <4>1, <4>2 DEF Pending
    <3>6. QED
      BY <1>1, <1>2, <3>2, <3>4, <3>5, SentEOS
  <2>9. GathererInv' /\ ResetIsHarmless' /\ MainInv'
    <3>1. running # -1
      BY <1>4 DEF FFInv, ResetIsHarmless
    <3>2. QED
      BY <1>1, <2>1, <3>1, GathererUntouched DEF FFInv, ResetIsHarmless, MainInv
  <2>10. QED
    BY <2>6, <2>7, <2>8, <2>9 DEF FFInv
<1>5. QED
  BY <1>3, <1>4

\* A worker that takes the EOS has emptied its queue.
LEMMA WorkerPopInv ==
  ASSUME NEW Tasks, EOS \notin Tasks, NEW v \in Workers, FFInv(Tasks), WorkerPop(v)
  PROVE  FFInv(Tasks)'
<1>1. FFTypes(Tasks) /\ EOSInv
  BY DEF FFInv
<1>2. inq \in [Workers -> Seq(Tasks \cup {EOS})] /\ inq[v] # <<>> /\ worker[v] = "pop"
  BY <1>1 DEF FFTypes, WorkerPop
<1>3. /\ inq' \in [Workers -> Seq(Tasks \cup {EOS})]
      /\ \A w \in Workers : inq'[w] = IF w = v THEN Tail(inq[v]) ELSE inq[w]
      /\ Head(inq[v]) \in Tasks \cup {EOS}
  BY <1>2, QueueTail DEF WorkerPop
<1>4. /\ task' \in [Workers -> Tasks \cup {EOS}]
      /\ \A w \in Workers : task'[w] = IF w = v THEN Head(inq[v]) ELSE task[w]
  BY <1>1, <1>3 DEF FFTypes, WorkerPop
<1>5. /\ worker' \in [Workers -> {"pop", "svc", "eos", "returned"}]
      /\ \A w \in Workers \ {v} : worker'[w] = worker[w]
      /\ worker'[v] = IF Head(inq[v]) = EOS THEN "eos" ELSE "svc"
  BY <1>1 DEF FFTypes, WorkerPop
<1>6. UNCHANGED <<lb, sending, nextw, running, turn, retry, outq, gt, gathered, nextr,
                  offline, neos, main>>
  BY DEF WorkerPop, lbVars, gtVars
<1>7. FFTypes(Tasks)'
  BY <1>1, <1>3, <1>4, <1>5, <1>6, ZenonT(60) DEF FFTypes
<1>8. EOSInv'
  <2> SUFFICES ASSUME NEW w \in Workers PROVE WorkerEOS(w)'
    BY DEF EOSInv
  <2>1. WorkerEOS(w) /\ (Pending(w)' <=> Pending(w))
    BY <1>1, <1>6 DEF EOSInv, Pending
  <2>2. CASE w = v
    <3>1. inq[v] \in Seq(Tasks \cup {EOS}) /\ EndsAt(EOS, inq[v])
      BY <1>2, <2>1, <2>2 DEF WorkerEOS
    <3>2. /\ EndsAt(EOS, Tail(inq[v])) /\ (Head(inq[v]) = EOS => Tail(inq[v]) = <<>>)
          /\ IsIn(EOS, inq[v]) <=> EOS = Head(inq[v]) \/ IsIn(EOS, Tail(inq[v]))
      BY <1>2, <3>1, EndsTail, IsInTail
    <3>3. inq'[v] = Tail(inq[v])
      BY <1>3
    <3>4. w \notin offline /\ ~IsIn(EOS, outq[w])
      BY <1>2, <2>1, <2>2 DEF WorkerEOS
    <3>5. Pending(w) => ~IsIn(EOS, inq'[v]) /\ worker'[v] = "svc"
      BY <1>5, <2>1, <2>2, <3>2, <3>3 DEF WorkerEOS
    <3>6. worker'[v] \in {"eos", "returned"} => inq'[v] = <<>>
      BY <1>5, <3>2, <3>3
    <3>7. EndsAt(EOS, inq'[v])
      BY <3>2, <3>3, Zenon
    <3>8. QED
      BY <1>6, <2>1, <2>2, <3>4, <3>5, <3>6, <3>7 DEF WorkerEOS, EndsAt
  <2>3. CASE w # v
    BY <1>3, <1>5, <1>6, <2>1, <2>3 DEF WorkerEOS, EndsAt
  <2>4. QED
    BY <2>2, <2>3
<1>9. BroadcastInv' /\ GathererInv' /\ ResetIsHarmless' /\ MainInv'
  BY <1>6, GathererUntouched DEF FFInv, BroadcastInv, ResetIsHarmless, MainInv
<1>10. QED
  BY <1>7, <1>8, <1>9 DEF FFInv

\* A worker in svc() has passed on no EOS yet.
LEMMA WorkerPushInv ==
  ASSUME NEW Tasks, EOS \notin Tasks, NEW v \in Workers, FFInv(Tasks), WorkerPush(v)
  PROVE  FFInv(Tasks)'
<1>1. FFTypes(Tasks) /\ EOSInv
  BY DEF FFInv
<1>2. /\ outq \in [Workers -> Seq(Tasks \cup {EOS})] /\ worker[v] = "svc"
      /\ task[v] \in Tasks \cup {EOS} /\ task[v] # EOS
  BY <1>1 DEF FFTypes, WorkerPush
<1>3. /\ outq' \in [Workers -> Seq(Tasks \cup {EOS})]
      /\ \A w \in Workers : outq'[w] = IF w = v THEN Append(outq[v], task[v]) ELSE outq[w]
  BY <1>2, QueueAppend DEF WorkerPush
<1>4. /\ worker' \in [Workers -> {"pop", "svc", "eos", "returned"}]
      /\ \A w \in Workers \ {v} : worker'[w] = worker[w]
      /\ worker'[v] = "pop"
  BY <1>1 DEF FFTypes, WorkerPush
<1>5. UNCHANGED <<lb, sending, nextw, running, turn, retry, inq, task, gt, gathered, nextr,
                  offline, neos, main>>
  BY DEF WorkerPush, lbVars, gtVars
<1>6. FFTypes(Tasks)'
  BY <1>1, <1>3, <1>4, <1>5 DEF FFTypes
<1>7. EOSInv'
  <2> SUFFICES ASSUME NEW w \in Workers PROVE WorkerEOS(w)'
    BY DEF EOSInv
  <2>1. WorkerEOS(w) /\ (Pending(w)' <=> Pending(w))
    BY <1>1, <1>5 DEF EOSInv, Pending
  <2>2. CASE w = v
    <3>1. w \notin offline /\ ~IsIn(EOS, outq[v]) /\ outq[v] \in Seq(Tasks \cup {EOS})
      BY <1>2, <2>1, <2>2 DEF WorkerEOS
    <3>2. EndsAt(EOS, outq'[v]) /\ ~IsIn(EOS, outq'[v])
      <4>1. EndsAt(EOS, Append(outq[v], task[v])) /\ ~IsIn(EOS, Append(outq[v], task[v]))
        BY <1>2, <3>1, EndsAppend, IsInAppend
      <4>2. QED
        BY <1>3, <4>1, Zenon
    <3>3. QED
      BY <1>4, <1>5, <2>1, <2>2, <3>1, <3>2 DEF WorkerEOS, EndsAt
  <2>3. CASE w # v
    BY <1>3, <1>4, <1>5, <2>1, <2>3 DEF WorkerEOS, EndsAt
  <2>4. QED
    BY <2>2, <2>3
<1>8. BroadcastInv' /\ GathererInv' /\ ResetIsHarmless' /\ MainInv'
  BY <1>5, GathererUntouched DEF FFInv, BroadcastInv, ResetIsHarmless, MainInv
<1>9. QED
  BY <1>6, <1>7, <1>8 DEF FFInv

\* A worker passes the EOS on and returns.
LEMMA WorkerPushEOSInv ==
  ASSUME NEW Tasks, EOS \notin Tasks, NEW v \in Workers, FFInv(Tasks), WorkerPushEOS(v)
  PROVE  FFInv(Tasks)'
<1>1. FFTypes(Tasks) /\ EOSInv
  BY DEF FFInv
<1>2. outq \in [Workers -> Seq(Tasks \cup {EOS})] /\ worker[v] = "eos"
      /\ EOS \in Tasks \cup {EOS}
  BY <1>1 DEF FFTypes, WorkerPushEOS
<1>3. /\ outq' \in [Workers -> Seq(Tasks \cup {EOS})]
      /\ \A w \in Workers : outq'[w] = IF w = v THEN Append(outq[v], EOS) ELSE outq[w]
  BY <1>2, QueueAppend DEF WorkerPushEOS
<1>4. /\ worker' \in [Workers -> {"pop", "svc", "eos", "returned"}]
      /\ \A w \in Workers \ {v} : worker'[w] = worker[w]
      /\ worker'[v] = "returned"
  BY <1>1 DEF FFTypes, WorkerPushEOS
<1>5. UNCHANGED <<lb, sending, nextw, running, turn, retry, inq, task, gt, gathered, nextr,
                  offline, neos, main>>
  BY DEF WorkerPushEOS, lbVars, gtVars
<1>6. FFTypes(Tasks)'
  BY <1>1, <1>3, <1>4, <1>5 DEF FFTypes
<1>7. EOSInv'
  <2> SUFFICES ASSUME NEW w \in Workers PROVE WorkerEOS(w)'
    BY DEF EOSInv
  <2>1. WorkerEOS(w) /\ (Pending(w)' <=> Pending(w))
    BY <1>1, <1>5 DEF EOSInv, Pending
  <2>2. CASE w = v
    <3>1. /\ w \notin offline /\ ~IsIn(EOS, outq[v]) /\ inq[v] = <<>> /\ ~Pending(v)
          /\ outq[v] \in Seq(Tasks \cup {EOS})
      BY <1>2, <2>1, <2>2 DEF WorkerEOS
    <3>2. EndsAt(EOS, outq'[v])
      <4>1. EndsAt(EOS, Append(outq[v], EOS))
        BY <1>2, <3>1, EndsAppend
      <4>2. QED
        BY <1>3, <4>1, Zenon
    <3>3. QED
      BY <1>4, <1>5, <2>1, <2>2, <3>1, <3>2 DEF WorkerEOS, EndsAt
  <2>3. CASE w # v
    BY <1>3, <1>4, <1>5, <2>1, <2>3 DEF WorkerEOS, EndsAt
  <2>4. QED
    BY <2>2, <2>3
<1>8. BroadcastInv' /\ GathererInv' /\ ResetIsHarmless' /\ MainInv'
  BY <1>5, GathererUntouched DEF FFInv, BroadcastInv, ResetIsHarmless, MainInv
<1>9. QED
  BY <1>6, <1>7, <1>8 DEF FFInv

\* The workers are finitely many.
LEMMA WorkersFinite ==
  IsFiniteSet(Workers) /\ Cardinality(Workers) = number_of_workers
<1>1. number_of_workers \in Nat /\ number_of_workers > 0
  BY FFAssumption
<1>2. /\ IsFiniteSet(0..(number_of_workers - 1))
      /\ Cardinality(0..(number_of_workers - 1)) = number_of_workers
  BY <1>1, FS_Interval
<1>3. QED
  BY <1>2 DEF Workers

\* The gatherer counts an EOS of a worker it has not counted: when it has got as
\* many as there are workers, it has got one of each.
LEMMA GatherInv ==
  ASSUME NEW Tasks, EOS \notin Tasks, FFInv(Tasks), Gather
  PROVE  FFInv(Tasks)'
<1> DEFINE S == Tasks \cup {EOS}
<1>1. /\ FFTypes(Tasks) /\ EOSInv /\ gt = "gather"
      /\ UNCHANGED <<lb, sending, nextw, running, turn, retry, inq, worker, task, main>>
  BY DEF FFInv, Gather, lbVars, workerVars
<1>2. PICK v \in Workers \ offline : v = Selected
  BY <1>1, SelectedIsOnline DEF FFTypes, Gather
<1>3. nextr' = v /\ nextr' \in (-1)..(number_of_workers - 1)
  BY <1>2, FFAssumption DEF Gather, Workers
<1>4. BroadcastInv' /\ ResetIsHarmless'
  BY <1>1 DEF FFInv, BroadcastInv, ResetIsHarmless
<1>5. main # "joined"
  BY <1>1 DEF FFInv, MainInv
<1>6. MainInv'
  BY <1>1, <1>5 DEF FFInv, MainInv
<1>7. \A w \in Workers : WorkerEOS(w) /\ (Pending(w)' <=> Pending(w))
  BY <1>1 DEF EOSInv, Pending
<1>8. CASE outq[v] = <<>>
  <2>1. UNCHANGED <<outq, gt, gathered, offline, neos>>
    BY <1>2, <1>8 DEF Gather
  <2>2. FFTypes(Tasks)'
    BY <1>1, <1>3, <2>1 DEF FFTypes
  <2>3. EOSInv' /\ GathererInv'
    BY <1>1, <2>1, EOSUntouched, GathererUntouched DEF FFInv
  <2>4. QED
    BY <1>4, <1>6, <2>2, <2>3 DEF FFInv
<1>9. CASE outq[v] # <<>>
  <2>1. outq \in [Workers -> Seq(S)] /\ outq[v] \in Seq(S)
    BY <1>1, <1>2 DEF FFTypes
  <2>2. outq' = [outq EXCEPT ![v] = Tail(@)]
    BY <1>2, <1>9 DEF Gather
  <2>3. /\ outq' \in [Workers -> Seq(S)]
        /\ \A w \in Workers : outq'[w] = IF w = v THEN Tail(outq[v]) ELSE outq[w]
        /\ Head(outq[v]) \in S
    BY <1>9, <2>1, <2>2, QueueTail
  <2>4. /\ EndsAt(EOS, Tail(outq[v])) /\ (Head(outq[v]) = EOS => Tail(outq[v]) = <<>>)
        /\ IsIn(EOS, outq[v]) <=> EOS = Head(outq[v]) \/ IsIn(EOS, Tail(outq[v]))
    BY <1>2, <1>7, <1>9, <2>1, EndsTail, IsInTail DEF WorkerEOS
  <2>5. CASE Head(outq[v]) = EOS
    <3>1. /\ offline' = offline \cup {v} /\ gathered' = gathered
          /\ neos' = (IF AllEOS(neos + 1) THEN 0 ELSE neos + 1)
          /\ gt' = (IF AllEOS(neos + 1) THEN "returned" ELSE "gather")
      BY <1>2, <1>9, <2>5 DEF Gather
    <3>2. FFTypes(Tasks)'
      BY <1>1, <1>3, <2>3, <3>1 DEF FFTypes
    <3>3. worker[v] = "returned" /\ outq'[v] = <<>>
      BY <1>2, <1>7, <2>3, <2>4, <2>5 DEF WorkerEOS
    <3>4. EOSInv'
      <4> SUFFICES ASSUME NEW w \in Workers PROVE WorkerEOS(w)'
        BY DEF EOSInv
      <4>1. CASE w = v
        <5>1. ~IsIn(EOS, outq'[v]) /\ EndsAt(EOS, outq'[v])
          BY <2>4, <3>3 DEF IsIn, Places, EndsAt
        <5>2. QED
          BY <1>1, <1>7, <3>1, <3>3, <4>1, <5>1 DEF WorkerEOS, EndsAt
      <4>2. CASE w # v
        BY <1>1, <1>7, <2>3, <3>1, <4>2 DEF WorkerEOS, EndsAt
      <4>3. QED
        BY <4>1, <4>2
    <3>5. GathererInv'
      <4>1. neos = Cardinality(offline) /\ offline \subseteq Workers /\ v \notin offline
            /\ offline \cup {v} \subseteq Workers
        BY <1>1, <1>2 DEF FFInv, FFTypes, GathererInv
      <4>2. IsFiniteSet(offline) /\ IsFiniteSet(offline \cup {v})
        BY <4>1, WorkersFinite, FS_Subset
      <4>3. /\ Cardinality(offline \cup {v}) = neos + 1 /\ neos \in Nat
            /\ number_of_workers \in Nat
        BY <4>1, <4>2, FS_AddElement, FS_CardinalityType, FFAssumption
      <4>4. CASE AllEOS(neos + 1)
        <5>1. Cardinality(offline \cup {v}) >= number_of_workers
          BY <4>3, <4>4 DEF AllEOS
        <5>2. Cardinality(offline \cup {v}) <= number_of_workers
          BY <4>1, WorkersFinite, FS_Subset
        <5>3. offline \cup {v} = Workers
          BY <4>1, <4>3, <5>1, <5>2, WorkersFinite, FS_Subset
        <5>4. QED
          BY <3>1, <4>4, <5>3 DEF GathererInv
      <4>5. CASE ~AllEOS(neos + 1)
        BY <3>1, <4>3, <4>5 DEF GathererInv, AllEOS
      <4>6. QED
        BY <4>4, <4>5
    <3>6. QED
      BY <1>4, <1>6, <3>2, <3>4, <3>5 DEF FFInv
  <2>6. CASE Head(outq[v]) # EOS
    <3>1. gathered' = Head(outq[v]) /\ gt' = "svc" /\ UNCHANGED <<offline, neos>>
      BY <1>2, <1>9, <2>6 DEF Gather
    <3>2. gathered' \in Tasks
      BY <2>3, <2>6, <3>1
    <3>3. FFTypes(Tasks)'
      BY <1>1, <1>3, <2>3, <3>1, <3>2 DEF FFTypes
    <3>4. EOSInv'
      <4> SUFFICES ASSUME NEW w \in Workers PROVE WorkerEOS(w)'
        BY DEF EOSInv
      <4>1. CASE w = v
        <5>1. /\ EndsAt(EOS, outq'[v]) /\ w \notin offline
              /\ IsIn(EOS, outq'[v]) => worker[v] = "returned"
          BY <1>2, <1>7, <2>3, <2>4, <4>1 DEF WorkerEOS
        <5>2. QED
          BY <1>1, <1>7, <3>1, <4>1, <5>1 DEF WorkerEOS, EndsAt
      <4>2. CASE w # v
        BY <1>1, <1>7, <2>3, <3>1, <4>2 DEF WorkerEOS, EndsAt
      <4>3. QED
        BY <4>1, <4>2
    <3>5. GathererInv'
      BY <1>1, <3>1 DEF FFInv, GathererInv
    <3>6. QED
      BY <1>4, <1>6, <3>3, <3>4, <3>5 DEF FFInv
  <2>7. QED
    BY <2>5, <2>6
<1>10. QED
  BY <1>8, <1>9

\* The collector has dealt with a task.
LEMMA CollectedInv ==
  ASSUME NEW Tasks, EOS \notin Tasks, FFInv(Tasks), Collected
  PROVE  FFInv(Tasks)'
<1>1. /\ gt = "svc" /\ gt' = "gather"
      /\ UNCHANGED <<lb, sending, nextw, running, turn, retry, inq, outq, worker, task,
                     gathered, nextr, offline, neos, main>>
  BY DEF Collected, lbVars, workerVars
<1>2. FFTypes(Tasks)' /\ BroadcastInv' /\ ResetIsHarmless'
  BY <1>1 DEF FFInv, FFTypes, BroadcastInv, ResetIsHarmless
<1>3. EOSInv'
  BY <1>1, EOSUntouched DEF FFInv
<1>4. GathererInv' /\ MainInv'
  BY <1>1 DEF FFInv, GathererInv, MainInv
<1>5. QED
  BY <1>2, <1>3, <1>4 DEF FFInv

\* When the workers have returned, the broadcast has been through all of them.
LEMMA MainStepInv ==
  ASSUME NEW Tasks, EOS \notin Tasks, FFInv(Tasks), MainStep
  PROVE  FFInv(Tasks)'
<1>1. UNCHANGED <<lb, sending, nextw, turn, retry, inq, outq, worker, task, gt, gathered,
                  nextr, offline, neos>>
  BY DEF MainStep, WaitWorkers, WaitLB, WaitGT, lbVars, workerVars, gtVars
<1>2. BroadcastInv' /\ EOSInv' /\ GathererInv'
  BY <1>1, EOSUntouched, GathererUntouched DEF FFInv, BroadcastInv
<1>3. FFTypes(Tasks)'
  BY <1>1 DEF FFInv, FFTypes, MainStep, WaitWorkers, WaitLB, WaitGT
<1>4. ResetIsHarmless' /\ MainInv'
  <2>1. CASE WaitWorkers
    <3>1. /\ running' = -1 /\ main' = "lb" /\ number_of_workers \in Nat \ {0}
          /\ turn \in 0..number_of_workers /\ retry \in Seq(Workers)
      BY <2>1, FFAssumption DEF WaitWorkers, FFInv, FFTypes
    <3>2. \A w \in Workers : ~Pending(w)
      BY <2>1 DEF WaitWorkers, WorkersReturned, FFInv, EOSInv, WorkerEOS
    <3>3. turn = number_of_workers
      <4>1. number_of_workers - 1 \in Workers
        BY <3>1 DEF Workers
      <4>2. ~(turn <= number_of_workers - 1)
        BY <3>2, <4>1 DEF Pending
      <4>3. QED
        BY <3>1, <4>2
    <3>4. retry = <<>>
      <4>1. SUFFICES ASSUME retry # <<>> PROVE FALSE
        OBVIOUS
      <4>2. 1 \in DOMAIN retry /\ retry[1] \in Workers
        BY <3>1, <4>1
      <4>3. QED
        BY <3>2, <4>2 DEF Pending
    <3>5. lb \notin {"svc", "schedule"} /\ lb \in {"broadcast", "retry", "returned"}
      BY <3>1, <3>3 DEF FFInv, FFTypes, BroadcastInv
    <3>6. QED
      BY <1>1, <3>1, <3>3, <3>4, <3>5 DEF ResetIsHarmless, MainInv
  <2>2. CASE WaitLB
    BY <1>1, <2>2 DEF WaitLB, FFInv, ResetIsHarmless, MainInv
  <2>3. CASE WaitGT
    BY <1>1, <2>3 DEF WaitGT, FFInv, ResetIsHarmless, MainInv
  <2>4. QED
    BY <2>1, <2>2, <2>3 DEF MainStep
<1>5. QED
  BY <1>2, <1>3, <1>4 DEF FFInv

\* Whatever the programs do in svc(), a step of theirs that is a step of the farm
\* or leaves it alone keeps the invariant.
LEMMA FFStepInv ==
  ASSUME NEW Tasks, EOS \notin Tasks, FFInv(Tasks),
         FFStep(Tasks) \/ UNCHANGED ffVars
  PROVE  FFInv(Tasks)'
<1>1. CASE UNCHANGED ffVars
  <2>1. UNCHANGED <<lb, sending, nextw, running, turn, retry, inq, outq, worker, task, gt,
                    gathered, nextr, offline, neos, main>>
    BY <1>1 DEF ffVars, lbVars, workerVars, gtVars
  <2>2. EOSInv' /\ GathererInv'
    BY <2>1, EOSUntouched, GathererUntouched DEF FFInv
  <2>3. FFTypes(Tasks)' /\ BroadcastInv' /\ ResetIsHarmless' /\ MainInv'
    BY <2>1 DEF FFInv, FFTypes, BroadcastInv, ResetIsHarmless, MainInv
  <2>4. QED
    BY <2>2, <2>3 DEF FFInv
<1>2. CASE LBStep
  BY <1>2, ScheduleInv, BroadcastStepInv, BroadcastDoneInv, RetryInv DEF LBStep
<1>3. ASSUME NEW w \in Workers, WorkerStep(w) \/ WorkerPush(w) PROVE FFInv(Tasks)'
  BY <1>3, WorkerPopInv, WorkerPushInv, WorkerPushEOSInv DEF WorkerStep
<1>4. QED
  BY <1>1, <1>2, <1>3, SendOutInv, EmitterEndsInv, GatherInv, CollectedInv, MainStepInv
     DEF FFStep

\* What the farm promises follows from the invariant.
LEMMA FFPromises ==
  ASSUME NEW Tasks, FFInv(Tasks)
  PROVE  EOSComesLast /\ SelectWorkerReturns /\ ResetIsHarmless
<1>1. EOSInv /\ GathererInv /\ ResetIsHarmless /\ offline \subseteq Workers
  BY DEF FFInv, FFTypes
<1>2. EOSComesLast
  BY <1>1 DEF EOSInv, WorkerEOS, GathererInv, EOSComesLast
<1>3. SelectWorkerReturns
  <2>1. SUFFICES ASSUME gt # "returned", Workers \subseteq offline PROVE FALSE
    BY DEF SelectWorkerReturns
  <2>2. offline = Workers
    BY <1>1, <2>1
  <2>3. Cardinality(offline) = number_of_workers /\ Cardinality(offline) < number_of_workers
    BY <1>1, <2>1, <2>2, WorkersFinite DEF GathererInv
  <2>4. QED
    BY <2>3, FFAssumption
<1>4. QED
  BY <1>1, <1>2, <1>3
-----------------------------------------------------------------------------
(* Where a task is                                                         *)

\* Is the task with the load balancer, or with the gatherer?
WithStages(x) == One(lb = "schedule" /\ sending = x) + One(gt = "svc" /\ gathered = x)

\* How often worker w has it, in its queues and in its hands
WithWorker(w, x) == Copies(inq[w], x) + One(worker[w] = "svc" /\ task[w] = x)
                      + Copies(outq[w], x)

\* The task is in the farm once, said without a sum over the workers.
HeldOnce(x) ==
  \/ WithStages(x) = 1 /\ \A w \in Workers : WithWorker(w, x) = 0
  \/ /\ WithStages(x) = 0
     /\ \E v \in Workers : /\ WithWorker(v, x) = 1
                           /\ \A w \in Workers \ {v} : WithWorker(w, x) = 0

\* It is not there.
Absent(x) == WithStages(x) = 0 /\ \A w \in Workers : WithWorker(w, x) = 0

\* A step after which the task is in the farm as often as before
Kept(x) == /\ HeldOnce(x) => HeldOnce(x)'
           /\ Absent(x) => Absent(x)'

\* The numbers are numbers.
LEMMA TaskCounts ==
  ASSUME NEW Tasks, FFTypes(Tasks), NEW x
  PROVE  /\ WithStages(x) \in Nat
         /\ \A w \in Workers : /\ inq[w] \in Seq(Tasks \cup {EOS})
                               /\ outq[w] \in Seq(Tasks \cup {EOS})
                               /\ Copies(inq[w], x) \in Nat /\ Copies(outq[w], x) \in Nat
                               /\ WithWorker(w, x) \in Nat
<1>1. ASSUME NEW w \in Workers
      PROVE  /\ inq[w] \in Seq(Tasks \cup {EOS}) /\ outq[w] \in Seq(Tasks \cup {EOS})
             /\ Copies(inq[w], x) \in Nat /\ Copies(outq[w], x) \in Nat
  <2>1. inq[w] \in Seq(Tasks \cup {EOS}) /\ outq[w] \in Seq(Tasks \cup {EOS})
    BY DEF FFTypes
  <2>2. QED
    BY <2>1, PlacesFinite
<1>2. QED
  BY <1>1 DEF WithStages, WithWorker, One

\* A task is not in the farm once and absent.
LEMMA HeldOrAbsent == ASSUME NEW x PROVE ~(HeldOnce(x) /\ Absent(x))
BY DEF HeldOnce, Absent

\* A step that moves the task in or out of no worker and no stage
LEMMA TaskSame ==
  ASSUME NEW x, WithStages(x)' = WithStages(x),
         \A w \in Workers : WithWorker(w, x)' = WithWorker(w, x)
  PROVE  Kept(x)
BY DEF Kept, HeldOnce, Absent

\* Nothing changes for a worker whose queues and hands do not.
LEMMA WorkerSame ==
  ASSUME NEW w \in Workers, NEW x, inq'[w] = inq[w], outq'[w] = outq[w],
         worker'[w] = worker[w], task'[w] = task[w]
  PROVE  WithWorker(w, x)' = WithWorker(w, x)
BY DEF WithWorker

\* Nor for the stages.
LEMMA StagesSame ==
  ASSUME NEW x, UNCHANGED <<sending, gathered>>,
         lb' = "schedule" <=> lb = "schedule", gt' = "svc" <=> gt = "svc"
  PROVE  WithStages(x)' = WithStages(x)
BY DEF WithStages

\* The EOS is no task: to send it moves none.
LEMMA AppendEOS ==
  ASSUME NEW Tasks, EOS \notin Tasks, NEW s \in Seq(Tasks \cup {EOS}), NEW x \in Tasks
  PROVE  Copies(Append(s, EOS), x) = Copies(s, x)
<1>1. EOS \in Tasks \cup {EOS} /\ EOS # x
  OBVIOUS
<1>2. Copies(Append(s, EOS), x) = Copies(s, x) + 0 /\ Copies(s, x) \in Nat
  BY <1>1, CopiesAppend, PlacesFinite
<1>3. QED
  BY <1>2

\* The load balancer puts the task it schedules into the queue of one worker.
LEMMA ScheduleKept ==
  ASSUME NEW Tasks, FFInv(Tasks), NEW x \in Tasks, Schedule
  PROVE  Kept(x)
<1>1. FFTypes(Tasks) /\ lb = "schedule" /\ sending \in Tasks
  BY DEF FFInv, FFTypes, Schedule
<1>2. running = number_of_workers
  BY <1>1 DEF FFInv, FFTypes, ResetIsHarmless
<1>3. PICK v \in Workers : v = NextWorker
  BY <1>1, <1>2, NextIsWorker DEF FFTypes
<1>4. UNCHANGED <<sending, outq, worker, task, gt, gathered>>
  BY DEF Schedule, workerVars, gtVars
<1>5. CASE ~HasRoom(v)
  <2>1. inq' = inq /\ lb' = "schedule"
    BY <1>3, <1>5 DEF Schedule, Scheduled
  <2>2. WithStages(x)' = WithStages(x)
    BY <1>1, <1>4, <2>1, StagesSame
  <2>3. \A w \in Workers : WithWorker(w, x)' = WithWorker(w, x)
    BY <1>4, <2>1, WorkerSame
  <2>4. QED
    BY <2>2, <2>3, TaskSame
<1>6. CASE HasRoom(v)
  <2>1. inq' = [inq EXCEPT ![v] = Append(@, sending)] /\ lb' = "svc"
    BY <1>3, <1>6 DEF Schedule, Scheduled
  <2>2. \A w \in Workers : inq'[w] = IF w = v THEN Append(inq[v], sending) ELSE inq[w]
    BY <1>1, <2>1 DEF FFTypes
  <2>3. \A w \in Workers \ {v} : WithWorker(w, x)' = WithWorker(w, x)
    BY <1>4, <2>2, WorkerSame
  <2>4. WithWorker(v, x)' = WithWorker(v, x) + One(sending = x)
    <3>1. /\ inq[v] \in Seq(Tasks \cup {EOS}) /\ sending \in Tasks \cup {EOS}
          /\ Copies(inq[v], x) \in Nat /\ Copies(outq[v], x) \in Nat
      BY <1>1, TaskCounts
    <3>2. Copies(inq'[v], x) = Copies(inq[v], x) + One(sending = x)
      BY <2>2, <3>1, CopiesAppend DEF One
    <3>3. QED
      BY <1>4, <3>1, <3>2 DEF WithWorker, One
  <2>5. WithStages(x) = WithStages(x)' + One(sending = x)
    BY <1>1, <1>4, <2>1 DEF WithStages, One
  <2>6. WithStages(x) \in Nat /\ WithWorker(v, x) \in Nat /\ WithStages(x)' \in Nat
    <3>1. WithStages(x)' \in Nat
      BY DEF WithStages, One
    <3>2. QED
      BY <1>1, <3>1, TaskCounts
  <2>7. CASE sending = x
    <3>1. WithStages(x) = WithStages(x)' + 1 /\ WithWorker(v, x)' = WithWorker(v, x) + 1
      BY <2>4, <2>5, <2>7 DEF One
    <3>2. ~Absent(x)
      BY <2>6, <3>1 DEF Absent
    <3>3. ASSUME HeldOnce(x) PROVE HeldOnce(x)'
      <4>1. WithStages(x) = 1 /\ \A w \in Workers : WithWorker(w, x) = 0
        BY <2>6, <3>1, <3>3 DEF HeldOnce
      <4>2. WithStages(x)' = 0 /\ WithWorker(v, x)' = 1
        BY <2>6, <3>1, <4>1
      <4>3. \A w \in Workers \ {v} : WithWorker(w, x)' = 0
        BY <2>3, <4>1
      <4>4. QED
        BY <4>2, <4>3 DEF HeldOnce
    <3>4. QED
      BY <3>2, <3>3 DEF Kept
  <2>8. CASE sending # x
    <3>1. WithStages(x)' = WithStages(x) /\ WithWorker(v, x)' = WithWorker(v, x)
      BY <2>4, <2>5, <2>6, <2>8 DEF One
    <3>2. \A w \in Workers : WithWorker(w, x)' = WithWorker(w, x)
      BY <2>3, <3>1
    <3>3. QED
      BY <3>1, <3>2, TaskSame
  <2>9. QED
    BY <2>7, <2>8
<1>7. QED
  BY <1>5, <1>6

\* The broadcast moves no task.
LEMMA BroadcastKept ==
  ASSUME NEW Tasks, EOS \notin Tasks, FFInv(Tasks), NEW x \in Tasks,
         EmitterEnds \/ Broadcast \/ BroadcastDone \/ Retry
  PROVE  Kept(x)
<1>1. /\ FFTypes(Tasks) /\ lb # "schedule" /\ lb' # "schedule"
      /\ UNCHANGED <<sending, outq, worker, task, gt, gathered>>
  BY DEF EmitterEnds, Broadcast, BroadcastDone, Retry, workerVars, gtVars, FFInv
<1>2. WithStages(x)' = WithStages(x)
  BY <1>1, StagesSame
<1>3. \A w \in Workers : inq'[w] = inq[w] \/ inq'[w] = Append(inq[w], EOS)
  <2>1. inq' = inq \/ \E v : inq' = [inq EXCEPT ![v] = Append(@, EOS)]
    BY DEF EmitterEnds, Broadcast, BroadcastDone, Retry
  <2>2. QED
    BY <1>1, <2>1 DEF FFTypes
<1>4. ASSUME NEW w \in Workers PROVE WithWorker(w, x)' = WithWorker(w, x)
  <2>1. inq[w] \in Seq(Tasks \cup {EOS})
    BY <1>1 DEF FFTypes
  <2>2. Copies(inq'[w], x) = Copies(inq[w], x)
    BY <1>3, <2>1, AppendEOS
  <2>3. QED
    BY <1>1, <2>2 DEF WithWorker
<1>5. QED
  BY <1>2, <1>4, TaskSame

\* A worker takes a task from its queue into its hands.
LEMMA PopKept ==
  ASSUME NEW Tasks, EOS \notin Tasks, FFInv(Tasks), NEW x \in Tasks, NEW v \in Workers,
         WorkerPop(v)
  PROVE  Kept(x)
<1>1. /\ FFTypes(Tasks) /\ worker[v] = "pop" /\ inq[v] # <<>>
      /\ UNCHANGED <<lb, sending, outq, gt, gathered>>
  BY DEF WorkerPop, lbVars, gtVars, FFInv
<1>2. WithStages(x)' = WithStages(x)
  BY <1>1, StagesSame
<1>3. /\ inq'[v] = Tail(inq[v]) /\ task'[v] = Head(inq[v])
      /\ worker'[v] = IF Head(inq[v]) = EOS THEN "eos" ELSE "svc"
      /\ \A w \in Workers \ {v} : inq'[w] = inq[w] /\ task'[w] = task[w]
                                    /\ worker'[w] = worker[w]
  BY <1>1 DEF WorkerPop, FFTypes
<1>4. WithWorker(v, x)' = WithWorker(v, x)
  <2>1. inq[v] \in Seq(Tasks \cup {EOS})
    BY <1>1 DEF FFTypes
  <2>2. Copies(inq[v], x) = Copies(Tail(inq[v]), x) + One(Head(inq[v]) = x)
    BY <1>1, <2>1, CopiesTail DEF One
  <2>3. One(worker'[v] = "svc" /\ task'[v] = x) = One(Head(inq[v]) = x)
    BY <1>3 DEF One
  <2>4. Copies(Tail(inq[v]), x) \in Nat /\ Copies(outq[v], x) \in Nat
    <3>1. Tail(inq[v]) \in Seq(Tasks \cup {EOS})
      BY <1>1, <2>1
    <3>2. QED
      BY <1>1, <3>1, TaskCounts, PlacesFinite
  <2>5. One(worker[v] = "svc" /\ task[v] = x) = 0
    BY <1>1 DEF One
  <2>6. One(Head(inq[v]) = x) \in Nat
    BY DEF One
  <2>7. WithWorker(v, x) = Copies(inq[v], x) + One(worker[v] = "svc" /\ task[v] = x)
                             + Copies(outq[v], x)
    BY DEF WithWorker
  <2>8. WithWorker(v, x)' = Copies(Tail(inq[v]), x) + One(worker'[v] = "svc" /\ task'[v] = x)
                             + Copies(outq[v], x)
    BY <1>1, <1>3 DEF WithWorker, One
  <2>9. QED
    BY <2>2, <2>3, <2>4, <2>5, <2>6, <2>7, <2>8
<1>5. \A w \in Workers \ {v} : WithWorker(w, x)' = WithWorker(w, x)
  BY <1>1, <1>3, WorkerSame
<1>6. QED
  BY <1>2, <1>4, <1>5, TaskSame

\* It pushes the task in its hands into its output queue.
LEMMA PushKept ==
  ASSUME NEW Tasks, FFInv(Tasks), NEW x \in Tasks, NEW v \in Workers, WorkerPush(v)
  PROVE  Kept(x)
<1>1. /\ FFTypes(Tasks) /\ worker[v] = "svc" /\ task[v] \in Tasks
      /\ UNCHANGED <<lb, sending, inq, task, gt, gathered>>
  BY DEF WorkerPush, lbVars, gtVars, FFInv, FFTypes
<1>2. WithStages(x)' = WithStages(x)
  BY <1>1, StagesSame
<1>3. /\ outq'[v] = Append(outq[v], task[v]) /\ worker'[v] = "pop"
      /\ \A w \in Workers \ {v} : outq'[w] = outq[w] /\ worker'[w] = worker[w]
  BY <1>1 DEF WorkerPush, FFTypes
<1>4. WithWorker(v, x)' = WithWorker(v, x)
  <2>1. outq[v] \in Seq(Tasks \cup {EOS}) /\ task[v] \in Tasks \cup {EOS}
        /\ Copies(inq[v], x) \in Nat /\ Copies(outq[v], x) \in Nat
    BY <1>1, TaskCounts
  <2>2. Copies(Append(outq[v], task[v]), x) = Copies(outq[v], x) + One(task[v] = x)
    BY <2>1, CopiesAppend DEF One
  <2>3. /\ WithWorker(v, x) = Copies(inq[v], x) + One(task[v] = x) + Copies(outq[v], x)
        /\ WithWorker(v, x)' = Copies(inq[v], x) + 0 + Copies(Append(outq[v], task[v]), x)
    BY <1>1, <1>3 DEF WithWorker, One
  <2>4. One(task[v] = x) \in Nat
    BY DEF One
  <2>5. QED
    BY <2>1, <2>2, <2>3, <2>4
<1>5. \A w \in Workers \ {v} : WithWorker(w, x)' = WithWorker(w, x)
  BY <1>1, <1>3, WorkerSame
<1>6. QED
  BY <1>2, <1>4, <1>5, TaskSame

\* The EOS of a worker is no task either.
LEMMA PushEOSKept ==
  ASSUME NEW Tasks, EOS \notin Tasks, FFInv(Tasks), NEW x \in Tasks, NEW v \in Workers,
         WorkerPushEOS(v)
  PROVE  Kept(x)
<1>1. /\ FFTypes(Tasks) /\ worker[v] = "eos"
      /\ UNCHANGED <<lb, sending, inq, task, gt, gathered>>
  BY DEF WorkerPushEOS, lbVars, gtVars, FFInv
<1>2. WithStages(x)' = WithStages(x)
  BY <1>1, StagesSame
<1>3. /\ outq'[v] = Append(outq[v], EOS) /\ worker'[v] = "returned"
      /\ \A w \in Workers \ {v} : outq'[w] = outq[w] /\ worker'[w] = worker[w]
  BY <1>1 DEF WorkerPushEOS, FFTypes
<1>4. WithWorker(v, x)' = WithWorker(v, x)
  <2>1. Copies(Append(outq[v], EOS), x) = Copies(outq[v], x)
    BY <1>1, TaskCounts, AppendEOS
  <2>2. QED
    BY <1>1, <1>3, <2>1 DEF WithWorker, One
<1>5. \A w \in Workers \ {v} : WithWorker(w, x)' = WithWorker(w, x)
  BY <1>1, <1>3, WorkerSame
<1>6. QED
  BY <1>2, <1>4, <1>5, TaskSame

\* What the gatherer does to the queues of the worker it polls: nothing if they are
\* empty, and else it takes the head of the output queue.
LEMMA Polling ==
  ASSUME NEW Tasks, FFTypes(Tasks), Gather
  PROVE  /\ gt = "gather" /\ UNCHANGED <<lb, sending, inq, worker, task, main>>
         /\ \/ UNCHANGED <<outq, gt, gathered>>
            \/ \E v \in Workers :
                 /\ outq[v] # <<>> /\ outq[v] \in Seq(Tasks \cup {EOS})
                 /\ Head(outq[v]) \in Tasks \cup {EOS}
                 /\ outq'[v] = Tail(outq[v]) /\ outq'[v] \in Seq(Tasks \cup {EOS})
                 /\ \A w \in Workers \ {v} : outq'[w] = outq[w]
                 /\ \/ gt' = "svc" /\ gathered' = Head(outq[v]) /\ Head(outq[v]) # EOS
                    \/ gt' # "svc" /\ Head(outq[v]) = EOS
<1>1. gt = "gather" /\ UNCHANGED <<lb, sending, inq, worker, task, main>>
  BY DEF Gather, lbVars, workerVars
<1>2. PICK v \in Workers : v = Selected
  BY <1>1, SelectedIsOnline DEF FFTypes, Gather
<1>3. CASE outq[v] = <<>>
  <2>1. UNCHANGED <<outq, gt, gathered>>
    BY <1>2, <1>3 DEF Gather
  <2>2. QED
    BY <1>1, <2>1
<1>4. CASE outq[v] # <<>>
  <2>1. outq' = [outq EXCEPT ![v] = Tail(@)]
    BY <1>2, <1>4 DEF Gather
  <2>2. outq \in [Workers -> Seq(Tasks \cup {EOS})]
    BY DEF FFTypes
  <2>3. /\ outq'[v] = Tail(outq[v]) /\ \A w \in Workers \ {v} : outq'[w] = outq[w]
        /\ outq[v] \in Seq(Tasks \cup {EOS})
    BY <2>1, <2>2
  <2>4. Tail(outq[v]) \in Seq(Tasks \cup {EOS}) /\ Head(outq[v]) \in Tasks \cup {EOS}
    BY <1>4, <2>3
  <2>5. \/ gt' = "svc" /\ gathered' = Head(outq[v]) /\ Head(outq[v]) # EOS
        \/ gt' # "svc" /\ Head(outq[v]) = EOS
    BY <1>2, <1>4 DEF Gather
  <2>6. QED
    BY <1>1, <1>4, <2>3, <2>4, <2>5
<1>5. QED
  BY <1>3, <1>4

\* The gatherer takes the task that has been longest in the queue it polls.
LEMMA GatherKept ==
  ASSUME NEW Tasks, EOS \notin Tasks, FFInv(Tasks), NEW x \in Tasks, Gather
  PROVE  Kept(x)
<1>1. /\ FFTypes(Tasks) /\ gt = "gather" /\ UNCHANGED <<lb, sending, inq, worker, task>>
  BY Polling DEF FFInv
<1>2. CASE UNCHANGED <<outq, gt, gathered>>
  BY <1>1, <1>2, StagesSame, WorkerSame, TaskSame
<1>3. ASSUME NEW v \in Workers,
             /\ outq[v] # <<>> /\ outq[v] \in Seq(Tasks \cup {EOS})
             /\ outq'[v] = Tail(outq[v]) /\ outq'[v] \in Seq(Tasks \cup {EOS})
             /\ \A w \in Workers \ {v} : outq'[w] = outq[w]
             /\ \/ gt' = "svc" /\ gathered' = Head(outq[v]) /\ Head(outq[v]) # EOS
                \/ gt' # "svc" /\ Head(outq[v]) = EOS
      PROVE  Kept(x)
  <2> DEFINE z == Head(outq[v])
  <2>1. \A w \in Workers \ {v} : WithWorker(w, x)' = WithWorker(w, x)
    BY <1>1, <1>3, WorkerSame
  <2>2. WithWorker(v, x) = WithWorker(v, x)' + One(z = x) /\ WithWorker(v, x)' \in Nat
    <3>1. Copies(outq[v], x) = Copies(outq'[v], x) + One(z = x)
      BY <1>3, CopiesTail DEF One
    <3>2. Copies(inq[v], x) \in Nat /\ Copies(outq'[v], x) \in Nat
      BY <1>1, <1>3, TaskCounts, PlacesFinite
    <3>3. /\ WithWorker(v, x) = Copies(inq[v], x) + One(worker[v] = "svc" /\ task[v] = x)
                                 + Copies(outq[v], x)
          /\ WithWorker(v, x)' = Copies(inq[v], x) + One(worker[v] = "svc" /\ task[v] = x)
                                 + Copies(outq'[v], x)
      BY <1>1 DEF WithWorker, One
    <3>4. One(z = x) \in Nat /\ One(worker[v] = "svc" /\ task[v] = x) \in Nat
      BY DEF One
    <3>5. QED
      BY <3>1, <3>2, <3>3, <3>4
  <2>3. WithStages(x)' = WithStages(x) + One(z = x)
    <3>1. x # EOS
      OBVIOUS
    <3>2. One(gt' = "svc" /\ gathered' = x) = One(z = x) /\ One(gt = "svc" /\ gathered = x) = 0
      BY <1>1, <1>3, <3>1 DEF One
    <3>3. One(z = x) \in Nat /\ One(lb = "schedule" /\ sending = x) \in Nat
      BY DEF One
    <3>4. /\ WithStages(x) = One(lb = "schedule" /\ sending = x)
                               + One(gt = "svc" /\ gathered = x)
          /\ WithStages(x)' = One(lb = "schedule" /\ sending = x)
                               + One(gt' = "svc" /\ gathered' = x)
      BY <1>1 DEF WithStages, One
    <3>5. QED
      BY <3>2, <3>3, <3>4
  <2>4. WithStages(x) \in Nat /\ WithWorker(v, x) \in Nat
    BY <1>1, TaskCounts
  <2> HIDE DEF z
  <2>5. CASE z = x
    <3>1. WithStages(x)' = WithStages(x) + 1 /\ WithWorker(v, x) = WithWorker(v, x)' + 1
      BY <2>2, <2>3, <2>5 DEF One
    <3>2. WithWorker(v, x) # 0
      BY <2>2, <3>1
    <3>3. ASSUME HeldOnce(x) PROVE HeldOnce(x)'
      <4>1. /\ WithStages(x) = 0 /\ WithWorker(v, x) = 1
            /\ \A w \in Workers \ {v} : WithWorker(w, x) = 0
        BY <3>2, <3>3 DEF HeldOnce
      <4>2. WithStages(x)' = 1 /\ WithWorker(v, x)' = 0
        BY <2>2, <3>1, <4>1
      <4>3. \A w \in Workers : WithWorker(w, x)' = 0
        BY <2>1, <4>1, <4>2
      <4>4. QED
        BY <4>2, <4>3 DEF HeldOnce
    <3>4. QED
      BY <3>2, <3>3 DEF Kept, Absent
  <2>6. CASE z # x
    <3>1. WithStages(x)' = WithStages(x) /\ WithWorker(v, x)' = WithWorker(v, x)
      BY <2>2, <2>3, <2>4, <2>6 DEF One
    <3>2. \A w \in Workers : WithWorker(w, x)' = WithWorker(w, x)
      BY <2>1, <3>1
    <3>3. QED
      BY <3>1, <3>2, TaskSame
  <2>7. QED
    BY <2>5, <2>6
<1>4. QED
  BY <1>1, <1>2, <1>3, Polling

\* No step of the farm loses a task or doubles one, unless the program sends it or
\* the collector gets it.
LEMMA TaskKept ==
  ASSUME NEW Tasks, EOS \notin Tasks, FFInv(Tasks), NEW x \in Tasks,
         \/ EmitterEnds \/ LBStep \/ Gather \/ MainStep \/ UNCHANGED ffVars
         \/ \E w \in Workers : WorkerStep(w) \/ WorkerPush(w)
  PROVE  Kept(x)
<1>1. CASE MainStep \/ UNCHANGED ffVars
  <2>1. UNCHANGED <<lb, sending, inq, outq, worker, task, gt, gathered>>
    BY <1>1 DEF MainStep, WaitWorkers, WaitLB, WaitGT, ffVars, lbVars, workerVars, gtVars
  <2>2. QED
    BY <2>1, StagesSame, WorkerSame, TaskSame
<1>2. CASE LBStep
  BY <1>2, ScheduleKept, BroadcastKept DEF LBStep
<1>3. ASSUME NEW w \in Workers, WorkerStep(w) \/ WorkerPush(w) PROVE Kept(x)
  BY <1>3, PopKept, PushKept, PushEOSKept DEF WorkerStep
<1>4. QED
  BY <1>1, <1>2, <1>3, BroadcastKept, GatherKept

\* The task that the emitter sends is then in the farm once; the others stay.
LEMMA TaskSent ==
  ASSUME NEW Tasks, FFInv(Tasks), NEW t \in Tasks, SendOut(t)
  PROVE  /\ Absent(t) => HeldOnce(t)'
         /\ \A x \in Tasks \ {t} : Kept(x)
<1>1. /\ lb = "svc" /\ lb' = "schedule" /\ sending' = t
      /\ UNCHANGED <<inq, outq, worker, task, gt, gathered>>
  BY DEF SendOut, workerVars, gtVars
<1>2. \A x \in Tasks : \A w \in Workers : WithWorker(w, x)' = WithWorker(w, x)
  BY <1>1, WorkerSame
<1>3. \A x \in Tasks : WithStages(x)' = WithStages(x) + One(x = t)
  <2> TAKE x \in Tasks
  <2>1. /\ One(lb = "schedule" /\ sending = x) = 0
        /\ One(lb' = "schedule" /\ sending' = x) = One(x = t)
        /\ One(x = t) \in Nat /\ One(gt = "svc" /\ gathered = x) \in Nat
    BY <1>1 DEF One
  <2>2. /\ WithStages(x) = One(lb = "schedule" /\ sending = x)
                             + One(gt = "svc" /\ gathered = x)
        /\ WithStages(x)' = One(lb' = "schedule" /\ sending' = x)
                             + One(gt = "svc" /\ gathered = x)
    BY <1>1 DEF WithStages, One
  <2>3. QED
    BY <2>1, <2>2
<1>4. ASSUME Absent(t) PROVE HeldOnce(t)'
  <2>1. WithStages(t) = 0 /\ \A w \in Workers : WithWorker(w, t) = 0
    BY <1>4 DEF Absent
  <2>2. WithStages(t)' = 1 /\ \A w \in Workers : WithWorker(w, t)' = 0
    BY <1>2, <1>3, <2>1 DEF One
  <2>3. QED
    BY <2>2 DEF HeldOnce
<1>5. ASSUME NEW x \in Tasks \ {t} PROVE Kept(x)
  <2>1. WithStages(x) \in Nat
    BY DEF WithStages, One
  <2>2. WithStages(x)' = WithStages(x)
    BY <1>3, <2>1 DEF One
  <2>3. QED
    BY <1>2, <2>2, TaskSame
<1>6. QED
  BY <1>4, <1>5

\* The task that the collector has got is in the farm no more; the others stay.
LEMMA TaskCollected ==
  ASSUME NEW Tasks, FFInv(Tasks), Collected
  PROVE  /\ gathered \in Tasks
         /\ HeldOnce(gathered) => Absent(gathered)'
         /\ \A x \in Tasks \ {gathered} : Kept(x)
<1>1. /\ FFTypes(Tasks) /\ gathered \in Tasks /\ gt = "svc" /\ gt' = "gather"
      /\ UNCHANGED <<lb, sending, inq, outq, worker, task, gathered>>
  BY DEF Collected, lbVars, workerVars, FFInv, FFTypes
<1>2. \A x \in Tasks : \A w \in Workers : WithWorker(w, x)' = WithWorker(w, x)
  BY <1>1, WorkerSame
<1>3. \A x \in Tasks : /\ WithStages(x) = WithStages(x)' + One(x = gathered)
                       /\ WithStages(x)' \in Nat /\ WithStages(x) \in Nat
  <2> TAKE x \in Tasks
  <2>1. /\ One(gt = "svc" /\ gathered = x) = One(x = gathered)
        /\ One(gt' = "svc" /\ gathered' = x) = 0
        /\ One(x = gathered) \in Nat /\ One(lb = "schedule" /\ sending = x) \in Nat
    BY <1>1 DEF One
  <2>2. /\ WithStages(x) = One(lb = "schedule" /\ sending = x)
                             + One(gt = "svc" /\ gathered = x)
        /\ WithStages(x)' = One(lb = "schedule" /\ sending = x)
                             + One(gt' = "svc" /\ gathered' = x)
    BY <1>1 DEF WithStages, One
  <2>3. QED
    BY <2>1, <2>2
<1>4. ASSUME HeldOnce(gathered) PROVE Absent(gathered)'
  <2>1. PICK g \in Tasks : g = gathered
    BY <1>1
  <2>2. WithStages(g) = WithStages(g)' + 1 /\ WithStages(g)' \in Nat
    BY <1>3, <2>1 DEF One
  <2>3. WithStages(g) = 1 /\ \A w \in Workers : WithWorker(w, g) = 0
    BY <1>4, <2>1, <2>2 DEF HeldOnce
  <2>4. WithStages(g)' = 0 /\ \A w \in Workers : WithWorker(w, g)' = 0
    BY <1>2, <2>2, <2>3
  <2>5. Absent(g)'
    BY <2>4 DEF Absent
  <2>6. g = gathered'
    BY <1>1, <2>1
  <2>7. QED
    BY <2>5, <2>6 DEF Absent
<1>5. ASSUME NEW x \in Tasks \ {gathered} PROVE Kept(x)
  <2>1. WithStages(x)' = WithStages(x)
    BY <1>3 DEF One
  <2>2. QED
    BY <1>2, <2>1, TaskSame
<1>6. QED
  BY <1>1, <1>4, <1>5

\* A task in the hands of a worker is nowhere else.
LEMMA OnlyInHands ==
  ASSUME NEW Tasks, FFTypes(Tasks), NEW x, HeldOnce(x), NEW w \in Workers,
         worker[w] = "svc", task[w] = x
  PROVE  /\ ~(lb = "schedule" /\ sending = x) /\ ~(gt = "svc" /\ gathered = x)
         /\ \A u \in Workers : ~IsIn(x, inq[u]) /\ ~IsIn(x, outq[u])
         /\ \A u \in Workers \ {w} : ~(worker[u] = "svc" /\ task[u] = x)
<1>1. \A u \in Workers : /\ inq[u] \in Seq(Tasks \cup {EOS})
                         /\ outq[u] \in Seq(Tasks \cup {EOS})
                         /\ Copies(inq[u], x) \in Nat /\ Copies(outq[u], x) \in Nat
                         /\ WithWorker(u, x) \in Nat
  BY TaskCounts
<1>2. /\ WithWorker(w, x) = Copies(inq[w], x) + 1 + Copies(outq[w], x)
      /\ WithWorker(w, x) # 0
  BY <1>1 DEF WithWorker, One
<1>3. /\ WithStages(x) = 0 /\ WithWorker(w, x) = 1
      /\ \A u \in Workers \ {w} : WithWorker(u, x) = 0
  BY <1>2 DEF HeldOnce
<1>4. Copies(inq[w], x) = 0 /\ Copies(outq[w], x) = 0
  BY <1>1, <1>2, <1>3
<1>5. \A u \in Workers \ {w} : /\ Copies(inq[u], x) = 0 /\ Copies(outq[u], x) = 0
                               /\ ~(worker[u] = "svc" /\ task[u] = x)
  BY <1>1, <1>3 DEF WithWorker, One
<1>6. ~(lb = "schedule" /\ sending = x) /\ ~(gt = "svc" /\ gathered = x)
  BY <1>3 DEF WithStages, One
<1>7. \A u \in Workers : ~IsIn(x, inq[u]) /\ ~IsIn(x, outq[u])
  BY <1>1, <1>4, <1>5, NoCopies
<1>8. QED
  BY <1>5, <1>6, <1>7

\* A task that is not in the farm is in nobody's hands and in no queue.
LEMMA NotThere ==
  ASSUME NEW Tasks, FFTypes(Tasks), NEW x, Absent(x)
  PROVE  /\ ~(gt = "svc" /\ gathered = x) /\ ~(lb = "schedule" /\ sending = x)
         /\ \A w \in Workers : /\ ~IsIn(x, outq[w]) /\ ~IsIn(x, inq[w])
                               /\ ~(worker[w] = "svc" /\ task[w] = x)
<1>1. \A w \in Workers : /\ inq[w] \in Seq(Tasks \cup {EOS})
                         /\ outq[w] \in Seq(Tasks \cup {EOS})
                         /\ Copies(inq[w], x) \in Nat /\ Copies(outq[w], x) \in Nat
  BY TaskCounts
<1>2. \A w \in Workers : /\ Copies(inq[w], x) = 0 /\ Copies(outq[w], x) = 0
                         /\ ~(worker[w] = "svc" /\ task[w] = x)
  BY <1>1 DEF Absent, WithWorker, One
<1>3. ~(gt = "svc" /\ gathered = x) /\ ~(lb = "schedule" /\ sending = x)
  BY DEF Absent, WithStages, One
<1>4. QED
  BY <1>1, <1>2, <1>3, NoCopies

\* When the gatherer has returned, there is no task left.
LEMMA NothingLeft ==
  ASSUME NEW Tasks, FFInv(Tasks), main \in {"gt", "joined"}, gt = "returned", NEW x
  PROVE  Absent(x)
<1>1. \A w \in Workers : worker[w] = "returned" /\ inq[w] = <<>> /\ outq[w] = <<>>
  <2>1. EOSComesLast /\ offline = Workers
    BY FFPromises DEF FFInv, GathererInv
  <2>2. QED
    BY <2>1 DEF EOSComesLast
<1>2. Copies(<<>>, x) = 0
  <2>1. Places(<<>>, x) = {}
    BY DEF Places
  <2>2. QED
    BY <2>1, FS_EmptySet DEF Copies
<1>3. \A w \in Workers : WithWorker(w, x) = 0
  BY <1>1, <1>2 DEF WithWorker, One
<1>4. lb = "returned"
  BY DEF FFInv, MainInv
<1>5. QED
  BY <1>3, <1>4 DEF Absent, WithStages, One

-----------------------------------------------------------------------------
(* Whether a task is still on its way to the workers                       *)

\* The task is with the load balancer or in an input queue.
Waiting(x) == \/ lb = "schedule" /\ sending = x
              \/ \E w \in Workers : IsIn(x, inq[w])

\* A task that is sent waits.
LEMMA WaitingSent ==
  ASSUME NEW t, SendOut(t), NEW x
  PROVE  Waiting(x)' <=> x = t \/ Waiting(x)
BY DEF SendOut, Waiting

\* What the load balancer does then leaves it waiting.
LEMMA WaitingScheduled ==
  ASSUME NEW Tasks, FFInv(Tasks), NEW x \in Tasks, Schedule
  PROVE  Waiting(x)' <=> Waiting(x)
<1>1. FFTypes(Tasks) /\ lb = "schedule" /\ sending \in Tasks /\ sending' = sending
  BY DEF FFInv, FFTypes, Schedule
<1>2. running = number_of_workers
  BY <1>1 DEF FFInv, FFTypes, ResetIsHarmless
<1>3. PICK v \in Workers : v = NextWorker
  BY <1>1, <1>2, NextIsWorker DEF FFTypes
<1>4. CASE ~HasRoom(v)
  <2>1. inq' = inq /\ lb' = "schedule"
    BY <1>3, <1>4 DEF Schedule, Scheduled
  <2>2. QED
    BY <1>1, <2>1 DEF Waiting
<1>5. CASE HasRoom(v)
  <2>1. inq' = [inq EXCEPT ![v] = Append(@, sending)] /\ lb' = "svc"
    BY <1>3, <1>5 DEF Schedule, Scheduled
  <2>2. /\ \A w \in Workers : inq'[w] = IF w = v THEN Append(inq[v], sending) ELSE inq[w]
        /\ inq[v] \in Seq(Tasks \cup {EOS})
    BY <1>1, <2>1 DEF FFTypes
  <2>3. IsIn(x, inq'[v]) <=> x = sending \/ IsIn(x, inq[v])
    BY <1>1, <2>2, IsInAppend
  <2>4. QED
    BY <1>1, <2>1, <2>2, <2>3 DEF Waiting
<1>6. QED
  BY <1>4, <1>5

\* Nor does the broadcast of EOS change what waits.
LEMMA WaitingBroadcast ==
  ASSUME NEW Tasks, EOS \notin Tasks, FFInv(Tasks), NEW x \in Tasks,
         EmitterEnds \/ Broadcast \/ BroadcastDone \/ Retry
  PROVE  Waiting(x)' <=> Waiting(x)
<1>1. FFTypes(Tasks) /\ lb # "schedule" /\ lb' # "schedule"
  BY DEF EmitterEnds, Broadcast, BroadcastDone, Retry, FFInv
<1>2. \A w \in Workers : inq'[w] = inq[w] \/ inq'[w] = Append(inq[w], EOS)
  <2>1. inq' = inq \/ \E v : inq' = [inq EXCEPT ![v] = Append(@, EOS)]
    BY DEF EmitterEnds, Broadcast, BroadcastDone, Retry
  <2>2. QED
    BY <1>1, <2>1 DEF FFTypes
<1>3. ASSUME NEW w \in Workers PROVE IsIn(x, inq'[w]) <=> IsIn(x, inq[w])
  <2>1. inq[w] \in Seq(Tasks \cup {EOS}) /\ EOS \in Tasks \cup {EOS} /\ x # EOS
    BY <1>1 DEF FFTypes
  <2>2. IsIn(x, Append(inq[w], EOS)) <=> IsIn(x, inq[w])
    BY <2>1, IsInAppend
  <2>3. QED
    BY <1>2, <2>2
<1>4. QED
  BY <1>1, <1>3 DEF Waiting

\* It waits until a worker takes it out of its queue.
LEMMA WaitingTaken ==
  ASSUME NEW Tasks, FFTypes(Tasks), NEW v \in Workers, WorkerPop(v), NEW x
  PROVE  Waiting(x) <=> x = Head(inq[v]) \/ Waiting(x)'
<1>1. /\ inq[v] \in Seq(Tasks \cup {EOS}) /\ inq[v] # <<>> /\ UNCHANGED <<lb, sending>>
      /\ inq'[v] = Tail(inq[v]) /\ \A w \in Workers \ {v} : inq'[w] = inq[w]
  BY DEF WorkerPop, lbVars, FFTypes
<1>2. IsIn(x, inq[v]) <=> x = Head(inq[v]) \/ IsIn(x, inq'[v])
  BY <1>1, IsInTail
<1>3. QED
  BY <1>1, <1>2 DEF Waiting

\* The other steps change neither the load balancer nor the input queues.
LEMMA WaitingKept ==
  ASSUME NEW Tasks, EOS \notin Tasks, FFInv(Tasks), NEW x \in Tasks,
         \/ EmitterEnds \/ LBStep \/ Gather \/ Collected \/ MainStep \/ UNCHANGED ffVars
         \/ \E w \in Workers : WorkerPushEOS(w) \/ WorkerPush(w)
  PROVE  Waiting(x)' <=> Waiting(x)
<1>1. ASSUME UNCHANGED <<lb, sending, inq>> PROVE Waiting(x)' <=> Waiting(x)
  BY <1>1 DEF Waiting
<1>2. CASE EmitterEnds \/ LBStep
  BY <1>2, WaitingScheduled, WaitingBroadcast DEF LBStep
<1>3. CASE Gather \/ Collected \/ MainStep \/ UNCHANGED ffVars
  BY <1>1, <1>3 DEF Gather, Collected, MainStep, WaitWorkers, WaitLB, WaitGT, ffVars, lbVars
<1>4. ASSUME NEW w \in Workers, WorkerPushEOS(w) \/ WorkerPush(w)
      PROVE  Waiting(x)' <=> Waiting(x)
  BY <1>1, <1>4 DEF WorkerPushEOS, WorkerPush, lbVars
<1>5. QED
  BY <1>2, <1>3, <1>4
=============================================================================
