------------------------------- MODULE FFFarm -------------------------------
(***************************************************************************)
(* The farm skeleton of FastFlow as fastflow_farm.cpp and fastflow_map.cpp *)
(* use it: on-demand scheduling, non-blocking mode, no feedback.  The load *)
(* balancer (lb.hpp) runs the emitter's svc() and puts each task it sends  *)
(* out into the input queue of the next worker that has room; a worker     *)
(* (thWorker in node.hpp) pops a task, runs svc() on it and pushes what it *)
(* returns into its output queue; the gatherer (gt.hpp) polls the output   *)
(* queues round-robin and runs the collector's svc().  When the emitter    *)
(* has returned, the load balancer broadcasts EOS; each worker passes it   *)
(* on, and the gatherer ends after the EOS of every worker.  Meanwhile     *)
(* main() waits for the workers, the load balancer and the gatherer.       *)
(*                                                                         *)
(* The queues have one producer and one consumer.  Input queues are        *)
(* bounded: put() fails when there is no room.  Output queues are not.     *)
(* What svc() does is left to the program: the actions here say when it    *)
(* begins and ends.                                                        *)
(***************************************************************************)
EXTENDS Occurrences, Integers, SequencesExt

CONSTANTS number_of_workers,
          inbufferentries,      \* room in an input queue; on demand: 1
          EOS                   \* FF_EOS

Workers == 0..(number_of_workers - 1)

ASSUME FFAssumption == /\ number_of_workers \in Nat \ {0}
                       /\ inbufferentries \in Nat \ {0}

VARIABLES lb,                   \* where the load balancer is
          sending,              \* the task it schedules
          nextw,                \* the worker it tried last
          running,              \* its number of workers; -1 once main() reset it
          turn,                 \* broadcast: the next worker
          retry,                \* broadcast: workers whose queue was full
          inq, outq,            \* each worker's queues
          worker,               \* where each worker is
          task,                 \* the task in each worker's hands
          gt,                   \* where the gatherer is
          gathered,             \* the task in its hands
          nextr,                \* the worker it polled last
          offline,              \* the workers whose EOS it has got
          neos,                 \* the number of EOS it has got; 0 again at the end
          main                  \* whom main() waits for

lbVars == <<lb, sending, nextw, turn, retry>>
workerVars == <<worker, task>>
gtVars == <<gt, gathered, nextr, offline, neos>>
ffVars == <<lbVars, running, inq, outq, workerVars, gtVars, main>>

FFInit == /\ lb = "svc" /\ sending = EOS
          /\ nextw = -1
          /\ running = number_of_workers
          /\ turn = 0 /\ retry = <<>>
          /\ inq = [w \in Workers |-> <<>>]
          /\ outq = [w \in Workers |-> <<>>]
          /\ worker = [w \in Workers |-> "pop"]
          /\ task = [w \in Workers |-> EOS]
          /\ gt = "gather" /\ gathered = EOS
          /\ nextr = -1
          /\ offline = {}
          /\ neos = 0
          /\ main = "workers"

-----------------------------------------------------------------------------
(* The load balancer                                                       *)

HasRoom(w) == Len(inq[w]) < inbufferentries

\* ff_send_out(t) in the emitter's svc() enters schedule_task.
SendOut(t) ==
  /\ lb = "svc"
  /\ lb' = "schedule"
  /\ sending' = t
  /\ UNCHANGED <<nextw, running, turn, retry, inq, outq, workerVars, gtVars, main>>

\* selectworker()
NextWorker == (nextw + 1) % running

\* Mutant: schedule_task goes on to the next task when the queue was full.
GivesUp(w) == TRUE

\* schedule_task returns when the task is in a queue.
Scheduled(w) == HasRoom(w)

\* One turn of the loop: try the next worker, and try again if put() fails.
Schedule ==
  /\ lb = "schedule"
  /\ nextw' = NextWorker
  /\ inq' = IF HasRoom(NextWorker)
            THEN [inq EXCEPT ![NextWorker] = Append(@, sending)]
            ELSE inq
  /\ lb' = IF Scheduled(NextWorker) THEN "svc" ELSE "schedule"
  /\ UNCHANGED <<sending, running, turn, retry, outq, workerVars, gtVars, main>>

\* The emitter's svc() returns EOS, which push_eos() broadcasts.
EmitterEnds ==
  /\ lb = "svc"
  /\ lb' = "broadcast"
  /\ UNCHANGED <<sending, nextw, running, turn, retry, inq, outq, workerVars, gtVars,
                 main>>

\* Mutant: a full queue is not remembered.
NotRemembered(w) == retry

\* The list of workers to retry after a failed put()
Remembered(w) == Append(retry, w)

\* The for loop of broadcast_task
Broadcast ==
  /\ lb = "broadcast"
  /\ turn < running
  /\ IF HasRoom(turn)
     THEN inq' = [inq EXCEPT ![turn] = Append(@, EOS)] /\ UNCHANGED retry
     ELSE retry' = Remembered(turn) /\ UNCHANGED inq
  /\ turn' = turn + 1
  /\ UNCHANGED <<lb, sending, nextw, running, outq, workerVars, gtVars, main>>

\* The loop is left by comparing with running, which main() may have reset.
BroadcastDone ==
  /\ lb = "broadcast"
  /\ turn >= running
  /\ lb' = "retry"
  /\ UNCHANGED <<sending, nextw, running, turn, retry, inq, outq, workerVars, gtVars,
                 main>>

\* while (retry.size()): the failed workers are tried again, from the back.
Retry ==
  /\ lb = "retry"
  /\ IF retry = <<>>
     THEN lb' = "returned" /\ UNCHANGED <<inq, retry>>
     ELSE /\ HasRoom(Last(retry))
          /\ inq' = [inq EXCEPT ![Last(retry)] = Append(@, EOS)]
          /\ retry' = Front(retry)
          /\ UNCHANGED lb
  /\ UNCHANGED <<sending, nextw, running, turn, outq, workerVars, gtVars, main>>

-----------------------------------------------------------------------------
(* The workers                                                             *)

WorkerPop(w) ==
  /\ worker[w] = "pop"
  /\ inq[w] # <<>>
  /\ task' = [task EXCEPT ![w] = Head(inq[w])]
  /\ inq' = [inq EXCEPT ![w] = Tail(@)]
  /\ worker' = [worker EXCEPT ![w] = IF Head(inq[w]) = EOS THEN "eos" ELSE "svc"]
  /\ UNCHANGED <<lbVars, running, outq, gtVars, main>>

\* svc() has returned the task.
WorkerPush(w) ==
  /\ worker[w] = "svc"
  /\ outq' = [outq EXCEPT ![w] = Append(@, task[w])]
  /\ worker' = [worker EXCEPT ![w] = "pop"]
  /\ UNCHANGED <<lbVars, running, inq, task, gtVars, main>>

WorkerPushEOS(w) ==
  /\ worker[w] = "eos"
  /\ outq' = [outq EXCEPT ![w] = Append(@, EOS)]
  /\ worker' = [worker EXCEPT ![w] = "returned"]
  /\ UNCHANGED <<lbVars, running, inq, task, gtVars, main>>

-----------------------------------------------------------------------------
(* The gatherer                                                            *)

\* selectworker(): round-robin, past the workers that are offline.
Skips(k) == \A j \in 1..(k - 1) : (nextr + j) % number_of_workers \in offline
Selected == (nextr + CHOOSE k \in 1..number_of_workers :
                       /\ Skips(k)
                       /\ (nextr + k) % number_of_workers \notin offline)
              % number_of_workers

\* Mutants: the gatherer ends one EOS too early; and one too late.
OneEOSEarly(n) == n >= number_of_workers - 1
OneEOSLate(n) == n > number_of_workers

\* The loop of svc() ends: !(neos < running)
AllEOS(n) == n >= number_of_workers

\* gather_task polls the selected worker; nothing is taken from an empty queue.
\* With every worker offline, selectworker() would never return.
Gather ==
  /\ gt = "gather"
  /\ Workers \ offline # {}
  /\ nextr' = Selected
  /\ IF outq[Selected] = <<>>
     THEN UNCHANGED <<outq, gt, gathered, offline, neos>>
     ELSE /\ outq' = [outq EXCEPT ![Selected] = Tail(@)]
          /\ IF Head(outq[Selected]) = EOS
             THEN /\ offline' = offline \cup {Selected}
                  /\ neos' = IF AllEOS(neos + 1) THEN 0 ELSE neos + 1
                  /\ gt' = IF AllEOS(neos + 1) THEN "returned" ELSE "gather"
                  /\ UNCHANGED gathered
             ELSE /\ gathered' = Head(outq[Selected])
                  /\ gt' = "svc"
                  /\ UNCHANGED <<offline, neos>>
  /\ UNCHANGED <<lbVars, running, inq, workerVars, main>>

\* The collector's svc() has returned; there is no output queue.
Collected ==
  /\ gt = "svc"
  /\ gt' = "gather"
  /\ UNCHANGED <<lbVars, running, inq, outq, workerVars, gathered, nextr, offline, neos,
                 main>>

-----------------------------------------------------------------------------
(* run_and_wait_end() in main()                                            *)

\* Mutant: running is reset before the workers have been joined.
ResetEarly == TRUE

WorkersReturned == \A w \in Workers : worker[w] = "returned"

\* lb->wait() joins the workers and resets running before it joins the load
\* balancer, whose thread reads running.
WaitWorkers ==
  /\ main = "workers"
  /\ WorkersReturned
  /\ running' = -1
  /\ main' = "lb"
  /\ UNCHANGED <<lbVars, inq, outq, workerVars, gtVars>>

WaitLB ==
  /\ main = "lb" /\ lb = "returned"
  /\ main' = "gt"
  /\ UNCHANGED <<lbVars, running, inq, outq, workerVars, gtVars>>

WaitGT ==
  /\ main = "gt" /\ gt = "returned"
  /\ main' = "joined"
  /\ UNCHANGED <<lbVars, running, inq, outq, workerVars, gtVars>>

-----------------------------------------------------------------------------
(* The steps that are FastFlow's own                                       *)

LBStep == Schedule \/ Broadcast \/ BroadcastDone \/ Retry
WorkerStep(w) == WorkerPop(w) \/ WorkerPushEOS(w)
MainStep == WaitWorkers \/ WaitLB \/ WaitGT

-----------------------------------------------------------------------------
(* Properties                                                              *)

\* The EOS is the last thing that passes through each queue, although it may
\* overtake the broadcast to other workers and is retried when a queue is full:
\* a worker that has got it leaves no task behind, nor does the gatherer in the
\* queue of a worker that is offline.
EOSComesLast ==
  /\ \A w \in Workers : worker[w] \in {"eos", "returned"} => inq[w] = <<>>
  /\ \A w \in offline : worker[w] = "returned" /\ outq[w] = <<>>
  /\ gt = "returned" => \A w \in Workers : inq[w] = <<>> /\ outq[w] = <<>>

\* selectworker() of the gatherer loops until it finds a worker that is not
\* offline; there is one whenever it is called.
SelectWorkerReturns == gt # "returned" => Workers \ offline # {}

\* main() resets running while the load balancer may still be in its broadcast
\* loop, which compares with it: by then every worker has got its EOS, so that
\* leaving the loop at once leaves nobody out.
ResetIsHarmless ==
  running = -1 => /\ lb \in {"broadcast", "retry", "returned"}
                  /\ turn = number_of_workers /\ retry = <<>>
=============================================================================
