---------------------------- MODULE ParallelFor -----------------------------
(***************************************************************************)
(* ParallelFor of FastFlow with spinning workers and no scheduler thread   *)
(* (ff_forall_farm with spinwait, spinbarrier and disableScheduler): the   *)
(* main thread cuts the iteration space into one range per worker, wakes   *)
(* the workers and waits for them at the barrier; each worker takes chunks *)
(* of its own range and then steals chunks from the range with most tasks, *)
(* with no lock: a compare-and-swap on the start of a range claims a       *)
(* chunk, and a counter beside it, updated later, says whether there may   *)
(* be another.  One action is at most one access to what others write.     *)
(***************************************************************************)
EXTENDS Integers, SpinBarrier

CONSTANTS Indices, Loops,
          MaxWorkers,           \* maxnw of the constructor
          TeamMayChange,        \* may loops run on different numbers of workers?
          MaxLoops              \* bound: how many loops the program runs

\* The workers and the caller are among the threads that can use a barrier.
ASSUME TeamUsesTheBarrier == 0..MaxWorkers \subseteq BarThreads

\* assert(totaltasks>=1) in setloop(): the loops are not empty.
ASSUME LoopsAssumption ==
  /\ MaxWorkers \in Nat \ {0}
  /\ Indices \subseteq Int
  /\ Loops \subseteq [start : Int, stop : Int, step : Nat \ {0}, chunk : Int,
                     nw : 1..MaxWorkers]
  /\ \A l \in Loops : l.start < l.stop

VARIABLES loop, times,          \* the loop being run; history: runs of its body
          called,               \* history: how many loops have been called
          sched,                \* _chunk, _nw, static_scheduling and maxid of the scheduler
          data,                 \* the table: ntask and the range of each worker
          mpc, woken,           \* the main thread, and the workers it has woken
          inbox,                \* wake-up tasks not yet taken by each worker
          wpc,                  \* where each worker is in svc()
          my                    \* its local variables

LoopWorkers == 0..(MaxWorkers - 1)
Main == MaxWorkers

loopVars == <<loop, times, called, sched, data, mpc, woken, inbox, wpc, my, barVars>>

Calls == INSTANCE LoopCalls WITH running <- mpc # "user"

Least(a, b) == IF a < b THEN a ELSE b
CeilDiv(a, b) == (a + b - 1) \div b

\* A line of the table.
DataPair(n, a, b) == [ntask |-> n, start |-> a, end |-> b]

\* What vector::resize() leaves in a line: 0 if it is new, or what it held.
Kept(i) == IF i \in DOMAIN data THEN data[i] ELSE DataPair(0, 0, 0)

-----------------------------------------------------------------------------
\* numtasks and totalnumtasks: the indexes of a loop, and its chunks
NumTasks(l) == CeilDiv(l.stop - l.start, l.step)
TotalTasks(l, chunk) == CeilDiv(NumTasks(l), chunk)

\* The end of a range of some indexes, which is cut at the end of the loop.  The
\* next range starts one step after the last index of this one: Piece is the
\* closed form, with the number of indexes before the range.
EndOf(l, start, size) == Least(start + (size - 1) * l.step + 1, l.stop)

Piece(l, before, size) ==
  LET start == Least(l.start + before * l.step, l.stop - 1 + l.step)
  IN  [start |-> start, end |-> EndOf(l, start, size)]

\* The range of worker i if each has ntxw tasks and the first ones, as many as
\* more says, one task more.
TasksOf(i, ntxw, more) == ntxw + (IF i < more THEN 1 ELSE 0)

Share(l, i, ntxw, more, chunk) ==
  Piece(l, (i * ntxw + Least(i, more)) * chunk, TasksOf(i, ntxw, more) * chunk)

\* Mutant: the task that is left over makes a range longer and is not counted.
Uncounted(ntxw) == ntxw

\* data[_nw-1].ntask += totalnumtasks
WithTheLeftOver(ntxw) == ntxw + 1

\* init_data(): dynamic scheduling.  Every worker has ntxw tasks of _chunk
\* iterations; of a remainder of several the first workers have one each, and a
\* single one goes to the last worker, or, when all have one task, doubles the
\* chunk.
InitData(l) ==
  LET total == TotalTasks(l, l.chunk)
      few == total < l.nw
      ntxw == IF few THEN 1 ELSE total \div l.nw
      r == IF few THEN 0 ELSE total % l.nw
      more == IF r > 1 THEN r ELSE 0
      cut(i) == Share(l, i, ntxw, more, l.chunk)
      Line(i) == IF r = 1 /\ i = l.nw - 1
                 THEN DataPair(IF ntxw > 1 THEN WithTheLeftOver(ntxw) ELSE 1, cut(i).start, l.stop)
                 ELSE DataPair(TasksOf(i, ntxw, more), cut(i).start, cut(i).end)
      double == r = 1 /\ ntxw = 1
  IN  [table |-> [i \in 0..(l.nw - 1) |-> IF i < total THEN Line(i) ELSE Kept(i)],
       total |-> IF double THEN total - 1 ELSE total,
       chunk |-> IF double THEN 2 * l.chunk ELSE l.chunk]

\* init_data_static() with grain 0: one range per worker, some of them one longer.
InitShares(l) ==
  LET share == NumTasks(l) \div l.nw
      r == NumTasks(l) % l.nw
      cut(i) == Share(l, i, share, r, 1)
  IN  [table |-> [i \in 0..(l.nw - 1) |-> DataPair(1, cut(i).start, cut(i).end)],
       total |-> l.nw,
       chunk |-> IF r > 0 THEN share + 1 ELSE share]

\* init_data_static() with a grain: a worker gets one range from its first chunk
\* to the end of the loop, and the body skips the chunks of the others.  The
\* table keeps its size.
InitRoundRobin(l) ==
  LET grain == 0 - l.chunk
      started == Least(l.nw, TotalTasks(l, grain))
  IN  [table |-> [i \in 0..(started - 1) \cup DOMAIN data |->
                    IF i < started THEN DataPair(1, l.start + i * grain, l.stop) ELSE data[i]],
       total |-> started,
       chunk |-> l.stop]

Filled(l) == IF l.chunk > 0 THEN InitData(l)
             ELSE IF l.chunk = 0 THEN InitShares(l) ELSE InitRoundRobin(l)

\* The body: the loop over one task, and, for a grain, the jump over the others.
Strided(l, a, b) == {i \in Indices : i >= a /\ i < b /\ (i - a) % l.step = 0}

RoundRobin(l, nw, a, b) ==
  LET jump1 == (0 - l.chunk) * l.step
  IN  {i \in Strided(l, a, b) : (i - a) % (nw * jump1) < jump1}

Body(a, b) == IF loop.chunk < 0 /\ loop.nw # 1 THEN RoundRobin(loop, sched.nw, a, b)
              ELSE Strided(loop, a, b)

Run(a, b) == times' = [i \in Indices |-> times[i] + (IF i \in Body(a, b) THEN 1 ELSE 0)]

-----------------------------------------------------------------------------
LoopInit == /\ loop \in Loops
            /\ times = [i \in Indices |-> 0]
            /\ called = 0
            /\ sched = [chunk |-> 1, nw |-> MaxWorkers, static |-> FALSE, maxid |-> -1]
            /\ data = [w \in LoopWorkers |-> DataPair(0, 0, 0)]
            /\ mpc = "user"
            /\ woken = 0
            /\ inbox = [w \in LoopWorkers |-> 0]
            /\ wpc = [w \in LoopWorkers |-> "idle"]
            /\ my = [w \in LoopWorkers |-> [id |-> w, old |-> 0, end |-> 0, max |-> 0, next |-> 0]]
            /\ BarInit

mine == <<wpc, my>>

\* setloop(): the table is filled and the number of workers reduced to the number
\* of tasks; a loop for one worker is run by the main thread itself.  The team is
\* not reset at the barrier, and neither is maxid when there is a grain.
SetLoop(l) ==
  LET tab == Filled(l)
      nw == Least(tab.total, l.nw)
  IN  /\ mpc = "user"
      /\ called < MaxLoops
      /\ TeamMayChange \/ nw = 1 \/ team \in {0, nw + 1}
      /\ called' = called + 1
      /\ loop' = l
      /\ times' = [i \in Indices |-> 0]
      /\ data' = tab.table
      /\ sched' = [chunk |-> tab.chunk, nw |-> nw, static |-> l.chunk <= 0,
                   maxid |-> IF l.chunk < 0 THEN sched.maxid ELSE -1]
      /\ mpc' = IF nw = 1 THEN "alone" ELSE "setup"
      /\ UNCHANGED <<woken, inbox, mine, barVars>>

\* F(startIdx(), stopIdx()) without any worker
RunAlone ==
  /\ mpc = "alone"
  /\ Run(loop.start, loop.stop)
  /\ mpc' = "back"
  /\ UNCHANGED <<loop, called, sched, data, woken, inbox, mine, barVars>>

ReturnAlone ==
  /\ mpc = "back"
  /\ mpc' = "user"
  /\ UNCHANGED <<loop, times, called, sched, data, woken, inbox, mine, barVars>>

\* Mutant: the main thread is not counted in.
JustTheWorkers == sched.nw

TeamSize == sched.nw + 1

\* run_then_freeze(): first the barrier ...
SetupBarrier ==
  /\ mpc = "setup"
  /\ BarrierSetup(TeamSize)
  /\ mpc' = "wake"
  /\ woken' = 0
  /\ UNCHANGED <<loop, times, called, sched, data, inbox, mine>>

\* ... then sendWakeUp(), worker by worker
SendWakeUp ==
  /\ mpc = "wake"
  /\ inbox' = [inbox EXCEPT ![woken] = @ + 1]
  /\ woken' = woken + 1
  /\ mpc' = IF woken + 1 = sched.nw THEN "arrive" ELSE "wake"
  /\ UNCHANGED <<loop, times, called, sched, data, mine, barVars>>

\* wait_freezing(): the main thread enters the barrier under the tid getnw()
MainArrives ==
  /\ mpc = "arrive"
  /\ FlipFlag(Main, sched.nw)
  /\ mpc' = "wait"
  /\ UNCHANGED <<loop, times, called, sched, data, woken, inbox, mine>>

MainWaits ==
  /\ mpc = "wait"
  /\ BarStep(Main)
  /\ mpc' = IF bpc'[Main] = "out" THEN "user" ELSE "wait"
  /\ UNCHANGED <<loop, times, called, sched, data, woken, inbox, mine>>

MainStep == \/ \E l \in Loops : SetLoop(l)
            \/ RunAlone \/ ReturnAlone \/ SetupBarrier \/ SendWakeUp \/ MainArrives \/ MainWaits

-----------------------------------------------------------------------------
caller == <<loop, called, mpc, woken>>

Proceed(w, pc) == wpc' = [wpc EXCEPT ![w] = pc]

\* svc(): the wake-up task is the empty range (0, 0), so the first call of the
\* body does nothing.
Awake(w) ==
  /\ wpc[w] = "idle"
  /\ inbox[w] > 0
  /\ inbox' = [inbox EXCEPT ![w] = @ - 1]
  /\ Proceed(w, "look")
  /\ my' = [my EXCEPT ![w].id = w]
  /\ UNCHANGED <<caller, times, sched, data, barVars>>

\* nextTaskConcurrent(), L1: is there a task in the range of id?
LookForTask(w) ==
  /\ wpc[w] = "look"
  /\ Proceed(w, IF data[my[w].id].ntask > 0 THEN "load" ELSE "none")
  /\ UNCHANGED <<caller, times, sched, data, inbox, my, barVars>>

LoadStart(w) ==
  LET d == data[my[w].id]
      endchunk == (sched.chunk - 1) * loop.step + 1
  IN  /\ wpc[w] = "load"
      /\ my' = [my EXCEPT ![w].old = d.start, ![w].end = Least(d.start + endchunk, d.end)]
      /\ Proceed(w, "claim")
      /\ UNCHANGED <<caller, times, sched, data, inbox, barVars>>

\* Mutant: the new start is stored without comparing.
AnyStart(w) == TRUE

\* The comparison of compare_exchange_weak(); on x86 it fails only if it differs.
StartIsUnchanged(w) == data[my[w].id].start = my[w].old

Claim(w) ==
  /\ wpc[w] = "claim"
  /\ IF StartIsUnchanged(w)
     THEN /\ data' = [data EXCEPT ![my[w].id].start = my[w].end - 1 + loop.step]
          /\ Proceed(w, "count")
     ELSE /\ UNCHANGED data
          /\ Proceed(w, "look")
  /\ UNCHANGED <<caller, times, sched, inbox, my, barVars>>

\* fetch_sub, and the body over what was claimed.  The range may have been
\* exhausted since ntask was read: then ntask falls below 0 and nothing is run.
CountAndRun(w) ==
  LET id == my[w].id
      some == my[w].old < my[w].end
  IN  /\ wpc[w] = "count"
      /\ data' = [data EXCEPT ![id].ntask = @ - 1]
      /\ IF some THEN Run(my[w].old, my[w].end) ELSE UNCHANGED times
      /\ Proceed(w, IF some THEN "look" ELSE "none")
      /\ my' = [my EXCEPT ![w].id = IF some THEN w ELSE id]
      /\ UNCHANGED <<caller, sched, inbox, barVars>>

\* Nothing in this range: look for another one, unless scheduling is static.
\* maxid is where tasks were last found.
LookElsewhere(w) ==
  /\ wpc[w] = "none"
  /\ Proceed(w, IF sched.static THEN "barrier" ELSE IF sched.maxid < 0 THEN "scan" ELSE "victim")
  /\ my' = [my EXCEPT ![w].max = IF sched.maxid < 0 THEN 0 ELSE sched.maxid, ![w].next = 1]
  /\ UNCHANGED <<caller, times, sched, data, inbox, barVars>>

\* One comparison of max_element() over the table as others change it.
Scan(w) ==
  LET m == my[w].max
      n == my[w].next
  IN  /\ wpc[w] = "scan"
      /\ IF n \in DOMAIN data
         THEN /\ my' = [my EXCEPT ![w].max = IF data[m].ntask < data[n].ntask THEN n ELSE m,
                                  ![w].next = n + 1]
              /\ UNCHANGED wpc
         ELSE Proceed(w, "victim") /\ UNCHANGED my
      /\ UNCHANGED <<caller, times, sched, data, inbox, barVars>>

LookAtVictim(w) ==
  /\ wpc[w] = "victim"
  /\ Proceed(w, IF data[my[w].max].ntask > 0 THEN "steal" ELSE "barrier")
  /\ UNCHANGED <<caller, times, sched, data, inbox, my, barVars>>

StealFrom(w) ==
  /\ wpc[w] = "steal"
  /\ sched' = [sched EXCEPT !.maxid = my[w].max]
  /\ my' = [my EXCEPT ![w].id = my[w].max]
  /\ Proceed(w, "look")
  /\ UNCHANGED <<caller, times, data, inbox, barVars>>

\* No more tasks: loopbar->doBarrier(myid), then the next wake-up task.
WorkerArrives(w) ==
  /\ wpc[w] = "barrier"
  /\ FlipFlag(w, w)
  /\ Proceed(w, "wait")
  /\ UNCHANGED <<caller, times, sched, data, inbox, my>>

WorkerWaits(w) ==
  /\ wpc[w] = "wait"
  /\ BarStep(w)
  /\ Proceed(w, IF bpc'[w] = "out" THEN "idle" ELSE "wait")
  /\ UNCHANGED <<caller, times, sched, data, inbox, my>>

WorkerStep(w) ==
  \/ Awake(w) \/ LookForTask(w) \/ LoadStart(w) \/ Claim(w) \/ CountAndRun(w)
  \/ LookElsewhere(w) \/ Scan(w) \/ LookAtVictim(w) \/ StealFrom(w)
  \/ WorkerArrives(w) \/ WorkerWaits(w)

LoopNext == MainStep \/ \E w \in LoopWorkers : WorkerStep(w)

LoopSpec == LoopInit /\ [][LoopNext]_loopVars

\* Every thread of the program is scheduled again and again.
FairLoopSpec == LoopSpec /\ WF_loopVars(MainStep) /\ \A w \in LoopWorkers : WF_loopVars(WorkerStep(w))

-----------------------------------------------------------------------------
\* The chunks not claimed yet in a range, and the workers that claimed a chunk of
\* it and have not counted it.
ChunksIn(d, step, chunk) ==
  IF d.start >= d.end THEN 0 ELSE CeilDiv(CeilDiv(d.end - d.start, step), chunk)

Unclaimed(id) == ChunksIn(data[id], loop.step, sched.chunk)

Uncounting(id) == {w \in LoopWorkers : wpc[w] = "count" /\ my[w].id = id}

\* A worker that finds ntask at 0 goes away for good, and ntask is counted down
\* after the chunk has been claimed, by thieves that may find nothing left: still,
\* while a range has chunks, its ntask is at least their number, so no chunk is
\* stranded (nextTaskConcurrent).
NoTaskIsStranded ==
  mpc \in {"wake", "arrive", "wait"} /\ ~sched.static =>
    \A id \in 0..(sched.nw - 1) :
      Unclaimed(id) > 0 => data[id].ntask = Unclaimed(id) + Cardinality(Uncounting(id))

\* parallel_for(): the body runs exactly once for each index of the loop and the
\* call returns when all have been run, although the workers steal without a lock
\* and only the barrier tells the caller that they are done.
ImplementsLoop == Calls!LcSpec

\* Every call of parallel_for() returns: the workers find an end, and all of them
\* and the caller pass the barrier that ends the loop.
EveryLoopReturns == mpc # "user" ~> mpc = "user"

\* The doc of parallel_for_static(): the iteration space is walked with stride
\* step, so that the body runs only for indexes of the loop.
OnlyItsIterations == \A i \in Indices : times[i] > 0 => i \in Calls!Iterations(loop)
=============================================================================
