# Verification of the parallel watermarking programs

The repository marks copies of a photo with a watermark, five times over:
sequentially (`sequential.cpp`), as a farm and as a map on C++ threads
(`farm.cpp`, `map.cpp`, with the queue of `util.cpp`), and as a farm and as a
map on FastFlow (`fastflow_farm.cpp`, `fastflow_map.cpp`, with the vendored
library in `ff/`). This directory holds TLA+ modules of the concurrent parts,
TLC configurations that check them on small instances, and proofs for TLAPS
that hold for every instance.

    tlc -config MonitorQueue.cfg MCMonitorQueue
    tlc -config PthreadFarm.cfg MCPthreadFarm
    tlapm PthreadFarmProofs.tla

`PROJECT.json` lists the runs, the lines of code behind each definition, the
mutants (plausible bugs that make each property fail) and the hazards.

## Inventory

| Part | State | Operations | Interacts through | Correct when |
|---|---|---|---|---|
| Blocking queue, `util.cpp` | mutex, condition variable, deque | `push`, `pop`, `isEmpty` | called by all threads of the pthread programs | FIFO; nothing lost or doubled; no consumer asleep beside a value |
| Farm, `farm.cpp` | two queues, `counter_worker`, `Photos_Done`, `count`, measured times | emitter, worker, collector, joins | the queues; pixels through raw pointers | each photo marked and stored exactly once; all threads end |
| Map, `map.cpp` | two queues per worker, `results`, `images_done`, `counter_worker` | scatter, worker, polling collector, joins | the queues; the pixels of one photo are shared by all workers | rows split without gap or overlap; a photo stored once, after its last row |
| Sequential, `sequential.cpp` | the photos | one loop | - | it is the reference |
| FastFlow farm, `fastflow_farm.cpp` | `photos`, `images_done`, `counter_worker` | emitter, worker and collector `svc` | queues of the FastFlow farm | as the farm |
| FastFlow map, `fastflow_map.cpp` | `photos`, `results`, `photos_completed` | the same | queues of the FastFlow farm, any worker takes any portion | as the map |
| Load balancer, gatherer, `ff/lb.hpp`, `ff/gt.hpp` | next worker, `running`, `offline`, `neos` | `schedule_task`, `broadcast_task`, `gather_task`, `wait` | one SPSC queue per worker and direction; `main()` resets `running` | no task lost or doubled; ends after the last EOS |
| SPSC queues, `ff/buffer.hpp`, `ff/ubuffer.hpp`, `ff/dynqueue.hpp` | ring with two indexes; list of rings, cache of rings, cache of list nodes | `push`, `multipush`, `pop`, `reset` | one producer, one consumer, no lock | FIFO; "full" and "empty" true when said; nothing recycled while in use |
| Barrier, threads, `ff/barrier.hpp`, `ff/node.hpp`, `ff/farm.hpp` | two counters and a flag per thread; `freezing`, `frozen`, `stp` | `barrierSetup`, `doBarrier`; `run_and_wait_end`, `run_then_freeze`, `wait_freezing`, `wait` | all threads of a farm and the program | nobody starts early; each node runs once for each run of the farm; every call returns |
| Parallel loops, `ff/parallel_for.hpp`, `ff/parallel_for_internals.hpp` | task table, wake-up tasks, `maxid`, the barrier | `setloop`, `run_then_freeze`, `nextTaskConcurrent`, `wait_freezing` | caller and workers through the table and the barrier | body run once per index; the call returns |
| Ordered farm, `ff/ordering_policies.hpp` | - | - | - | not modelled yet |
| CImg, the rest of `ff/`, `util.h` | - | - | - | library code, not modelled |

The hard behaviours: a notification sent after the mutex is released, spurious
wake-ups, consumers that overtake each other; the end-of-stream protocol (one
EOS per worker, passed on to a collector that keeps receiving photos of slower
workers); the unsynchronised `counter_worker` and `isEmpty()`; portions of one
photo marked concurrently in shared pixels; in FastFlow, bounded queues with
retries and lock-free algorithms. Nothing is persisted and no message crosses a
network, so there is no crash recovery or loss to model. `PROJECT.json` lists
every hazard at its line.

## Plan

1. `FifoChannel`, `MonitorQueue`: the queue everything rests on. Done, proved.
2. `MarkedBatch`, `PthreadFarm`: the farm. Done, proved with its refinement and
   the parallel time.
3. `Partition`, `PthreadMap`: the map. Done, proved with the partition of the rows
   and its refinement.
4. `FFFarm`: load balancer, worker threads and gatherer of FastFlow, with the user
   code of `fastflow_farm.cpp` (`FastflowFarm`) and of `fastflow_map.cpp`
   (`FastflowMap`), both to implement `MarkedBatch`. Done, proved with both
   refinements.
5. `SpscRing` (`ff/buffer.hpp`), `UnboundedSpsc` (`ff/ubuffer.hpp` with its pool,
   on `DynQueue` for `ff/dynqueue.hpp`): both implement the FIFO channel that
   `FFFarm` takes for granted. Done, proved with both refinements.
6. `SpinBarrier` and `FFThreads`: start, freezing, thawing and end of the FastFlow
   threads, for programs with and without assertions. Done, proved except for `CallsReturn`.
7. `LoopCalls`, `ParallelFor`: the loops of FastFlow on spinning workers. Done, proved
   with the refinement, except for the loops with a grain and the return of every call.
8. Left: the ordered farm (`ff/ordering_policies.hpp`) and the loops with a
   scheduler thread.
9. Left to prove: the refinement of `LoopCalls` by loops with a grain. Every invariant
   that a run checks, and every refinement, is stated by a theorem.

## Modules

**`FifoChannel`** is what the queue promises: `Push` appends, `Pop` removes the
oldest value. **`MonitorQueue`** is the class `queue<T>` statement by statement:
`PushLock`, `PushInsert`, `PushUnlock`, `NotifyOne` for `push()` and `PopLock`,
`PopWait`, `PopRelock`, `PopTake`, `PopReturn` for `pop()`, plus
`SpuriousWakeup`. `wait(lock, predicate)` is the loop the standard defines. The
deque is a sequence from its back to its front, so `push_front` appends.

**`MarkedBatch`** is what all versions promise: each photo is marked once,
handed over once and only after that, and the program finishes when all have been
handed over. "Once" matters because marking is not idempotent: it replaces the
colours of a pixel by a third of their mean.

**`PthreadFarm`** has one process for the emitter, one per worker and one for the
collector, and `Join` for `main()`. The queues are sequences with the atomic
operations of `FifoChannel`, which is justified by the refinement of
`MonitorQueue`. `counter_worker++` is a load and a store. Elapsed times are
abstracted to what they were measured on: the photo of the ideal service time,
and the photos already marked when the parallel time was taken. The pixels of a
photo are abstracted to a count of how often it was marked, which is sound
because a photo is marked by one thread at a time (`OneOwner`).

**`Partition`** is the closed form of the loop that splits the rows.
**`PthreadMap`** runs that loop as the code does, marks row by row, and splits
the push into a worker's output queue in two, so that the collector's
unsynchronised `isEmpty()` can fall between. That read is a data race: the model
lets it return the state before or after the insertion.

**`FFFarm`** is the part of FastFlow that both FastFlow programs run on: a farm with
on-demand scheduling in non-blocking mode, without feedback. The load balancer's
thread is in the emitter's `svc()` (`lb = "svc"`), in `schedule_task`
(`Schedule`, one action per failed or successful `put()`), or in the two loops of
`broadcast_task` (`Broadcast`, `Retry`). A worker is in `Pop`, in `svc()` or
passes its EOS on. The gatherer polls with `Gather`, one action per `get()`; the
inner loop of `selectworker()` is the function `Selected`. `WaitWorkers`, `WaitLB`
and `WaitGT` are the joins of `run_and_wait_end()`; the first resets `running`,
which the load balancer may still be reading. Input queues are bounded
sequences, `inbufferentries` long; output queues are unbounded. What happens in
`svc()` is left to the modules that extend it: **`FastflowFarm`** and
**`FastflowMap`** add the emitter's loop with `SendOut`, the steps of a worker
between `WorkerPop` and `WorkerPush`, and the collector's work in the step
`Collected`. The properties of the skeleton itself are checked in the run of the
farm. In `fastflow_map.cpp` any worker may get any portion, so what keeps
workers apart is the partition alone. The queues carry pointers there, so two empty
portions of a photo are different tasks: `index` tells them apart.

**`Occurrences`** counts values in sequences, for the properties.

**`SpscChannel`** is `FifoChannel` with batches. **`SpscRing`** is
`SWSR_Ptr_Buffer`: `Look`, one `WriteCell` per value and `MoveWrite` for `push()`
and `multipush()`, `ReadCell`, `ClearCell` and `MoveRead` for `pop()`, so that the
two threads meet between any two accesses. The consumer never reads `pwrite` nor
the producer `pread`; a NULL cell is all they tell each other. A batch is written
from its last cell to its first, which hides it from the consumer until it is
complete, except that the consumer may already take its first value before
`pwrite` has moved. `Reset` is the call of the pool and of `farm`, when nobody is
inside.

**`DynQueue`** has the single accesses of the list of `dynqueue.hpp`, and
**`UnboundedSpsc`** their order: `push()` is `FindRoom` or `NewRing`, `InusePush`
and `TurnToNewRing`, then `Put`; `pop()` is `LookFirst`, `Compare`, `LookAgain`,
`InusePop`, `ResetRing`, `ReleaseRing`, `TurnToNextRing`, `Take`. The operations of
one ring are atomic here, by the refinement of `SpscRing`. `malloc` returns an
address as soon as it is free again, which is the choice a stale pointer suffers
from most.

**`SpinBarrier`** has the steps of `doBarrier()` (`FlipFlag`, `Arrive`, then
`ResetCounter` for the last thread and `SpinEnds` for the others) and
`BarrierSetup`. Its two users say who enters and under which tid.
**`FFThreads`** is one: the program makes calls on a farm, `run_and_wait_end()`
(`RunAndWaitEnd`, or `EndFrozen` if the farm is frozen), `run_then_freeze()`
(`RunThenFreeze`, or `RunFrozen`), `wait_freezing()` (`CallWaitFreezing`) and `wait()`
(`Wait`). They go through the threads one by one (`Spawn`, `TellToStop`, `ThawOne`,
`WaitFreezing`, `Stop`, `ThawToStop`, `Join`). A farm counts as frozen as soon as its
threads have been told to freeze, so the branches for a frozen farm are taken before
the threads are parked, too; the collector's `thaw()` asserts that it has been waited
for since (`gathering`), and `Abort` is the end of a program whose assertion fails. Two
constants say which programs are meant: `Asserts`, whether it is built with its
assertions, as the compile lines of the repository's `README.md` build it, and
`WaitsAtOnce`, whether it may call `wait()` for threads it has thawed and not waited
for. Each thread is in `thread_routine()` (`Enter`, `Cross`, `Svc`,
`Freeze` or `GoOn`, `WakeUp`, `LoopOrLeave`, `Finish`, `LastWord`). A critical
section of the thread's mutex is one action, accesses outside it are their own;
the stream is reduced to its EOS. It assumes that the farm is the only user of the
program's thread counter (`OneBarrier`), as in the two programs.

**`LoopCalls`** is what a loop promises: between call and return the body runs
once for each index of the loop and for no other. **`ParallelFor`** is the other
user of the barrier: the caller fills the task table (`SetLoop`, with `InitData`,
`InitShares` or `InitRoundRobin`), sets up the barrier, wakes the workers and waits;
a worker looks for a task, loads its start, claims it by compare-and-swap, counts
it and runs the body, and when it finds nothing steals from the range with the most
tasks. The loop that lays the ranges one after the other is in closed form, `Piece`,
which an assumption of `MCParallelFor` compares with the code's loop. `max_element()`
is a step per element over a table that others change.
`TeamMayChange` says whether a loop may run on another number of workers than the
one before; it is a constant because the code is wrong if it may (see Findings).

Memory order: the models interleave the accesses of all threads in program order.
The repository is built for x86, where a store may be delayed behind later loads of
the same thread but stores are seen in their order, `WMB()` is empty and
`compare_exchange_weak` fails only if the values differ. In the ring, a delayed
store makes the other thread see a cell full or empty for longer, as if it had
looked before the write. On weaker processors the plain accesses of the ring and of `stp` would
be data races that these models do not cover.

## Runs and bounds

| Run | Instance | Shows |
|---|---|---|
| `monitor_queue` | 2 producers, 2 consumers, 3 pushes, 2 values, 1 spurious wake-up | no wake-up is lost, the queue implements the channel, every value is taken |
| `farm` | 2 workers, 3 photos | one owner per photo, EOS conserved, nothing left behind, the parallel time misses few photos, refinement, termination |
| `farm_counter` | the same | `counter_worker` is not atomic, although `farm.cpp:31` says so |
| `map` | 2 workers, 2 photos of 1, 2 or 3 rows | own rows only, stored when complete, polling never blocks, service time recorded, refinement, termination |
| `ff_farm` | 2 workers with queues of 1, 3 photos | one owner per photo, EOS last in every queue, the gatherer's `selectworker()` returns, `running` is not reset too early, service time recorded, refinement, termination |
| `ff_map` | 2 workers with queues of 1, 2 photos of 1, 2 or 3 rows | no row shared, stored when complete, refinement, termination |
| `spsc_ring` | rings of 1 to 4 cells, batches of 1 to 3 values, 7 values | "full" and "empty" are true when answered; refinement of the channel with batches |
| `unbounded_spsc` | rings of 1 and 2, caches of 1, 6 values | no recycled ring or node is in use; `pop()` fails only on an empty queue; refinement; every value comes out |
| `parallel_for` | 2 workers, 2 loops of 8 shapes in any order | no chunk is stranded; refinement of `LoopCalls`; every call returns |
| `parallel_for_stride` | 2 workers, 1 static loop with step 2 and grain 1 | the body runs for indexes that are not in the loop |
| `parallel_for_teams` | 3 workers, a loop on 2 and one on 3 | the second call may never return |
| `ff_threads` | a farm of 2 workers (4 threads), 4 runs, with assertions | common start; when the threads rest, one run of each node per run of the farm that is not cut off; every call returns or fails an assertion |

Two consumers and two producers are the least with which a notification, a
newcomer and a woken thread compete; three pushes serve one consumer twice. The
single spurious wake-up (`MaxSpurious`) may come at any point; `MaxPush` bounds
the calls of `push()`. With two workers and three photos one worker
marks at least two photos, one may take its EOS while the other still works, and
they race for the counter. Heights of one, two and three rows are fewer rows than
workers, an even split and a remainder. In the FastFlow runs the queues hold one
task, the default of `set_scheduling_ondemand()` that the programs use; three photos
or four portions are more than both queues hold, so `put()` fails both for tasks and
for the EOS. Rings of one cell are the case in which producer and consumer share every cell, and
seven values turn both indexes around in the largest ring. With rings of one value
and caches of one element, the unbounded queue needs a new ring for nearly every
push, and its caches are empty, used and full within six pushes. The eight loops are
the cases of the table: even shares, a task left over, doubled chunks, a short last
chunk, fewer tasks than workers, shares with and without remainder, an empty share,
round robin; two in a row (`MaxLoops`) show what a loop leaves behind. Four runs
(`MaxRuns`) freeze a farm, run it frozen twice, join it and start it again, and show
the barrier on both counters with flags left from earlier runs.

Deadlock is checked in the programs, which stutter only after their end, and in the
queues of FastFlow, which `reset()` lets go on; `MonitorQueue` turns it off because
consumers that call `pop()` on a queue nobody fills any more rightly wait for ever,
and so do `ParallelFor` and `FFThreads`, whose caller stops after its last call
while the threads wait for another, or ends at an assertion.

## Findings

In `farm_counter` TLC finds two workers that load the same value of
`counter_worker`. With lost increments the test `counter_worker == 1` may hold
for several photos and the ideal service time is measured more than once; without
them, two workers that both increment before either tests skip it altogether.

In `parallel_for_stride` the second worker of `parallel_for_static(0, 8, 2, 1, ...)`
runs the body for 1 and 5: `ff/parallel_for_internals.hpp:509` places the first
chunk of worker *i* at `start + i * chunk`, without the step, and the loop over its
chunks keeps that offset.

In `parallel_for_teams` the last worker to arrive resets the counter and the caller
returns while a slow worker has not yet looked. The next loop has another number of
workers, so `barrierSetup()` resets flags and counters, and the others arrive on the
counter the slow worker watches. It waits for a 0 that does not come, its wake-up
task is not taken, and the loop never ends. The comment at line 1051, that all
workers have crossed the barrier, is true only while the team stays the same: then
the flags differ from round to round. Since `setloop()` lowers the number of workers
to the number of tasks, two calls with the same `nw` are enough.

## Calls on a frozen farm

What `ff_threads` and the theorems on runs say has limits that a user of `ff/farm.hpp`
would not guess from its comments. They are part of `FFThreads`.

`run_and_wait_end()` of a frozen farm runs no node. `ff/farm.hpp:1260` says "It executes
the farm and waits for all workers to complete their tasks", but lines 1266 to 1271 call
`stop()` before `thaw()`: the threads wake up, find `stp` set at `ff/node.hpp:271` and
end. `EndFrozen` is this branch, and `AllAtRest` counts these calls apart, in `cutOff`.

`run_then_freeze()` and `run_and_wait_end()` take the branch of a frozen farm even if the
threads have not parked since they were started or thawed, because `isfrozen()` is
`freezing > 0`. The collector's `thaw()` then fails `assert(running==-1)`
(`ff/gt.hpp:855`), which only `wait_freezing()` and `wait()` make true. The program
aborts after emitter and workers have been thawed. Without the assertions it goes on:
two thaws before a thread parks set `freezing` to 2 twice (`ff/node.hpp:397`), the
thread runs its node once for both, and nobody notices; or `run_and_wait_end()` stops a
thread that has still to run, and the others wait for its EOS. With `Asserts = FALSE` in
`FFThreads.cfg` both `AllAtRest` and `CallsReturn` are false.

`run_then_freeze()` of a frozen farm followed by `wait()` may skip the run or hang.
`wait()` sets `stp` while a thawed thread is on its way to `while(!stp)`; the thread
leaves without running its node, its EOS is never sent, and a thread that has begun its
run waits for it for ever. With `WaitsAtOnce = TRUE` both properties are false again.
With `wait_freezing()` between the two calls nothing is lost.

## Fairness

Weak fairness for each thread: the operating system runs a thread that can run.
The threads of FastFlow and the collector of `map.cpp` spin instead of sleeping:
for them it says that a thread goes on polling. It says nothing of the order of
two threads, so a `put()` may fail any finite number of times.
In `MonitorQueue` that includes a thread waiting for the mutex, for which weak
fairness is enough, because producers stop after their pushes and a consumer that
waits again is blocked on the condition variable, not on the mutex. Nothing
forces a spurious wake-up, and nothing is assumed about which blocked consumer a
notification wakes or which worker gets the next photo. In `UnboundedSpsc` the
consumer calls `pop()` again and again, as FastFlow's threads do. In `FFThreads`
the program need not make another call, but goes on with the one it has made; in
`ParallelFor` the caller's thread is scheduled like the workers'.

## Proofs

| Theorem | Module | Holds for |
|---|---|---|
| `TypeCorrect`, `WakeupsAreNotLost`, `QueueImplementsChannel` | `QueueProofs` | any finite sets of producers and consumers, any values and bounds |
| `TypeCorrect`, `EOSAreConserved`, `CollectorLeavesNothing`, `PhotosHaveOneOwner`, `ParallelTimeIsClose` | `PthreadFarmProofs` | any finite set of workers, any number of photos |
| `FarmImplementsBatch` | `PthreadFarmProofs` | the same, with one worker at least |
| `RowsTiled` | `DataProofs` | any height, any positive number of workers |
| `WorkersGetTheirRows`, `MarkingStaysInOwnRows`, `FlowInvariant`, `PollingIsSafe`, `StoredPhotosAreMarked`, `ServiceTimeIsRecorded`, `PthreadMapImplementsBatch` | `PthreadMapProofs` | any positive number of workers, any number of photos, any positive heights |
| `FarmInvariant`, `EOSLast`, `SelectionEnds`, `EarlyResetHarmless`, `ServiceTimeIsRecorded`, `PhotosHaveOneOwner`, `FastflowFarmImplementsBatch` | `FastflowFarmProofs`, on the lemmas of `FFFarmProofs` | any positive number of workers, any room in the input queues, any number of photos |
| `MapInvariant`, `FarmKeepsItsPromises`, `RowsAreNotShared`, `StoredPhotosAreMarked`, `FastflowMapImplementsBatch` | `FastflowMapProofs`, on the lemmas of `FFFarmProofs` and `DataProofs` | the same, and any positive height |
| `CellsHoldTheContents`, `AnswersAreHonest`, `RingImplementsChannel` | `LockFreeProofs` | any size, values, batches and number of pushes |
| `UnboundedNumbered`, `RecycledIsNeverUsed`, `EmptyIsHonest`, `UnboundedImplementsChannel` | `QueueProofs` | rings of any size, caches of any capacity, any sets of addresses for rings and nodes, any number of pushes |
| `TwoRoundsAtATime`, `NobodyLeavesEarly` | `LockFreeProofs` | any finite set of threads, any number of rounds |
| `FarmBarrierInOrder`, `ThreadsStartTogether` | `LockFreeProofs` | any positive number of workers, any sequence of the calls modelled, with and without assertions |
| `RunsAreCounted`, `ThreadsComeToRest` | `LockFreeProofs` | any positive number of workers, any sequence of the calls modelled in a program that is built with its assertions and calls `wait()` for thawed threads only after `wait_freezing()` (`Asserts`, `~WaitsAtOnce`) |
| `LoopsKeepTheirTable`, `TasksAreNotStranded` | `LockFreeProofs` | any number of workers, any loops with an index at least, in any order, if the team stays the same |
| `LoopsRunOnce` | `LockFreeProofs` | the same, for loops without a grain |

*Lost wake-ups.* `NoLostWakeup` is inductive together with `QueueTypeOK`: as long as
somebody is blocked, the values in the deque do not outnumber the producers that
have yet to notify plus the consumers that have yet to look. An insertion adds a
value and its producer; a notification trades its producer for a woken consumer; a
consumer blocks only if the deque is empty.

*Nothing left behind.* The counts of EOS are not enough: they do not say that an
EOS comes behind all photos. `FarmInv` adds that nothing but EOS follows an EOS in
`original_photos`, that a worker which has taken its EOS leaves no photo there,
that a photo between the queues is held by a worker that has not returned, and
that no photo is lost. When the collector has counted one EOS per worker, all
workers have returned, so no photo is held; none is in `original_photos`; and in
`marked_photos` every EOS of a worker follows all its photos.

*One owner, one marking.* That a photo has one owner is not inductive as a statement
about sets of owners; `OwnedOnce` makes it a sum: with the emitter, in
`original_photos`, held, in `marked_photos` and stored are counted together and give
1, and every step moves one unit from one term to the next. A second sum says what
`times` amounts to: the holders that have marked the photo, and its places behind
the workers. A worker about to mark is the only holder and no marker, so `times` is
0; a photo that the collector takes has been marked and is not stored. These are the
guards of `MarkedBatch`, and `Join` is its end by `NothingLeftBehind`. Without
workers `main()` would join at once, so the refinement assumes there is one.

*The parallel time.* When the first EOS comes out of `marked_photos`, one worker has
returned, and no photo is left in `original_photos`, because the EOS that this worker
took was behind all of them. A photo not yet marked is therefore in the hands of a
worker, and `OwnedOnce` makes these workers different ones: an injection from the
unmarked photos into the workers that have not returned, of which there are fewer
than workers.

*Row tiling.* `Start(h, n, i + 1) = Start(h, n, i) + Share(h, n, i)`, the first
portion starts at 0, the last ends at `h`, and starting points grow, so portions do
not overlap. That every row is in some portion is shown by computing it: the row
lies among the first `h % n` portions, which have one row more, or behind them.

*Rows of the map.* `OwnRowsOnly` is not inductive: it says nothing of the loop of
`scatter` that computes the portions. `MapInv` adds that `allocation` and
`partitions` are what the closed form gives for portion `i` before the decrement,
which uses the lemmas on `Share` and `Start` of `DataProofs`, and that a worker's
row stays below the length of its portion; `MarkingStaysInOwnRows` follows for each
step that marks.

*Portions of the map.* `PathInv` counts the places of each portion: before `scatter`,
in the worker's input queue, in its hands, in its output queue. The sum is 1 until the
portion has arrived at the collector and 0 then, and `ResultsInv` says that `results`
counts the zeros and that the photo has been stored if all are. `MarksInv` ties the
marking of each row to the place of its portion: not at all before the worker has
taken it, up to `y` while the worker is in its loop, once from then on. A photo that
is stored has all its portions behind the workers, so all rows are marked once: this
is `DoneMeansMarked`, and the guards of `MarkedBatch` follow. `EOSInv` orders the EOS
of each worker behind its portions; that no pop of the collector blocks is inductive
beside it, because only the collector takes from the output queues. `SampleInv` says
that a worker past the test of `counter_worker` has recorded the service time or read
a counter that another worker could only have incremented after recording it.
For the sets of values to be disjoint, `MapAssumption` says that EOS is no portion.

*The FastFlow farm.* `FFInv` is about the skeleton alone and takes the set of tasks
as a parameter, with one lemma for each step of `FFFarm`, so that any program on the
skeleton may use it. Worker *w* is `Pending` until its EOS has been sent: its turn has
not come, or its queue was full and it waits in `retry`, where each worker is once.
While it is, there is no EOS in its queues and it has not returned; afterwards the EOS
is the last thing in the one queue or the other, until the worker is offline.
`GathererInv` says that `neos` counts the workers offline. `ResetIsHarmless` is part
of it: `main()` resets `running` after it has joined the workers, which return only
after their EOS. `FFFarmProofs` also follows a single task through the skeleton, said
without a sum over the queues: it is `HeldOnce` if the stages count 1 and all workers
0, or one worker counts 1 and all else 0, and `Absent` if all count 0. Every step of
the skeleton keeps both; `SendOut` brings an absent task in and `Collected` takes one
out. It is `Waiting` from `SendOut` until a worker pops it.

On these lemmas `FarmInv` says of the photos of `fastflow_farm.cpp`: `OwnedOnce` as in
`farm.cpp`, `MarkedOnce`, by which `times` is 1 from the moment the
photo has passed `Mark` and 0 before, and `SampleInv` for the service time.

*The FastFlow map.* The tasks depend on the height of the photos, which is chosen at
the start, so `MapInv` has it as a parameter and `MapFull` says that some height makes
it true. `EmitterInv` gives the closed form of the emitter's loops, as in `map.cpp`.
`OwnedOnce` says that a portion is absent before it is sent and is then in the farm
once, until it has arrived; `ResultsInv` that `results` counts the portions that have
arrived, of which there are `number_of_workers`. `MarksInv` ties each row to the place
of its portion: it is marked once, or not at all, according to whether the portion has
been sent, waits no more, and is not in the hands of a worker that has the row still
ahead. So nothing need be said of the portions in the output queues, or of those that
have arrived: all their rows are marked. A worker that marks a row has its portion
alone, by `HeldOnce`; two workers have different portions, which share no row by
`RowsTiled`. A stored photo has all its portions outside the farm, which is
`DoneMeansMarked`. When the gatherer has returned there is no task left in the farm and
the emitter has sent all, so every photo is stored: the guard of `Finish`.

*The ring.* `RingInv` places everything in the ring by its distance from the oldest
value: the cells at distance below `Len(contents)` hold the contents in their order,
the cells of the batch being written hold its last values, all others are NULL, and
the two indexes are where the program counters say. Each answer follows: the last
cell the producer needs is NULL exactly if the values fit. A step of the ring is then
a push of the batch (the write of its first cell), a pop (the clearing of a cell) or
a stutter.

*The unbounded queue.* An address is used again and again, so `UnboundedInv` numbers
the rings in the order in which the producer turns to them: `G[k]` is the address of
the k-th ring, `C[k]` that of the node of `inuse` it comes in, and `V[k]` how many
values have been pushed before it. At every moment the rings from `lo`, the consumer's, to
`hi`, the producer's, are in place, with different addresses, and nothing in place is
in a cache: this is `RecycledIsUnused`, and since `malloc` may return any address that
is free it has to be said of all the places an address can be at. The values in ring k
are the consecutive ones from `V[k]`, so the contents of the queue are those of the
rings in place one after the other. A ring between the two threads is never empty,
because the producer leaves a ring only if it is full and the consumer takes from none
but the first. That is why an empty first ring, with the same ring as the producer's,
means an empty queue (`HonestEmpty`), and why the second look at the ring in `pop()` is
needed: the producer may have filled it and left between the first look and the
comparison. `reset()` of a released ring finds it empty with both threads elsewhere.

*The barrier.* `BarInv` says that there is a round *g* such that every thread is in
round *g* or *g* + 1, that the counter of *g* is 0, so that whoever still spins in
*g* will leave, that the other counter counts the threads which have arrived in
*g* + 1, the last of which is about to reset it, and that each flag has the parity
of its thread's round. The parity is what keeps a fast thread off the counter slow
ones still watch.
All this is said of a party, the threads that take part, since in a loop these need not
be all that may use the barrier.
`LockFreeProofs` carries it over to the farm: `FarmInv` adds that spawning in
the fixed order from a counter that joins have brought back to 0 gives every thread
its own tid, the same in each run.

*Freezing and thawing.* A thread is `Due` while it has still to run its node in this
run, which depends on where it is and on its flags: a parked thread is due if
`freezing` is 2 or the program is about to thaw it, a thread at `while(!stp)` if `stp`
is false. `FlagInv` says when the flags may have these values, above all that `frozen`
is set exactly while a thread that is to be thawed is parked or done, and
`CallInv` how far the current call has got with each thread. Only `svc()` makes a
thread that was due no longer so, and only a new run makes threads due. `StreamInv`
then counts: `runs` is `asked`, less the runs cut off by `run_and_wait_end()` and less
one for those still due; a worker's EOS is there
between the emitter's run and its own, and the collector, which needs as many EOS as
there are workers, is due as long as any worker is.

All this holds until the program thaws threads it has not waited for, and then it need
not hold, as told under "Calls on a frozen farm". `RestInv` therefore says it of programs
that are not `Doomed`. A program that is about to thaw the threads while the collector's
`running` is not -1 is `Doomed`, because the collector is thawed last and its assertion
fails; no step of the program or of a thread saves it. So a build with assertions never gets as far as losing a run. The two theorems assume
`Asserts` for this, and `~WaitsAtOnce` because no assertion looks after `wait()`.

*The parallel loops.* `LoopInv` has three parts. The team: while a loop runs, its
party are the caller and the workers that have been or will be woken, a worker that is called and
not in `svc()` has its wake-up task before it, and the round of the barrier that the
caller waits in is the one all workers enter after their last task; so nobody works
once the caller has left. Other workers are in the barrier's past and stay there, which
needs `~TeamMayChange`: the run `parallel_for_teams` shows that it is false otherwise.
The table: each range is cut into `ntask` chunks of `step * chunk`, the last one
possibly shorter (a share of a static loop without a grain is a single chunk), which is the arithmetic of `setloop()`, `init_data()`
and `init_data_static()` for every step, chunk, remainder and number of workers. The
chunks: a worker claims a chunk by moving the start of the range before it lowers the
counter, so the chunks still in a range are at most its counter, and the difference is
the number of workers that have claimed there and not counted yet. A worker that has
found a counter of 0 therefore leaves no chunk behind, and when the caller returns every
range is empty: this is `NoTaskIsStranded`.

The refinement of `LoopCalls` needs more than that: which indexes a range has, and
where they go. `WorkInv` says that each index of the loop is either in exactly one of
the ranges of the team, or in the claim of exactly one worker, or has been run, once.
It begins with the table: the ranges that `init_data()` and `init_data_static()` fill
in have every index once, whatever is left over (`TablesTile`). A claim splits a range
into the chunk and the rest, which begins a step after the last index of the chunk, so
that both begin with an index of the loop (`SplitRange`); the body then runs for the
indexes of the claim and no others (`BodyOfRange`). Two more parts are needed. Lines
of the table that no worker of the team owns, over which `max_element()` runs all the
same, are exhausted. And a worker that has turned away from its own range, to steal or
to enter the barrier, has left it exhausted, which is where `NoTaskIsStranded` is
used: it read a counter of 0, or claimed and got nothing. Since the caller returns
when all workers have entered the barrier, no index is left in a range or in a claim.
The hypothesis `NoGrain` leaves out the static loops with a grain, whose ranges overlap
and whose body skips the chunks of the others: `parallel_for` checks one of them on
two workers, and with a step above 1 they are wrong (`parallel_for_stride`).

The farm and the loops share the module because they share the lemmas on the barrier.
Each has a barrier of its own there; no theorem about the one mentions a constant of the
other, and their assumptions hold together.

Assumptions are those declared in the modules: disjoint finite sets of threads,
a free-mutex value and an EOS that are no thread, no photo and no portion, a positive number of
workers for the map and the FastFlow farm, rings of at least one cell, an address at
least for a ring and for a node (`malloc` does not fail), one farm per thread counter,
loops that are not empty, as `setloop()` asserts.

Only model-checked: all liveness properties, because TLAPS handles neither
fairness nor `ENABLED`; the refinement `ImplementsLoop` for loops with a grain.
Induction over data and recursive
operators are out of the prover's reach, so no definition here is recursive: the
partition loop of the map is an action, and its closed form is proved invariant; the
one of the parallel loops is part of a single action, and TLC compares its closed form
with the loop on all small cases.

## Not modelled

Of the calls on a farm: `run()`, `freeze_and_run()`, `freeze()`, `thaw()` and `stop()`
made by the program itself; thawing a part of the workers; `wait()` when there are no
threads, and a second `wait_freezing()` of a parked farm; farms without a collector, which
have no assertion, or with all-to-all workers. What is said of any sequence of calls is
said of the four calls that `FFThreads` models.

Of FastFlow: blocking mode, feedback channels, nested skeletons, the ordered farm,
loops with a scheduler thread and reductions, the
lock-protected variants of the queues, and the parts no program of the repository
uses (pipelines, data flow, allocators, the ZeroMQ and GPU nodes). `length()` of the
queues is a rough estimation by its own documentation and has nothing to check.

Of the programs: the loading of files, argument parsing, measured durations and
output, which happen in a single thread before the start and after the end. `util.h`
is included by no program. The models assume a positive number of workers and a
watermark as large as the photo, which the programs do not check.

`CImg.h`, an image library of 61,000 lines and more than half of the source, is
sequential code of which the programs use the pixel accessor, the constructor and
the codecs; a photo's pixels are abstracted to the marking of rows. Together with
the unused parts of `ff/` it is nearly all of the repository by size, so the
modelled share of the lines stays small although the programs' own concurrent code
is modelled completely.
