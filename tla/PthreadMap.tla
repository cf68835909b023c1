----------------------------- MODULE PthreadMap -----------------------------
(***************************************************************************)
(* map.cpp: the rows of every photo are split among the workers.  scatter  *)
(* sends worker i its portion of each photo through a queue of its own,    *)
(* and an EOS at the end; the worker marks the rows of the portion in the  *)
(* pixels that all portions of the photo share, and passes the portion on  *)
(* through a queue of its own; the collector polls these queues in turn    *)
(* and stores a photo when its last portion has arrived.                   *)
(*                                                                         *)
(* The queues are those of util.cpp.  Scatter_to_worker is used through    *)
(* push() and pop(), the atomic operations of FifoChannel.  The collector  *)
(* also calls isEmpty(), which reads the deque without the mutex while the *)
(* worker may be inside push(), so a push into worker_to_collecter has two *)
(* steps here: taking the mutex, and the insertion that releases it.       *)
(***************************************************************************)
EXTENDS Occurrences, Partition

CONSTANTS number_workers,
          NPhotos,              \* number_of_photos, the copies in memory
          Heights,              \* the heights the input image may have
          EOS                   \* the null pointer

Workers == 0..(number_workers - 1)
Photos == 1..NPhotos

ASSUME MapAssumption == /\ number_workers \in Nat \ {0}
                        /\ NPhotos \in Nat
                        /\ Heights \subseteq Nat \ {0}
                        /\ EOS \notin [photo : Photos, starting : Nat, total_parts : Nat]

VARIABLES height,               \* rows of the input image
          photo, i,             \* the loops of scatter
          partitions, allocation, \* its locals: rows per portion, rows given away
          Scatter_to_worker,    \* one queue per worker
          worker_to_collecter,  \* one queue per worker
          pc,                   \* where each worker is
          ii, y,                \* each worker's portion and row
          marks,                \* how often each row of each photo was marked
          register,             \* counter_worker as a worker has loaded it
          counter_worker,
          samples,              \* history: service times each worker recorded
          results,              \* portions of each photo that have arrived
          images_done,
          collector, polled, counter, \* collector: label, queue index, EOS seen
          main

scatterVars == <<photo, i, partitions, allocation>>
counterVars == <<register, counter_worker, samples>>
collectorVars == <<results, images_done, collector, polled, counter>>
vars == <<height, scatterVars, Scatter_to_worker, worker_to_collecter, pc, ii, y,
          marks, counterVars, collectorVars, main>>

Portion(p, start, parts) == [photo |-> p, starting |-> start, total_parts |-> parts]

Init == /\ height \in Heights
        /\ photo = 1 /\ i = 0
        /\ partitions = (height \div number_workers) + 1
        /\ allocation = 0
        /\ Scatter_to_worker = [w \in Workers |-> <<>>]
        /\ worker_to_collecter = [w \in Workers |-> <<>>]
        /\ pc = [w \in Workers |-> "pop"]
        /\ ii = [w \in Workers |-> EOS]
        /\ y = [w \in Workers |-> 0]
        /\ marks = [p \in Photos |-> [r \in 0..(height - 1) |-> 0]]
        /\ register = [w \in Workers |-> 0]
        /\ counter_worker = 0
        /\ samples = [w \in Workers |-> 0]
        /\ results = [p \in Photos |-> 0]
        /\ images_done = <<>>
        /\ collector = "poll" /\ polled = 0 /\ counter = 0
        /\ main = "joining"

Goto(w, label) == pc' = [pc EXCEPT ![w] = label]

-----------------------------------------------------------------------------
(* scatter                                                                 *)

\* Mutant: the row is taken off one portion too late.
TakenOffLate == IF i = (height % number_workers) + 1 THEN partitions - 1 ELSE partitions

\* if (i == portion_left) partitions--
PartitionsNow == IF i = height % number_workers THEN partitions - 1 ELSE partitions

\* One turn of the inner loop, with the start of the next photo if it is the last.
ScatterPortion ==
  /\ photo <= NPhotos
  /\ Scatter_to_worker' =
       [Scatter_to_worker EXCEPT ![i] =
          Append(@, Portion(photo, allocation, PartitionsNow))]
  /\ IF i + 1 < number_workers
     THEN /\ i' = i + 1
          /\ partitions' = PartitionsNow
          /\ allocation' = allocation + PartitionsNow
          /\ UNCHANGED photo
     ELSE /\ photo' = photo + 1
          /\ i' = 0
          /\ partitions' = (height \div number_workers) + 1
          /\ allocation' = 0
  /\ UNCHANGED <<height, worker_to_collecter, pc, ii, y, marks, counterVars,
                 collectorVars, main>>

\* Mutant: the last worker gets no EOS.
OneEOSLess == number_workers - 1

\* The number of turns of the loop that sends the EOS
EOSTurns == number_workers

ScatterEOS ==
  /\ photo > NPhotos
  /\ i < EOSTurns
  /\ Scatter_to_worker' = [Scatter_to_worker EXCEPT ![i] = Append(@, EOS)]
  /\ i' = i + 1
  /\ UNCHANGED <<height, photo, partitions, allocation, worker_to_collecter, pc, ii, y,
                 marks, counterVars, collectorVars, main>>

ScatterReturned == photo > NPhotos /\ i >= EOSTurns

-----------------------------------------------------------------------------
(* worker(id)                                                              *)

WorkerPop(w) ==
  /\ pc[w] = "pop"
  /\ Scatter_to_worker[w] # <<>>
  /\ ii' = [ii EXCEPT ![w] = Head(Scatter_to_worker[w])]
  /\ Scatter_to_worker' = [Scatter_to_worker EXCEPT ![w] = Tail(@)]
  /\ y' = [y EXCEPT ![w] = 0]
  /\ Goto(w, IF Head(Scatter_to_worker[w]) # EOS THEN "mark" ELSE "eos")
  /\ UNCHANGED <<height, scatterVars, worker_to_collecter, marks, counterVars,
                 collectorVars, main>>

\* Mutant: the portion's first row is ignored.
RowFromZero(w) == y[w]

\* int j = y + ii->starting
Row(w) == y[w] + ii[w].starting

\* cimg_forX: the pixels of row j that the watermark covers
MarkRow(w) ==
  /\ pc[w] = "mark"
  /\ y[w] < ii[w].total_parts
  /\ marks' = [marks EXCEPT ![ii[w].photo][Row(w)] = @ + 1]
  /\ y' = [y EXCEPT ![w] = @ + 1]
  /\ UNCHANGED <<height, scatterVars, Scatter_to_worker, worker_to_collecter, pc, ii,
                 counterVars, collectorVars, main>>

RowsDone(w) ==
  /\ pc[w] = "mark"
  /\ y[w] >= ii[w].total_parts
  /\ Goto(w, "push")
  /\ UNCHANGED <<height, scatterVars, Scatter_to_worker, worker_to_collecter, ii, y,
                 marks, counterVars, collectorVars, main>>

\* The mutex of worker_to_collecter[w] is taken; only the collector competes
\* for it, inside pop(), and it holds it for one step.
PushLock(w) ==
  /\ \/ pc[w] = "push" /\ Goto(w, "insert")
     \/ pc[w] = "eos" /\ Goto(w, "insert_eos")
  /\ UNCHANGED <<height, scatterVars, Scatter_to_worker, worker_to_collecter, ii, y,
                 marks, counterVars, collectorVars, main>>

\* push_front and the release of the mutex.  ii[w] is EOS when an EOS is passed on.
PushInsert(w) ==
  /\ \/ pc[w] = "insert" /\ Goto(w, "test")
     \/ pc[w] = "insert_eos" /\ Goto(w, "returned")
  /\ worker_to_collecter' = [worker_to_collecter EXCEPT ![w] = Append(@, ii[w])]
  /\ UNCHANGED <<height, scatterVars, Scatter_to_worker, ii, y, marks, counterVars,
                 collectorVars, main>>

\* if (counter_worker == 0)
TestCounter(w) ==
  /\ pc[w] = "test"
  /\ Goto(w, IF counter_worker = 0 THEN "sample" ELSE "pop")
  /\ UNCHANGED <<height, scatterVars, Scatter_to_worker, worker_to_collecter, ii, y,
                 marks, counterVars, collectorVars, main>>

\* ideal_service_worker is assigned.
Sample(w) ==
  /\ pc[w] = "sample"
  /\ samples' = [samples EXCEPT ![w] = @ + 1]
  /\ Goto(w, "load")
  /\ UNCHANGED <<height, scatterVars, Scatter_to_worker, worker_to_collecter, ii, y,
                 marks, register, counter_worker, collectorVars, main>>

\* The two halves of counter_worker++
LoadCounter(w) ==
  /\ pc[w] = "load"
  /\ register' = [register EXCEPT ![w] = counter_worker]
  /\ Goto(w, "store")
  /\ UNCHANGED <<height, scatterVars, Scatter_to_worker, worker_to_collecter, ii, y,
                 marks, counter_worker, samples, collectorVars, main>>

\* Mutant: the increment is lost altogether.
NotIncremented(w) == register[w]

Incremented(w) == register[w] + 1

StoreCounter(w) ==
  /\ pc[w] = "store"
  /\ counter_worker' = Incremented(w)
  /\ Goto(w, "pop")
  /\ UNCHANGED <<height, scatterVars, Scatter_to_worker, worker_to_collecter, ii, y,
                 marks, register, samples, collectorVars, main>>

-----------------------------------------------------------------------------
(* collector                                                               *)

Inserting(w) == pc[w] \in {"insert", "insert_eos"}

\* Mutant: the test is inverted.
SeesFull(w) == {worker_to_collecter[w] # <<>>}

\* What isEmpty() may return: it reads the deque without the mutex, so while
\* the worker inserts it may see the deque as it was or as it will be.
IsEmpty(w) ==
  {worker_to_collecter[w] = <<>>} \cup (IF Inserting(w) THEN {FALSE} ELSE {})

\* The next turn of the for loop, or of the while loop after the last queue;
\* c is the value of counter then.
NextTurn(c) ==
  IF polled + 1 < number_workers
  THEN polled' = polled + 1 /\ collector' = "poll"
  ELSE polled' = 0 /\ collector' = IF c < number_workers THEN "poll" ELSE "returned"

Poll ==
  /\ collector = "poll"
  /\ \E empty \in IsEmpty(polled) :
       IF empty THEN NextTurn(counter) ELSE collector' = "pop" /\ UNCHANGED polled
  /\ UNCHANGED <<height, scatterVars, Scatter_to_worker, worker_to_collecter, pc, ii, y,
                 marks, counterVars, results, images_done, counter, main>>

\* Mutant: the photo is stored with its first portion.
FirstPortion(p) == results[p] = 0

\* results[ii->Pho_title].size() == number_workers after the push_back
LastPortion(p) == results[p] + 1 = number_workers

Pop ==
  /\ collector = "pop"
  /\ worker_to_collecter[polled] # <<>>
  /\ ~Inserting(polled)
  /\ LET item == Head(worker_to_collecter[polled])
     IN  IF item # EOS
         THEN /\ results' = [results EXCEPT ![item.photo] = @ + 1]
              /\ images_done' = IF LastPortion(item.photo)
                                THEN Append(images_done, item.photo)
                                ELSE images_done
              /\ UNCHANGED counter
              /\ NextTurn(counter)
         ELSE /\ counter' = counter + 1
              /\ UNCHANGED <<results, images_done>>
              /\ NextTurn(counter + 1)
  /\ worker_to_collecter' = [worker_to_collecter EXCEPT ![polled] = Tail(@)]
  /\ UNCHANGED <<height, scatterVars, Scatter_to_worker, pc, ii, y, marks, counterVars,
                 main>>

-----------------------------------------------------------------------------
(* main(): join the threads                                                *)

Join == /\ main = "joining"
        /\ ScatterReturned
        /\ \A w \in Workers : pc[w] = "returned"
        /\ collector = "returned"
        /\ main' = "joined"
        /\ UNCHANGED <<height, scatterVars, Scatter_to_worker, worker_to_collecter, pc,
                       ii, y, marks, counterVars, collectorVars>>

\* The program has ended; nothing happens any more.
Terminated == main = "joined" /\ UNCHANGED vars

Scatter == ScatterPortion \/ ScatterEOS

Worker(w) == \/ WorkerPop(w) \/ MarkRow(w) \/ RowsDone(w) \/ PushLock(w)
             \/ PushInsert(w) \/ TestCounter(w) \/ Sample(w) \/ LoadCounter(w)
             \/ StoreCounter(w)

Collector == Poll \/ Pop

Next == \/ Scatter
        \/ \E w \in Workers : Worker(w)
        \/ Collector
        \/ Join
        \/ Terminated

Spec == Init /\ [][Next]_vars

\* The operating system runs each thread that can run.
Fairness == /\ WF_vars(Scatter)
            /\ \A w \in Workers : WF_vars(Worker(w))
            /\ WF_vars(Collector)
            /\ WF_vars(Join)

FairSpec == Spec /\ Fairness

-----------------------------------------------------------------------------
(* Properties                                                              *)

Rows == 0..(height - 1)

\* The portions on their way to worker w or in its hands
PortionsOf(w) ==
  {Scatter_to_worker[w][k] : k \in DOMAIN Scatter_to_worker[w]}
    \cup (IF pc[w] \in {"mark", "push", "insert"} THEN {ii[w]} ELSE {})

\* Worker w only ever gets its own rows, [Start, Start + Share) of each photo:
\* the loop that decrements partitions gives the closed form, whatever the
\* remainder and also when there are fewer rows than workers.
OwnRowsOnly ==
  \A w \in Workers : \A part \in PortionsOf(w) \ {EOS} :
    /\ part.starting = Start(height, number_workers, w)
    /\ part.total_parts = Share(height, number_workers, w)

\* Worker w marks row r of a photo only if r belongs to portion w of that photo:
\* no two workers ever write the same row, although they work without a lock.
RowMarkedByItsOwner ==
  [][\A w \in Workers : MarkRow(w) => Row(w) \in RowsOf(height, number_workers, w)]_vars

\* A photo in images_done is there once, and each of its rows has been marked
\* exactly once: the last portion to arrive is not merely the last one sent.
DoneMeansMarked ==
  \A p \in Photos : IsIn(p, images_done) =>
    /\ Copies(images_done, p) = 1
    /\ \A r \in Rows : marks[p][r] = 1

\* isEmpty() is not synchronised, but when it has returned false the pop() that
\* follows it cannot wait for ever: an element is there, or the worker that
\* holds the mutex is about to insert one.
PopAfterPollReturns ==
  collector = "pop" => worker_to_collecter[polled] # <<>> \/ Inserting(polled)

\* The unsynchronised test of counter_worker may let several workers record the
\* service time, but each at most once, and when the program ends at least one
\* has done so.
ServiceTimeRecorded ==
  /\ \A w \in Workers : samples[w] <= 1
  /\ main = "joined" /\ NPhotos > 0 => \E w \in Workers : samples[w] = 1

\* How often photo p as a whole has been marked
TimesMarked(p) == IF \E r \in Rows : marks[p][r] > 1 THEN 2
                  ELSE IF \A r \in Rows : marks[p][r] = 1 THEN 1
                  ELSE 0

\* map.cpp implements MarkedBatch: although the portions of a photo are marked
\* by different workers in any order, the photo is marked once, and handed over
\* once, after the last of its rows.
Batch == INSTANCE MarkedBatch WITH times <- [p \in Photos |-> TimesMarked(p)],
                                   done <- images_done,
                                   finished <- (main = "joined")
ImplementsBatch == Batch!BatchSpec

\* All threads return and main() joins them, although the collector polls.
Termination == <>(main = "joined")
=============================================================================
