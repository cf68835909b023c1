---------------------------- MODULE PthreadFarm ----------------------------
(***************************************************************************)
(* farm.cpp: an emitter, number_of_workers workers and a collector, joined *)
(* by two blocking queues.  The emitter pushes the photos and then one EOS *)
(* per worker into original_photos; a worker takes photos from there,      *)
(* marks them and pushes them into marked_photos until it takes an EOS,    *)
(* which it passes on before it returns; the collector stores the photos   *)
(* and stops after number_of_workers EOS.  main() joins all threads.       *)
(*                                                                         *)
(* push() and pop() are the atomic operations of FifoChannel, which        *)
(* MonitorQueue implements.  counter_worker is a plain int that all        *)
(* workers increment without a lock: an increment is a load and a store,   *)
(* with steps of the other workers in between.                             *)
(***************************************************************************)
EXTENDS Occurrences

CONSTANTS Workers,              \* the worker threads
          NPhotos,              \* number_of_Photos, the copies in memory
          EOS                   \* the null pointer

number_of_workers == Cardinality(Workers)
Photos == 1..NPhotos

ASSUME FarmAssumption == /\ IsFiniteSet(Workers)
                         /\ NPhotos \in Nat
                         /\ EOS \notin Photos

VARIABLES original_photos,      \* photos to be taken by the workers
          marked_photos,        \* photos marked by the workers
          emitted,              \* photos pushed by the emitter
          eos_sent,             \* EOS pushed by the emitter
          pc,                   \* where each worker is
          q,                    \* the photo each worker took last
          register,             \* counter_worker as a worker has loaded it
          counter_worker,
          increments,           \* history: completed counter_worker++
          times,                \* how often each photo has been marked
          ideal_service_time_worker, \* the photo it was measured on, or EOS
          Photos_Done,          \* what the collector has stored
          count,                \* EOS the collector has seen
          total_parallel,       \* the photos marked when it was measured
          main                  \* "joining" the threads, or past the joins

emitterVars == <<emitted, eos_sent>>
counterVars == <<register, counter_worker, increments>>
collectorVars == <<Photos_Done, count, total_parallel>>
vars == <<original_photos, marked_photos, emitterVars, pc, q, counterVars,
          times, ideal_service_time_worker, collectorVars, main>>

WorkerPC == {"pop", "load", "store", "mark", "push", "test",
             "sample", "reload", "restore", "eos", "returned"}

Init == /\ original_photos = <<>> /\ marked_photos = <<>>
        /\ emitted = 0 /\ eos_sent = 0
        /\ pc = [w \in Workers |-> "pop"]
        /\ q = [w \in Workers |-> EOS]
        /\ register = [w \in Workers |-> 0]
        /\ counter_worker = 0 /\ increments = 0
        /\ times = [p \in Photos |-> 0]
        /\ ideal_service_time_worker = EOS
        /\ Photos_Done = <<>> /\ count = 0
        /\ total_parallel = {}
        /\ main = "joining"

\* Mutant: pop() reads back() and forgets pop_back().
OnlyRead(s) == s

\* What is left of a queue after pop()
Popped(s) == Tail(s)

Goto(w, label) == pc' = [pc EXCEPT ![w] = label]

-----------------------------------------------------------------------------
(* Emitter_Farm                                                            *)

EmitPhoto == /\ emitted < NPhotos
             /\ original_photos' = Append(original_photos, emitted + 1)
             /\ emitted' = emitted + 1
             /\ UNCHANGED <<marked_photos, eos_sent, pc, q, counterVars, times,
                            ideal_service_time_worker, collectorVars, main>>

\* Mutants: the EOS do not wait for the last photo; one EOS too few.
EOSTooEarly == eos_sent < number_of_workers
OneEOSLess == emitted = NPhotos /\ eos_sent + 1 < number_of_workers

\* The second loop of the emitter has a turn left.
EOSToSend == emitted = NPhotos /\ eos_sent < number_of_workers

EmitEOS == /\ EOSToSend
           /\ original_photos' = Append(original_photos, EOS)
           /\ eos_sent' = eos_sent + 1
           /\ UNCHANGED <<marked_photos, emitted, pc, q, counterVars, times,
                          ideal_service_time_worker, collectorVars, main>>

EmitterReturned == emitted = NPhotos /\ eos_sent >= number_of_workers

-----------------------------------------------------------------------------
(* Worker_Farm                                                             *)

WorkerPop(w) ==
  /\ pc[w] = "pop"
  /\ original_photos # <<>>
  /\ q' = [q EXCEPT ![w] = Head(original_photos)]
  /\ Goto(w, IF Head(original_photos) # EOS THEN "load" ELSE "eos")
  /\ original_photos' = Popped(original_photos)
  /\ UNCHANGED <<marked_photos, emitterVars, counterVars, times,
                 ideal_service_time_worker, collectorVars, main>>

\* The two halves of counter_worker++, which the code executes before the
\* marking and, on the worker that measures, once more after it.
LoadCounter(w) ==
  /\ \/ pc[w] = "load" /\ Goto(w, "store")
     \/ pc[w] = "reload" /\ Goto(w, "restore")
  /\ register' = [register EXCEPT ![w] = counter_worker]
  /\ UNCHANGED <<original_photos, marked_photos, emitterVars, q, counter_worker,
                 increments, times, ideal_service_time_worker, collectorVars,
                 main>>

StoreCounter(w) ==
  /\ \/ pc[w] = "store" /\ Goto(w, "mark")
     \/ pc[w] = "restore" /\ Goto(w, "pop")
  /\ counter_worker' = register[w] + 1
  /\ increments' = increments + 1
  /\ UNCHANGED <<original_photos, marked_photos, emitterVars, q, register, times,
                 ideal_service_time_worker, collectorVars, main>>

\* Mutant: the loop over the pixels is left out.
MarkNothing(w) ==
  /\ pc[w] = "mark"
  /\ Goto(w, "push")
  /\ UNCHANGED <<original_photos, marked_photos, emitterVars, q, counterVars, times,
                 ideal_service_time_worker, collectorVars, main>>

\* cimg_forXY: every pixel the watermark covers
Mark(w) ==
  /\ pc[w] = "mark"
  /\ times' = [times EXCEPT ![q[w]] = @ + 1]
  /\ Goto(w, "push")
  /\ UNCHANGED <<original_photos, marked_photos, emitterVars, q, counterVars,
                 ideal_service_time_worker, collectorVars, main>>

PushMarked(w) ==
  /\ pc[w] = "push"
  /\ marked_photos' = Append(marked_photos, q[w])
  /\ Goto(w, "test")
  /\ UNCHANGED <<original_photos, emitterVars, q, counterVars, times,
                 ideal_service_time_worker, collectorVars, main>>

\* if (counter_worker == 1)
TestCounter(w) ==
  /\ pc[w] = "test"
  /\ Goto(w, IF counter_worker = 1 THEN "sample" ELSE "pop")
  /\ UNCHANGED <<original_photos, marked_photos, emitterVars, q, counterVars, times,
                 ideal_service_time_worker, collectorVars, main>>

Sample(w) ==
  /\ pc[w] = "sample"
  /\ ideal_service_time_worker' = q[w]
  /\ Goto(w, "reload")
  /\ UNCHANGED <<original_photos, marked_photos, emitterVars, q, counterVars, times,
                 collectorVars, main>>

\* Mutant: the worker returns without passing the EOS on.
SwallowEOS(w) ==
  /\ pc[w] = "eos"
  /\ Goto(w, "returned")
  /\ UNCHANGED <<original_photos, marked_photos, emitterVars, q, counterVars, times,
                 ideal_service_time_worker, collectorVars, main>>

PassOnEOS(w) ==
  /\ pc[w] = "eos"
  /\ marked_photos' = Append(marked_photos, EOS)
  /\ Goto(w, "returned")
  /\ UNCHANGED <<original_photos, emitterVars, q, counterVars, times,
                 ideal_service_time_worker, collectorVars, main>>

-----------------------------------------------------------------------------
(* Collector_Farm                                                          *)

\* Mutant: the parallel time is taken when the first element arrives, whatever
\* it is.
FirstElement == count = 0 /\ Photos_Done = <<>>

\* first_end_of_stream == 1 after its increment
FirstEOS == count = 0 /\ Head(marked_photos) = EOS

Collect ==
  /\ count < number_of_workers
  /\ marked_photos # <<>>
  /\ IF Head(marked_photos) = EOS
     THEN count' = count + 1 /\ UNCHANGED Photos_Done
     ELSE Photos_Done' = Append(Photos_Done, Head(marked_photos)) /\ UNCHANGED count
  /\ total_parallel' = IF FirstEOS THEN {p \in Photos : times[p] > 0}
                       ELSE total_parallel
  /\ marked_photos' = Popped(marked_photos)
  /\ UNCHANGED <<original_photos, emitterVars, pc, q, counterVars, times,
                 ideal_service_time_worker, main>>

CollectorReturned == count = number_of_workers

-----------------------------------------------------------------------------
(* main(): join the emitter, the workers and the collector                 *)

Join == /\ main = "joining"
        /\ EmitterReturned
        /\ \A w \in Workers : pc[w] = "returned"
        /\ CollectorReturned
        /\ main' = "joined"
        /\ UNCHANGED <<original_photos, marked_photos, emitterVars, pc, q, counterVars,
                       times, ideal_service_time_worker, collectorVars>>

\* The program has ended; nothing happens any more.
Terminated == main = "joined" /\ UNCHANGED vars

Emitter == EmitPhoto \/ EmitEOS

Worker(w) == \/ WorkerPop(w) \/ LoadCounter(w) \/ StoreCounter(w) \/ Mark(w)
             \/ PushMarked(w) \/ TestCounter(w) \/ Sample(w) \/ PassOnEOS(w)

Next == \/ Emitter
        \/ \E w \in Workers : Worker(w)
        \/ Collect
        \/ Join
        \/ Terminated

Spec == Init /\ [][Next]_vars

\* The operating system runs each thread that can run.  pop() on a queue that
\* stays non-empty returns (MonitorQueue); nothing says which worker is served.
Fairness == /\ WF_vars(Emitter)
            /\ \A w \in Workers : WF_vars(Worker(w))
            /\ WF_vars(Collect)
            /\ WF_vars(Join)

FairSpec == Spec /\ Fairness

-----------------------------------------------------------------------------
(* Properties                                                              *)

Items == Photos \cup {EOS}

\* Type correctness.
TypeOK ==
  /\ original_photos \in Seq(Items) /\ marked_photos \in Seq(Items)
  /\ emitted \in 0..NPhotos /\ eos_sent \in 0..number_of_workers
  /\ pc \in [Workers -> WorkerPC]
  /\ q \in [Workers -> Items]
  /\ register \in [Workers -> Nat]
  /\ counter_worker \in Nat /\ increments \in Nat
  /\ times \in [Photos -> Nat]
  /\ ideal_service_time_worker \in Items
  /\ Photos_Done \in Seq(Photos)
  /\ count \in 0..number_of_workers
  /\ total_parallel \subseteq Photos
  /\ main \in {"joining", "joined"}

\* The worker has the photo to itself: taken and not pushed yet.
Holds(w, p) == q[w] = p /\ pc[w] \in {"load", "store", "mark", "push"}

\* Every pointer of photos has one owner at a time: the emitter, a position in
\* one of the queues, a worker, or the collector's vector.  The threads share
\* the pixels through raw pointers without a lock, so this is what keeps two
\* threads from marking the same photo and what keeps a photo from being lost.
Owners(p) ==
  (IF p > emitted THEN {<<"emitter", 0>>} ELSE {})
    \cup {<<"original_photos", i>> : i \in Places(original_photos, p)}
    \cup {<<"worker", w>> : w \in {v \in Workers : Holds(v, p)}}
    \cup {<<"marked_photos", i>> : i \in Places(marked_photos, p)}
    \cup {<<"Photos_Done", i>> : i \in Places(Photos_Done, p)}

OneOwner == \A p \in Photos : \E o \in Owners(p) : Owners(p) = {o}

TookEOS == {w \in Workers : pc[w] \in {"eos", "returned"}}
Returned == {w \in Workers : pc[w] = "returned"}

\* The EOS are conserved along the farm: those the emitter has pushed are in
\* original_photos or were taken, one by each worker that took one; those the
\* workers have passed on are in marked_photos or were counted.
EOSConserved ==
  /\ Copies(original_photos, EOS) + Cardinality(TookEOS) = eos_sent
  /\ Copies(marked_photos, EOS) + count = Cardinality(Returned)

\* When the collector returns, no photo and no EOS is left behind, although
\* photos of slow workers arrive in marked_photos after the EOS of fast ones.
NothingLeftBehind ==
  CollectorReturned /\ Workers # {} =>
    /\ original_photos = <<>> /\ marked_photos = <<>>
    /\ \A p \in Photos : IsIn(p, Photos_Done)

\* The parallel time is taken at the first EOS, when other workers may still be
\* busy: what it misses is at most one photo per other worker.
ParallelTimeMissesFew ==
  count > 0 =>
    Cardinality(Photos \ total_parallel) < number_of_workers

\* farm.cpp implements MarkedBatch: exactly one marking per photo, handed over
\* once and only after its marking, all of them before main() goes on.
Batch == INSTANCE MarkedBatch WITH done <- Photos_Done,
                                      finished <- (main = "joined")
ImplementsBatch == Batch!BatchSpec

\* All threads return and main() joins them.
Termination == <>(main = "joined")

\* farm.cpp lists counter_worker under "Atomic Variables": if it were atomic, it
\* would count every completed increment.
CounterIsAtomic == counter_worker = increments
=============================================================================
