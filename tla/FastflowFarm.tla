---------------------------- MODULE FastflowFarm ----------------------------
(***************************************************************************)
(* fastflow_farm.cpp on the farm skeleton of FFFarm: the emitter sends the *)
(* photos, a worker marks a photo, the collector stores it.  The test of   *)
(* counter_worker and its increment are two steps of a worker; only        *)
(* whether the counter is zero matters, and no interleaving of increments  *)
(* brings it back to zero.                                                 *)
(***************************************************************************)
EXTENDS FFFarm

CONSTANT NPhotos                \* number_of_Photos, the copies in memory

Photos == 1..NPhotos

ASSUME PhotosAssumption == NPhotos \in Nat /\ EOS \notin Photos

VARIABLES emitted,              \* photos sent out by the emitter's svc()
          svc,                  \* where each worker is in its svc()
          counter_worker,       \* "zero" or "counted"
          samples,              \* history: service times each worker recorded
          times,                \* how often each photo has been marked
          images_done

userVars == <<emitted, svc, counter_worker, samples, times, images_done>>
vars == <<ffVars, userVars>>

Init == /\ FFInit
        /\ emitted = 0
        /\ svc = [w \in Workers |-> "mark"]
        /\ counter_worker = "zero"
        /\ samples = [w \in Workers |-> 0]
        /\ times = [p \in Photos |-> 0]
        /\ images_done = <<>>

-----------------------------------------------------------------------------
(* firstStage::svc                                                         *)

\* i < photos.size()
MorePhotos == emitted < NPhotos

Emit == /\ MorePhotos
        /\ SendOut(emitted + 1)
        /\ emitted' = emitted + 1
        /\ UNCHANGED <<svc, counter_worker, samples, times, images_done>>

EmitEOS == ~MorePhotos /\ EmitterEnds /\ UNCHANGED userVars

-----------------------------------------------------------------------------
(* Worker::svc                                                             *)

InSvc(w, label) == worker[w] = "svc" /\ svc[w] = label

Goto(w, label) == svc' = [svc EXCEPT ![w] = label]

\* Mutant: the loop over the pixels is left out.
MarkNothing(w) ==
  /\ InSvc(w, "mark")
  /\ Goto(w, "test")
  /\ UNCHANGED <<ffVars, emitted, counter_worker, samples, times, images_done>>

\* cimg_forXY: every pixel the watermark covers
Mark(w) ==
  /\ InSvc(w, "mark")
  /\ times' = [times EXCEPT ![task[w]] = @ + 1]
  /\ Goto(w, "test")
  /\ UNCHANGED <<ffVars, emitted, counter_worker, samples, images_done>>

\* if (counter_worker == 0)
TestCounter(w) ==
  /\ InSvc(w, "test")
  /\ Goto(w, IF counter_worker = "zero" THEN "sample" ELSE "return")
  /\ UNCHANGED <<ffVars, emitted, counter_worker, samples, times, images_done>>

\* ideal_service_time_worker += ...
Sample(w) ==
  /\ InSvc(w, "sample")
  /\ samples' = [samples EXCEPT ![w] = @ + 1]
  /\ Goto(w, "count")
  /\ UNCHANGED <<ffVars, emitted, counter_worker, times, images_done>>

\* Mutant: the counter is never incremented.
NotIncremented == "zero"

Incremented == "counted"

\* counter_worker++
Count(w) ==
  /\ InSvc(w, "count")
  /\ counter_worker' = Incremented
  /\ Goto(w, "return")
  /\ UNCHANGED <<ffVars, emitted, samples, times, images_done>>

Return(w) ==
  /\ InSvc(w, "return")
  /\ WorkerPush(w)
  /\ Goto(w, "mark")
  /\ UNCHANGED <<emitted, counter_worker, samples, times, images_done>>

-----------------------------------------------------------------------------
(* lastStage::svc                                                          *)

Collect ==
  /\ Collected
  /\ images_done' = Append(images_done, gathered)
  /\ UNCHANGED <<emitted, svc, counter_worker, samples, times>>

-----------------------------------------------------------------------------
LB == Emit \/ EmitEOS \/ (LBStep /\ UNCHANGED userVars)

Worker(w) == \/ WorkerStep(w) /\ UNCHANGED userVars
             \/ Mark(w) \/ TestCounter(w) \/ Sample(w) \/ Count(w) \/ Return(w)

GT == Collect \/ (Gather /\ UNCHANGED userVars)

Main == MainStep /\ UNCHANGED userVars

\* The program has ended; nothing happens any more.
Terminated == main = "joined" /\ UNCHANGED vars

Next == \/ LB
        \/ \E w \in Workers : Worker(w)
        \/ GT
        \/ Main
        \/ Terminated

Spec == Init /\ [][Next]_vars

\* The operating system runs each thread; threads that spin keep spinning.
Fairness == /\ WF_vars(LB)
            /\ \A w \in Workers : WF_vars(Worker(w))
            /\ WF_vars(GT)
            /\ WF_vars(Main)

FairSpec == Spec /\ Fairness

-----------------------------------------------------------------------------
(* Properties                                                              *)

\* Every photo has one owner at a time: the emitter, the load balancer, a
\* position in one of the queues, a worker, the gatherer or images_done.  A put()
\* that fails must not lose the photo, and one that succeeds not send it twice.
Owners(p) ==
  (IF p > emitted THEN {<<"emitter", 0, 0>>} ELSE {})
    \cup (IF lb = "schedule" /\ sending = p THEN {<<"lb", 0, 0>>} ELSE {})
    \cup (UNION {{<<"inq", w, k>> : k \in Places(inq[w], p)} : w \in Workers})
    \cup {<<"worker", w, 0>> : w \in {v \in Workers : worker[v] = "svc" /\ task[v] = p}}
    \cup (UNION {{<<"outq", w, k>> : k \in Places(outq[w], p)} : w \in Workers})
    \cup (IF gt = "svc" /\ gathered = p THEN {<<"gt", 0, 0>>} ELSE {})
    \cup {<<"images_done", 0, k>> : k \in Places(images_done, p)}

OneOwner == \A p \in Photos : \E o \in Owners(p) : Owners(p) = {o}

\* fastflow_farm.cpp implements MarkedBatch: whatever worker a photo is scheduled
\* to, it is marked once and handed over once, and main() goes on only after that.
Batch == INSTANCE MarkedBatch WITH done <- images_done, finished <- (main = "joined")
ImplementsBatch == Batch!BatchSpec

\* Test and increment of counter_worker are not atomic, and several workers may
\* add a service time, but none does twice; and one has when a photo is stored.
ServiceTimeRecorded ==
  /\ \A w \in Workers : samples[w] <= 1
  /\ images_done # <<>> => \E w \in Workers : samples[w] = 1

\* All threads return and main() joins them.
Termination == <>(main = "joined")
=============================================================================
