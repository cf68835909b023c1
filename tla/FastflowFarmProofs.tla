------------------------- MODULE FastflowFarmProofs -------------------------
(***************************************************************************)
(* Theorems about fastflow_farm.cpp, for any number of workers and photos  *)
(* and any room in the input queues.  The farm keeps FFInv, with the       *)
(* photos for its tasks; what is added here is where each photo is, when   *)
(* it has been marked, and who has recorded a service time.                *)
(***************************************************************************)
EXTENDS FastflowFarm, FFFarmProofs

UserTypes == /\ emitted \in 0..NPhotos
             /\ svc \in [Workers -> {"mark", "test", "sample", "count", "return"}]
             /\ counter_worker \in {"zero", "counted"}
             /\ samples \in [Workers -> {0, 1}]
             /\ times \in [Photos -> Nat]
             /\ images_done \in Seq(Photos)

\* The emitter has sent all the photos when its svc() returns, and a worker is
\* at the beginning of its svc() whenever it is not in it.
SvcInv == /\ lb \notin {"svc", "schedule"} => emitted = NPhotos
          /\ \A w \in Workers : worker[w] # "svc" => svc[w] = "mark"

\* A photo has not been sent yet, or it is in the farm once, or it has been stored.
OwnedOnce ==
  \A p \in Photos :
    \/ p > emitted /\ Absent(p) /\ Copies(images_done, p) = 0
    \/ p <= emitted /\ HeldOnce(p) /\ Copies(images_done, p) = 0
    \/ p <= emitted /\ Absent(p) /\ Copies(images_done, p) = 1

\* Photo p has passed Mark in the hands of worker w.
PassedMark(w, p) == worker[w] = "svc" /\ task[w] = p /\ svc[w] # "mark"

Marked(p) == \/ \E w \in Workers : PassedMark(w, p) \/ IsIn(p, outq[w])
             \/ gt = "svc" /\ gathered = p
             \/ IsIn(p, images_done)

MarkedOnce == \A p \in Photos : times[p] = One(Marked(p))

\* A worker that finds the counter at zero has not recorded a service time, and
\* the counter leaves zero only after one has; no photo comes out of a worker
\* before that.
SampleInv ==
  /\ \A w \in Workers : /\ samples[w] = 1 => svc[w] = "count" \/ counter_worker = "counted"
                        /\ svc[w] = "sample" => samples[w] = 0
                        /\ svc[w] = "count" => samples[w] = 1
                        /\ svc[w] = "return" => counter_worker = "counted"
                        /\ \A p \in Photos : IsIn(p, outq[w]) => counter_worker = "counted"
  /\ counter_worker = "counted" => \E w \in Workers : samples[w] = 1
  /\ gt = "svc" \/ images_done # <<>> => counter_worker = "counted"

FarmInv == FFInv(Photos) /\ UserTypes /\ SvcInv /\ OwnedOnce /\ MarkedOnce /\ SampleInv

-----------------------------------------------------------------------------
(* The steps                                                               *)

\* The steps of svc() that leave the farm alone
Inner(w) == Mark(w) \/ TestCounter(w) \/ Sample(w) \/ Count(w)

\* Next, flattened
LEMMA NextCases ==
  [Next]_vars <=>
    \/ Emit \/ EmitEOS
    \/ LBStep /\ UNCHANGED userVars
    \/ \E w \in Workers : \/ WorkerPop(w) /\ UNCHANGED userVars
                          \/ WorkerPushEOS(w) /\ UNCHANGED userVars
                          \/ Inner(w) \/ Return(w)
    \/ Collect
    \/ Gather /\ UNCHANGED userVars
    \/ MainStep /\ UNCHANGED userVars
    \/ UNCHANGED vars
<1>1. Terminated => UNCHANGED vars
  BY Zenon DEF Terminated
<1>2. \A w \in Workers :
        Worker(w) <=> \/ WorkerPop(w) /\ UNCHANGED userVars
                      \/ WorkerPushEOS(w) /\ UNCHANGED userVars
                      \/ Inner(w) \/ Return(w)
  BY Zenon DEF Worker, WorkerStep, Inner
<1>3. QED
  BY <1>1, <1>2, Zenon DEF Next, LB, GT, Main

\* What they leave alone
LEMMA InnerFrame ==
  ASSUME NEW w \in Workers, Inner(w)
  PROVE  /\ worker[w] = "svc"
         /\ UNCHANGED <<lb, sending, nextw, running, turn, retry, inq, outq, worker, task,
                        gt, gathered, nextr, offline, neos, main, emitted, images_done>>
         /\ UNCHANGED ffVars
BY DEF Inner, Mark, TestCounter, Sample, Count, InSvc, ffVars, lbVars, workerVars, gtVars

\* The emitter sends the next photo, and does nothing else.
LEMMA EmitFrame ==
  ASSUME UserTypes, Emit
  PROVE  /\ lb = "svc" /\ emitted < NPhotos /\ emitted + 1 \in Photos
         /\ SendOut(emitted + 1)
         /\ lb' = "schedule" /\ sending' = emitted + 1 /\ emitted' = emitted + 1
         /\ UNCHANGED <<nextw, running, turn, retry, inq, outq, worker, task, gt, gathered,
                        nextr, offline, neos, main, svc, counter_worker, samples, times,
                        images_done>>
<1>1. emitted < NPhotos /\ SendOut(emitted + 1) /\ emitted \in 0..NPhotos
  BY DEF Emit, MorePhotos, UserTypes
<1>2. emitted + 1 \in Photos
  BY <1>1, PhotosAssumption DEF Photos
<1>3. QED
  BY <1>1, <1>2 DEF Emit, SendOut, workerVars, gtVars

\* The farm's invariant: the program only takes steps of the farm.
LEMMA FFKept ==
  ASSUME FFInv(Photos), UserTypes, [Next]_vars
  PROVE  FFInv(Photos)'
<1>1. FFStep(Photos) \/ UNCHANGED ffVars
  <2>1. CASE Emit
    BY <2>1, EmitFrame DEF FFStep
  <2>2. CASE EmitEOS
    BY <2>2 DEF EmitEOS, FFStep
  <2>3. CASE Collect
    BY <2>3 DEF Collect, FFStep
  <2>4. ASSUME NEW w \in Workers, Inner(w) PROVE UNCHANGED ffVars
    BY <2>4, InnerFrame
  <2>5. ASSUME NEW w \in Workers, Return(w) \/ WorkerPop(w) \/ WorkerPushEOS(w)
        PROVE  FFStep(Photos)
    BY <2>5 DEF Return, FFStep, WorkerStep
  <2>6. UNCHANGED vars => UNCHANGED ffVars
    BY DEF vars
  <2>7. QED
    BY <2>1, <2>2, <2>3, <2>4, <2>5, <2>6, NextCases DEF FFStep
<1>2. QED
  BY <1>1, FFStepInv, PhotosAssumption

-----------------------------------------------------------------------------
(* The steps keep the rest of the invariant, part by part.                 *)

\* The types of the program's own variables
LEMMA TypesStep ==
  ASSUME FFTypes(Photos), UserTypes, SampleInv, [Next]_vars
  PROVE  UserTypes'
<1>1. CASE UNCHANGED userVars
  BY <1>1 DEF userVars, UserTypes
<1>2. CASE Emit
  BY <1>2, EmitFrame, PhotosAssumption DEF UserTypes
<1>3. CASE Collect
  <2>1. gathered \in Photos /\ images_done' = Append(images_done, gathered)
    BY <1>3 DEF Collect, Collected, FFTypes
  <2>2. QED
    BY <1>3, <2>1 DEF Collect, UserTypes
<1>4. ASSUME NEW w \in Workers, Mark(w) PROVE UserTypes'
  <2>1. task[w] \in Photos /\ times' = [times EXCEPT ![task[w]] = @ + 1]
    BY <1>4 DEF Mark, InSvc, FFTypes
  <2>2. times' \in [Photos -> Nat]
    BY <2>1 DEF UserTypes
  <2>3. QED
    BY <1>4, <2>2 DEF Mark, Goto, UserTypes
<1>5. ASSUME NEW w \in Workers, Sample(w) PROVE UserTypes'
  <2>1. samples[w] = 0 /\ samples' = [samples EXCEPT ![w] = @ + 1]
    BY <1>5 DEF Sample, InSvc, SampleInv
  <2>2. samples' \in [Workers -> {0, 1}]
    BY <2>1 DEF UserTypes
  <2>3. QED
    BY <1>5, <2>2 DEF Sample, Goto, UserTypes
<1>6. ASSUME NEW w \in Workers, TestCounter(w) \/ Count(w) \/ Return(w) PROVE UserTypes'
  BY <1>6 DEF TestCounter, Count, Return, Goto, Incremented, UserTypes
<1>7. UNCHANGED vars => UNCHANGED userVars
  BY DEF vars
<1>8. QED
  BY <1>1, <1>2, <1>3, <1>4, <1>5, <1>6, <1>7, NextCases DEF EmitEOS, Inner

\* The emitter has sent everything when it returns; a worker starts over.
LEMMA SvcStep ==
  ASSUME FFTypes(Photos), UserTypes, SvcInv, [Next]_vars
  PROVE  SvcInv'
<1>1. ASSUME UNCHANGED <<emitted, svc, worker>>,
             lb' \in {"svc", "schedule"} \/ lb \notin {"svc", "schedule"}
      PROVE  SvcInv'
  BY <1>1 DEF SvcInv
<1>2. CASE Emit
  BY <1>2, EmitFrame, PhotosAssumption DEF UserTypes, SvcInv
<1>3. CASE EmitEOS
  BY <1>3, PhotosAssumption
     DEF EmitEOS, MorePhotos, EmitterEnds, userVars, workerVars, UserTypes, SvcInv
<1>4. ASSUME LBStep, UNCHANGED userVars PROVE SvcInv'
  BY <1>1, <1>4 DEF LBStep, Schedule, Broadcast, BroadcastDone, Retry, workerVars, userVars
<1>5. ASSUME NEW w \in Workers, WorkerPop(w) \/ WorkerPushEOS(w), UNCHANGED userVars
      PROVE  SvcInv'
  BY <1>5 DEF WorkerPop, WorkerPushEOS, lbVars, userVars, FFTypes, SvcInv
<1>6. ASSUME NEW w \in Workers, Inner(w) PROVE SvcInv'
  <2>1. UNCHANGED <<lb, worker, emitted>> /\ worker[w] = "svc"
    BY <1>6, InnerFrame
  <2>2. \A v \in Workers \ {w} : svc'[v] = svc[v]
    BY <1>6 DEF Inner, Mark, TestCounter, Sample, Count, Goto, UserTypes
  <2>3. QED
    BY <2>1, <2>2 DEF SvcInv
<1>7. ASSUME NEW w \in Workers, Return(w) PROVE SvcInv'
  BY <1>7 DEF Return, Goto, WorkerPush, lbVars, FFTypes, UserTypes, SvcInv
<1>8. CASE Collect
  BY <1>1, <1>8 DEF Collect, Collected, lbVars, workerVars
<1>9. ASSUME Gather \/ MainStep, UNCHANGED userVars PROVE SvcInv'
  BY <1>1, <1>9 DEF Gather, MainStep, WaitWorkers, WaitLB, WaitGT, lbVars, workerVars,
                    userVars
<1>10. CASE UNCHANGED vars
  BY <1>1, <1>10 DEF vars, ffVars, lbVars, workerVars, userVars
<1>11. QED
  BY <1>2, <1>3, <1>4, <1>5, <1>6, <1>7, <1>8, <1>9, <1>10, NextCases

-----------------------------------------------------------------------------
(* Where a photo is                                                        *)

\* The emitter hands the next photo to the load balancer.
LEMMA EmitOwned ==
  ASSUME FFInv(Photos), UserTypes, OwnedOnce, Emit
  PROVE  OwnedOnce'
<1>1. PICK e \in Photos :
        /\ e = emitted + 1 /\ e = emitted' /\ emitted \in Nat
        /\ SendOut(e) /\ images_done' = images_done
  BY EmitFrame, PhotosAssumption DEF UserTypes
<1>2. e > emitted /\ Absent(e) => HeldOnce(e)' /\ e <= emitted'
  BY <1>1, TaskSent
<1>3. \A p \in Photos \ {e} : Kept(p)
  BY <1>1, TaskSent
<1>4. e > emitted
  BY <1>1
<1>5. \A p \in Photos \ {e} : p > emitted' <=> p > emitted
  BY <1>1, PhotosAssumption DEF Photos
<1>6. \A p \in Photos \ {e} : p <= emitted' <=> p <= emitted
  BY <1>1, PhotosAssumption DEF Photos
<1>7. Absent(e) /\ Copies(images_done, e) = 0
  <2>1. ~(e <= emitted)
    BY <1>1
  <2>2. QED
    BY <2>1 DEF OwnedOnce
<1>8. QED
  BY <1>1, <1>2, <1>3, <1>4, <1>5, <1>6, <1>7 DEF OwnedOnce, Kept

\* A photo that is in the farm has been sent and not been stored.
LEMMA InTheFarm ==
  ASSUME UserTypes, OwnedOnce, NEW p \in Photos, ~Absent(p)
  PROVE  p <= emitted /\ HeldOnce(p) /\ Copies(images_done, p) = 0 /\ ~IsIn(p, images_done)
<1>1. p <= emitted /\ HeldOnce(p) /\ Copies(images_done, p) = 0
  BY DEF OwnedOnce
<1>2. QED
  BY <1>1, NoCopies DEF UserTypes

\* The collector's svc() stores the photo the gatherer has got.
LEMMA CollectOwned ==
  ASSUME FFInv(Photos), UserTypes, OwnedOnce, Collect
  PROVE  OwnedOnce'
<1>1. /\ FFTypes(Photos) /\ Collected /\ gt = "svc" /\ gathered' = gathered
      /\ images_done' = Append(images_done, gathered) /\ emitted' = emitted
  BY DEF Collect, Collected, FFInv
<1>2. PICK g \in Photos : g = gathered
  BY <1>1, TaskCollected
<1>3. g <= emitted /\ HeldOnce(g) /\ Copies(images_done, g) = 0
  BY <1>1, <1>2, NotThere, InTheFarm
<1>4. Absent(g)' /\ \A p \in Photos \ {g} : Kept(p)
  <2>1. /\ HeldOnce(gathered) => Absent(gathered)'
        /\ \A p \in Photos \ {gathered} : Kept(p)
    BY <1>1, TaskCollected
  <2>2. HeldOnce(gathered)
    BY <1>2, <1>3
  <2>3. Absent(g)'
    BY <1>1, <1>2, <2>1, <2>2 DEF Absent
  <2>4. QED
    BY <1>2, <2>1, <2>3
<1>5. \A p \in Photos : Copies(images_done', p) = Copies(images_done, p) + One(g = p)
                        /\ Copies(images_done, p) \in Nat
  BY <1>1, <1>2, CopiesAppend, PlacesFinite DEF UserTypes, One
<1>6. Copies(images_done', g) = 1
  BY <1>3, <1>5 DEF One
<1>7. \A p \in Photos \ {g} : Copies(images_done', p) = Copies(images_done, p)
  BY <1>5 DEF One
<1>8. QED
  BY <1>1, <1>3, <1>4, <1>6, <1>7 DEF OwnedOnce, Kept

\* The other steps move photos inside the farm.
LEMMA OwnedStep ==
  ASSUME FFInv(Photos), UserTypes, OwnedOnce, [Next]_vars
  PROVE  OwnedOnce'
<1>1. ASSUME UNCHANGED <<emitted, images_done>>, \A p \in Photos : Kept(p)
      PROVE  OwnedOnce'
  BY <1>1 DEF OwnedOnce, Kept
<1>2. ASSUME NEW w \in Workers, Inner(w) PROVE OwnedOnce'
  BY <1>1, <1>2, InnerFrame, TaskKept, PhotosAssumption
<1>3. CASE EmitEOS
  BY <1>1, <1>3, TaskKept, PhotosAssumption DEF EmitEOS, userVars
<1>4. ASSUME LBStep \/ Gather \/ MainStep, UNCHANGED userVars PROVE OwnedOnce'
  BY <1>1, <1>4, TaskKept, PhotosAssumption DEF userVars
<1>5. CASE UNCHANGED vars
  BY <1>1, <1>5, TaskKept, PhotosAssumption DEF vars, userVars
<1>6. ASSUME NEW w \in Workers, WorkerPop(w) \/ WorkerPushEOS(w), UNCHANGED userVars
      PROVE  OwnedOnce'
  BY <1>1, <1>6, TaskKept, PhotosAssumption DEF WorkerStep, userVars
<1>7. ASSUME NEW w \in Workers, Return(w) PROVE OwnedOnce'
  BY <1>1, <1>7, TaskKept, PhotosAssumption DEF Return
<1>8. QED
  BY <1>2, <1>3, <1>4, <1>5, <1>6, <1>7, EmitOwned, CollectOwned, NextCases

-----------------------------------------------------------------------------
(* When a photo is marked                                                  *)

\* A photo that the gatherer has got has not been stored.
LEMMA OnlyGathered ==
  ASSUME FFTypes(Photos), UserTypes, OwnedOnce, gt = "svc"
  PROVE  gathered \in Photos /\ ~IsIn(gathered, images_done)
<1>1. PICK p \in Photos : p = gathered
  BY DEF FFTypes
<1>2. ~Absent(p)
  BY <1>1, NotThere
<1>3. QED
  BY <1>1, <1>2, InTheFarm

\* The watermark is written to a photo that has none.
LEMMA MarkIsFirst ==
  ASSUME FFTypes(Photos), UserTypes, OwnedOnce, MarkedOnce, NEW w \in Workers, Mark(w)
  PROVE  task[w] \in Photos /\ ~Marked(task[w]) /\ times[task[w]] = 0
<1>1. worker[w] = "svc" /\ svc[w] = "mark" /\ task[w] \in Photos
  BY DEF Mark, InSvc, FFTypes
<1>2. PICK p \in Photos : p = task[w]
  BY <1>1
<1>3. HeldOnce(p) /\ ~IsIn(p, images_done)
  BY <1>1, <1>2, NotThere, InTheFarm
<1>4. ~Marked(p)
  BY <1>1, <1>2, <1>3, OnlyInHands DEF Marked, PassedMark
<1>5. QED
  BY <1>2, <1>4 DEF MarkedOnce, One

\* A step that marks no photo and moves none across the mark
LEMMA MarkedSame ==
  ASSUME MarkedOnce, times' = times, \A p \in Photos : Marked(p)' <=> Marked(p)
  PROVE  MarkedOnce'
<1>1. \A p \in Photos : One(Marked(p))' = One(Marked(p))
  BY DEF One
<1>2. QED
  BY <1>1 DEF MarkedOnce

\* Photos are marked in svc() and nowhere else.
LEMMA MarkedStep ==
  ASSUME FFInv(Photos), UserTypes, SvcInv, OwnedOnce, MarkedOnce, [Next]_vars
  PROVE  MarkedOnce'
<1>1. FFTypes(Photos)
  BY DEF FFInv
<1>2. ASSUME UNCHANGED <<worker, task, svc, outq, gt, gathered, images_done, times>>
      PROVE  MarkedOnce'
  BY <1>2, MarkedSame DEF Marked, PassedMark
<1>3. CASE Emit
  BY <1>2, <1>3, EmitFrame
<1>4. CASE EmitEOS
  BY <1>2, <1>4 DEF EmitEOS, EmitterEnds, workerVars, gtVars, userVars
<1>5. ASSUME LBStep, UNCHANGED userVars PROVE MarkedOnce'
  BY <1>2, <1>5 DEF LBStep, Schedule, Broadcast, BroadcastDone, Retry, workerVars, gtVars,
                    userVars
<1>6. ASSUME MainStep, UNCHANGED userVars PROVE MarkedOnce'
  BY <1>2, <1>6 DEF MainStep, WaitWorkers, WaitLB, WaitGT, workerVars, gtVars, userVars
<1>7. CASE UNCHANGED vars
  BY <1>2, <1>7 DEF vars, ffVars, workerVars, gtVars, userVars
<1>8. ASSUME NEW v \in Workers, WorkerPop(v), UNCHANGED userVars PROVE MarkedOnce'
  <2>1. /\ worker[v] = "pop" /\ svc[v] = "mark"
        /\ UNCHANGED <<svc, outq, gt, gathered, images_done, times>>
    BY <1>8 DEF WorkerPop, gtVars, userVars, SvcInv
  <2>2. \A w \in Workers \ {v} : worker'[w] = worker[w] /\ task'[w] = task[w]
    BY <1>1, <1>8 DEF WorkerPop, FFTypes
  <2>3. \A p \in Photos : Marked(p)' <=> Marked(p)
    BY <2>1, <2>2 DEF Marked, PassedMark
  <2>4. QED
    BY <2>1, <2>3, MarkedSame
<1>9. ASSUME NEW v \in Workers, WorkerPushEOS(v), UNCHANGED userVars PROVE MarkedOnce'
  <2>1. /\ worker[v] = "eos" /\ worker'[v] = "returned" /\ outq'[v] = Append(outq[v], EOS)
        /\ \A w \in Workers \ {v} : worker'[w] = worker[w] /\ outq'[w] = outq[w]
        /\ UNCHANGED <<task, svc, gt, gathered, images_done, times>>
    BY <1>1, <1>9 DEF WorkerPushEOS, gtVars, userVars, FFTypes
  <2>2. \A p \in Photos : IsIn(p, outq'[v]) <=> IsIn(p, outq[v])
    <3>1. outq[v] \in Seq(Photos \cup {EOS}) /\ EOS \in Photos \cup {EOS}
      BY <1>1 DEF FFTypes
    <3>2. QED
      BY <2>1, <3>1, IsInAppend, PhotosAssumption
  <2>3. \A p \in Photos : \A w \in Workers : IsIn(p, outq'[w]) <=> IsIn(p, outq[w])
    BY <2>1, <2>2
  <2>4. \A p \in Photos : \A w \in Workers : PassedMark(w, p)' <=> PassedMark(w, p)
    BY <2>1 DEF PassedMark
  <2>5. \A p \in Photos : Marked(p)' <=> Marked(p)
    BY <2>1, <2>3, <2>4 DEF Marked
  <2>6. QED
    BY <2>1, <2>5, MarkedSame
<1>10. ASSUME NEW v \in Workers, TestCounter(v) \/ Sample(v) \/ Count(v)
       PROVE  MarkedOnce'
  <2>1. UNCHANGED <<worker, task, outq, gt, gathered, images_done>>
    BY <1>10, InnerFrame DEF Inner
  <2>2. times' = times /\ svc[v] # "mark" /\ svc'[v] # "mark"
        /\ \A w \in Workers \ {v} : svc'[w] = svc[w]
    BY <1>10 DEF TestCounter, Sample, Count, InSvc, Goto, UserTypes
  <2>3. \A p \in Photos : Marked(p)' <=> Marked(p)
    BY <2>1, <2>2 DEF Marked, PassedMark
  <2>4. QED
    BY <2>2, <2>3, MarkedSame
<1>11. ASSUME NEW v \in Workers, Return(v) PROVE MarkedOnce'
  <2>1. /\ worker[v] = "svc" /\ svc[v] = "return" /\ worker'[v] = "pop"
        /\ outq'[v] = Append(outq[v], task[v])
        /\ \A w \in Workers \ {v} : /\ worker'[w] = worker[w] /\ outq'[w] = outq[w]
                                    /\ svc'[w] = svc[w]
        /\ UNCHANGED <<task, gt, gathered, images_done, times>>
    BY <1>1, <1>11 DEF Return, InSvc, Goto, WorkerPush, gtVars, FFTypes, UserTypes
  <2>2. \A p \in Photos : IsIn(p, outq'[v]) <=> p = task[v] \/ IsIn(p, outq[v])
    <3>1. outq[v] \in Seq(Photos \cup {EOS}) /\ task[v] \in Photos \cup {EOS}
      BY <1>1 DEF FFTypes
    <3>2. QED
      BY <2>1, <3>1, IsInAppend
  <2>3. \A p \in Photos : /\ PassedMark(v, p) <=> p = task[v]
                          /\ ~PassedMark(v, p)'
                          /\ \A w \in Workers \ {v} : PassedMark(w, p)' <=> PassedMark(w, p)
    BY <2>1 DEF PassedMark
  <2>4. \A p \in Photos : Marked(p)' <=> Marked(p)
    BY <2>1, <2>2, <2>3 DEF Marked
  <2>5. QED
    BY <2>1, <2>4, MarkedSame
<1>12. ASSUME Gather, UNCHANGED userVars PROVE MarkedOnce'
  <2>1. gt = "gather" /\ UNCHANGED <<worker, task, svc, images_done, times>>
    BY <1>12 DEF Gather, workerVars, userVars
  <2>2. PICK v \in Workers : v = Selected
    BY <1>1, <1>12, SelectedIsOnline DEF FFTypes, Gather
  <2>3. CASE outq[v] = <<>>
    BY <1>2, <1>12, <2>1, <2>2, <2>3 DEF Gather
  <2>4. CASE outq[v] # <<>>
    <3>1. /\ outq'[v] = Tail(outq[v]) /\ \A w \in Workers \ {v} : outq'[w] = outq[w]
          /\ outq[v] \in Seq(Photos \cup {EOS})
      BY <1>1, <1>12, <2>2, <2>4 DEF Gather, FFTypes
    <3>2. \/ gt' = "svc" /\ gathered' = Head(outq[v])
          \/ gt' # "svc" /\ Head(outq[v]) = EOS
      BY <1>12, <2>2, <2>4 DEF Gather
    <3>3. \A p \in Photos : IsIn(p, outq[v]) <=> p = Head(outq[v]) \/ IsIn(p, outq'[v])
      BY <2>4, <3>1, IsInTail
    <3>4. \A p \in Photos : (gt' = "svc" /\ gathered' = p) <=> p = Head(outq[v])
      BY <3>2, PhotosAssumption
    <3>5. \A p \in Photos : \A w \in Workers : PassedMark(w, p)' <=> PassedMark(w, p)
      BY <2>1 DEF PassedMark
    <3>6. \A p \in Photos : Marked(p)' <=> Marked(p)
      BY <2>1, <3>1, <3>3, <3>4, <3>5 DEF Marked
    <3>7. QED
      BY <2>1, <3>6, MarkedSame
  <2>5. QED
    BY <2>3, <2>4
<1>13. CASE Collect
  <2>1. /\ gt = "svc" /\ gt' = "gather" /\ gathered \in Photos
        /\ images_done' = Append(images_done, gathered)
        /\ UNCHANGED <<worker, task, svc, outq, times>>
    BY <1>1, <1>13 DEF Collect, Collected, workerVars, FFTypes
  <2>2. \A p \in Photos : IsIn(p, images_done') <=> p = gathered \/ IsIn(p, images_done)
    BY <2>1, IsInAppend DEF UserTypes
  <2>3. \A p \in Photos : \A w \in Workers : PassedMark(w, p)' <=> PassedMark(w, p)
    BY <2>1 DEF PassedMark
  <2>4. \A p \in Photos : Marked(p)' <=> Marked(p)
    BY <2>1, <2>2, <2>3 DEF Marked
  <2>5. QED
    BY <2>1, <2>4, MarkedSame
<1>14. ASSUME NEW v \in Workers, Mark(v) PROVE MarkedOnce'
  <2>1. task[v] \in Photos /\ ~Marked(task[v]) /\ times[task[v]] = 0
    BY <1>1, <1>14, MarkIsFirst
  <2>2. /\ times' = [times EXCEPT ![task[v]] = @ + 1] /\ worker[v] = "svc"
        /\ svc[v] = "mark" /\ svc'[v] = "test"
        /\ \A w \in Workers \ {v} : svc'[w] = svc[w]
    BY <1>14 DEF Mark, InSvc, Goto, UserTypes
  <2>3. UNCHANGED <<worker, task, outq, gt, gathered, images_done>>
    BY <1>14, InnerFrame DEF Inner
  <2>4. times'[task[v]] = 1 /\ \A p \in Photos \ {task[v]} : times'[p] = times[p]
    BY <2>1, <2>2 DEF UserTypes
  <2>5. \A p \in Photos : Marked(p)' <=> Marked(p) \/ p = task[v]
    <3>1. \A p \in Photos : PassedMark(v, p)' <=> PassedMark(v, p) \/ p = task[v]
      BY <2>2, <2>3 DEF PassedMark
    <3>2. \A p \in Photos : \A w \in Workers \ {v} : PassedMark(w, p)' <=> PassedMark(w, p)
      BY <2>2, <2>3 DEF PassedMark
    <3>3. QED
      BY <2>3, <3>1, <3>2 DEF Marked
  <2>6. \A p \in Photos : times'[p] = IF Marked(p)' THEN 1 ELSE 0
    BY <2>1, <2>4, <2>5 DEF MarkedOnce, One
  <2>7. QED
    BY <2>6 DEF MarkedOnce, One
<1>15. QED
  BY <1>3, <1>4, <1>5, <1>6, <1>7, <1>8, <1>9, <1>10, <1>11, <1>12, <1>13, <1>14,
     NextCases DEF Inner

-----------------------------------------------------------------------------
(* The service time                                                        *)

Counted == counter_worker = "counted"

\* What SampleInv says of worker w
WorkerSample(w) ==
  /\ samples[w] = 1 => svc[w] = "count" \/ Counted
  /\ svc[w] = "sample" => samples[w] = 0
  /\ svc[w] = "count" => samples[w] = 1
  /\ svc[w] = "return" => Counted
  /\ \A p \in Photos : IsIn(p, outq[w]) => Counted

SomeSample == Counted => \E w \in Workers : samples[w] = 1

StagesSample == gt = "svc" \/ images_done # <<>> => Counted

\* The conditions of SampleInv, one worker at a time
LEMMA SampleParts ==
  SampleInv <=> (\A w \in Workers : WorkerSample(w)) /\ SomeSample /\ StagesSample
BY DEF SampleInv, WorkerSample, SomeSample, StagesSample, Counted

\* A step of worker v in its svc() concerns only v.
LEMMA OwnSvc ==
  ASSUME SampleInv, UserTypes, NEW v \in Workers, NEW label,
         svc' = [svc EXCEPT ![v] = label],
         \A w \in Workers \ {v} : samples'[w] = samples[w],
         UNCHANGED <<outq, gt, images_done>>,
         Counted => Counted', WorkerSample(v)', SomeSample'
  PROVE  SampleInv'
<1>1. \A w \in Workers \ {v} : svc'[w] = svc[w]
  BY DEF UserTypes
<1>2. \A w \in Workers : WorkerSample(w)'
  BY <1>1, SampleParts DEF WorkerSample
<1>3. StagesSample'
  BY SampleParts DEF StagesSample
<1>4. QED
  BY <1>2, <1>3 DEF SampleInv, WorkerSample, SomeSample, StagesSample, Counted

\* The test of the counter, the record and the increment keep SampleInv.
LEMMA SampleStep ==
  ASSUME FFInv(Photos), UserTypes, SvcInv, SampleInv, [Next]_vars
  PROVE  SampleInv'
<1>1. FFTypes(Photos)
  BY DEF FFInv
<1>2. ASSUME UNCHANGED <<svc, samples, counter_worker, outq, gt, images_done>>
      PROVE  SampleInv'
  BY <1>2 DEF SampleInv
<1>3. CASE Emit
  BY <1>2, <1>3, EmitFrame
<1>4. CASE EmitEOS
  BY <1>2, <1>4 DEF EmitEOS, EmitterEnds, gtVars, userVars
<1>5. ASSUME LBStep, UNCHANGED userVars PROVE SampleInv'
  BY <1>2, <1>5 DEF LBStep, Schedule, Broadcast, BroadcastDone, Retry, gtVars, userVars
<1>6. ASSUME MainStep, UNCHANGED userVars PROVE SampleInv'
  BY <1>2, <1>6 DEF MainStep, WaitWorkers, WaitLB, WaitGT, gtVars, userVars
<1>7. CASE UNCHANGED vars
  BY <1>2, <1>7 DEF vars, ffVars, gtVars, userVars
<1>8. ASSUME NEW v \in Workers, WorkerPop(v), UNCHANGED userVars PROVE SampleInv'
  BY <1>2, <1>8 DEF WorkerPop, gtVars, userVars
<1>9. ASSUME NEW v \in Workers, WorkerPushEOS(v), UNCHANGED userVars PROVE SampleInv'
  <2>1. /\ outq'[v] = Append(outq[v], EOS)
        /\ \A w \in Workers \ {v} : outq'[w] = outq[w]
        /\ UNCHANGED <<svc, samples, counter_worker, gt, images_done>>
    BY <1>1, <1>9 DEF WorkerPushEOS, gtVars, userVars, FFTypes
  <2>2. outq[v] \in Seq(Photos \cup {EOS}) /\ EOS \in Photos \cup {EOS}
    BY <1>1 DEF FFTypes
  <2>3. \A p \in Photos : IsIn(p, outq'[v]) <=> IsIn(p, outq[v])
    BY <2>1, <2>2, IsInAppend, PhotosAssumption
  <2>4. QED
    BY <2>1, <2>3 DEF SampleInv
<1>10. ASSUME NEW v \in Workers, Mark(v) PROVE SampleInv'
  <2>1. /\ svc' = [svc EXCEPT ![v] = "test"] /\ svc'[v] = "test" /\ svc[v] = "mark"
        /\ UNCHANGED <<samples, counter_worker, outq, gt, images_done>>
    BY <1>10, InnerFrame DEF Inner, Mark, InSvc, Goto, UserTypes
  <2>2. WorkerSample(v)' /\ SomeSample'
    BY <2>1, SampleParts DEF WorkerSample, SomeSample, Counted
  <2>3. QED
    BY <2>1, <2>2, OwnSvc DEF Counted
<1>11. ASSUME NEW v \in Workers, TestCounter(v) PROVE SampleInv'
  <2> DEFINE label == IF counter_worker = "zero" THEN "sample" ELSE "return"
  <2>1. /\ svc' = [svc EXCEPT ![v] = label] /\ svc'[v] = label /\ svc[v] = "test"
        /\ UNCHANGED <<samples, counter_worker, outq, gt, images_done>>
    BY <1>11, InnerFrame DEF Inner, TestCounter, InSvc, Goto, UserTypes
  <2>2. samples[v] \in {0, 1} /\ counter_worker \in {"zero", "counted"}
    BY DEF UserTypes
  <2>3. WorkerSample(v)' /\ SomeSample'
    BY <2>1, <2>2, SampleParts DEF WorkerSample, SomeSample, Counted
  <2>4. QED
    BY <2>1, <2>3, OwnSvc DEF Counted
<1>12. ASSUME NEW v \in Workers, Sample(v) PROVE SampleInv'
  <2>1. /\ svc' = [svc EXCEPT ![v] = "count"] /\ svc'[v] = "count" /\ svc[v] = "sample"
        /\ samples' = [samples EXCEPT ![v] = @ + 1]
        /\ UNCHANGED <<counter_worker, outq, gt, images_done>>
    BY <1>12, InnerFrame DEF Inner, Sample, InSvc, Goto, UserTypes
  <2>2. samples[v] = 0
    BY <2>1 DEF SampleInv
  <2>3. samples'[v] = 1 /\ \A w \in Workers \ {v} : samples'[w] = samples[w]
    BY <2>1, <2>2 DEF UserTypes
  <2>4. WorkerSample(v)' /\ SomeSample'
    BY <2>1, <2>3, SampleParts DEF WorkerSample, SomeSample, Counted
  <2>5. QED
    BY <2>1, <2>3, <2>4, OwnSvc DEF Counted
<1>13. ASSUME NEW v \in Workers, Count(v) PROVE SampleInv'
  <2>1. /\ svc' = [svc EXCEPT ![v] = "return"] /\ svc'[v] = "return" /\ svc[v] = "count"
        /\ counter_worker' = "counted"
        /\ UNCHANGED <<samples, outq, gt, images_done>>
    BY <1>13, InnerFrame DEF Inner, Count, InSvc, Goto, UserTypes, Incremented
  <2>2. samples[v] = 1
    BY <2>1 DEF SampleInv
  <2>3. WorkerSample(v)' /\ SomeSample'
    BY <2>1, <2>2, SampleParts DEF WorkerSample, SomeSample, Counted
  <2>4. QED
    BY <2>1, <2>3, OwnSvc DEF Counted
<1>14. ASSUME NEW v \in Workers, Return(v) PROVE SampleInv'
  <2>1. /\ svc[v] = "return" /\ svc'[v] = "mark"
        /\ \A w \in Workers \ {v} : svc'[w] = svc[w] /\ outq'[w] = outq[w]
        /\ UNCHANGED <<samples, counter_worker, gt, images_done>>
    BY <1>1, <1>14 DEF Return, WorkerPush, InSvc, Goto, gtVars, UserTypes, FFTypes
  <2>2. Counted
    BY <2>1 DEF SampleInv, Counted
  <2>3. QED
    BY <2>1, <2>2 DEF SampleInv, Counted
<1>15. ASSUME Gather, UNCHANGED userVars PROVE SampleInv'
  <2>1. UNCHANGED <<svc, samples, counter_worker, images_done>>
    BY <1>15 DEF userVars
  <2>2. PICK v \in Workers : v = Selected
    BY <1>1, <1>15, SelectedIsOnline DEF FFTypes, Gather
  <2>3. CASE outq[v] = <<>>
    BY <1>2, <1>15, <2>1, <2>2, <2>3 DEF Gather
  <2>4. CASE outq[v] # <<>>
    <3>1. /\ outq'[v] = Tail(outq[v]) /\ \A w \in Workers \ {v} : outq'[w] = outq[w]
          /\ outq[v] \in Seq(Photos \cup {EOS}) /\ Head(outq[v]) \in Photos \cup {EOS}
      BY <1>1, <1>15, <2>2, <2>4 DEF Gather, FFTypes
    <3>2. gt' = "svc" => Head(outq[v]) # EOS
      BY <1>15, <2>2, <2>4 DEF Gather
    <3>3. \A p : IsIn(p, outq[v]) <=> p = Head(outq[v]) \/ IsIn(p, outq'[v])
      BY <2>4, <3>1, IsInTail
    <3>4. gt' = "svc" => Counted
      BY <3>1, <3>2, <3>3 DEF SampleInv, Counted
    <3>5. QED
      BY <2>1, <3>1, <3>3, <3>4 DEF SampleInv, Counted
  <2>5. QED
    BY <2>3, <2>4
<1>16. CASE Collect
  <2>1. gt = "svc" /\ gt' = "gather" /\ UNCHANGED <<svc, samples, counter_worker, outq>>
    BY <1>16 DEF Collect, Collected
  <2>2. Counted
    BY <2>1 DEF SampleInv, Counted
  <2>3. QED
    BY <2>1, <2>2 DEF SampleInv, Counted
<1>17. QED
  BY <1>3, <1>4, <1>5, <1>6, <1>7, <1>8, <1>9, <1>10, <1>11, <1>12, <1>13, <1>14,
     <1>15, <1>16, NextCases DEF Inner

-----------------------------------------------------------------------------
(* The theorems                                                            *)

\* Nothing has been sent, marked, stored or recorded.
LEMMA InitInv == Init => FarmInv
<1> SUFFICES ASSUME Init PROVE FarmInv
  OBVIOUS
<1>1. FFInv(Photos)
  BY FFInitInv, PhotosAssumption DEF Init
<1>2. UserTypes /\ SvcInv
  BY PhotosAssumption DEF Init, FFInit, UserTypes, SvcInv
<1>3. \A p \in Photos : /\ Copies(<<>>, p) = 0 /\ ~IsIn(p, <<>>)
  <2>1. \A p \in Photos : Places(<<>>, p) = {}
    BY DEF Places
  <2>2. QED
    BY <2>1, FS_EmptySet DEF Copies, IsIn
<1>4. OwnedOnce
  <2> SUFFICES ASSUME NEW p \in Photos
               PROVE  p > emitted /\ Absent(p) /\ Copies(images_done, p) = 0
    BY DEF OwnedOnce
  <2>1. p > emitted
    BY PhotosAssumption DEF Init, Photos
  <2>2. QED
    BY <1>3, <2>1 DEF Init, FFInit, Absent, WithStages, WithWorker, One
<1>5. MarkedOnce
  BY <1>3 DEF Init, FFInit, MarkedOnce, Marked, PassedMark, One
<1>6. SampleInv
  BY <1>3 DEF Init, FFInit, SampleInv
<1>7. QED
  BY <1>1, <1>2, <1>4, <1>5, <1>6 DEF FarmInv

\* The invariant of fastflow_farm.cpp and of the farm it runs on: each photo has
\* one owner, it has been marked exactly when it is past Mark, and a service time
\* is recorded before the first photo leaves a worker.
THEOREM FarmInvariant == Spec => []FarmInv
<1>1. FarmInv /\ [Next]_vars => FarmInv'
  <2> SUFFICES ASSUME FarmInv, [Next]_vars PROVE FarmInv'
    OBVIOUS
  <2>1. FFTypes(Photos)
    BY DEF FarmInv, FFInv
  <2>2. QED
    BY <2>1, FFKept, TypesStep, SvcStep, OwnedStep, MarkedStep, SampleStep DEF FarmInv
<1>2. QED
  BY InitInv, <1>1, PTL DEF Spec

\* The EOS is the last thing in each queue: no photo is left behind it in the
\* queue of a worker that ends, nor of one that the gatherer polls no more.
THEOREM EOSLast == Spec => []EOSComesLast
<1>1. FarmInv => EOSComesLast
  BY FFPromises DEF FarmInv
<1>2. QED
  BY <1>1, FarmInvariant, PTL

\* The gatherer never looks for a worker when all are offline.
THEOREM SelectionEnds == Spec => []SelectWorkerReturns
<1>1. FarmInv => SelectWorkerReturns
  BY FFPromises DEF FarmInv
<1>2. QED
  BY <1>1, FarmInvariant, PTL

\* main() resets running under the load balancer's feet, but only when the
\* broadcast has been through all the workers.
THEOREM EarlyResetHarmless == Spec => []ResetIsHarmless
<1>1. FarmInv => ResetIsHarmless
  BY FFPromises DEF FarmInv
<1>2. QED
  BY <1>1, FarmInvariant, PTL

\* No worker records two service times although test and increment of the counter
\* are not atomic, and one has by the time a photo is stored.
THEOREM ServiceTimeIsRecorded == Spec => []ServiceTimeRecorded
<1>1. FarmInv => ServiceTimeRecorded
  BY DEF FarmInv, SampleInv, UserTypes, ServiceTimeRecorded
<1>2. QED
  BY <1>1, FarmInvariant, PTL

\* Membership in Owners, kind by kind
LEMMA OwnerKinds ==
  ASSUME NEW p \in Photos, NEW o
  PROVE  o \in Owners(p) <=>
           \/ p > emitted /\ o = <<"emitter", 0, 0>>
           \/ lb = "schedule" /\ sending = p /\ o = <<"lb", 0, 0>>
           \/ \E w \in Workers : \E k \in Places(inq[w], p) : o = <<"inq", w, k>>
           \/ \E w \in Workers : worker[w] = "svc" /\ task[w] = p /\ o = <<"worker", w, 0>>
           \/ \E w \in Workers : \E k \in Places(outq[w], p) : o = <<"outq", w, k>>
           \/ gt = "svc" /\ gathered = p /\ o = <<"gt", 0, 0>>
           \/ \E k \in Places(images_done, p) : o = <<"images_done", 0, k>>
<1> DEFINE E == IF p > emitted THEN {<<"emitter", 0, 0>>} ELSE {}
           L == IF lb = "schedule" /\ sending = p THEN {<<"lb", 0, 0>>} ELSE {}
           I == UNION {{<<"inq", w, k>> : k \in Places(inq[w], p)} : w \in Workers}
           H == {<<"worker", w, 0>> : w \in {v \in Workers : worker[v] = "svc" /\ task[v] = p}}
           O == UNION {{<<"outq", w, k>> : k \in Places(outq[w], p)} : w \in Workers}
           G == IF gt = "svc" /\ gathered = p THEN {<<"gt", 0, 0>>} ELSE {}
           D == {<<"images_done", 0, k>> : k \in Places(images_done, p)}
<1>1. o \in E <=> p > emitted /\ o = <<"emitter", 0, 0>>
  OBVIOUS
<1>2. o \in L <=> lb = "schedule" /\ sending = p /\ o = <<"lb", 0, 0>>
  OBVIOUS
<1>3. o \in I <=> \E w \in Workers : \E k \in Places(inq[w], p) : o = <<"inq", w, k>>
  OBVIOUS
<1>4. o \in H
        <=> \E w \in Workers : worker[w] = "svc" /\ task[w] = p /\ o = <<"worker", w, 0>>
  OBVIOUS
<1>5. o \in O <=> \E w \in Workers : \E k \in Places(outq[w], p) : o = <<"outq", w, k>>
  OBVIOUS
<1>6. o \in G <=> gt = "svc" /\ gathered = p /\ o = <<"gt", 0, 0>>
  OBVIOUS
<1>7. o \in D <=> \E k \in Places(images_done, p) : o = <<"images_done", 0, k>>
  OBVIOUS
<1>8. Owners(p) = E \cup L \cup I \cup H \cup O \cup G \cup D
  BY Zenon DEF Owners
<1> HIDE DEF E, L, I, H, O, G, D
<1>9. o \in Owners(p) <=> \/ o \in E \/ o \in L \/ o \in I \/ o \in H \/ o \in O
                          \/ o \in G \/ o \in D
  BY <1>8
<1>10. QED
  BY <1>1, <1>2, <1>3, <1>4, <1>5, <1>6, <1>7, <1>9

\* A photo that the emitter, the load balancer, the gatherer or images_done has,
\* once, has no other owner.
LEMMA StageOwns ==
  ASSUME FFTypes(Photos), UserTypes, NEW p \in Photos,
         One(p > emitted) + WithStages(p) + Copies(images_done, p) = 1,
         \A w \in Workers : WithWorker(w, p) = 0
  PROVE  \E o : Owners(p) = {o}
<1> DEFINE E == p > emitted
           L == lb = "schedule" /\ sending = p
           G == gt = "svc" /\ gathered = p
           D == Copies(images_done, p)
<1>1. /\ D \in Nat
      /\ \A w \in Workers : /\ inq[w] \in Seq(Photos \cup {EOS})
                            /\ outq[w] \in Seq(Photos \cup {EOS})
                            /\ Copies(inq[w], p) \in Nat /\ Copies(outq[w], p) \in Nat
  BY TaskCounts, PlacesFinite DEF UserTypes
<1>2. \A w \in Workers : /\ Copies(inq[w], p) = 0 /\ Copies(outq[w], p) = 0
                         /\ ~(worker[w] = "svc" /\ task[w] = p)
  BY <1>1 DEF WithWorker, One
<1>3. \A w \in Workers : Places(inq[w], p) = {} /\ Places(outq[w], p) = {}
  BY <1>1, <1>2, FewPlaces
<1>4. One(E) + One(L) + One(G) + D = 1
  BY <1>1 DEF WithStages, One
<1>5. /\ D = 0 => Places(images_done, p) = {}
      /\ D = 1 => \E k : Places(images_done, p) = {k}
  BY FewPlaces DEF UserTypes
<1>6. \A o : o \in Owners(p) <=>
        \/ E /\ o = <<"emitter", 0, 0>>
        \/ L /\ o = <<"lb", 0, 0>>
        \/ G /\ o = <<"gt", 0, 0>>
        \/ \E k \in Places(images_done, p) : o = <<"images_done", 0, k>>
  BY <1>2, <1>3, OwnerKinds
<1> HIDE DEF E, L, G, D
<1>7. \/ E /\ ~L /\ ~G /\ D = 0
      \/ ~E /\ L /\ ~G /\ D = 0
      \/ ~E /\ ~L /\ G /\ D = 0
      \/ ~E /\ ~L /\ ~G /\ D = 1
  BY <1>1, <1>4 DEF One
<1>8. CASE E /\ ~L /\ ~G /\ D = 0
  <2>1. \A o : o \in Owners(p) <=> o = <<"emitter", 0, 0>>
    BY <1>5, <1>6, <1>8
  <2>2. Owners(p) = {<<"emitter", 0, 0>>}
    BY <2>1
  <2>3. QED
    BY <2>2
<1>9. CASE ~E /\ L /\ ~G /\ D = 0
  <2>1. \A o : o \in Owners(p) <=> o = <<"lb", 0, 0>>
    BY <1>5, <1>6, <1>9
  <2>2. Owners(p) = {<<"lb", 0, 0>>}
    BY <2>1
  <2>3. QED
    BY <2>2
<1>10. CASE ~E /\ ~L /\ G /\ D = 0
  <2>1. \A o : o \in Owners(p) <=> o = <<"gt", 0, 0>>
    BY <1>5, <1>6, <1>10
  <2>2. Owners(p) = {<<"gt", 0, 0>>}
    BY <2>1
  <2>3. QED
    BY <2>2
<1>11. CASE ~E /\ ~L /\ ~G /\ D = 1
  <2>1. PICK k : Places(images_done, p) = {k}
    BY <1>5, <1>11
  <2>2. \A o : o \in Owners(p) <=> o = <<"images_done", 0, k>>
    BY <1>6, <1>11, <2>1
  <2>3. Owners(p) = {<<"images_done", 0, k>>}
    BY <2>2
  <2>4. QED
    BY <2>3
<1>12. QED
  BY <1>7, <1>8, <1>9, <1>10, <1>11

\* Nor has a photo that a worker has, once, in its hands or its queues.
LEMMA WorkerOwns ==
  ASSUME FFTypes(Photos), UserTypes, NEW p \in Photos,
         p <= emitted, WithStages(p) = 0, Copies(images_done, p) = 0,
         NEW v \in Workers, WithWorker(v, p) = 1,
         \A w \in Workers \ {v} : WithWorker(w, p) = 0
  PROVE  \E o : Owners(p) = {o}
<1> DEFINE I == Copies(inq[v], p)
           H == worker[v] = "svc" /\ task[v] = p
           O == Copies(outq[v], p)
<1>1. \A w \in Workers : /\ inq[w] \in Seq(Photos \cup {EOS})
                         /\ outq[w] \in Seq(Photos \cup {EOS})
                         /\ Copies(inq[w], p) \in Nat /\ Copies(outq[w], p) \in Nat
  BY TaskCounts
<1>2. \A w \in Workers \ {v} : /\ Copies(inq[w], p) = 0 /\ Copies(outq[w], p) = 0
                               /\ ~(worker[w] = "svc" /\ task[w] = p)
  BY <1>1 DEF WithWorker, One
<1>3. \A w \in Workers \ {v} : Places(inq[w], p) = {} /\ Places(outq[w], p) = {}
  BY <1>1, <1>2, FewPlaces
<1>4. /\ ~(p > emitted) /\ ~(lb = "schedule" /\ sending = p)
      /\ ~(gt = "svc" /\ gathered = p) /\ Copies(images_done, p) = 0
  BY PhotosAssumption DEF WithStages, One, UserTypes, Photos
<1>5. Places(images_done, p) = {}
  BY <1>4, FewPlaces DEF UserTypes
<1>6. I + One(H) + O = 1 /\ I \in Nat /\ O \in Nat
  BY <1>1 DEF WithWorker
<1>7. /\ I = 0 => Places(inq[v], p) = {}
      /\ I = 1 => \E k : Places(inq[v], p) = {k}
      /\ O = 0 => Places(outq[v], p) = {}
      /\ O = 1 => \E k : Places(outq[v], p) = {k}
  BY <1>1, FewPlaces
<1>8. \A o : o \in Owners(p) <=>
        \/ \E k \in Places(inq[v], p) : o = <<"inq", v, k>>
        \/ H /\ o = <<"worker", v, 0>>
        \/ \E k \in Places(outq[v], p) : o = <<"outq", v, k>>
  <2> TAKE o
  <2>1. o \in Owners(p) <=>
          \/ \E w \in Workers : \E k \in Places(inq[w], p) : o = <<"inq", w, k>>
          \/ \E w \in Workers : worker[w] = "svc" /\ task[w] = p /\ o = <<"worker", w, 0>>
          \/ \E w \in Workers : \E k \in Places(outq[w], p) : o = <<"outq", w, k>>
    BY <1>4, <1>5, OwnerKinds
  <2>2. (\E w \in Workers : \E k \in Places(inq[w], p) : o = <<"inq", w, k>>)
          <=> \E k \in Places(inq[v], p) : o = <<"inq", v, k>>
    BY <1>3
  <2>3. (\E w \in Workers : worker[w] = "svc" /\ task[w] = p /\ o = <<"worker", w, 0>>)
          <=> H /\ o = <<"worker", v, 0>>
    BY <1>2
  <2>4. (\E w \in Workers : \E k \in Places(outq[w], p) : o = <<"outq", w, k>>)
          <=> \E k \in Places(outq[v], p) : o = <<"outq", v, k>>
    BY <1>3
  <2>5. QED
    BY <2>1, <2>2, <2>3, <2>4
<1> HIDE DEF I, H, O
<1>9. \/ I = 1 /\ ~H /\ O = 0
      \/ I = 0 /\ H /\ O = 0
      \/ I = 0 /\ ~H /\ O = 1
  BY <1>6 DEF One
<1>10. CASE I = 1 /\ ~H /\ O = 0
  <2>1. PICK k : Places(inq[v], p) = {k}
    BY <1>7, <1>10
  <2>2. \A o : o \in Owners(p) <=> o = <<"inq", v, k>>
    BY <1>7, <1>8, <1>10, <2>1
  <2>3. Owners(p) = {<<"inq", v, k>>}
    BY <2>2
  <2>4. QED
    BY <2>3
<1>11. CASE I = 0 /\ H /\ O = 0
  <2>1. \A o : o \in Owners(p) <=> o = <<"worker", v, 0>>
    BY <1>7, <1>8, <1>11
  <2>2. Owners(p) = {<<"worker", v, 0>>}
    BY <2>1
  <2>3. QED
    BY <2>2
<1>12. CASE I = 0 /\ ~H /\ O = 1
  <2>1. PICK k : Places(outq[v], p) = {k}
    BY <1>7, <1>12
  <2>2. \A o : o \in Owners(p) <=> o = <<"outq", v, k>>
    BY <1>7, <1>8, <1>12, <2>1
  <2>3. Owners(p) = {<<"outq", v, k>>}
    BY <2>2
  <2>4. QED
    BY <2>3
<1>13. QED
  BY <1>9, <1>10, <1>11, <1>12

\* Every photo has exactly one owner at any time, whichever worker it is scheduled
\* to and however often its queue was full.
THEOREM PhotosHaveOneOwner == Spec => []OneOwner
<1>1. FarmInv => OneOwner
  <2> SUFFICES ASSUME FarmInv, NEW p \in Photos
               PROVE  \E o \in Owners(p) : Owners(p) = {o}
    BY DEF OneOwner
  <2>1. /\ FFTypes(Photos) /\ UserTypes
        /\ p \in Nat /\ emitted \in Nat
    BY PhotosAssumption DEF FarmInv, FFInv, UserTypes, Photos
  <2>2. CASE One(p > emitted) + WithStages(p) + Copies(images_done, p) = 1
             /\ \A w \in Workers : WithWorker(w, p) = 0
    <3>1. \E o : Owners(p) = {o}
      BY <2>1, <2>2, StageOwns
    <3>2. QED
      BY <3>1
  <2>3. ASSUME NEW v \in Workers, p <= emitted, WithStages(p) = 0,
               Copies(images_done, p) = 0, WithWorker(v, p) = 1,
               \A w \in Workers \ {v} : WithWorker(w, p) = 0
        PROVE  \E o \in Owners(p) : Owners(p) = {o}
    <3>1. \E o : Owners(p) = {o}
      BY <2>1, <2>3, WorkerOwns
    <3>2. QED
      BY <3>1
  <2>4. One(p > emitted) = 0 <=> p <= emitted
    BY <2>1 DEF One
  <2>5. One(p > emitted) = 1 <=> p > emitted
    BY DEF One
  <2>6. QED
    BY <2>2, <2>3, <2>4, <2>5 DEF FarmInv, OwnedOnce, HeldOnce, Absent
<1>2. QED
  BY <1>1, FarmInvariant, PTL

\* When the gatherer has returned, all the photos have been stored.
LEMMA AllStored ==
  ASSUME FarmInv, main \in {"gt", "joined"}, gt = "returned"
  PROVE  \A p \in Photos : IsIn(p, images_done)
<1> SUFFICES ASSUME NEW p \in Photos PROVE IsIn(p, images_done)
  OBVIOUS
<1>1. Absent(p) /\ ~HeldOnce(p)
  BY NothingLeft, HeldOrAbsent DEF FarmInv
<1>2. ~(p > emitted)
  BY PhotosAssumption DEF FarmInv, FFInv, MainInv, SvcInv, Photos
<1>3. Copies(images_done, p) = 1
  BY <1>1, <1>2 DEF FarmInv, OwnedOnce
<1>4. QED
  BY <1>3, NoCopies DEF FarmInv, UserTypes

\* fastflow_farm.cpp implements MarkedBatch: the photo a worker marks has no
\* watermark yet, the one the collector stores has one and is not stored yet, and
\* main() goes on when all are stored.
THEOREM FastflowFarmImplementsBatch == Spec => ImplementsBatch
<1>1. Init => Batch!BatchInit
  BY DEF Init, FFInit, Batch!BatchInit
<1>2. FarmInv /\ [Next]_vars => [Batch!BatchNext]_(Batch!batchVars)
  <2> SUFFICES ASSUME FarmInv, [Next]_vars
               PROVE  [Batch!BatchNext]_(Batch!batchVars)
    OBVIOUS
  <2>1. FFTypes(Photos) /\ UserTypes /\ OwnedOnce /\ MarkedOnce
    BY DEF FarmInv, FFInv
  <2>2. ASSUME UNCHANGED <<times, images_done>>, main' = main
        PROVE  [Batch!BatchNext]_(Batch!batchVars)
    BY <2>2 DEF Batch!batchVars
  <2>3. CASE Emit
    BY <2>1, <2>2, <2>3, EmitFrame
  <2>4. CASE EmitEOS
    BY <2>2, <2>4 DEF EmitEOS, EmitterEnds, userVars
  <2>5. ASSUME LBStep, UNCHANGED userVars PROVE [Batch!BatchNext]_(Batch!batchVars)
    BY <2>2, <2>5 DEF LBStep, Schedule, Broadcast, BroadcastDone, Retry, userVars
  <2>6. ASSUME Gather, UNCHANGED userVars PROVE [Batch!BatchNext]_(Batch!batchVars)
    BY <2>2, <2>6 DEF Gather, userVars
  <2>7. CASE UNCHANGED vars
    BY <2>2, <2>7 DEF vars, ffVars, userVars
  <2>8. ASSUME NEW v \in Workers,
               \/ (WorkerPop(v) \/ WorkerPushEOS(v)) /\ UNCHANGED userVars
               \/ Return(v)
        PROVE  [Batch!BatchNext]_(Batch!batchVars)
    BY <2>2, <2>8 DEF WorkerPop, WorkerPushEOS, Return, WorkerPush, userVars
  <2>9. ASSUME NEW v \in Workers, TestCounter(v) \/ Sample(v) \/ Count(v)
        PROVE  [Batch!BatchNext]_(Batch!batchVars)
    <3>1. times' = times
      BY <2>9 DEF TestCounter, Sample, Count
    <3>2. QED
      BY <2>2, <2>9, <3>1, InnerFrame DEF Inner
  <2>10. ASSUME NEW v \in Workers, Mark(v) PROVE [Batch!BatchNext]_(Batch!batchVars)
    <3>1. task[v] \in Photos /\ times[task[v]] = 0
      BY <2>1, <2>10, MarkIsFirst
    <3>2. times' = [times EXCEPT ![task[v]] = @ + 1]
      BY <2>10 DEF Mark
    <3>3. UNCHANGED images_done /\ main' = main
      BY <2>10, InnerFrame DEF Inner
    <3>4. times' = [times EXCEPT ![task[v]] = 1]
      BY <3>1, <3>2
    <3>5. Batch!MarkPhoto(task[v])
      BY <3>1, <3>3, <3>4 DEF Batch!MarkPhoto
    <3>6. QED
      BY <3>1, <3>5 DEF Batch!BatchNext
  <2>11. CASE Collect
    <3>1. /\ gt = "svc" /\ images_done' = Append(images_done, gathered)
          /\ times' = times /\ main' = main
      BY <2>11 DEF Collect, Collected
    <3>2. gathered \in Photos /\ ~IsIn(gathered, images_done)
      BY <2>1, <3>1, OnlyGathered
    <3>3. times[gathered] = 1
      BY <2>1, <3>1, <3>2 DEF MarkedOnce, Marked, One
    <3>4. Batch!HandOver(gathered)
      BY <3>1, <3>2, <3>3 DEF Batch!HandOver, Batch!IsIn, Batch!Places, IsIn, Places
    <3>5. QED
      BY <3>2, <3>4 DEF Batch!BatchNext
  <2>12. ASSUME MainStep, UNCHANGED userVars PROVE [Batch!BatchNext]_(Batch!batchVars)
    <3>1. UNCHANGED <<times, images_done>>
      BY <2>12 DEF userVars
    <3>2. CASE WaitWorkers \/ WaitLB
      <4>1. (main' = "joined") = (main = "joined")
        BY <3>2 DEF WaitWorkers, WaitLB
      <4>2. QED
        BY <3>1, <4>1 DEF Batch!batchVars
    <3>3. CASE WaitGT
      <4>1. main = "gt" /\ gt = "returned" /\ main' = "joined"
        BY <3>3 DEF WaitGT
      <4>2. \A p \in Photos : IsIn(p, images_done)
        BY <4>1, AllStored
      <4>3. Batch!Finish
        BY <3>1, <4>1, <4>2 DEF Batch!Finish, Batch!IsIn, Batch!Places, IsIn, Places
      <4>4. QED
        BY <4>3 DEF Batch!BatchNext
    <3>4. QED
      BY <2>12, <3>2, <3>3 DEF MainStep
  <2>13. QED
    BY <2>3, <2>4, <2>5, <2>6, <2>7, <2>8, <2>9, <2>10, <2>11, <2>12, NextCases DEF Inner
<1>3. QED
  BY <1>1, <1>2, FarmInvariant, PTL DEF Spec, ImplementsBatch, Batch!BatchSpec
=============================================================================
