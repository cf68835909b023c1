---------------------------- MODULE FastflowMap ----------------------------
(***************************************************************************)
(* fastflow_map.cpp on the farm skeleton of FFFarm: the emitter splits the *)
(* rows of each photo into one portion per worker and sends the portions;  *)
(* unlike in map.cpp any worker may get any of them.  A worker marks the   *)
(* rows of a portion in the pixels that all portions of the photo share;   *)
(* the collector stores a photo when its last portion has arrived.  What   *)
(* counter_worker guards, the assignment of ideal_service_worker, is a     *)
(* measured time and left out; it happens in the step that increments the  *)
(* counter, of which only whether it is zero matters.                      *)
(***************************************************************************)
EXTENDS FFFarm, Partition

CONSTANTS NPhotos,              \* number_of_photos, the copies in memory
          Heights               \* the heights the input image may have

Photos == 1..NPhotos

ASSUME MapAssumption ==
  /\ NPhotos \in Nat
  /\ Heights \subseteq Nat \ {0}
  /\ EOS \notin [photo : Photos, index : Nat, starting : Nat, total_parts : Nat]

VARIABLES height,               \* rows of the input image
          photo, i,             \* the loops of the emitter's svc()
          chunk, chunk_assigned, \* its locals: rows per portion, rows given away
          svc,                  \* where each worker is in its svc()
          y,                    \* each worker's row
          marks,                \* how often each row of each photo was marked
          counter_worker,       \* "zero" or "counted"
          results,              \* portions of each photo that have arrived
          photos_completed

emitterVars == <<photo, i, chunk, chunk_assigned>>
svcVars == <<svc, y, marks, counter_worker>>
collectorVars == <<results, photos_completed>>
userVars == <<height, emitterVars, svcVars, collectorVars>>
vars == <<ffVars, userVars>>

\* The queues carry pointers: the index tells the portions of a photo apart, which
\* are equal otherwise if they are empty.
Portion(p, index, start, parts) ==
  [photo |-> p, index |-> index, starting |-> start, total_parts |-> parts]

Init == /\ FFInit
        /\ height \in Heights
        /\ photo = 1 /\ i = 0
        /\ chunk = (height \div number_of_workers) + 1
        /\ chunk_assigned = 0
        /\ svc = [w \in Workers |-> "mark"]
        /\ y = [w \in Workers |-> 0]
        /\ marks = [p \in Photos |-> [r \in 0..(height - 1) |-> 0]]
        /\ counter_worker = "zero"
        /\ results = [p \in Photos |-> 0]
        /\ photos_completed = <<>>

-----------------------------------------------------------------------------
(* firstStage::svc                                                         *)

\* Mutant: the next portion starts where this one did.
StartUnmoved == chunk_assigned

\* for(Image *ph : photos)
MorePhotos == photo <= NPhotos

\* if (i == rest_chunk) chunk--
ChunkNow == IF i = height % number_of_workers THEN chunk - 1 ELSE chunk

\* chunk_assigned += chunk
AssignedNow == chunk_assigned + ChunkNow

\* One turn of the inner loop, with the start of the next photo if it is the last.
EmitPortion ==
  /\ MorePhotos
  /\ SendOut(Portion(photo, i, chunk_assigned, ChunkNow))
  /\ IF i + 1 < number_of_workers
     THEN /\ i' = i + 1
          /\ chunk' = ChunkNow
          /\ chunk_assigned' = AssignedNow
          /\ UNCHANGED photo
     ELSE /\ photo' = photo + 1
          /\ i' = 0
          /\ chunk' = (height \div number_of_workers) + 1
          /\ chunk_assigned' = 0
  /\ UNCHANGED <<height, svcVars, collectorVars>>

EmitEOS == ~MorePhotos /\ EmitterEnds /\ UNCHANGED userVars

-----------------------------------------------------------------------------
(* Worker::svc                                                             *)

InSvc(w, label) == worker[w] = "svc" /\ svc[w] = label

Goto(w, label) == svc' = [svc EXCEPT ![w] = label]

\* Mutant: the portion's first row is ignored.
RowFromZero(w) == y[w]

\* int j = y + ii->starting
Row(w) == y[w] + task[w].starting

\* cimg_forX: the pixels of row j that the watermark covers
MarkRow(w) ==
  /\ InSvc(w, "mark")
  /\ y[w] < task[w].total_parts
  /\ marks' = [marks EXCEPT ![task[w].photo][Row(w)] = @ + 1]
  /\ y' = [y EXCEPT ![w] = @ + 1]
  /\ UNCHANGED <<ffVars, height, emitterVars, svc, counter_worker, collectorVars>>

\* The loop is left; if (counter_worker == 0)
TestCounter(w) ==
  /\ InSvc(w, "mark")
  /\ y[w] >= task[w].total_parts
  /\ Goto(w, IF counter_worker = "zero" THEN "count" ELSE "return")
  /\ UNCHANGED <<ffVars, height, emitterVars, y, marks, counter_worker, collectorVars>>

\* counter_worker++
Count(w) ==
  /\ InSvc(w, "count")
  /\ counter_worker' = "counted"
  /\ Goto(w, "return")
  /\ UNCHANGED <<ffVars, height, emitterVars, y, marks, collectorVars>>

Return(w) ==
  /\ InSvc(w, "return")
  /\ WorkerPush(w)
  /\ Goto(w, "mark")
  /\ y' = [y EXCEPT ![w] = 0]
  /\ UNCHANGED <<height, emitterVars, marks, counter_worker, collectorVars>>

-----------------------------------------------------------------------------
(* lastStage::svc                                                          *)

\* Mutant: the photo is stored with its first portion.
FirstPortion(p) == results[p] = 0

\* results[ph->Pho_title].size() == number_of_workers after the push_back
LastPortion(p) == results[p] + 1 = number_of_workers

Collect ==
  /\ Collected
  /\ results' = [results EXCEPT ![gathered.photo] = @ + 1]
  /\ photos_completed' = IF LastPortion(gathered.photo)
                         THEN Append(photos_completed, gathered.photo)
                         ELSE photos_completed
  /\ UNCHANGED <<height, emitterVars, svcVars>>

-----------------------------------------------------------------------------
LB == EmitPortion \/ EmitEOS \/ (LBStep /\ UNCHANGED userVars)

Worker(w) == \/ WorkerStep(w) /\ UNCHANGED userVars
             \/ MarkRow(w) \/ TestCounter(w) \/ Count(w) \/ Return(w)

GT == Collect \/ (Gather /\ UNCHANGED userVars)

Main == MainStep /\ UNCHANGED userVars

\* The program has ended; nothing happens any more.
Terminated == main = "joined" /\ UNCHANGED vars

Next == \/ LB
        \/ \E w \in Workers : Worker(w)
        \/ GT
        \/ Main
        \/ Terminated

Spec == Init /\ [][Next]_vars

\* The operating system runs each thread; threads that spin keep spinning.
Fairness == /\ WF_vars(LB)
            /\ \A w \in Workers : WF_vars(Worker(w))
            /\ WF_vars(GT)
            /\ WF_vars(Main)

FairSpec == Spec /\ Fairness

-----------------------------------------------------------------------------
(* Properties                                                              *)

Rows == 0..(height - 1)

\* The rows of a portion
PortionRows(part) == part.starting .. (part.starting + part.total_parts - 1)

\* Two workers may be at work on one photo at the same time, without a lock, but
\* never on the same row, whichever portions they have got.
NoRowIsShared ==
  \A v, w \in Workers :
    v # w /\ InSvc(v, "mark") /\ InSvc(w, "mark") /\ task[v].photo = task[w].photo
      => PortionRows(task[v]) \cap PortionRows(task[w]) = {}

\* A photo in photos_completed is there once, and each of its rows has been
\* marked exactly once, although its portions arrive in any order.
DoneMeansMarked ==
  \A p \in Photos : IsIn(p, photos_completed) =>
    /\ Copies(photos_completed, p) = 1
    /\ \A r \in Rows : marks[p][r] = 1

\* How often photo p as a whole has been marked
TimesMarked(p) == IF \E r \in Rows : marks[p][r] > 1 THEN 2
                  ELSE IF \A r \in Rows : marks[p][r] = 1 THEN 1
                  ELSE 0

\* fastflow_map.cpp implements MarkedBatch: the photo is marked once, by whatever
\* workers get its portions, and handed over once, after the last of its rows.
Batch == INSTANCE MarkedBatch WITH times <- [p \in Photos |-> TimesMarked(p)],
                                   done <- photos_completed,
                                   finished <- (main = "joined")
ImplementsBatch == Batch!BatchSpec

\* All threads return and main() joins them.
Termination == <>(main = "joined")
=============================================================================
