-------------------------- MODULE FastflowMapProofs --------------------------
(***************************************************************************)
(* Theorems about fastflow_map.cpp, for any number of workers and photos,  *)
(* any positive height and any room in the input queues.  The farm keeps   *)
(* FFInv, with the portions for its tasks.  What is added here is what the *)
(* portions are, where each of them is, when its rows have been marked and *)
(* when the collector may store a photo.                                   *)
(*                                                                         *)
(* The tasks depend on the height of the photos, which is a variable that  *)
(* never changes; h stands for its value.                                  *)
(***************************************************************************)
EXTENDS FastflowMap, FFFarmProofs

n == number_of_workers

\* Portion k of photo p; there are as many of each photo as workers.
Part(h, p, k) == Portion(p, k, Start(h, n, k), Share(h, n, k))

Parts(h) == {Part(h, p, k) : p \in Photos, k \in Workers}

\* The loops of the emitter at their head: the portions before i have been given
\* away, and chunk is decremented as soon as i is past h % n.
EmitterInv(h) ==
  /\ photo \in 1..(NPhotos + 1) /\ i \in Workers
  /\ photo > NPhotos => i = 0
  /\ chunk_assigned = Start(h, n, i)
  /\ chunk = (h \div n) + (IF i <= h % n THEN 1 ELSE 0)
  /\ lb \notin {"svc", "schedule"} => photo > NPhotos

UserTypes(h) ==
  /\ height = h
  /\ svc \in [Workers -> {"mark", "count", "return"}]
  /\ y \in [Workers -> Nat]
  /\ marks \in [Photos -> [0..(h - 1) -> Nat]]
  /\ results \in [Photos -> Nat]
  /\ photos_completed \in Seq(Photos)

\* A worker begins with the first row of a portion and returns behind the last.
SvcInv ==
  \A w \in Workers :
    IF worker[w] = "svc" THEN /\ y[w] <= task[w].total_parts
                              /\ svc[w] # "mark" => y[w] = task[w].total_parts
                         ELSE svc[w] = "mark" /\ y[w] = 0

\* The emitter has sent portion k of photo p.
Emitted(p, k) == p < photo \/ (p = photo /\ k < i)

\* A portion has not been sent yet, or it is in the farm once, or it has arrived.
OwnedOnce(h) ==
  \A p \in Photos : \A k \in Workers :
    IF Emitted(p, k) THEN HeldOnce(Part(h, p, k)) \/ Absent(Part(h, p, k))
                     ELSE Absent(Part(h, p, k))

\* The portions of photo p that have arrived at the collector
Arrived(h, p) == {k \in Workers : Emitted(p, k) /\ Absent(Part(h, p, k))}

\* The collector counts the portions of a photo, and stores it with the last.
ResultsInv(h) ==
  \A p \in Photos : /\ results[p] = Cardinality(Arrived(h, p))
                    /\ Copies(photos_completed, p) = One(results[p] = n)

\* Row r of a portion that has been sent is marked unless the portion is waiting, or
\* the row is still ahead of the worker that has it.
RowDone(h, p, k, r) ==
  /\ Emitted(p, k) /\ ~Waiting(Part(h, p, k))
  /\ \A w \in Workers : worker[w] = "svc" /\ task[w] = Part(h, p, k)
                          => r < Start(h, n, k) + y[w]

MarksInv(h) ==
  \A p \in Photos : \A k \in Workers : \A r \in RowsOf(h, n, k) :
    marks[p][r] = One(RowDone(h, p, k, r))

MapInv(h) == /\ FFInv(Parts(h)) /\ EmitterInv(h) /\ UserTypes(h) /\ SvcInv
             /\ OwnedOnce(h) /\ ResultsInv(h) /\ MarksInv(h)

\* The invariant, whatever the height is
MapFull == \E h \in Nat \ {0} : MapInv(h)

-----------------------------------------------------------------------------
(* The portions                                                            *)

\* The workers, and the portions of a photo, are numbered.
LEMMA Numbered == n \in Nat \ {0} /\ Workers = 0..(n - 1) /\ NPhotos \in Nat
BY FFAssumption, MapAssumption DEF n, Workers

\* What the fields of a portion are
LEMMA PartFields ==
  ASSUME NEW h \in Nat \ {0}, NEW p \in Photos, NEW k \in Workers
  PROVE  /\ Start(h, n, k) \in Nat /\ Share(h, n, k) \in Nat
         /\ Part(h, p, k) \in Parts(h) /\ Part(h, p, k) # EOS
         /\ Part(h, p, k).photo = p /\ Part(h, p, k).index = k
         /\ Part(h, p, k).starting = Start(h, n, k)
         /\ Part(h, p, k).total_parts = Share(h, n, k)
<1>1. Start(h, n, k) \in Nat /\ Share(h, n, k) \in Nat /\ k \in Nat
  BY Numbered, StartNext
<1> HIDE DEF n
<1>2. Part(h, p, k) \in [photo : Photos, index : Nat, starting : Nat, total_parts : Nat]
  BY <1>1 DEF Part, Portion
<1>3. QED
  BY <1>1, <1>2, MapAssumption DEF Part, Portion, Parts

\* Portions are told apart by their photo and their index.
LEMMA PartsDiffer ==
  ASSUME NEW h \in Nat \ {0}, NEW p \in Photos, NEW k \in Workers,
         NEW q \in Photos, NEW j \in Workers, Part(h, p, k) = Part(h, q, j)
  PROVE  p = q /\ k = j
BY PartFields

\* What all portions have in common; EOS is none of them.
LEMMA AllParts ==
  ASSUME NEW h \in Nat \ {0}
  PROVE  /\ EOS \notin Parts(h)
         /\ \A x \in Parts(h) : \E p \in Photos, k \in Workers :
              /\ x = Part(h, p, k) /\ x.photo = p
              /\ x.total_parts = Share(h, n, k) /\ x.total_parts \in Nat
<1>1. \A x \in Parts(h) : \E p \in Photos, k \in Workers : x = Part(h, p, k)
  BY SMT DEF Parts
<1> HIDE DEF n
<1>2. QED
  BY <1>1, PartFields

\* The portions of a photo tile its rows.
LEMMA PartsTile ==
  ASSUME NEW h \in Nat \ {0}
  PROVE  /\ \A k \in Workers : RowsOf(h, n, k) \subseteq 0..(h - 1)
         /\ \A j, k \in Workers : j # k => RowsOf(h, n, j) \cap RowsOf(h, n, k) = {}
         /\ \A r \in 0..(h - 1) : \E k \in Workers : r \in RowsOf(h, n, k)
<1> HIDE DEF n
<1>1. /\ \A j, k \in 0..(n - 1) : j # k => RowsOf(h, n, j) \cap RowsOf(h, n, k) = {}
      /\ UNION {RowsOf(h, n, k) : k \in 0..(n - 1)} = 0..(h - 1)
  BY Numbered, RowsTiled
<1>2. QED
  BY <1>1, Numbered

\* There are n workers.
LEMMA AllOfThem ==
  ASSUME NEW S, S \subseteq Workers
  PROVE  /\ IsFiniteSet(S) /\ Cardinality(S) \in 0..n
         /\ Cardinality(S) = n <=> S = Workers
<1>1. IsFiniteSet(Workers) /\ Cardinality(Workers) = n
  BY WorkersFinite DEF n
<1>2. IsFiniteSet(S) /\ Cardinality(S) <= n /\ (Cardinality(S) = n => S = Workers)
  BY <1>1, FS_Subset
<1>3. Cardinality(S) \in Nat
  BY <1>2, FS_CardinalityType
<1>4. QED
  BY <1>1, <1>2, <1>3, Numbered

-----------------------------------------------------------------------------
(* The steps                                                               *)

\* The steps of svc() that leave the farm alone
Inner(w) == MarkRow(w) \/ TestCounter(w) \/ Count(w)

\* Next, flattened
LEMMA NextCases ==
  [Next]_vars <=>
    \/ EmitPortion \/ EmitEOS
    \/ LBStep /\ UNCHANGED userVars
    \/ \E w \in Workers : \/ WorkerPop(w) /\ UNCHANGED userVars
                          \/ WorkerPushEOS(w) /\ UNCHANGED userVars
                          \/ Inner(w) \/ Return(w)
    \/ Collect
    \/ Gather /\ UNCHANGED userVars
    \/ MainStep /\ UNCHANGED userVars
    \/ UNCHANGED vars
<1>1. Terminated => UNCHANGED vars
  BY Zenon DEF Terminated
<1>2. \A w \in Workers :
        Worker(w) <=> \/ WorkerPop(w) /\ UNCHANGED userVars
                      \/ WorkerPushEOS(w) /\ UNCHANGED userVars
                      \/ Inner(w) \/ Return(w)
  BY Zenon DEF Worker, WorkerStep, Inner
<1>3. QED
  BY <1>1, <1>2, Zenon DEF Next, LB, GT, Main

\* What the steps of svc() leave alone
LEMMA InnerFrame ==
  ASSUME NEW w \in Workers, Inner(w)
  PROVE  /\ worker[w] = "svc"
         /\ UNCHANGED <<lb, sending, inq, outq, worker, task, gt, gathered, main, height,
                        photo, i, chunk, chunk_assigned, results, photos_completed>>
         /\ UNCHANGED ffVars
BY DEF Inner, MarkRow, TestCounter, Count, InSvc, ffVars, lbVars, workerVars, gtVars,
       emitterVars, collectorVars

\* What the emitter sends is the next portion.
LEMMA NextPart ==
  ASSUME NEW h \in Nat \ {0}, EmitterInv(h), height = h, EmitPortion
  PROVE  /\ photo \in Photos /\ i \in Workers
         /\ chunk_assigned = Start(h, n, i) /\ ChunkNow = Share(h, n, i)
         /\ SendOut(Part(h, photo, i))
<1> DEFINE d == h \div n
           m == h % n
<1>1. /\ photo <= NPhotos /\ photo \in 1..(NPhotos + 1) /\ i \in Workers
      /\ chunk_assigned = Start(h, n, i)
      /\ chunk = d + (IF i <= m THEN 1 ELSE 0)
  BY DEF EmitPortion, MorePhotos, EmitterInv
<1>2. ChunkNow = IF i = m THEN chunk - 1 ELSE chunk
  BY DEF ChunkNow, n
<1>3. Share(h, n, i) = d + (IF i < m THEN 1 ELSE 0)
  BY Zenon DEF Share
<1>4. d \in Nat /\ m \in Nat /\ i \in Int
  BY <1>1, Numbered, Division
<1> HIDE DEF d, m, n
<1>5. ChunkNow = Share(h, n, i)
  BY <1>1, <1>2, <1>3, <1>4
<1>6. photo \in Photos
  BY <1>1, Numbered DEF Photos
<1>7. SendOut(Part(h, photo, i))
  BY <1>1, <1>5 DEF EmitPortion, Part
<1>8. QED
  BY <1>1, <1>5, <1>6, <1>7

\* The emitter sends a portion, goes on to the next, and does nothing else.
LEMMA EmitFrame ==
  ASSUME NEW h \in Nat \ {0}, EmitterInv(h), height = h, EmitPortion
  PROVE  /\ lb = "svc" /\ lb' = "schedule" /\ sending' = Part(h, photo, i)
         /\ IF i + 1 < n THEN photo' = photo /\ i' = i + 1
                         ELSE photo' = photo + 1 /\ i' = 0
         /\ UNCHANGED <<inq, outq, worker, task, gt, gathered, main, height, svc, y,
                        marks, results, photos_completed>>
BY NextPart DEF EmitPortion, SendOut, workerVars, gtVars, svcVars, collectorVars, n

\* The farm's invariant: the program only takes steps of the farm.
LEMMA FFKept ==
  ASSUME NEW h \in Nat \ {0}, FFInv(Parts(h)), EmitterInv(h), height = h, [Next]_vars
  PROVE  FFInv(Parts(h))'
<1>1. FFStep(Parts(h)) \/ UNCHANGED ffVars
  <2>1. CASE EmitPortion
    BY <2>1, NextPart, PartFields DEF FFStep
  <2>2. CASE EmitEOS
    BY <2>2 DEF EmitEOS, FFStep
  <2>3. CASE Collect
    BY <2>3 DEF Collect, FFStep
  <2>4. ASSUME NEW w \in Workers, Inner(w) PROVE UNCHANGED ffVars
    BY <2>4, InnerFrame
  <2>5. ASSUME NEW w \in Workers, Return(w) \/ WorkerPop(w) \/ WorkerPushEOS(w)
        PROVE  FFStep(Parts(h))
    BY <2>5 DEF Return, FFStep, WorkerStep
  <2>6. UNCHANGED vars => UNCHANGED ffVars
    BY DEF vars
  <2>7. QED
    BY <2>1, <2>2, <2>3, <2>4, <2>5, <2>6, NextCases DEF FFStep
<1>2. QED
  BY <1>1, FFStepInv, AllParts

-----------------------------------------------------------------------------
(* The steps keep the rest of the invariant, part by part.                 *)

\* The loops of the emitter compute the portions.
LEMMA EmitterStep ==
  ASSUME NEW h \in Nat \ {0}, EmitterInv(h), height = h, [Next]_vars
  PROVE  EmitterInv(h)'
<1> DEFINE d == h \div n
           m == h % n
<1>1. ASSUME UNCHANGED emitterVars, lb' \notin {"svc", "schedule"} => photo > NPhotos
      PROVE  EmitterInv(h)'
  BY <1>1 DEF EmitterInv, emitterVars, n
<1>2. CASE EmitPortion
  <2>1. /\ photo \in Photos /\ i \in Workers /\ lb' = "schedule"
        /\ chunk_assigned = Start(h, n, i) /\ ChunkNow = Share(h, n, i)
        /\ IF i + 1 < n THEN photo' = photo /\ i' = i + 1
                        ELSE photo' = photo + 1 /\ i' = 0
    BY <1>2, NextPart, EmitFrame
  <2>2. d \in Nat /\ m \in Nat /\ i \in Int /\ n \in Nat
    BY <2>1, Numbered, Division
  <2>3. CASE i + 1 < n
    <3>1. chunk' = ChunkNow /\ chunk_assigned' = chunk_assigned + ChunkNow
      BY <1>2, <2>3 DEF EmitPortion, AssignedNow, n
    <3>2. Start(h, n, i + 1) = Start(h, n, i) + Share(h, n, i)
      BY <2>1, Numbered, StartNext
    <3>3. Share(h, n, i) = d + (IF i < m THEN 1 ELSE 0)
      BY Zenon DEF Share
    <3>4. i + 1 \in Workers /\ (i < m <=> i + 1 <= m)
      BY <2>1, <2>2, <2>3, Numbered
    <3>5. chunk' = d + (IF i' <= m THEN 1 ELSE 0) /\ chunk_assigned' = Start(h, n, i')
      BY <2>1, <2>3, <3>1, <3>2, <3>3, <3>4
    <3>6. photo' \in 1..(NPhotos + 1) /\ ~(photo' > NPhotos)
      BY <2>1, <2>3, Numbered DEF Photos
    <3>7. QED
      BY <2>1, <2>3, <3>4, <3>5, <3>6 DEF EmitterInv, n
  <2>4. CASE ~(i + 1 < n)
    <3>1. chunk' = d + 1 /\ chunk_assigned' = 0
      BY <1>2, <2>4 DEF EmitPortion, n
    <3>2. Start(h, n, 0) = 0 /\ 0 \in Workers /\ 0 <= m
      BY <2>2, Numbered, StartEnds
    <3>3. photo' \in 1..(NPhotos + 1)
      BY <2>1, <2>4, Numbered DEF Photos
    <3>4. QED
      BY <2>1, <2>4, <3>1, <3>2, <3>3 DEF EmitterInv, n
  <2>5. QED
    BY <2>3, <2>4
<1>3. CASE EmitEOS
  <2>1. ~(photo <= NPhotos) /\ photo \in 1..(NPhotos + 1) /\ UNCHANGED emitterVars
    BY <1>3 DEF EmitEOS, MorePhotos, userVars, EmitterInv
  <2>2. photo > NPhotos
    BY <2>1, Numbered
  <2>3. QED
    BY <1>1, <2>1, <2>2
<1>4. ASSUME LBStep, UNCHANGED userVars PROVE EmitterInv(h)'
  <2>1. lb' \notin {"svc", "schedule"} => lb \notin {"svc", "schedule"}
    BY <1>4 DEF LBStep, Schedule, Broadcast, BroadcastDone, Retry
  <2>2. QED
    BY <1>1, <1>4, <2>1 DEF EmitterInv, userVars
<1>5. ASSUME UNCHANGED <<emitterVars, lb>> PROVE EmitterInv(h)'
  BY <1>1, <1>5 DEF EmitterInv
<1>6. ASSUME NEW w \in Workers, Inner(w) PROVE EmitterInv(h)'
  BY <1>5, <1>6, InnerFrame DEF emitterVars
<1>7. ASSUME NEW w \in Workers, Return(w) PROVE EmitterInv(h)'
  BY <1>5, <1>7 DEF Return, WorkerPush, lbVars
<1>8. ASSUME NEW w \in Workers, WorkerPop(w) \/ WorkerPushEOS(w), UNCHANGED userVars
      PROVE  EmitterInv(h)'
  BY <1>5, <1>8 DEF WorkerPop, WorkerPushEOS, userVars, lbVars
<1>9. CASE Collect
  BY <1>5, <1>9 DEF Collect, Collected, lbVars
<1>10. ASSUME Gather \/ MainStep, UNCHANGED userVars PROVE EmitterInv(h)'
  BY <1>5, <1>10 DEF Gather, MainStep, WaitWorkers, WaitLB, WaitGT, userVars, lbVars
<1>11. CASE UNCHANGED vars
  BY <1>5, <1>11 DEF vars, userVars, ffVars, lbVars
<1>12. QED
  BY <1>2, <1>3, <1>4, <1>6, <1>7, <1>8, <1>9, <1>10, <1>11, NextCases

\* A worker marks the next row of its portion, which is a row of the photo.
LEMMA RowMarked ==
  ASSUME NEW h \in Nat \ {0}, FFTypes(Parts(h)), UserTypes(h), NEW w \in Workers, MarkRow(w)
  PROVE  \E q \in Photos, k \in Workers, r \in 0..(h - 1) :
           /\ worker[w] = "svc" /\ svc[w] = "mark" /\ task[w] = Part(h, q, k)
           /\ y[w] \in Nat /\ y[w] < Share(h, n, k)
           /\ r = Start(h, n, k) + y[w] /\ r \in RowsOf(h, n, k)
           /\ marks' \in [Photos -> [0..(h - 1) -> Nat]]
           /\ \A p \in Photos : \A j \in 0..(h - 1) :
                marks'[p][j] = IF p = q /\ j = r THEN marks[q][r] + 1 ELSE marks[p][j]
           /\ y' \in [Workers -> Nat]
           /\ y'[w] = y[w] + 1 /\ \A v \in Workers \ {w} : y'[v] = y[v]
           /\ svc' = svc
<1>1. /\ worker[w] = "svc" /\ svc[w] = "mark" /\ y[w] < task[w].total_parts
      /\ marks' = [marks EXCEPT ![task[w].photo][y[w] + task[w].starting] = @ + 1]
      /\ y' = [y EXCEPT ![w] = @ + 1] /\ svc' = svc
  BY DEF MarkRow, InSvc, Row
<1>2. task[w] \in Parts(h) /\ y \in [Workers -> Nat]
      /\ marks \in [Photos -> [0..(h - 1) -> Nat]]
  BY <1>1 DEF FFTypes, UserTypes
<1>3. PICK q \in Photos, k \in Workers : task[w] = Part(h, q, k)
  BY <1>2, AllParts
<1>4. /\ Start(h, n, k) \in Nat /\ Share(h, n, k) \in Nat
      /\ task[w].photo = q /\ task[w].starting = Start(h, n, k)
      /\ task[w].total_parts = Share(h, n, k)
  BY <1>3, PartFields
<1>5. y[w] \in Nat /\ y[w] < Share(h, n, k)
  BY <1>1, <1>2, <1>4
<1> DEFINE r == Start(h, n, k) + y[w]
<1>6. r \in RowsOf(h, n, k) /\ r \in 0..(h - 1) /\ r = y[w] + task[w].starting
  <2>1. r \in RowsOf(h, n, k)
    BY <1>4, <1>5 DEF RowsOf
  <2>2. QED
    BY <1>4, <1>5, <2>1, PartsTile
<1> HIDE DEF n
<1>7. marks' = [marks EXCEPT ![q][r] = @ + 1]
  BY <1>1, <1>4, <1>6
<1>8. /\ \A p \in Photos : \A j \in 0..(h - 1) :
           marks'[p][j] = IF p = q /\ j = r THEN marks[q][r] + 1 ELSE marks[p][j]
      /\ marks' \in [Photos -> [0..(h - 1) -> Nat]]
  <2>1. r \in 0..(h - 1)
    BY <1>6
  <2> HIDE DEF r
  <2>2. QED
    BY <1>2, <1>7, <2>1, SMTT(30)
<1>9. /\ y' \in [Workers -> Nat]
      /\ y'[w] = y[w] + 1 /\ \A v \in Workers \ {w} : y'[v] = y[v]
  BY <1>1, <1>2
<1>10. r = Start(h, n, k) + y[w]
  OBVIOUS
<1> HIDE DEF r
<1>11. QED
  BY <1>1, <1>3, <1>5, <1>6, <1>7, <1>8, <1>9, <1>10, ZenonT(60)

\* The types of the program's own variables
LEMMA TypesStep ==
  ASSUME NEW h \in Nat \ {0}, FFTypes(Parts(h)), UserTypes(h), EmitterInv(h), [Next]_vars
  PROVE  UserTypes(h)'
<1>0. height = h
  BY DEF UserTypes
<1>1. CASE UNCHANGED userVars
  BY <1>1 DEF userVars, svcVars, collectorVars, UserTypes
<1>2. CASE EmitPortion
  BY <1>0, <1>2, EmitFrame DEF UserTypes
<1>3. CASE Collect
  <2>1. PICK q \in Photos : q = gathered.photo
    <3>1. gathered \in Parts(h)
      BY <1>3 DEF Collect, Collected, FFTypes
    <3>2. QED
      BY <3>1, AllParts
  <2>2. results' = [results EXCEPT ![q] = @ + 1]
    BY <1>3, <2>1 DEF Collect
  <2>3. \/ photos_completed' = photos_completed
        \/ photos_completed' = Append(photos_completed, q)
    BY <1>3, <2>1 DEF Collect
  <2>4. results' \in [Photos -> Nat]
    BY <2>2 DEF UserTypes
  <2>5. photos_completed' \in Seq(Photos)
    <3>1. photos_completed \in Seq(Photos)
      BY DEF UserTypes
    <3>2. Append(photos_completed, q) \in Seq(Photos)
      BY <3>1
    <3>3. QED
      BY <2>3, <3>1, <3>2
  <2>6. QED
    BY <1>3, <2>4, <2>5 DEF Collect, svcVars, UserTypes
<1>4. ASSUME NEW w \in Workers, MarkRow(w) PROVE UserTypes(h)'
  <2>1. marks' \in [Photos -> [0..(h - 1) -> Nat]] /\ y' \in [Workers -> Nat]
    BY <1>4, RowMarked
  <2>2. QED
    BY <1>4, <2>1 DEF MarkRow, collectorVars, UserTypes
<1>5. ASSUME NEW w \in Workers, TestCounter(w) \/ Count(w) \/ Return(w) PROVE UserTypes(h)'
  <2>1. /\ UNCHANGED <<height, marks, results, photos_completed>>
        /\ svc' = [svc EXCEPT ![w] = "mark"] \/ svc' = [svc EXCEPT ![w] = "count"]
             \/ svc' = [svc EXCEPT ![w] = "return"]
        /\ y' = y \/ y' = [y EXCEPT ![w] = 0]
    BY <1>5 DEF TestCounter, Count, Return, Goto, collectorVars
  <2>2. svc' \in [Workers -> {"mark", "count", "return"}]
    BY <2>1 DEF UserTypes
  <2>3. y' \in [Workers -> Nat]
    <3>1. y \in [Workers -> Nat] /\ 0 \in Nat
      BY DEF UserTypes
    <3>2. QED
      BY <2>1, <3>1
  <2>4. QED
    BY <2>1, <2>2, <2>3 DEF UserTypes
<1>6. UNCHANGED vars => UNCHANGED userVars
  BY DEF vars
<1>7. QED
  BY <1>1, <1>2, <1>3, <1>4, <1>5, <1>6, NextCases DEF EmitEOS, Inner

\* A worker starts each portion with its first row and leaves it behind the last.
LEMMA SvcStep ==
  ASSUME NEW h \in Nat \ {0}, FFTypes(Parts(h)), UserTypes(h), EmitterInv(h), SvcInv,
         [Next]_vars
  PROVE  SvcInv'
<1>0. height = h
  BY DEF UserTypes
<1>1. ASSUME UNCHANGED <<worker, task, svc, y>> PROVE SvcInv'
  BY <1>1 DEF SvcInv
<1>2. CASE EmitPortion
  BY <1>0, <1>1, <1>2, EmitFrame
<1>3. CASE EmitEOS
  BY <1>1, <1>3 DEF EmitEOS, EmitterEnds, userVars, svcVars, workerVars
<1>4. ASSUME NEW w \in Workers, WorkerPop(w), UNCHANGED userVars PROVE SvcInv'
  <2>1. /\ worker[w] = "pop" /\ inq[w] \in Seq(Parts(h) \cup {EOS}) /\ inq[w] # <<>>
        /\ \A v \in Workers \ {w} : worker'[v] = worker[v] /\ task'[v] = task[v]
        /\ task'[w] = Head(inq[w]) /\ UNCHANGED <<svc, y>>
        /\ worker'[w] = IF Head(inq[w]) = EOS THEN "eos" ELSE "svc"
    BY <1>4 DEF WorkerPop, FFTypes, userVars, svcVars
  <2>2. svc[w] = "mark" /\ y[w] = 0
    BY <2>1 DEF SvcInv
  <2>3. worker'[w] = "svc" => task'[w] \in Parts(h)
    BY <2>1
  <2>4. worker'[w] = "svc" => 0 <= task'[w].total_parts
    BY <2>3, AllParts
  <2>5. QED
    BY <2>1, <2>2, <2>4 DEF SvcInv
<1>5. ASSUME NEW w \in Workers, WorkerPushEOS(w), UNCHANGED userVars PROVE SvcInv'
  BY <1>5 DEF WorkerPushEOS, userVars, svcVars, FFTypes, SvcInv
<1>6. ASSUME NEW w \in Workers, MarkRow(w) PROVE SvcInv'
  <2>1. PICK q \in Photos, k \in Workers, r \in 0..(h - 1) :
             /\ worker[w] = "svc" /\ svc[w] = "mark" /\ task[w] = Part(h, q, k)
             /\ y[w] \in Nat /\ y[w] < Share(h, n, k)
             /\ y'[w] = y[w] + 1 /\ \A v \in Workers \ {w} : y'[v] = y[v]
             /\ svc' = svc
    BY <1>6, RowMarked, ZenonT(60)
  <2>2. task[w].total_parts = Share(h, n, k) /\ Share(h, n, k) \in Nat
    BY <2>1, PartFields
  <2>3. UNCHANGED <<worker, task>>
    BY <1>6, InnerFrame DEF Inner
  <2>4. y'[w] <= task'[w].total_parts
    BY <2>1, <2>2, <2>3
  <2>5. QED
    BY <2>1, <2>3, <2>4 DEF SvcInv
<1>7. ASSUME NEW w \in Workers, TestCounter(w) \/ Count(w) PROVE SvcInv'
  <2>1. /\ UNCHANGED <<worker, task, y>> /\ worker[w] = "svc"
        /\ \A v \in Workers \ {w} : svc'[v] = svc[v]
        /\ svc[w] = "mark" => y[w] >= task[w].total_parts
    BY <1>7, InnerFrame DEF Inner, TestCounter, Count, InSvc, Goto, UserTypes
  <2>2. task[w].total_parts \in Nat /\ y[w] \in Nat
    <3>1. task[w] \in Parts(h)
      BY <2>1 DEF FFTypes
    <3>2. QED
      BY <3>1, AllParts DEF UserTypes
  <2>3. y[w] = task[w].total_parts
    BY <2>1, <2>2 DEF SvcInv
  <2>4. QED
    BY <2>1, <2>2, <2>3 DEF SvcInv
<1>8. ASSUME NEW w \in Workers, Return(w) PROVE SvcInv'
  BY <1>8 DEF Return, Goto, WorkerPush, FFTypes, UserTypes, SvcInv
<1>9. LBStep \/ Gather \/ MainStep => UNCHANGED <<worker, task>>
  BY DEF LBStep, Schedule, Broadcast, BroadcastDone, Retry, Gather, MainStep, WaitWorkers,
         WaitLB, WaitGT, workerVars
<1>10. CASE Collect
  BY <1>1, <1>10 DEF Collect, Collected, workerVars, svcVars
<1>11. ASSUME LBStep \/ Gather \/ MainStep, UNCHANGED userVars PROVE SvcInv'
  BY <1>1, <1>9, <1>11 DEF userVars, svcVars
<1>12. CASE UNCHANGED vars
  BY <1>1, <1>12 DEF vars, ffVars, workerVars, userVars, svcVars
<1>13. QED
  BY <1>2, <1>3, <1>4, <1>5, <1>6, <1>7, <1>8, <1>10, <1>11, <1>12, NextCases DEF Inner

-----------------------------------------------------------------------------
(* Where a portion is                                                      *)

\* Most steps leave each portion where it is, or move it on inside the farm.
LEMMA PartsKept ==
  ASSUME NEW h \in Nat \ {0}, FFInv(Parts(h)), [Next]_vars, ~EmitPortion, ~Collect
  PROVE  /\ UNCHANGED <<photo, i, results, photos_completed>>
         /\ \A p \in Photos, k \in Workers : Kept(Part(h, p, k))
<1> DEFINE Same == UNCHANGED <<photo, i, results, photos_completed>>
           AllKept == \A p \in Photos, k \in Workers : Kept(Part(h, p, k))
<1>1. ASSUME \/ EmitterEnds \/ LBStep \/ Gather \/ MainStep \/ UNCHANGED ffVars
             \/ \E w \in Workers : WorkerStep(w) \/ WorkerPush(w)
      PROVE  AllKept
  BY <1>1, TaskKept, AllParts, PartFields
<1> HIDE DEF AllKept
<1>2. ASSUME NEW w \in Workers, Inner(w) PROVE Same /\ AllKept
  BY <1>1, <1>2, InnerFrame
<1>3. ASSUME NEW w \in Workers, Return(w) PROVE Same /\ AllKept
  BY <1>1, <1>3 DEF Return, emitterVars, collectorVars
<1>4. ASSUME NEW w \in Workers, WorkerPop(w) \/ WorkerPushEOS(w), UNCHANGED userVars
      PROVE  Same /\ AllKept
  BY <1>1, <1>4 DEF WorkerStep, userVars, emitterVars, collectorVars
<1>5. ASSUME LBStep \/ Gather \/ MainStep, UNCHANGED userVars PROVE Same /\ AllKept
  BY <1>1, <1>5 DEF userVars, emitterVars, collectorVars
<1>6. ASSUME EmitEOS PROVE Same /\ AllKept
  BY <1>1, <1>6 DEF EmitEOS, userVars, emitterVars, collectorVars
<1>7. ASSUME UNCHANGED vars PROVE Same /\ AllKept
  BY <1>1, <1>7 DEF vars, userVars, emitterVars, collectorVars
<1>8. QED
  BY <1>2, <1>3, <1>4, <1>5, <1>6, <1>7, NextCases DEF AllKept

\* The next portion comes into the farm.
LEMMA PartSent ==
  ASSUME NEW h \in Nat \ {0}, FFInv(Parts(h)), EmitterInv(h), height = h, EmitPortion
  PROVE  \E q \in Photos, j \in Workers :
           /\ SendOut(Part(h, q, j))
           /\ ~Emitted(q, j) /\ Emitted(q, j)'
           /\ Absent(Part(h, q, j)) => HeldOnce(Part(h, q, j))'
           /\ \A p \in Photos, k \in Workers :
                ~(p = q /\ k = j) => /\ Emitted(p, k)' <=> Emitted(p, k)
                                    /\ Kept(Part(h, p, k))
<1>1. PICK q \in Photos, j \in Workers :
           /\ q = photo /\ j = i /\ SendOut(Part(h, q, j))
           /\ IF j + 1 < n THEN photo' = q /\ i' = j + 1 ELSE photo' = q + 1 /\ i' = 0
  BY NextPart, EmitFrame
<1>2. /\ Absent(Part(h, q, j)) => HeldOnce(Part(h, q, j))'
      /\ \A x \in Parts(h) \ {Part(h, q, j)} : Kept(x)
  BY <1>1, PartFields, TaskSent
<1>3. \A p \in Photos, k \in Workers : Emitted(p, k)' <=> Emitted(p, k) \/ (p = q /\ k = j)
  <2>1. q \in Nat /\ j \in 0..(n - 1) /\ n \in Nat
    BY <1>1, Numbered DEF Photos
  <2>2. ASSUME NEW p \in Photos, NEW k \in Workers
        PROVE  Emitted(p, k)' <=> Emitted(p, k) \/ (p = q /\ k = j)
    <3>1. p \in Nat /\ k \in 0..(n - 1)
      BY Numbered DEF Photos
    <3> HIDE DEF n
    <3>2. CASE j + 1 < n
      BY <1>1, <2>1, <3>1, <3>2 DEF Emitted
    <3>3. CASE ~(j + 1 < n)
      BY <1>1, <2>1, <3>1, <3>3 DEF Emitted
    <3>4. QED
      BY <3>2, <3>3
  <2>3. QED
    BY <2>2
<1>4. ~Emitted(q, j)
  BY <1>1, Numbered DEF Emitted, Photos
<1>5. \A p \in Photos, k \in Workers : ~(p = q /\ k = j) => Kept(Part(h, p, k))
  BY <1>2, PartFields, PartsDiffer
<1>6. QED
  BY <1>1, <1>2, <1>3, <1>4, <1>5

\* A portion that is in the farm has been sent.
LEMMA InTheFarm ==
  ASSUME NEW h \in Nat \ {0}, OwnedOnce(h), NEW p \in Photos, NEW k \in Workers,
         ~Absent(Part(h, p, k))
  PROVE  Emitted(p, k) /\ HeldOnce(Part(h, p, k))
BY DEF OwnedOnce

\* The portion that the gatherer has got arrives at the collector.
LEMMA PartCollected ==
  ASSUME NEW h \in Nat \ {0}, FFInv(Parts(h)), OwnedOnce(h), Collect
  PROVE  \E q \in Photos, j \in Workers :
           /\ Emitted(q, j) /\ HeldOnce(Part(h, q, j)) /\ Absent(Part(h, q, j))'
           /\ UNCHANGED <<photo, i, height, marks, y, main>>
           /\ results' = [results EXCEPT ![q] = @ + 1]
           /\ photos_completed' = IF LastPortion(q) THEN Append(photos_completed, q)
                                  ELSE photos_completed
           /\ \A p \in Photos, k \in Workers : ~(p = q /\ k = j) => Kept(Part(h, p, k))
<1>1. /\ FFTypes(Parts(h)) /\ Collected /\ gt = "svc" /\ gathered \in Parts(h)
      /\ UNCHANGED <<photo, i, height, marks, y, main, gathered>>
  BY DEF Collect, Collected, emitterVars, svcVars, FFInv, FFTypes
<1>2. PICK q \in Photos, j \in Workers : gathered = Part(h, q, j) /\ gathered.photo = q
  BY <1>1, AllParts
<1> DEFINE x == Part(h, q, j)
<1>3. x \in Parts(h) /\ x = gathered /\ x = gathered'
  BY <1>1, <1>2
<1> HIDE DEF x
<1>4. ~Absent(x)
  BY <1>1, <1>3, NotThere
<1>5. Emitted(q, j) /\ HeldOnce(x)
  BY <1>4, InTheFarm DEF x
<1>6. /\ HeldOnce(gathered) => Absent(gathered)'
      /\ \A z \in Parts(h) \ {gathered} : Kept(z)
  BY <1>1, TaskCollected
<1>7. Absent(x)'
  <2>1. HeldOnce(gathered)
    BY <1>3, <1>5
  <2>2. Absent(gathered)'
    BY <1>6, <2>1
  <2>3. QED
    BY <1>3, <2>2 DEF Absent
<1>8. \A p \in Photos, k \in Workers : ~(p = q /\ k = j) => Kept(Part(h, p, k))
  BY <1>2, <1>6, PartFields, PartsDiffer
<1>9. /\ results' = [results EXCEPT ![q] = @ + 1]
      /\ photos_completed' = IF LastPortion(q) THEN Append(photos_completed, q)
                             ELSE photos_completed
  BY <1>2 DEF Collect
<1>10. QED
  BY <1>1, <1>5, <1>7, <1>8, <1>9, ZenonT(60) DEF x

\* Each portion is in the farm once from the emitter to the collector.
LEMMA OwnedStep ==
  ASSUME NEW h \in Nat \ {0}, FFInv(Parts(h)), EmitterInv(h), height = h, OwnedOnce(h),
         [Next]_vars
  PROVE  OwnedOnce(h)'
<1>1. CASE EmitPortion
  <2>1. PICK q \in Photos, j \in Workers :
             /\ ~Emitted(q, j) /\ Emitted(q, j)'
             /\ Absent(Part(h, q, j)) => HeldOnce(Part(h, q, j))'
             /\ \A p \in Photos, k \in Workers :
                  ~(p = q /\ k = j) => /\ Emitted(p, k)' <=> Emitted(p, k)
                                      /\ Kept(Part(h, p, k))
    BY <1>1, PartSent
  <2>2. QED
    BY <2>1 DEF OwnedOnce, Kept
<1>2. CASE Collect
  <2>1. PICK q \in Photos, j \in Workers :
             /\ Emitted(q, j) /\ Absent(Part(h, q, j))' /\ UNCHANGED <<photo, i>>
             /\ \A p \in Photos, k \in Workers : ~(p = q /\ k = j) => Kept(Part(h, p, k))
    BY <1>2, PartCollected
  <2>2. \A p, k : Emitted(p, k)' <=> Emitted(p, k)
    BY <2>1 DEF Emitted
  <2>3. QED
    BY <2>1, <2>2 DEF OwnedOnce, Kept
<1>3. CASE ~EmitPortion /\ ~Collect
  <2>1. /\ UNCHANGED <<photo, i>>
        /\ \A p \in Photos, k \in Workers : Kept(Part(h, p, k))
    BY <1>3, PartsKept
  <2>2. \A p, k : Emitted(p, k)' <=> Emitted(p, k)
    BY <2>1 DEF Emitted
  <2>3. QED
    BY <2>1, <2>2 DEF OwnedOnce, Kept
<1>4. QED
  BY <1>1, <1>2, <1>3

\* A portion that stays in the farm, or outside, has not arrived in this step.
LEMMA NotArriving ==
  ASSUME NEW h \in Nat \ {0}, OwnedOnce(h), NEW p \in Photos, NEW k \in Workers,
         Emitted(p, k)' <=> Emitted(p, k), Kept(Part(h, p, k))
  PROVE  Emitted(p, k)' /\ Absent(Part(h, p, k))' <=> Emitted(p, k) /\ Absent(Part(h, p, k))
<1>1. ~(HeldOnce(Part(h, p, k))' /\ Absent(Part(h, p, k))')
  BY DEF HeldOnce, Absent
<1>2. Emitted(p, k) => HeldOnce(Part(h, p, k)) \/ Absent(Part(h, p, k))
  BY DEF OwnedOnce
<1>3. QED
  BY <1>1, <1>2 DEF Kept

\* Only the collector makes a portion arrive.
LEMMA ArrivedKept ==
  ASSUME NEW h \in Nat \ {0}, FFInv(Parts(h)), EmitterInv(h), height = h, OwnedOnce(h),
         [Next]_vars, ~Collect
  PROVE  /\ UNCHANGED <<results, photos_completed>>
         /\ \A p \in Photos : Arrived(h, p)' = Arrived(h, p)
<1>1. ASSUME NEW p \in Photos,
             \A k \in Workers : Emitted(p, k)' /\ Absent(Part(h, p, k))'
                                  <=> Emitted(p, k) /\ Absent(Part(h, p, k))
      PROVE  Arrived(h, p)' = Arrived(h, p)
  BY <1>1 DEF Arrived
<1>2. CASE EmitPortion
  <2>1. PICK q \in Photos, j \in Workers :
             /\ ~Emitted(q, j) /\ Emitted(q, j)'
             /\ Absent(Part(h, q, j)) => HeldOnce(Part(h, q, j))'
             /\ \A p \in Photos, k \in Workers :
                  ~(p = q /\ k = j) => /\ Emitted(p, k)' <=> Emitted(p, k)
                                      /\ Kept(Part(h, p, k))
    BY <1>2, PartSent
  <2>2. HeldOnce(Part(h, q, j))'
    BY <2>1 DEF OwnedOnce
  <2>3. ~Absent(Part(h, q, j))'
    BY <2>2 DEF HeldOnce, Absent
  <2>4. \A p \in Photos, k \in Workers :
          Emitted(p, k)' /\ Absent(Part(h, p, k))' <=> Emitted(p, k) /\ Absent(Part(h, p, k))
    BY <2>1, <2>3, NotArriving
  <2>5. UNCHANGED <<results, photos_completed>>
    BY <1>2, EmitFrame
  <2>6. QED
    BY <1>1, <2>4, <2>5
<1>3. CASE ~EmitPortion
  <2>1. /\ UNCHANGED <<photo, i, results, photos_completed>>
        /\ \A p \in Photos, k \in Workers : Kept(Part(h, p, k))
    BY <1>3, PartsKept
  <2>2. \A p, k : Emitted(p, k)' <=> Emitted(p, k)
    BY <2>1 DEF Emitted
  <2>3. \A p \in Photos, k \in Workers :
          Emitted(p, k)' /\ Absent(Part(h, p, k))' <=> Emitted(p, k) /\ Absent(Part(h, p, k))
    BY <2>1, <2>2, NotArriving
  <2>4. QED
    BY <1>1, <2>1, <2>3
<1>4. QED
  BY <1>2, <1>3

\* The photo is stored with its last portion, and only then.
LEMMA ResultsStep ==
  ASSUME NEW h \in Nat \ {0}, FFInv(Parts(h)), EmitterInv(h), UserTypes(h), OwnedOnce(h),
         ResultsInv(h), [Next]_vars
  PROVE  ResultsInv(h)'
<1>0. height = h
  BY DEF UserTypes
<1>1. CASE ~Collect
  <2>1. /\ UNCHANGED <<results, photos_completed>>
        /\ \A p \in Photos : Arrived(h, p)' = Arrived(h, p)
    BY <1>0, <1>1, ArrivedKept
  <2>2. QED
    BY <2>1 DEF ResultsInv, One, n
<1>2. CASE Collect
  <2>1. PICK q \in Photos, j \in Workers :
             /\ Emitted(q, j) /\ HeldOnce(Part(h, q, j)) /\ Absent(Part(h, q, j))'
             /\ UNCHANGED <<photo, i>>
             /\ results' = [results EXCEPT ![q] = @ + 1]
             /\ photos_completed' = IF LastPortion(q) THEN Append(photos_completed, q)
                                    ELSE photos_completed
             /\ \A p \in Photos, k \in Workers : ~(p = q /\ k = j) => Kept(Part(h, p, k))
    BY <1>2, PartCollected
  <2>2. \A p, k : Emitted(p, k)' <=> Emitted(p, k)
    BY <2>1 DEF Emitted
  <2>3. \A p \in Photos, k \in Workers : ~(p = q /\ k = j) =>
          (Emitted(p, k)' /\ Absent(Part(h, p, k))' <=> Emitted(p, k) /\ Absent(Part(h, p, k)))
    BY <2>1, <2>2, NotArriving
  <2>4. \A p \in Photos \ {q} : Arrived(h, p)' = Arrived(h, p)
    BY <2>3 DEF Arrived
  <2>5. Arrived(h, q)' = Arrived(h, q) \cup {j} /\ j \notin Arrived(h, q)
    <3>1. j \notin Arrived(h, q)
      BY <2>1, HeldOrAbsent DEF Arrived
    <3>2. \A k \in Workers : Emitted(q, k)' /\ Absent(Part(h, q, k))'
                               <=> (Emitted(q, k) /\ Absent(Part(h, q, k))) \/ k = j
      BY <2>1, <2>2, <2>3
    <3>3. QED
      BY <3>1, <3>2 DEF Arrived
  <2>6. /\ \A p \in Photos : results'[p] = IF p = q THEN results[q] + 1 ELSE results[p]
        /\ results[q] \in Nat /\ photos_completed \in Seq(Photos)
    BY <2>1 DEF UserTypes
  <2>7. IsFiniteSet(Arrived(h, q)) /\ Cardinality(Arrived(h, q)') \in 0..n
    <3>1. Arrived(h, q) \subseteq Workers /\ Arrived(h, q)' \subseteq Workers
      BY DEF Arrived
    <3>2. QED
      BY <3>1, AllOfThem
  <2>8. Cardinality(Arrived(h, q)') = Cardinality(Arrived(h, q)) + 1
    BY <2>5, <2>7, FS_AddElement
  <2>9. results'[q] = Cardinality(Arrived(h, q)') /\ results[q] # n
    <3>1. results[q] = Cardinality(Arrived(h, q)) /\ n \in Nat
      BY Numbered DEF ResultsInv
    <3>2. QED
      BY <2>6, <2>7, <2>8, <3>1
  <2>10. ASSUME NEW p \in Photos PROVE Copies(photos_completed', p) = One(results'[p] = n)
    <3>1. Copies(photos_completed, p) = One(results[p] = n)
      BY DEF ResultsInv
    <3>2. CASE results[q] + 1 = n
      <4>1. photos_completed' = Append(photos_completed, q)
        BY <2>1, <3>2 DEF LastPortion, n
      <4>2. Copies(photos_completed', p) = Copies(photos_completed, p) + One(q = p)
        BY <2>6, <4>1, CopiesAppend DEF One
      <4>3. CASE p = q
        BY <2>6, <2>9, <3>1, <3>2, <4>2, <4>3 DEF One
      <4>4. CASE p # q
        BY <2>6, <3>1, <4>2, <4>4 DEF One
      <4>5. QED
        BY <4>3, <4>4
    <3>3. CASE results[q] + 1 # n
      <4>1. photos_completed' = photos_completed
        BY <2>1, <3>3 DEF LastPortion, n
      <4>2. QED
        BY <2>6, <2>9, <3>1, <3>3, <4>1 DEF One
    <3>4. QED
      BY <3>2, <3>3
  <2>11. \A p \in Photos : results'[p] = Cardinality(Arrived(h, p)')
    BY <2>4, <2>6, <2>9 DEF ResultsInv
  <2>12. QED
    BY <2>10, <2>11 DEF ResultsInv, One, n
<1>3. QED
  BY <1>1, <1>2

-----------------------------------------------------------------------------
(* How often the rows have been marked                                     *)

\* Nothing is marked, and no portion begins or ends.
LEMMA MarksKept ==
  ASSUME NEW h \in Nat \ {0}, MarksInv(h), marks' = marks,
         \A p \in Photos : \A k \in Workers : \A r \in RowsOf(h, n, k) :
           RowDone(h, p, k, r)' <=> RowDone(h, p, k, r)
  PROVE  MarksInv(h)'
<1> SUFFICES ASSUME NEW p \in Photos, NEW k \in Workers, NEW r \in RowsOf(h, n, k)
             PROVE  marks'[p][r] = One(RowDone(h, p, k, r)')
  BY DEF MarksInv, One, n
<1>1. marks[p][r] = One(RowDone(h, p, k, r)) /\ (RowDone(h, p, k, r)' <=> RowDone(h, p, k, r))
  BY DEF MarksInv
<1>2. QED
  BY <1>1 DEF One

\* The steps that leave the workers and what waits for them alone
LEMMA MarksUntouched ==
  ASSUME NEW h \in Nat \ {0}, MarksInv(h), UNCHANGED <<marks, photo, i, worker, task, y>>,
         \A x \in Parts(h) : Waiting(x)' <=> Waiting(x)
  PROVE  MarksInv(h)'
<1>1. ASSUME NEW p \in Photos, NEW k \in Workers, NEW r \in RowsOf(h, n, k)
      PROVE  RowDone(h, p, k, r)' <=> RowDone(h, p, k, r)
  <2>1. Waiting(Part(h, p, k))' <=> Waiting(Part(h, p, k))
    BY PartFields
  <2>2. Emitted(p, k)' <=> Emitted(p, k)
    BY DEF Emitted
  <2>3. QED
    BY <2>1, <2>2 DEF RowDone, n
<1>2. QED
  BY <1>1, MarksKept

\* A portion that is sent waits first, without a mark.
LEMMA MarksSent ==
  ASSUME NEW h \in Nat \ {0}, FFInv(Parts(h)), EmitterInv(h), height = h, MarksInv(h),
         EmitPortion
  PROVE  MarksInv(h)'
<1>1. PICK q \in Photos, j \in Workers :
           /\ SendOut(Part(h, q, j)) /\ ~Emitted(q, j)
           /\ \A p \in Photos, k \in Workers :
                ~(p = q /\ k = j) => (Emitted(p, k)' <=> Emitted(p, k))
  BY PartSent
<1>2. UNCHANGED <<marks, worker, task, y>>
  BY EmitFrame
<1>3. ASSUME NEW p \in Photos, NEW k \in Workers, NEW r \in RowsOf(h, n, k)
      PROVE  RowDone(h, p, k, r)' <=> RowDone(h, p, k, r)
  <2>1. Waiting(Part(h, p, k))' <=> Part(h, p, k) = Part(h, q, j) \/ Waiting(Part(h, p, k))
    BY <1>1, WaitingSent
  <2>2. CASE p = q /\ k = j
    BY <1>1, <2>1, <2>2 DEF RowDone
  <2>3. CASE ~(p = q /\ k = j)
    <3>1. /\ Waiting(Part(h, p, k))' <=> Waiting(Part(h, p, k))
          /\ Emitted(p, k)' <=> Emitted(p, k)
      BY <1>1, <2>1, <2>3, PartsDiffer
    <3>2. QED
      BY <1>2, <3>1 DEF RowDone, n
  <2>4. QED
    BY <2>2, <2>3
<1>4. QED
  BY <1>2, <1>3, MarksKept

\* The worker that takes a portion begins with its first row.
LEMMA MarksTaken ==
  ASSUME NEW h \in Nat \ {0}, FFInv(Parts(h)), UserTypes(h), SvcInv, MarksInv(h),
         NEW v \in Workers, WorkerPop(v), UNCHANGED userVars
  PROVE  MarksInv(h)'
<1>1. /\ UNCHANGED <<photo, i, marks, y>> /\ worker[v] = "pop" /\ y[v] = 0
      /\ task'[v] = Head(inq[v])
      /\ worker'[v] = IF Head(inq[v]) = EOS THEN "eos" ELSE "svc"
      /\ \A w \in Workers \ {v} : worker'[w] = worker[w] /\ task'[w] = task[w]
  BY DEF WorkerPop, userVars, emitterVars, svcVars, SvcInv, FFInv, FFTypes
<1>2. ASSUME NEW p \in Photos, NEW k \in Workers, NEW r \in RowsOf(h, n, k)
      PROVE  RowDone(h, p, k, r)' <=> RowDone(h, p, k, r)
  <2>1. /\ Waiting(Part(h, p, k)) <=> Part(h, p, k) = Head(inq[v]) \/ Waiting(Part(h, p, k))'
        /\ Part(h, p, k) # EOS
    BY WaitingTaken, PartFields DEF FFInv
  <2>2. Emitted(p, k)' <=> Emitted(p, k)
    BY <1>1 DEF Emitted
  <2>3. CASE Part(h, p, k) = Head(inq[v])
    <3>1. ~RowDone(h, p, k, r)
      BY <2>1, <2>3 DEF RowDone
    <3>2. worker'[v] = "svc" /\ task'[v] = Part(h, p, k) /\ y'[v] = 0
      BY <1>1, <2>1, <2>3
    <3>3. ~(r < Start(h, n, k) + 0)
      BY PartFields DEF RowsOf
    <3>4. ~RowDone(h, p, k, r)'
      BY <3>2, <3>3 DEF RowDone, n
    <3>5. QED
      BY <3>1, <3>4
  <2>4. CASE Part(h, p, k) # Head(inq[v])
    <3>1. \A w \in Workers : worker'[w] = "svc" /\ task'[w] = Part(h, p, k)
                               <=> worker[w] = "svc" /\ task[w] = Part(h, p, k)
      BY <1>1, <2>4
    <3>2. QED
      BY <1>1, <2>1, <2>2, <2>4, <3>1 DEF RowDone, n
  <2>5. QED
    BY <2>3, <2>4
<1>3. QED
  BY <1>1, <1>2, MarksKept

\* The worker that returns a portion has marked all its rows.
LEMMA MarksReturned ==
  ASSUME NEW h \in Nat \ {0}, FFInv(Parts(h)), UserTypes(h), SvcInv, MarksInv(h),
         NEW v \in Workers, Return(v)
  PROVE  MarksInv(h)'
<1>1. /\ UNCHANGED <<photo, i, marks, task>>
      /\ worker[v] = "svc" /\ worker'[v] = "pop" /\ y[v] = task[v].total_parts
      /\ \A w \in Workers \ {v} : worker'[w] = worker[w] /\ y'[w] = y[w]
  BY DEF Return, InSvc, WorkerPush, emitterVars, SvcInv, FFInv, FFTypes, UserTypes
<1>2. \A x \in Parts(h) : Waiting(x)' <=> Waiting(x)
  BY WaitingKept, AllParts DEF Return
<1>3. ASSUME NEW p \in Photos, NEW k \in Workers, NEW r \in RowsOf(h, n, k)
      PROVE  RowDone(h, p, k, r)' <=> RowDone(h, p, k, r)
  <2>1. Waiting(Part(h, p, k))' <=> Waiting(Part(h, p, k))
    BY <1>2, PartFields
  <2>2. Emitted(p, k)' <=> Emitted(p, k)
    BY <1>1 DEF Emitted
  <2>3. task[v] = Part(h, p, k) => r < Start(h, n, k) + y[v]
    <3>1. /\ Part(h, p, k).total_parts = Share(h, n, k)
          /\ Start(h, n, k) \in Nat /\ Share(h, n, k) \in Nat
      BY PartFields
    <3>2. r < Start(h, n, k) + Share(h, n, k)
      BY <3>1 DEF RowsOf
    <3>3. QED
      BY <1>1, <3>1, <3>2
  <2>4. \A w \in Workers : worker'[w] = "svc" => w # v
    BY <1>1
  <2>5. QED
    BY <1>1, <2>1, <2>2, <2>3, <2>4 DEF RowDone, n
<1>4. QED
  BY <1>1, <1>3, MarksKept

\* A worker marks the next row of its portion, which nobody else has.
LEMMA MarksMarked ==
  ASSUME NEW h \in Nat \ {0}, FFInv(Parts(h)), UserTypes(h), OwnedOnce(h), MarksInv(h),
         NEW v \in Workers, MarkRow(v)
  PROVE  /\ MarksInv(h)'
         /\ \E q \in Photos, k \in Workers, r \in 0..(h - 1) :
              /\ task[v] = Part(h, q, k) /\ marks[q][r] = 0
              /\ \A p \in Photos \ {q} : marks'[p] = marks[p]
<1>1. FFTypes(Parts(h)) /\ UNCHANGED <<photo, i, worker, task, lb, sending, inq>>
  BY InnerFrame DEF Inner, FFInv
<1>2. PICK q \in Photos, j \in Workers, s \in 0..(h - 1) :
           /\ worker[v] = "svc" /\ svc[v] = "mark" /\ task[v] = Part(h, q, j)
           /\ y[v] \in Nat /\ y[v] < Share(h, n, j)
           /\ s = Start(h, n, j) + y[v] /\ s \in RowsOf(h, n, j)
           /\ marks' \in [Photos -> [0..(h - 1) -> Nat]]
           /\ \A p \in Photos : \A r \in 0..(h - 1) :
                marks'[p][r] = IF p = q /\ r = s THEN marks[q][s] + 1 ELSE marks[p][r]
           /\ y' \in [Workers -> Nat]
           /\ y'[v] = y[v] + 1 /\ \A w \in Workers \ {v} : y'[w] = y[w]
           /\ svc' = svc
  BY <1>1, RowMarked
<1>3. /\ Emitted(q, j) /\ HeldOnce(Part(h, q, j))
  <2>1. ~Absent(Part(h, q, j))
    BY <1>1, <1>2, NotThere
  <2>2. QED
    BY <2>1, InTheFarm
<1>4. /\ ~Waiting(Part(h, q, j))
      /\ \A w \in Workers \ {v} : ~(worker[w] = "svc" /\ task[w] = Part(h, q, j))
  BY <1>1, <1>2, <1>3, OnlyInHands DEF Waiting
<1>5. \A p \in Photos, k \in Workers : /\ Waiting(Part(h, p, k))' <=> Waiting(Part(h, p, k))
                                       /\ Emitted(p, k)' <=> Emitted(p, k)
  BY <1>1 DEF Waiting, Emitted
<1>6. Start(h, n, j) \in Nat /\ Start(h, n, j) + y'[v] = s + 1 /\ s \in Nat
  <2>1. Start(h, n, j) \in Nat
    BY PartFields
  <2> HIDE DEF n
  <2>2. QED
    BY <1>2, <2>1
<1>7. \A r \in RowsOf(h, n, j) : RowDone(h, q, j, r) <=> r < s
  BY <1>2, <1>3, <1>4 DEF RowDone
<1>8. \A r \in RowsOf(h, n, j) : RowDone(h, q, j, r)' <=> r < s + 1
  BY <1>1, <1>2, <1>3, <1>4, <1>5, <1>6 DEF RowDone, n
<1>9. ASSUME NEW p \in Photos, NEW k \in Workers, NEW r \in RowsOf(h, n, k)
      PROVE  marks'[p][r] = One(RowDone(h, p, k, r)')
  <2>1. r \in 0..(h - 1) /\ marks[p][r] = One(RowDone(h, p, k, r))
    BY PartsTile DEF MarksInv
  <2>2. CASE p = q /\ k = j
    <3>1. r \in Int /\ s \in Int
      BY <1>6, <2>1
    <3>2. CASE r = s
      BY <1>2, <1>7, <1>8, <2>1, <2>2, <3>1, <3>2 DEF One
    <3>3. CASE r # s
      <4>1. r < s <=> r < s + 1
        BY <3>1, <3>3
      <4>2. QED
        BY <1>2, <1>7, <1>8, <2>1, <2>2, <3>3, <4>1 DEF One
    <3>4. QED
      BY <3>2, <3>3
  <2>3. CASE ~(p = q /\ k = j)
    <3>1. marks'[p][r] = marks[p][r]
      <4>1. k # j => r # s
        BY <1>2, PartsTile
      <4>2. QED
        BY <1>2, <2>1, <2>3, <4>1
    <3>2. Part(h, p, k) # Part(h, q, j)
      BY <2>3, PartsDiffer
    <3>3. RowDone(h, p, k, r)' <=> RowDone(h, p, k, r)
      BY <1>1, <1>2, <1>5, <3>2 DEF RowDone, n
    <3>4. QED
      BY <2>1, <3>1, <3>3 DEF One
  <2>4. QED
    BY <2>2, <2>3
<1>10. MarksInv(h)'
  BY <1>9 DEF MarksInv, One, n
<1>11. marks[q][s] = 0
  BY <1>2, <1>6, <1>7 DEF MarksInv, One
<1>12. ASSUME NEW p \in Photos \ {q} PROVE marks'[p] = marks[p]
  <2>1. marks'[p] \in [0..(h - 1) -> Nat] /\ marks[p] \in [0..(h - 1) -> Nat]
    BY <1>2 DEF UserTypes
  <2>2. \A r \in 0..(h - 1) : marks'[p][r] = marks[p][r]
    BY <1>2
  <2>3. QED
    BY <2>1, <2>2
<1>13. QED
  BY <1>2, <1>10, <1>11, <1>12

\* A row is marked once, when its portion is in the hands of a worker.
LEMMA MarksStep ==
  ASSUME NEW h \in Nat \ {0}, FFInv(Parts(h)), EmitterInv(h), UserTypes(h), SvcInv,
         OwnedOnce(h), MarksInv(h), [Next]_vars
  PROVE  MarksInv(h)'
<1>0. height = h
  BY DEF UserTypes
<1>1. ASSUME \/ EmitterEnds \/ LBStep \/ Gather \/ Collected \/ MainStep
             \/ UNCHANGED ffVars \/ \E w \in Workers : WorkerPushEOS(w)
      PROVE  \A x \in Parts(h) : Waiting(x)' <=> Waiting(x)
  BY <1>1, WaitingKept, AllParts
<1>2. ASSUME \/ EmitterEnds \/ LBStep \/ Gather \/ Collected \/ MainStep
             \/ UNCHANGED ffVars,
             UNCHANGED <<marks, photo, i, y>>
      PROVE  MarksInv(h)'
  <2>1. UNCHANGED <<worker, task>>
    BY <1>2 DEF EmitterEnds, LBStep, Schedule, Broadcast, BroadcastDone, Retry, Gather,
                Collected, MainStep, WaitWorkers, WaitLB, WaitGT, workerVars, ffVars
  <2>2. QED
    BY <1>1, <1>2, <2>1, MarksUntouched
<1>3. ASSUME UNCHANGED userVars PROVE UNCHANGED <<marks, photo, i, y>>
  BY <1>3 DEF userVars, svcVars, emitterVars
<1>4. CASE Collect
  BY <1>2, <1>4 DEF Collect, emitterVars, svcVars
<1>5. ASSUME NEW v \in Workers, TestCounter(v) \/ Count(v) PROVE MarksInv(h)'
  BY <1>2, <1>5 DEF TestCounter, Count, emitterVars
<1>6. ASSUME NEW v \in Workers, WorkerPushEOS(v), UNCHANGED userVars PROVE MarksInv(h)'
  <2>1. /\ UNCHANGED <<marks, photo, i, y, task>>
        /\ \A w \in Workers : worker'[w] = "svc" <=> worker[w] = "svc"
    BY <1>3, <1>6 DEF WorkerPushEOS, FFInv, FFTypes
  <2>2. ASSUME NEW p \in Photos, NEW k \in Workers, NEW r \in RowsOf(h, n, k)
        PROVE  RowDone(h, p, k, r)' <=> RowDone(h, p, k, r)
    <3>1. Waiting(Part(h, p, k))' <=> Waiting(Part(h, p, k))
      BY <1>1, <1>6, PartFields
    <3>2. Emitted(p, k)' <=> Emitted(p, k)
      BY <2>1 DEF Emitted
    <3>3. QED
      BY <2>1, <3>1, <3>2 DEF RowDone, n
  <2>3. QED
    BY <2>1, <2>2, MarksKept
<1>7. ASSUME EmitEOS \/ UNCHANGED vars PROVE MarksInv(h)'
  BY <1>2, <1>3, <1>7 DEF EmitEOS, vars
<1>8. ASSUME LBStep \/ Gather \/ MainStep, UNCHANGED userVars PROVE MarksInv(h)'
  BY <1>2, <1>3, <1>8
<1>9. ASSUME NEW v \in Workers, MarkRow(v) \/ Return(v) PROVE MarksInv(h)'
  BY <1>9, MarksMarked, MarksReturned
<1>10. ASSUME NEW v \in Workers, WorkerPop(v), UNCHANGED userVars PROVE MarksInv(h)'
  BY <1>10, MarksTaken
<1>11. CASE EmitPortion
  BY <1>0, <1>11, MarksSent
<1>12. QED
  BY <1>4, <1>5, <1>6, <1>7, <1>8, <1>9, <1>10, <1>11, NextCases DEF Inner

-----------------------------------------------------------------------------
(* The invariant                                                           *)

\* At first no portion has been sent, none has arrived and no row is marked.
LEMMA InitInv == Init => MapFull
<1> SUFFICES ASSUME Init PROVE \E h \in Nat \ {0} : MapInv(h)
  BY DEF MapFull
<1>1. PICK h \in Nat \ {0} : h = height
  BY MapAssumption DEF Init
<1>2. FFInit /\ FFInv(Parts(h))
  BY FFInitInv, AllParts DEF Init
<1>3. n \in Nat \ {0} /\ NPhotos \in Nat /\ Workers = 0..(n - 1)
  BY Numbered
<1>4. EmitterInv(h)
  <2>1. h % n \in Nat /\ Start(h, n, 0) = 0
    BY <1>3, Division, StartEnds
  <2>2. photo = 1 /\ i = 0 /\ chunk = (h \div n) + 1 /\ chunk_assigned = 0 /\ lb = "svc"
    BY <1>1, <1>2 DEF Init, FFInit, n
  <2> HIDE DEF n
  <2>3. QED
    BY <1>3, <2>1, <2>2 DEF EmitterInv
<1>5. UserTypes(h)
  BY <1>1 DEF Init, UserTypes
<1>6. SvcInv
  BY <1>2 DEF Init, FFInit, SvcInv
<1>7. ASSUME NEW x PROVE Absent(x)
  <2>1. Copies(<<>>, x) = 0
    BY FS_EmptySet DEF Copies, Places
  <2>2. QED
    BY <1>2, <2>1 DEF FFInit, Absent, WithStages, WithWorker, One
<1>8. \A p \in Photos, k \in Workers : ~Emitted(p, k)
  <2> HIDE DEF n
  <2>1. QED
    BY <1>3 DEF Init, Emitted, Photos
<1>9. OwnedOnce(h)
  BY <1>7, <1>8 DEF OwnedOnce
<1>10. ResultsInv(h)
  <2>1. \A p \in Photos : Arrived(h, p) = {}
    BY <1>8 DEF Arrived
  <2>2. \A p \in Photos : Copies(photos_completed, p) = 0 /\ results[p] = 0
    BY FS_EmptySet DEF Init, Copies, Places
  <2>3. 0 # n
    BY <1>3
  <2> HIDE DEF n
  <2>4. QED
    BY <2>1, <2>2, <2>3, FS_EmptySet DEF ResultsInv, One
<1>11. MarksInv(h)
  <2>1. \A p \in Photos, k \in Workers : \A r \in RowsOf(h, n, k) : r \in 0..(h - 1)
    BY PartsTile
  <2>2. \A p \in Photos : \A r \in 0..(h - 1) : marks[p][r] = 0
    BY <1>1 DEF Init
  <2>3. QED
    BY <1>8, <2>1, <2>2 DEF MarksInv, RowDone, One
<1>12. QED
  BY <1>2, <1>4, <1>5, <1>6, <1>9, <1>10, <1>11 DEF MapInv

\* The invariant of fastflow_map.cpp holds for any number of workers and photos and
\* any height: each portion is in the farm once from the emitter to the collector, its
\* rows are marked while a worker has it, and the collector counts what has arrived.
THEOREM MapInvariant == Spec => []MapFull
<1>1. MapFull /\ [Next]_vars => MapFull'
  <2> SUFFICES ASSUME NEW h \in Nat \ {0}, MapInv(h), [Next]_vars PROVE MapInv(h)'
    BY DEF MapFull
  <2>1. /\ FFInv(Parts(h)) /\ EmitterInv(h) /\ UserTypes(h) /\ SvcInv
        /\ OwnedOnce(h) /\ ResultsInv(h) /\ MarksInv(h)
        /\ FFTypes(Parts(h)) /\ height = h
    BY DEF MapInv, FFInv, UserTypes
  <2>2. FFInv(Parts(h))' /\ EmitterInv(h)' /\ UserTypes(h)' /\ SvcInv'
    BY <2>1, FFKept, EmitterStep, TypesStep, SvcStep
  <2>3. OwnedOnce(h)' /\ ResultsInv(h)' /\ MarksInv(h)'
    BY <2>1, OwnedStep, ResultsStep, MarksStep
  <2>4. QED
    BY <2>2, <2>3 DEF MapInv
<1>2. QED
  BY InitInv, <1>1, PTL DEF Spec

-----------------------------------------------------------------------------
(* What the program promises                                               *)

\* What the skeleton promises the farm of fastflow_farm.cpp it promises that of
\* fastflow_map.cpp: the EOS is last in each queue, the gatherer finds a worker
\* whenever it looks for one, and main() resets running when nobody needs it.
THEOREM FarmKeepsItsPromises ==
  Spec => [](EOSComesLast /\ SelectWorkerReturns /\ ResetIsHarmless)
<1>1. MapFull => EOSComesLast /\ SelectWorkerReturns /\ ResetIsHarmless
  BY FFPromises DEF MapFull, MapInv
<1>2. QED
  BY <1>1, MapInvariant, PTL

\* Two workers never have the same portion, and different portions of a photo have no
\* row in common, whoever got them: so no two of them write to the same pixel.
THEOREM RowsAreNotShared == Spec => []NoRowIsShared
<1>1. MapFull => NoRowIsShared
  <2> SUFFICES ASSUME NEW h \in Nat \ {0}, MapInv(h), NEW v \in Workers, NEW w \in Workers,
                      v # w, InSvc(v, "mark"), InSvc(w, "mark"),
                      task[v].photo = task[w].photo
               PROVE  PortionRows(task[v]) \cap PortionRows(task[w]) = {}
    BY DEF MapFull, NoRowIsShared
  <2>1. /\ FFTypes(Parts(h)) /\ OwnedOnce(h) /\ worker[v] = "svc" /\ worker[w] = "svc"
        /\ task[v] \in Parts(h) /\ task[w] \in Parts(h)
    BY DEF MapInv, FFInv, FFTypes, InSvc
  <2>2. PICK p \in Photos, k \in Workers : task[v] = Part(h, p, k)
    BY <2>1, AllParts
  <2>3. PICK q \in Photos, j \in Workers : task[w] = Part(h, q, j)
    BY <2>1, AllParts
  <2>4. p = q
    <3>1. Part(h, p, k).photo = p /\ Part(h, q, j).photo = q
      BY PartFields
    <3>2. QED
      BY <2>2, <2>3, <3>1
  <2>5. k # j
    <3>1. HeldOnce(Part(h, p, k))
      BY <2>1, <2>2, NotThere, InTheFarm
    <3>2. task[w] # Part(h, p, k)
      BY <2>1, <2>2, <3>1, OnlyInHands
    <3>3. QED
      BY <2>3, <2>4, <3>2
  <2>6. /\ PortionRows(task[v]) = RowsOf(h, n, k)
        /\ PortionRows(task[w]) = RowsOf(h, n, j)
    <3>1. /\ Part(h, p, k).starting = Start(h, n, k)
          /\ Part(h, p, k).total_parts = Share(h, n, k)
          /\ Part(h, q, j).starting = Start(h, n, j)
          /\ Part(h, q, j).total_parts = Share(h, n, j)
      BY PartFields
    <3>2. QED
      BY <2>2, <2>3, <3>1, Zenon DEF PortionRows, RowsOf
  <2>7. QED
    BY <2>5, <2>6, PartsTile
<1>2. QED
  BY <1>1, MapInvariant, PTL

\* A photo is stored when all its portions have arrived.
LEMMA StoredIsComplete ==
  ASSUME NEW h \in Nat \ {0}, UserTypes(h), ResultsInv(h), NEW p \in Photos
  PROVE  /\ IsIn(p, photos_completed) <=> Arrived(h, p) = Workers
         /\ Copies(photos_completed, p) \in {0, 1}
         /\ Copies(photos_completed, p) = 0 <=> ~IsIn(p, photos_completed)
<1>1. /\ photos_completed \in Seq(Photos) /\ results[p] = Cardinality(Arrived(h, p))
      /\ Copies(photos_completed, p) = One(results[p] = n)
  BY DEF UserTypes, ResultsInv
<1>2. Arrived(h, p) \subseteq Workers
  BY DEF Arrived
<1>3. QED
  BY <1>1, <1>2, NoCopies, AllOfThem DEF One

\* Its rows have been marked then.
LEMMA ArrivedIsMarked ==
  ASSUME NEW h \in Nat \ {0}, MapInv(h), NEW p \in Photos, Arrived(h, p) = Workers
  PROVE  \A r \in Rows : marks[p][r] = 1
<1> SUFFICES ASSUME NEW r \in Rows PROVE marks[p][r] = 1
  OBVIOUS
<1>1. FFTypes(Parts(h)) /\ MarksInv(h) /\ height = h
  BY DEF MapInv, FFInv, UserTypes
<1>2. PICK k \in Workers : r \in RowsOf(h, n, k)
  BY <1>1, PartsTile DEF Rows
<1>3. Emitted(p, k) /\ Absent(Part(h, p, k))
  BY DEF Arrived
<1>4. RowDone(h, p, k, r)
  BY <1>1, <1>3, NotThere DEF RowDone, Waiting
<1>5. QED
  BY <1>1, <1>2, <1>4 DEF MarksInv, One

\* A photo is stored once, with its last portion, when all its rows are marked.
LEMMA StoredIsMarked == MapFull => DoneMeansMarked
<1> SUFFICES ASSUME NEW h \in Nat \ {0}, MapInv(h), NEW p \in Photos,
                    IsIn(p, photos_completed)
             PROVE  /\ Copies(photos_completed, p) = 1
                    /\ \A r \in Rows : marks[p][r] = 1
  BY DEF MapFull, DoneMeansMarked
<1>1. Copies(photos_completed, p) = 1 /\ Arrived(h, p) = Workers
  BY StoredIsComplete DEF MapInv
<1>2. QED
  BY <1>1, ArrivedIsMarked

\* The portions of a photo reach the collector in any order: when as many have come as
\* there are workers they are all different, and every row has been marked once.
THEOREM StoredPhotosAreMarked == Spec => []DoneMeansMarked
BY StoredIsMarked, MapInvariant, PTL

-----------------------------------------------------------------------------
(* The refinement                                                          *)

\* No row is marked twice, so that a photo is marked when its last row is.
LEMMA RowsAtMostOnce ==
  ASSUME MapFull, NEW p \in Photos
  PROVE  /\ TimesMarked(p) \in {0, 1}
         /\ TimesMarked(p) = One(\A r \in Rows : marks[p][r] = 1)
<1>1. PICK h \in Nat \ {0} : MapInv(h)
  BY DEF MapFull
<1>2. MarksInv(h) /\ height = h
  BY <1>1 DEF MapInv, UserTypes
<1>3. ASSUME NEW r \in Rows PROVE ~(marks[p][r] > 1)
  <2>1. PICK k \in Workers : r \in RowsOf(h, n, k)
    BY <1>2, PartsTile DEF Rows
  <2>2. marks[p][r] = One(RowDone(h, p, k, r))
    BY <1>2, <2>1 DEF MarksInv
  <2>3. QED
    BY <2>2 DEF One
<1>4. QED
  BY <1>3 DEF TimesMarked, One

\* No photo is marked twice.
LEMMA MarkedAtMostOnce == MapFull => \A p \in Photos : TimesMarked(p) \in {0, 1}
BY RowsAtMostOnce

\* The worker that marks a row marks it for the first time.
LEMMA RowIsFirst ==
  ASSUME MapFull, NEW v \in Workers, MarkRow(v)
  PROVE  /\ \E q \in Photos, r \in Rows :
              /\ marks[q][r] = 0
              /\ \A p \in Photos \ {q} : marks'[p] = marks[p]
         /\ UNCHANGED <<height, photos_completed, main>>
<1>1. PICK h \in Nat \ {0} : MapInv(h)
  BY DEF MapFull
<1>2. /\ FFInv(Parts(h)) /\ UserTypes(h) /\ OwnedOnce(h) /\ MarksInv(h)
      /\ Rows = 0..(h - 1)
  BY <1>1 DEF MapInv, UserTypes, Rows
<1>3. PICK q \in Photos, k \in Workers, r \in 0..(h - 1) :
           /\ task[v] = Part(h, q, k) /\ marks[q][r] = 0
           /\ \A p \in Photos \ {q} : marks'[p] = marks[p]
  BY <1>2, MarksMarked
<1>4. UNCHANGED <<height, photos_completed, main>>
  BY InnerFrame DEF Inner
<1>5. QED
  BY <1>2, <1>3, <1>4

\* When all threads have returned, all photos are stored.
LEMMA AllStored ==
  ASSUME MapFull, main = "gt", gt = "returned", NEW p \in Photos
  PROVE  IsIn(p, photos_completed)
<1>1. PICK h \in Nat \ {0} : MapInv(h)
  BY DEF MapFull
<1>2. FFInv(Parts(h)) /\ EmitterInv(h) /\ UserTypes(h) /\ ResultsInv(h)
  BY <1>1 DEF MapInv
<1>3. photo > NPhotos /\ photo \in Nat /\ NPhotos \in Nat
  BY <1>2, Numbered DEF FFInv, MainInv, EmitterInv
<1>4. ASSUME NEW k \in Workers PROVE Emitted(p, k) /\ Absent(Part(h, p, k))
  <2>1. Absent(Part(h, p, k))
    BY <1>2, NothingLeft
  <2>2. p < photo
    BY <1>3 DEF Photos
  <2>3. QED
    BY <2>1, <2>2 DEF Emitted
<1>5. Arrived(h, p) = Workers
  BY <1>4 DEF Arrived
<1>6. QED
  BY <1>2, <1>5, StoredIsComplete

\* Each step of fastflow_map.cpp is one of MarkedBatch, or none.
LEMMA BatchStep == MapFull /\ MapFull' /\ [Next]_vars => [Batch!BatchNext]_(Batch!batchVars)
<1> SUFFICES ASSUME MapFull, MapFull', [Next]_vars
             PROVE  [Batch!BatchNext]_(Batch!batchVars)
  OBVIOUS
<1> DEFINE times == [p \in Photos |-> TimesMarked(p)]
           Goal == [Batch!BatchNext]_(Batch!batchVars)
<1>1. ASSUME UNCHANGED <<height, marks>> PROVE times' = times
  BY <1>1 DEF TimesMarked, Rows
<1>2. ASSUME UNCHANGED <<height, marks, photos_completed>>,
             main' = "joined" <=> main = "joined"
      PROVE  Goal
  BY <1>1, <1>2 DEF Batch!batchVars
<1>3. PICK h \in Nat \ {0} : MapInv(h)
  BY DEF MapFull
<1>4. /\ FFInv(Parts(h)) /\ EmitterInv(h) /\ UserTypes(h) /\ OwnedOnce(h) /\ height = h
  BY <1>3 DEF MapInv, UserTypes
<1>5. ASSUME UNCHANGED userVars PROVE UNCHANGED <<height, marks, photos_completed>>
  BY <1>5 DEF userVars, svcVars, collectorVars
<1>6. ASSUME \/ EmitEOS
             \/ (LBStep \/ Gather) /\ UNCHANGED userVars
             \/ UNCHANGED vars
      PROVE  Goal
  <2>1. main' = main
    BY <1>6 DEF EmitEOS, EmitterEnds, LBStep, Schedule, Broadcast, BroadcastDone, Retry,
                Gather, vars, ffVars
  <2>2. UNCHANGED userVars
    BY <1>6 DEF EmitEOS, vars
  <2>3. QED
    BY <1>2, <1>5, <2>1, <2>2
<1>7. ASSUME NEW v \in Workers, WorkerPop(v) \/ WorkerPushEOS(v), UNCHANGED userVars
      PROVE  Goal
  <2>1. main' = main
    BY <1>7 DEF WorkerPop, WorkerPushEOS
  <2>2. QED
    BY <1>2, <1>5, <1>7, <2>1
<1>8. ASSUME NEW v \in Workers, TestCounter(v) \/ Count(v) \/ Return(v) PROVE Goal
  <2>1. UNCHANGED <<height, marks, photos_completed, main>>
    BY <1>8 DEF TestCounter, Count, Return, WorkerPush, collectorVars, ffVars
  <2>2. QED
    BY <1>2, <2>1
<1>9. ASSUME EmitPortion PROVE Goal
  BY <1>2, <1>4, <1>9, EmitFrame
<1>10. ASSUME NEW v \in Workers, MarkRow(v) PROVE Goal
  <2>1. PICK q \in Photos, r \in Rows :
           /\ marks[q][r] = 0
           /\ \A p \in Photos \ {q} : marks'[p] = marks[p]
    BY <1>10, RowIsFirst
  <2>2. UNCHANGED <<height, photos_completed, main>>
    BY <1>10, RowIsFirst
  <2>3. TimesMarked(q) = 0
    BY <2>1, RowsAtMostOnce DEF One
  <2>4. TimesMarked(q)' \in {0, 1}
    <3>1. (\A p \in Photos : TimesMarked(p) \in {0, 1})'
      BY MarkedAtMostOnce, PTL
    <3>2. QED
      BY <3>1
  <2>5. \A p \in Photos \ {q} : TimesMarked(p)' = TimesMarked(p)
    BY <2>1, <2>2 DEF TimesMarked, Rows
  <2>6. CASE TimesMarked(q)' = 0
    <3>1. times' = times
      BY <2>3, <2>5, <2>6
    <3>2. QED
      BY <2>2, <3>1 DEF Batch!batchVars
  <2>7. CASE TimesMarked(q)' = 1
    <3>1. times[q] = 0 /\ times' = [times EXCEPT ![q] = 1]
      BY <2>3, <2>5, <2>7
    <3>2. Batch!MarkPhoto(q)
      BY <2>2, <3>1 DEF Batch!MarkPhoto
    <3>3. QED
      BY <3>2 DEF Batch!BatchNext
  <2>8. QED
    BY <2>4, <2>6, <2>7
<1>11. ASSUME Collect PROVE Goal
  <2>1. PICK q \in Photos, j \in Workers :
             /\ UNCHANGED <<height, marks, main>>
             /\ photos_completed' = IF LastPortion(q) THEN Append(photos_completed, q)
                                    ELSE photos_completed
    BY <1>4, <1>11, PartCollected
  <2>2. CASE photos_completed' = photos_completed
    BY <1>2, <2>1, <2>2
  <2>3. CASE photos_completed' # photos_completed
    <3>1. /\ photos_completed' = Append(photos_completed, q)
          /\ photos_completed \in Seq(Photos)
      BY <1>4, <2>1, <2>3 DEF UserTypes
    <3>2. /\ Copies(photos_completed', q) = Copies(photos_completed, q) + 1
          /\ IsIn(q, photos_completed')
      BY <3>1, CopiesAppend, IsInAppend
    <3>3. Copies(photos_completed', q) = 1 /\ \A r \in Rows : marks[q][r] = 1
      <4>1. DoneMeansMarked'
        BY StoredIsMarked, PTL
      <4>2. QED
        BY <2>1, <3>2, <4>1 DEF DoneMeansMarked, IsIn, Copies, Places, Rows
    <3>4. times[q] = 1
      BY <3>3, RowsAtMostOnce DEF One
    <3>5. ~IsIn(q, photos_completed)
      BY <3>1, <3>2, <3>3, PlacesFinite, NoCopies
    <3>6. times' = times
      BY <1>1, <2>1
    <3> HIDE DEF times
    <3>7. Batch!HandOver(q)
      BY <2>1, <3>1, <3>4, <3>5, <3>6
         DEF Batch!HandOver, Batch!IsIn, Batch!Places, IsIn, Places, times
    <3>8. QED
      BY <3>7 DEF Batch!BatchNext
  <2>4. QED
    BY <2>2, <2>3
<1>12. ASSUME MainStep, UNCHANGED userVars PROVE Goal
  <2>1. CASE WaitWorkers \/ WaitLB
    <3>1. main' # "joined" /\ main # "joined"
      BY <2>1 DEF WaitWorkers, WaitLB
    <3>2. QED
      BY <1>2, <1>5, <1>12, <3>1
  <2>2. CASE WaitGT
    <3>1. main = "gt" /\ gt = "returned" /\ main' = "joined"
      BY <2>2 DEF WaitGT
    <3>2. \A p \in Photos : IsIn(p, photos_completed)
      BY <3>1, AllStored
    <3>3. UNCHANGED <<height, marks, photos_completed>> /\ times' = times
      BY <1>1, <1>5, <1>12
    <3>4. Batch!Finish
      BY <3>1, <3>2, <3>3 DEF Batch!Finish, Batch!IsIn, Batch!Places, IsIn, Places
    <3>5. QED
      BY <3>4 DEF Batch!BatchNext
  <2>3. QED
    BY <1>12, <2>1, <2>2 DEF MainStep
<1> HIDE DEF Goal
<1>13. ASSUME NEW v \in Workers,
              \/ WorkerPop(v) /\ UNCHANGED userVars
              \/ WorkerPushEOS(v) /\ UNCHANGED userVars
              \/ Inner(v) \/ Return(v)
       PROVE  Goal
  BY <1>7, <1>8, <1>10, <1>13 DEF Inner
<1>14. Goal
  BY <1>6, <1>9, <1>11, <1>12, <1>13, NextCases
<1>15. QED
  BY <1>14 DEF Goal

\* fastflow_map.cpp implements MarkedBatch: the row that completes a photo marks it as
\* a whole, whichever worker comes to it last, its last portion to arrive hands it over,
\* and main() has joined the gatherer only when all photos are stored.
THEOREM FastflowMapImplementsBatch == Spec => ImplementsBatch
<1>1. Init => Batch!BatchInit
  <2> SUFFICES ASSUME Init PROVE Batch!BatchInit
    OBVIOUS
  <2>1. 0 \in Rows /\ \A p \in Photos : \A r \in Rows : marks[p][r] = 0
    BY MapAssumption DEF Init, Rows
  <2>2. \A p \in Photos : TimesMarked(p) = 0
    BY <2>1 DEF TimesMarked
  <2>3. photos_completed = <<>> /\ main # "joined"
    BY DEF Init, FFInit
  <2>4. QED
    BY <2>2, <2>3 DEF Batch!BatchInit
<1>2. QED
  BY <1>1, BatchStep, MapInvariant, PTL DEF Spec, ImplementsBatch, Batch!BatchSpec
=============================================================================
