-------------------------- MODULE PthreadMapProofs --------------------------
(***************************************************************************)
(* Theorems about map.cpp, for every number of workers, every number of    *)
(* photos and every height.  First the rows: the workers get exactly those *)
(* that Partition gives them, so that no two workers ever write the same   *)
(* row and none writes outside the photo.  Then the way of the portions    *)
(* and of the EOS through the queues: it tells how far each portion is     *)
(* marked, when the collector may store a photo, why its pop() after an    *)
(* unlocked isEmpty() returns, and that the map implements MarkedBatch.    *)
(***************************************************************************)
EXTENDS PthreadMap, DataProofs

\* What worker w may receive: its rows of some photo, or EOS
ItemsOf(w) ==
  {Portion(p, Start(height, number_workers, w), Share(height, number_workers, w)) :
     p \in Photos} \cup {EOS}

\* The loop of scatter at its head: i portions have been given away, which are
\* Start(..., i) rows, and partitions has been decremented if i is past
\* portion_left.
LoopInv ==
  photo <= NPhotos =>
    /\ i \in Workers
    /\ allocation = Start(height, number_workers, i)
    /\ partitions = (height \div number_workers)
                      + (IF i <= height % number_workers THEN 1 ELSE 0)

\* What is in the queues and in the hands of the workers
ItemsInv ==
  \A w \in Workers : Scatter_to_worker[w] \in Seq(ItemsOf(w)) /\ ii[w] \in ItemsOf(w)

RowInv ==
  \A w \in Workers : pc[w] = "mark" => ii[w] # EOS

MapInv ==
  /\ height \in Nat /\ photo \in Nat \ {0}
  /\ DOMAIN Scatter_to_worker = Workers
  /\ DOMAIN ii = Workers /\ DOMAIN pc = Workers
  /\ y \in [Workers -> Nat]
  /\ LoopInv
  /\ ItemsInv
  /\ RowInv


\* What scatter hands out next
LEMMA NextPortion ==
  ASSUME MapInv, photo <= NPhotos
  PROVE  /\ i \in Workers
         /\ allocation = Start(height, number_workers, i)
         /\ PartitionsNow = Share(height, number_workers, i)
         /\ Portion(photo, allocation, PartitionsNow) \in ItemsOf(i)
<1> USE MapAssumption
<1> DEFINE d == height \div number_workers
           m == height % number_workers
<1>1. /\ i \in Workers
      /\ allocation = Start(height, number_workers, i)
      /\ partitions = d + (IF i <= m THEN 1 ELSE 0)
  BY DEF MapInv, LoopInv
<1>2. PartitionsNow = IF i = m THEN partitions - 1 ELSE partitions
  BY Zenon DEF PartitionsNow
<1>3. Share(height, number_workers, i) = d + (IF i < m THEN 1 ELSE 0)
  BY Zenon DEF Share
<1>4. d \in Nat /\ m \in Nat /\ i \in Int
  <2>1. height \in Nat
    BY DEF MapInv
  <2>2. d \in Nat /\ m \in Nat
    BY <2>1, Division
  <2>3. QED
    BY <1>1, <2>2 DEF Workers
<1> HIDE DEF d, m
<1>5. PartitionsNow = Share(height, number_workers, i)
  BY <1>1, <1>2, <1>3, <1>4
<1>6. photo \in Photos
  BY DEF MapInv, Photos
<1>7. Portion(photo, allocation, PartitionsNow) \in ItemsOf(i)
  BY <1>1, <1>5, <1>6, Zenon DEF ItemsOf
<1>8. QED
  BY <1>1, <1>5, <1>7

\* scatter is at the head of its loop.
LEMMA Init_MapInv == Init => MapInv
<1> SUFFICES ASSUME Init PROVE MapInv
  OBVIOUS
<1> USE MapAssumption
<1>1. height \in Nat /\ photo \in Nat \ {0}
  BY DEF Init
<1>2. /\ DOMAIN Scatter_to_worker = Workers
      /\ DOMAIN ii = Workers /\ DOMAIN pc = Workers
      /\ y \in [Workers -> Nat]
  BY DEF Init
<1>3. LoopInv
  <2> DEFINE d == height \div number_workers
             m == height % number_workers
  <2>1. 0 \in Workers
    BY DEF Workers
  <2>2. m \in Nat /\ d \in Nat
    BY <1>1, Division
  <2>3. allocation = Start(height, number_workers, 0)
    BY <1>1, StartEnds DEF Init
  <2>4. partitions = d + 1
    BY Zenon DEF Init
  <2> HIDE DEF d, m
  <2>5. partitions = d + (IF 0 <= m THEN 1 ELSE 0)
    BY <2>2, <2>4
  <2>6. i = 0
    BY DEF Init
  <2>7. QED
    BY <2>1, <2>3, <2>5, <2>6, Zenon DEF LoopInv, d, m
<1>4. ItemsInv
  BY DEF Init, ItemsInv, ItemsOf
<1>5. RowInv
  BY DEF Init, RowInv
<1>6. QED
  BY <1>1, <1>2, <1>3, <1>4, <1>5 DEF MapInv

\* scatter keeps the loop invariant and sends each worker its own rows.
LEMMA ScatterPortionStep == MapInv /\ ScatterPortion => MapInv'
<1> SUFFICES ASSUME MapInv, ScatterPortion PROVE MapInv'
  OBVIOUS
<1> USE MapAssumption
<1> DEFINE d == height \div number_workers
           m == height % number_workers
           item == Portion(photo, allocation, PartitionsNow)
<1>1. /\ photo <= NPhotos
      /\ height \in Nat /\ photo \in Nat \ {0}
      /\ UNCHANGED <<height, ii, pc, y>>
  BY DEF ScatterPortion, MapInv
<1>2. /\ i \in Workers
      /\ allocation = Start(height, number_workers, i)
      /\ PartitionsNow = Share(height, number_workers, i)
      /\ item \in ItemsOf(i)
  BY <1>1, NextPortion
<1>3. d \in Nat /\ m \in Nat /\ i \in Nat /\ i < number_workers
  <2>1. d \in Nat /\ m \in Nat
    BY <1>1, Division
  <2>2. QED
    BY <1>2, <2>1 DEF Workers
<1>4. Scatter_to_worker' = [Scatter_to_worker EXCEPT ![i] = Append(@, item)]
  BY DEF ScatterPortion
<1>5. LoopInv'
  <2>1. CASE i + 1 < number_workers
    <3>1. /\ i' = i + 1 /\ partitions' = PartitionsNow
          /\ allocation' = allocation + PartitionsNow
      BY <2>1 DEF ScatterPortion
    <3>2. i' \in Workers
      BY <1>3, <2>1, <3>1 DEF Workers
    <3>3. allocation' = Start(height, number_workers, i + 1)
      <4>1. i \in 0..(number_workers - 1)
        BY <1>2 DEF Workers
      <4>2. Start(height, number_workers, i + 1)
              = Start(height, number_workers, i) + Share(height, number_workers, i)
        BY <1>1, <4>1, StartNext
      <4>3. QED
        BY <1>2, <3>1, <4>2
    <3>4. partitions' = d + (IF i < m THEN 1 ELSE 0)
      BY <1>2, <3>1, Zenon DEF Share
    <3> HIDE DEF d, m
    <3>5. partitions' = d + (IF i + 1 <= m THEN 1 ELSE 0)
      BY <1>3, <3>4
    <3>6. height' = height
      BY <1>1
    <3>7. QED
      BY <3>1, <3>2, <3>3, <3>5, <3>6, Zenon DEF LoopInv, d, m
  <2>2. CASE ~(i + 1 < number_workers)
    <3>1. i' = 0 /\ partitions' = d + 1 /\ allocation' = 0
      BY <2>2 DEF ScatterPortion
    <3>2. 0 \in Workers
      BY DEF Workers
    <3>3. allocation' = Start(height, number_workers, 0)
      BY <1>1, <3>1, StartEnds
    <3> HIDE DEF d, m
    <3>4. partitions' = d + (IF 0 <= m THEN 1 ELSE 0)
      BY <1>3, <3>1
    <3>5. height' = height
      BY <1>1
    <3>6. QED
      BY <3>1, <3>2, <3>3, <3>4, <3>5, Zenon DEF LoopInv, d, m
  <2>3. QED
    BY <2>1, <2>2
<1>6. photo' \in Nat \ {0}
  <2>1. photo' = photo \/ photo' = photo + 1
    BY DEF ScatterPortion
  <2>2. QED
    BY <1>1, <2>1
<1>7. ItemsInv'
  <2> SUFFICES ASSUME NEW w \in Workers
               PROVE  Scatter_to_worker'[w] \in Seq(ItemsOf(w)') /\ ii'[w] \in ItemsOf(w)'
    BY DEF ItemsInv
  <2>1. ItemsOf(w)' = ItemsOf(w)
    BY <1>1 DEF ItemsOf
  <2>2. Scatter_to_worker[w] \in Seq(ItemsOf(w)) /\ ii[w] \in ItemsOf(w)
    BY DEF MapInv, ItemsInv
  <2>3. CASE w = i
    <3>1. Scatter_to_worker'[w] = Append(Scatter_to_worker[w], item)
      BY <1>4, <2>3 DEF MapInv
    <3>2. item \in ItemsOf(w)
      BY <1>2, <2>3
    <3> HIDE DEF item
    <3>3. Scatter_to_worker'[w] \in Seq(ItemsOf(w))
      BY <2>2, <3>1, <3>2
    <3>4. ii' = ii
      BY <1>1
    <3>5. QED
      BY <2>1, <2>2, <3>3, <3>4
  <2>4. CASE w # i
    <3>1. Scatter_to_worker'[w] = Scatter_to_worker[w] /\ ii' = ii
      BY <1>1, <1>4, <2>4 DEF MapInv
    <3>2. QED
      BY <2>1, <2>2, <3>1
  <2>5. QED
    BY <2>3, <2>4
<1>8. RowInv'
  BY <1>1 DEF MapInv, RowInv
<1>9. /\ height' \in Nat
      /\ DOMAIN Scatter_to_worker' = Workers
      /\ DOMAIN ii' = Workers /\ DOMAIN pc' = Workers
      /\ y' \in [Workers -> Nat]
  BY <1>1, <1>4 DEF MapInv
<1>10. QED
  BY <1>5, <1>6, <1>7, <1>8, <1>9 DEF MapInv

\* The EOS is among what a worker may receive.
LEMMA ScatterEOSStep == MapInv /\ ScatterEOS => MapInv'
<1> SUFFICES ASSUME MapInv, ScatterEOS PROVE MapInv'
  OBVIOUS
<1>1. /\ ~(photo <= NPhotos)
      /\ UNCHANGED <<height, photo, ii, pc, y>>
  BY MapAssumption DEF ScatterEOS, MapInv
<1>2. Scatter_to_worker' = [Scatter_to_worker EXCEPT ![i] = Append(@, EOS)]
  BY DEF ScatterEOS
<1>3. LoopInv'
  BY <1>1 DEF LoopInv
<1>4. ItemsInv'
  <2> SUFFICES ASSUME NEW w \in Workers
               PROVE  Scatter_to_worker'[w] \in Seq(ItemsOf(w)') /\ ii'[w] \in ItemsOf(w)'
    BY DEF ItemsInv
  <2>1. ItemsOf(w)' = ItemsOf(w)
    BY <1>1 DEF ItemsOf
  <2>2. Scatter_to_worker[w] \in Seq(ItemsOf(w)) /\ ii[w] \in ItemsOf(w)
    BY DEF MapInv, ItemsInv
  <2>3. EOS \in ItemsOf(w)
    BY DEF ItemsOf
  <2>4. Scatter_to_worker'[w] \in Seq(ItemsOf(w))
    <3>1. CASE w = i
      BY <1>2, <2>2, <2>3, <3>1 DEF MapInv
    <3>2. CASE w # i
      BY <1>2, <2>2, <3>2 DEF MapInv
    <3>3. QED
      BY <3>1, <3>2
  <2>5. ii' = ii
    BY <1>1
  <2>6. QED
    BY <2>1, <2>2, <2>4, <2>5
<1>5. RowInv'
  BY <1>1 DEF MapInv, RowInv
<1>6. /\ height' \in Nat /\ photo' \in Nat \ {0}
      /\ DOMAIN Scatter_to_worker' = Workers
      /\ DOMAIN ii' = Workers /\ DOMAIN pc' = Workers
      /\ y' \in [Workers -> Nat]
  BY <1>1, <1>2 DEF MapInv
<1>7. QED
  BY <1>3, <1>4, <1>5, <1>6 DEF MapInv

\* A worker that takes a portion gets one of its own.
LEMMA WorkerPopStep ==
  ASSUME MapInv, NEW w \in Workers, WorkerPop(w)
  PROVE  MapInv'
<1>1. /\ Scatter_to_worker[w] # <<>>
      /\ ii' = [ii EXCEPT ![w] = Head(Scatter_to_worker[w])]
      /\ Scatter_to_worker' = [Scatter_to_worker EXCEPT ![w] = Tail(@)]
      /\ y' = [y EXCEPT ![w] = 0]
      /\ pc' = [pc EXCEPT ![w] = IF Head(Scatter_to_worker[w]) # EOS
                                 THEN "mark" ELSE "eos"]
      /\ UNCHANGED <<height, photo, i, partitions, allocation>>
  BY DEF WorkerPop, Goto, scatterVars
<1>2. LoopInv'
  BY <1>1 DEF MapInv, LoopInv
<1>3. ItemsInv'
  <2> SUFFICES ASSUME NEW v \in Workers
               PROVE  Scatter_to_worker'[v] \in Seq(ItemsOf(v)') /\ ii'[v] \in ItemsOf(v)'
    BY DEF ItemsInv
  <2>1. ItemsOf(v)' = ItemsOf(v)
    BY <1>1 DEF ItemsOf
  <2>2. Scatter_to_worker[v] \in Seq(ItemsOf(v)) /\ ii[v] \in ItemsOf(v)
    BY DEF MapInv, ItemsInv
  <2>3. CASE v = w
    <3>1. /\ Scatter_to_worker'[v] = Tail(Scatter_to_worker[v])
          /\ ii'[v] = Head(Scatter_to_worker[v])
          /\ Scatter_to_worker[v] # <<>>
      BY <1>1, <2>3 DEF MapInv
    <3>2. QED
      BY <2>1, <2>2, <3>1
  <2>4. CASE v # w
    <3>1. Scatter_to_worker'[v] = Scatter_to_worker[v] /\ ii'[v] = ii[v]
      BY <1>1, <2>4 DEF MapInv
    <3>2. QED
      BY <2>1, <2>2, <3>1
  <2>5. QED
    BY <2>3, <2>4
<1>4. RowInv'
  <2> SUFFICES ASSUME NEW v \in Workers, pc'[v] = "mark" PROVE ii'[v] # EOS
    BY DEF RowInv
  <2>1. CASE v = w
    BY <1>1, <2>1 DEF MapInv
  <2>2. CASE v # w
    BY <1>1, <2>2 DEF MapInv, RowInv
  <2>3. QED
    BY <2>1, <2>2
<1>5. /\ height' \in Nat /\ photo' \in Nat \ {0}
      /\ DOMAIN Scatter_to_worker' = Workers
      /\ DOMAIN ii' = Workers /\ DOMAIN pc' = Workers
      /\ y' \in [Workers -> Nat]
  BY <1>1 DEF MapInv
<1>6. QED
  BY <1>2, <1>3, <1>4, <1>5 DEF MapInv

\* The steps that leave scatter, its queues and the portions in hand alone
LEMMA OtherSteps ==
  ASSUME MapInv,
         UNCHANGED <<height, scatterVars, Scatter_to_worker, ii>>,
         DOMAIN pc' = Workers, y' \in [Workers -> Nat],
         \A w \in Workers : pc'[w] = "mark" => pc[w] = "mark"
  PROVE  MapInv'
<1>1. UNCHANGED <<height, photo, i, partitions, allocation, Scatter_to_worker, ii>>
  BY DEF scatterVars
<1>2. LoopInv'
  BY <1>1 DEF MapInv, LoopInv
<1>3. ItemsInv'
  <2>1. \A w \in Workers : ItemsOf(w)' = ItemsOf(w)
    BY <1>1 DEF ItemsOf
  <2>2. QED
    BY <1>1, <2>1 DEF MapInv, ItemsInv
<1>4. RowInv'
  BY <1>1 DEF MapInv, RowInv
<1>5. QED
  BY <1>1, <1>2, <1>3, <1>4 DEF MapInv

\* The steps of the workers
LEMMA WorkerStep ==
  ASSUME MapInv, NEW w \in Workers, Worker(w)
  PROVE  MapInv'
<1>1. CASE WorkerPop(w)
  BY <1>1, WorkerPopStep
<1>2. CASE MarkRow(w)
  <2>1. /\ UNCHANGED <<height, scatterVars, Scatter_to_worker, ii, pc>>
        /\ y' = [y EXCEPT ![w] = @ + 1]
    BY <1>2 DEF MarkRow
  <2>2. QED
    BY <2>1, OtherSteps DEF MapInv
<1>3. CASE ~WorkerPop(w) /\ ~MarkRow(w)
  <2>1. /\ UNCHANGED <<height, scatterVars, Scatter_to_worker, ii, y>>
        /\ \E label \in {"push", "insert", "insert_eos", "test", "returned", "sample",
                         "load", "store", "pop"} :
              pc' = [pc EXCEPT ![w] = label]
    BY <1>3 DEF Worker, RowsDone, PushLock, PushInsert, TestCounter, Sample,
                LoadCounter, StoreCounter, Goto
  <2>2. DOMAIN pc' = Workers /\ \A v \in Workers : pc'[v] = "mark" => pc[v] = "mark"
    BY <2>1 DEF MapInv
  <2>3. QED
    BY <2>1, <2>2, OtherSteps DEF MapInv
<1>4. QED
  BY <1>1, <1>2, <1>3

\* All steps
LEMMA Next_MapInv == MapInv /\ [Next]_vars => MapInv'
<1> SUFFICES ASSUME MapInv, [Next]_vars PROVE MapInv'
  OBVIOUS
<1>1. CASE Scatter
  BY <1>1, ScatterPortionStep, ScatterEOSStep DEF Scatter
<1>2. ASSUME NEW w \in Workers, Worker(w) PROVE MapInv'
  BY <1>2, WorkerStep
<1>3. CASE Collector \/ Join \/ UNCHANGED vars
  <2>1. UNCHANGED <<height, scatterVars, Scatter_to_worker, ii, pc, y>>
    BY <1>3 DEF Collector, Poll, Pop, Join, vars, scatterVars
  <2>2. QED
    BY <2>1, OtherSteps DEF MapInv
<1>4. QED
  BY <1>1, <1>2, <1>3 DEF Next, Terminated

\* The portions are those of the closed form, so that MapInv is what makes
\* concurrent marking safe.
THEOREM MapInvariant == Spec => []MapInv
<1>1. QED
  BY Init_MapInv, Next_MapInv, PTL DEF Spec

\* Every portion on its way to a worker of map.cpp or in its hands consists of
\* the rows of that worker, whatever the height, the number of workers and the
\* number of photos.
THEOREM WorkersGetTheirRows == Spec => []OwnRowsOnly
<1>1. MapInv => OwnRowsOnly
  <2> SUFFICES ASSUME MapInv, NEW w \in Workers, NEW part \in PortionsOf(w) \ {EOS}
               PROVE  /\ part.starting = Start(height, number_workers, w)
                      /\ part.total_parts = Share(height, number_workers, w)
    BY DEF OwnRowsOnly
  <2>1. part \in ItemsOf(w)
    BY DEF PortionsOf, MapInv, ItemsInv
  <2>2. PICK p \in Photos :
          part = Portion(p, Start(height, number_workers, w),
                         Share(height, number_workers, w))
    BY <2>1 DEF ItemsOf
  <2>3. QED
    BY <2>2 DEF Portion
<1>2. QED
  BY <1>1, MapInvariant, PTL

\* Two workers of map.cpp never mark the same row of any photo, at whatever times
\* they do it, and no worker marks a row outside the photo: worker w stays within
\* RowsOf(..., w), and by RowsTiled these sets are disjoint and cover the photo.
THEOREM MarkingStaysInOwnRows == Spec => RowMarkedByItsOwner
<1>1. ASSUME MapInv, NEW w \in Workers, MarkRow(w)
      PROVE  Row(w) \in RowsOf(height, number_workers, w)
  <2> USE MapAssumption
  <2>1. pc[w] = "mark" /\ y[w] < ii[w].total_parts
    BY <1>1 DEF MarkRow
  <2>2. ii[w] \in ItemsOf(w) \ {EOS} /\ y[w] \in Nat /\ height \in Nat
    BY <1>1, <2>1 DEF MapInv, ItemsInv, RowInv
  <2>3. /\ ii[w].starting = Start(height, number_workers, w)
        /\ ii[w].total_parts = Share(height, number_workers, w)
    BY <2>2 DEF ItemsOf, Portion
  <2>4. /\ Start(height, number_workers, w) \in Nat
        /\ Share(height, number_workers, w) \in Nat
    BY <2>2, StartNext DEF Workers
  <2>5. QED
    BY <2>1, <2>2, <2>3, <2>4 DEF Row, RowsOf
<1>2. MapInv => \A w \in Workers : MarkRow(w) => Row(w) \in RowsOf(height, number_workers, w)
  BY <1>1
<1>3. QED
  BY <1>2, MapInvariant, PTL DEF RowMarkedByItsOwner

-----------------------------------------------------------------------------
(* The way of the portions.  Portion w of photo p is still to be sent, in  *)
(* one of the two queues of worker w, in its hands, or it has arrived at   *)
(* the collector, and how far its rows are marked depends on where it is.  *)

n == number_workers

\* Portion w of photo p, and the four places where it may be
Item(p, w) == Portion(p, Start(height, n, w), Share(height, n, w))

Ahead(p, w) == photo < p \/ (photo = p /\ i <= w)
Queued(p, w) == Copies(Scatter_to_worker[w], Item(p, w))
InHand(p, w) == pc[w] \in {"mark", "push", "insert"} /\ ii[w] = Item(p, w)
Outgoing(p, w) == Copies(worker_to_collecter[w], Item(p, w))

\* The number of its places
Transit(p, w) == One(Ahead(p, w)) + Queued(p, w) + One(InHand(p, w)) + Outgoing(p, w)

\* A portion is in one place until it arrives.
PathInv == \A p \in Photos : \A w \in Workers : Transit(p, w) \in {0, 1}

\* The workers whose portion of photo p the collector has got
Arrived(p) == {w \in Workers : Transit(p, w) = 0}

\* The collector counts the portions of a photo, and stores it with the last.
ResultsInv == \A p \in Photos : /\ results[p] = Cardinality(Arrived(p))
                                /\ Copies(images_done, p) = One(results[p] = n)

\* How often the rows of portion w of photo p have been marked
MarksOf(p, w, r) == IF Ahead(p, w) \/ Queued(p, w) # 0 THEN 0
                    ELSE IF pc[w] = "mark" /\ ii[w] = Item(p, w)
                         THEN One(r < Start(height, n, w) + y[w])
                         ELSE 1

MarksInv == /\ \A w \in Workers : pc[w] = "mark" => y[w] <= Share(height, n, w)
            /\ \A p \in Photos : \A w \in Workers : \A r \in RowsOf(height, n, w) :
                 marks[p][r] = MarksOf(p, w, r)

\* The EOS of worker w is still to be sent.
EOSAhead(w) == photo <= NPhotos \/ i <= w

\* The EOS of worker w is sent once, nothing follows it, and the worker returns after
\* it has passed it on.
WorkerEOS(w) ==
  /\ EndsAt(EOS, Scatter_to_worker[w]) /\ EndsAt(EOS, worker_to_collecter[w])
  /\ EOSAhead(w) => /\ ~IsIn(EOS, Scatter_to_worker[w])
                    /\ pc[w] \notin {"eos", "insert_eos", "returned"}
  /\ pc[w] \in {"eos", "insert_eos", "returned"} => Scatter_to_worker[w] = <<>>
  /\ IsIn(EOS, worker_to_collecter[w]) => pc[w] = "returned"
  /\ pc[w] = "returned" /\ worker_to_collecter[w] # <<>> => IsIn(EOS, worker_to_collecter[w])

\* The workers whose EOS the collector has got
Gone == {w \in Workers : pc[w] = "returned" /\ worker_to_collecter[w] = <<>>}

EOSInv == /\ \A w \in Workers : WorkerEOS(w)
          /\ counter = Cardinality(Gone)
          /\ collector = "returned" => counter >= n

\* What is left of the types, and what a worker at work has in its hands
Labels == {"pop", "mark", "push", "insert", "test", "sample", "load", "store", "eos",
           "insert_eos", "returned"}

FlowTypes ==
  /\ height \in Nat \ {0} /\ i \in 0..n
  /\ pc \in [Workers -> Labels]
  /\ DOMAIN worker_to_collecter = Workers
  /\ \A w \in Workers : worker_to_collecter[w] \in Seq(ItemsOf(w))
  /\ \A w \in Workers : /\ pc[w] \in {"mark", "push", "insert"} => ii[w] # EOS
                        /\ pc[w] \in {"eos", "insert_eos"} => ii[w] = EOS
  /\ marks \in [Photos -> [0..(height - 1) -> Nat]]
  /\ results \in [Photos -> Nat] /\ images_done \in Seq(Photos)
  /\ collector \in {"poll", "pop", "returned"} /\ polled \in Workers /\ counter \in Nat
  /\ main \in {"joining", "joined"}

FlowInv == FlowTypes /\ PathInv /\ ResultsInv /\ MarksInv /\ EOSInv

\* After main() has joined the threads, they have returned.
JoinedInv == main = "joined" => /\ ScatterReturned /\ collector = "returned"
                                /\ \A w \in Workers : pc[w] = "returned"

\* The counter is tested after the push: a portion that worker w has passed on has
\* had its service time recorded, or another worker's has been.
Passed(p, w) == ~Ahead(p, w) /\ Queued(p, w) = 0 /\ ~InHand(p, w)

Sampled == \E w \in Workers : samples[w] = 1

SampleInv ==
  /\ samples \in [Workers -> {0, 1}] /\ register \in [Workers -> Nat]
  /\ counter_worker \in Nat
  /\ \A w \in Workers : /\ pc[w] = "sample" => samples[w] = 0
                        /\ pc[w] \in {"load", "store"} => samples[w] = 1
                        /\ samples[w] = 1 => \/ pc[w] \in {"load", "store"}
                                             \/ counter_worker > 0
                        /\ pc[w] \notin {"test", "sample"} =>
                             \A p \in Photos : Passed(p, w) => Sampled
  /\ counter_worker > 0 => Sampled

\* All of it is inductive together: the rows need MapInv, the results PathInv, and
\* polling the queues.
MapFull == MapInv /\ FlowInv /\ JoinedInv /\ SampleInv /\ PopAfterPollReturns

-----------------------------------------------------------------------------
(* What each step does, worker by worker                                   *)

\* The portions of worker w: one per photo, and none of them is EOS
LEMMA ItemFacts ==
  ASSUME height \in Nat, NEW w \in Workers
  PROVE  /\ Start(height, n, w) \in Nat /\ Share(height, n, w) \in Nat
         /\ \A p \in Photos : Item(p, w) \in ItemsOf(w) /\ Item(p, w) # EOS
         /\ \A p, q \in Photos : Item(p, w) = Item(q, w) => p = q
         /\ \A x \in ItemsOf(w) \ {EOS} : x.photo \in Photos /\ x = Item(x.photo, w)
         /\ EOS \in ItemsOf(w)
<1>1. Start(height, n, w) \in Nat /\ Share(height, n, w) \in Nat
  BY StartNext, MapAssumption DEF Workers, n
<1>2. \A p \in Photos : Item(p, w) # EOS
  BY <1>1, MapAssumption DEF Item, Portion
<1>3. QED
  BY <1>1, <1>2 DEF Item, Portion, ItemsOf, n

\* They depend on nothing but the height, which never changes.
LEMMA ItemKept ==
  ASSUME height' = height
  PROVE  /\ \A w \in Workers : ItemsOf(w)' = ItemsOf(w)
         /\ \A p \in Photos : \A w \in Workers : Item(p, w)' = Item(p, w)
BY DEF ItemsOf, Item

\* scatter sends the portion of one photo to one worker.
LEMMA PortionSent ==
  ASSUME MapInv, ScatterPortion
  PROVE  /\ photo \in Photos /\ i \in Workers
         /\ \A w \in Workers :
              Scatter_to_worker'[w] = IF w = i
                                      THEN Append(Scatter_to_worker[i], Item(photo, i))
                                      ELSE Scatter_to_worker[w]
         /\ \A p \in Photos : \A w \in Workers :
              Ahead(p, w)' <=> Ahead(p, w) /\ ~(p = photo /\ w = i)
         /\ Ahead(photo, i)
         /\ \A w \in Workers : EOSAhead(w) /\ EOSAhead(w)'
         /\ i' \in 0..n
         /\ UNCHANGED <<height, worker_to_collecter, pc, ii, y, marks, counterVars,
                        collectorVars, main>>
<1>1. /\ photo <= NPhotos /\ photo \in Nat \ {0} /\ NPhotos \in Nat /\ n \in Nat \ {0}
      /\ n = number_workers
  BY MapAssumption DEF ScatterPortion, MapInv, n
<1>2. i \in Workers /\ Portion(photo, allocation, PartitionsNow) = Item(photo, i)
  BY <1>1, NextPortion, Zenon DEF Item, n
<1>3. photo \in Photos /\ i \in 0..(n - 1) /\ Workers = 0..(n - 1)
  BY <1>1, <1>2 DEF Photos, Workers
<1>4. \A w \in Workers :
        Scatter_to_worker'[w] = IF w = i
                                THEN Append(Scatter_to_worker[i], Item(photo, i))
                                ELSE Scatter_to_worker[w]
  BY <1>2 DEF ScatterPortion, MapInv
<1>5. \/ i + 1 < n /\ i' = i + 1 /\ photo' = photo
      \/ i + 1 = n /\ i' = 0 /\ photo' = photo + 1
  BY <1>1, <1>3 DEF ScatterPortion
<1>6. \A p \in Photos : \A w \in Workers :
        Ahead(p, w)' <=> Ahead(p, w) /\ ~(p = photo /\ w = i)
  BY <1>1, <1>3, <1>5 DEF Ahead, Photos
<1>7. Ahead(photo, i) /\ \A w \in Workers : EOSAhead(w) /\ EOSAhead(w)'
  BY <1>1, <1>3, <1>5 DEF Ahead, EOSAhead
<1>8. i' \in 0..n
  BY <1>1, <1>3, <1>5
<1>9. QED
  BY <1>2, <1>3, <1>4, <1>6, <1>7, <1>8 DEF ScatterPortion

\* scatter sends one worker the EOS.
LEMMA EOSSent ==
  ASSUME MapInv, i \in 0..n, ScatterEOS
  PROVE  /\ i \in Workers /\ photo > NPhotos /\ photo' = photo
         /\ \A w \in Workers :
              Scatter_to_worker'[w] = IF w = i THEN Append(Scatter_to_worker[i], EOS)
                                      ELSE Scatter_to_worker[w]
         /\ \A p \in Photos : \A w \in Workers : ~Ahead(p, w) /\ ~Ahead(p, w)'
         /\ EOSAhead(i)
         /\ \A w \in Workers : EOSAhead(w)' <=> EOSAhead(w) /\ w # i
         /\ i' \in 0..n
         /\ UNCHANGED <<height, worker_to_collecter, pc, ii, y, marks, counterVars,
                        collectorVars, main>>
<1>1. /\ photo > NPhotos /\ photo \in Nat /\ NPhotos \in Nat /\ n \in Nat \ {0}
      /\ photo' = photo /\ i' = i + 1 /\ i < n
  BY MapAssumption DEF ScatterEOS, EOSTurns, MapInv, n
<1>2. i \in Workers /\ Workers = 0..(n - 1) /\ i' \in 0..n
  BY <1>1 DEF Workers, n
<1>3. \A w \in Workers :
        Scatter_to_worker'[w] = IF w = i THEN Append(Scatter_to_worker[i], EOS)
                                ELSE Scatter_to_worker[w]
  BY <1>2 DEF ScatterEOS, MapInv
<1>4. \A p \in Photos : \A w \in Workers : ~Ahead(p, w) /\ ~Ahead(p, w)'
  BY <1>1 DEF Ahead, Photos
<1>5. EOSAhead(i) /\ \A w \in Workers : EOSAhead(w)' <=> EOSAhead(w) /\ w # i
  BY <1>1, <1>2 DEF EOSAhead
<1>6. QED
  BY <1>1, <1>2, <1>3, <1>4, <1>5 DEF ScatterEOS

\* A worker takes a portion, or the EOS, out of its queue.
LEMMA PortionTaken ==
  ASSUME MapInv, FlowTypes, NEW v \in Workers, WorkerPop(v)
  PROVE  /\ pc[v] = "pop" /\ Scatter_to_worker[v] # <<>>
         /\ Scatter_to_worker[v] \in Seq(ItemsOf(v))
         /\ ii'[v] = Head(Scatter_to_worker[v]) /\ ii'[v] \in ItemsOf(v)
         /\ Scatter_to_worker'[v] = Tail(Scatter_to_worker[v])
         /\ pc'[v] = IF ii'[v] # EOS THEN "mark" ELSE "eos"
         /\ y'[v] = 0
         /\ \A w \in Workers \ {v} :
              /\ Scatter_to_worker'[w] = Scatter_to_worker[w]
              /\ ii'[w] = ii[w] /\ pc'[w] = pc[w] /\ y'[w] = y[w]
         /\ pc' \in [Workers -> Labels]
         /\ UNCHANGED <<height, photo, i, worker_to_collecter, marks, counterVars,
                        collectorVars, main>>
<1>1. /\ pc[v] = "pop" /\ Scatter_to_worker[v] # <<>>
      /\ ii' = [ii EXCEPT ![v] = Head(Scatter_to_worker[v])]
      /\ Scatter_to_worker' = [Scatter_to_worker EXCEPT ![v] = Tail(@)]
      /\ y' = [y EXCEPT ![v] = 0]
      /\ pc' = [pc EXCEPT ![v] = IF Head(Scatter_to_worker[v]) # EOS
                                 THEN "mark" ELSE "eos"]
      /\ UNCHANGED <<height, photo, i, worker_to_collecter, marks, counterVars,
                        collectorVars, main>>
  BY DEF WorkerPop, Goto, scatterVars
<1>2. Scatter_to_worker[v] \in Seq(ItemsOf(v))
  BY DEF MapInv, ItemsInv
<1>3. Head(Scatter_to_worker[v]) \in ItemsOf(v)
  BY <1>1, <1>2
<1>4. pc' \in [Workers -> Labels]
  BY <1>1 DEF FlowTypes, Labels
<1>5. ii'[v] = Head(Scatter_to_worker[v])
  BY <1>1 DEF MapInv
<1>6. QED
  BY <1>1, <1>2, <1>3, <1>4, <1>5 DEF MapInv

\* The steps of worker v that change no queue and no portion: its next label is one
\* of these.
LabelStep(v) == RowsDone(v) \/ PushLock(v) \/ TestCounter(v) \/ Sample(v)
                  \/ LoadCounter(v) \/ StoreCounter(v)

\* Where they lead
LEMMA LabelMoves ==
  ASSUME MapInv, FlowTypes, NEW v \in Workers, LabelStep(v)
  PROVE  /\ \/ pc[v] = "mark" /\ pc'[v] = "push" /\ y[v] >= ii[v].total_parts
            \/ pc[v] = "push" /\ pc'[v] = "insert"
            \/ pc[v] = "eos" /\ pc'[v] = "insert_eos"
            \/ pc[v] = "test" /\ pc'[v] \in {"sample", "pop"}
            \/ pc[v] = "sample" /\ pc'[v] = "load"
            \/ pc[v] = "load" /\ pc'[v] = "store"
            \/ pc[v] = "store" /\ pc'[v] = "pop"
         /\ \A w \in Workers \ {v} : pc'[w] = pc[w]
         /\ pc' \in [Workers -> Labels]
         /\ UNCHANGED <<height, photo, i, Scatter_to_worker, worker_to_collecter, ii, y,
                        marks, collectorVars, main>>
<1>1. \E a, b \in Labels :
        /\ pc[v] = a /\ pc' = [pc EXCEPT ![v] = b]
        /\ \/ a = "mark" /\ b = "push" /\ y[v] >= ii[v].total_parts
           \/ a = "push" /\ b = "insert"
           \/ a = "eos" /\ b = "insert_eos"
           \/ a = "test" /\ b \in {"sample", "pop"}
           \/ a = "sample" /\ b = "load"
           \/ a = "load" /\ b = "store"
           \/ a = "store" /\ b = "pop"
  BY DEF LabelStep, RowsDone, PushLock, TestCounter, Sample, LoadCounter, StoreCounter,
         Goto, Labels
<1>2. UNCHANGED <<height, photo, i, Scatter_to_worker, worker_to_collecter, ii, y,
                  marks, collectorVars, main>>
  BY DEF LabelStep, RowsDone, PushLock, TestCounter, Sample, LoadCounter, StoreCounter,
         scatterVars
<1>3. QED
  BY <1>1, <1>2 DEF FlowTypes

\* A worker passes a portion, or the EOS, on.
LEMMA PortionPassed ==
  ASSUME MapInv, FlowTypes, NEW v \in Workers, PushInsert(v)
  PROVE  /\ \/ pc[v] = "insert" /\ pc'[v] = "test" /\ ii[v] # EOS
            \/ pc[v] = "insert_eos" /\ pc'[v] = "returned" /\ ii[v] = EOS
         /\ ii[v] \in ItemsOf(v) /\ worker_to_collecter[v] \in Seq(ItemsOf(v))
         /\ worker_to_collecter'[v] = Append(worker_to_collecter[v], ii[v])
         /\ \A w \in Workers \ {v} : /\ pc'[w] = pc[w]
                                     /\ worker_to_collecter'[w] = worker_to_collecter[w]
         /\ pc' \in [Workers -> Labels]
         /\ DOMAIN worker_to_collecter' = Workers
         /\ UNCHANGED <<height, photo, i, Scatter_to_worker, ii, y, marks, counterVars,
                        collectorVars, main>>
<1>1. \/ pc[v] = "insert" /\ pc' = [pc EXCEPT ![v] = "test"]
      \/ pc[v] = "insert_eos" /\ pc' = [pc EXCEPT ![v] = "returned"]
  BY DEF PushInsert, Goto
<1>2. /\ worker_to_collecter' = [worker_to_collecter EXCEPT ![v] = Append(@, ii[v])]
      /\ UNCHANGED <<height, photo, i, Scatter_to_worker, ii, y, marks, counterVars,
                     collectorVars, main>>
  BY DEF PushInsert, scatterVars
<1>3. /\ ii[v] \in ItemsOf(v) /\ worker_to_collecter[v] \in Seq(ItemsOf(v))
      /\ pc[v] = "insert" => ii[v] # EOS
      /\ pc[v] = "insert_eos" => ii[v] = EOS
  BY DEF MapInv, ItemsInv, FlowTypes
<1>4. pc' \in [Workers -> Labels]
  BY <1>1 DEF FlowTypes, Labels
<1>5. QED
  BY <1>1, <1>2, <1>3, <1>4 DEF FlowTypes

\* The collector takes a portion, or an EOS, out of the queue of worker v.
LEMMA PortionCollected ==
  ASSUME FlowTypes, Pop
  PROVE  \E v \in Workers :
           /\ v = polled /\ collector = "pop"
           /\ worker_to_collecter[v] # <<>> /\ ~Inserting(v)
           /\ worker_to_collecter[v] \in Seq(ItemsOf(v))
           /\ Head(worker_to_collecter[v]) \in ItemsOf(v)
           /\ worker_to_collecter'[v] = Tail(worker_to_collecter[v])
           /\ DOMAIN worker_to_collecter' = Workers
           /\ \A w \in Workers \ {v} : worker_to_collecter'[w] = worker_to_collecter[w]
           /\ IF Head(worker_to_collecter[v]) # EOS
              THEN LET q == Head(worker_to_collecter[v]).photo
                   IN  /\ results' = [results EXCEPT ![q] = @ + 1]
                       /\ images_done' = IF LastPortion(q) THEN Append(images_done, q)
                                         ELSE images_done
                       /\ counter' = counter
              ELSE results' = results /\ images_done' = images_done /\ counter' = counter + 1
           /\ collector' \in {"poll", "returned"} /\ polled' \in Workers
           /\ collector' = "returned" => counter' >= n
           /\ UNCHANGED <<height, photo, i, Scatter_to_worker, pc, ii, y, marks,
                          counterVars, main>>
<1>1. PICK v \in Workers : v = polled
  BY DEF FlowTypes
<1>2. /\ collector = "pop" /\ worker_to_collecter[v] # <<>> /\ ~Inserting(v)
      /\ worker_to_collecter' = [worker_to_collecter EXCEPT ![v] = Tail(@)]
      /\ UNCHANGED <<height, photo, i, Scatter_to_worker, pc, ii, y, marks, counterVars,
                     main>>
  BY <1>1 DEF Pop, scatterVars
<1>3. worker_to_collecter[v] \in Seq(ItemsOf(v))
  BY DEF FlowTypes
<1>4. Head(worker_to_collecter[v]) \in ItemsOf(v)
  BY <1>2, <1>3
<1>5. /\ worker_to_collecter'[v] = Tail(worker_to_collecter[v])
      /\ DOMAIN worker_to_collecter' = Workers
      /\ \A w \in Workers \ {v} : worker_to_collecter'[w] = worker_to_collecter[w]
  BY <1>2 DEF FlowTypes
<1>6. IF Head(worker_to_collecter[v]) # EOS
      THEN LET q == Head(worker_to_collecter[v]).photo
           IN  /\ results' = [results EXCEPT ![q] = @ + 1]
               /\ images_done' = IF LastPortion(q) THEN Append(images_done, q)
                                 ELSE images_done
               /\ counter' = counter
      ELSE results' = results /\ images_done' = images_done /\ counter' = counter + 1
  BY <1>1 DEF Pop
<1>7. PICK c \in Nat : NextTurn(c) /\ c = counter'
  BY <1>6 DEF Pop, FlowTypes
<1>8. /\ collector' \in {"poll", "returned"} /\ polled' \in Workers
      /\ collector' = "returned" => counter' >= n
  BY <1>1, <1>7, MapAssumption DEF NextTurn, Workers, n
<1>9. QED
  BY <1>1, <1>2, <1>3, <1>4, <1>5, <1>6, <1>8

\* Polling changes nothing but the collector.
LEMMA Polled ==
  ASSUME FlowTypes, EOSInv, Poll
  PROVE  /\ collector' \in {"poll", "pop", "returned"} /\ polled' \in Workers
         /\ collector' = "returned" => counter' >= n
         /\ UNCHANGED <<height, photo, i, Scatter_to_worker, worker_to_collecter, pc, ii,
                        y, marks, counterVars, results, images_done, counter, main>>
<1>1. /\ collector = "poll" /\ (NextTurn(counter) \/ (collector' = "pop" /\ polled' = polled))
      /\ UNCHANGED <<height, photo, i, Scatter_to_worker, worker_to_collecter, pc, ii,
                     y, marks, counterVars, results, images_done, counter, main>>
  BY DEF Poll, scatterVars
<1>2. polled \in Workers /\ number_workers \in Nat \ {0} /\ counter \in Nat
  BY MapAssumption DEF FlowTypes
<1>3. CASE NextTurn(counter)
  BY <1>1, <1>2, <1>3 DEF NextTurn, Workers, n
<1>4. QED
  BY <1>1, <1>2, <1>3

\* Next, flattened
LEMMA NextCases ==
  ASSUME [Next]_vars
  PROVE  \/ ScatterPortion \/ ScatterEOS
         \/ \E v \in Workers : WorkerPop(v) \/ MarkRow(v) \/ LabelStep(v) \/ PushInsert(v)
         \/ Poll \/ Pop \/ Join
         \/ UNCHANGED vars
BY Zenon DEF Next, Scatter, Worker, LabelStep, Collector, Terminated

\* The rows of the workers tile the photo.
LEMMA OwnRows ==
  ASSUME height \in Nat
  PROVE  /\ \A w \in Workers : RowsOf(height, n, w) \subseteq 0..(height - 1)
         /\ \A v, w \in Workers : v # w => RowsOf(height, n, v) \cap RowsOf(height, n, w) = {}
         /\ \A r \in 0..(height - 1) : \E w \in Workers : r \in RowsOf(height, n, w)
<1>1. n \in Nat \ {0} /\ Workers = 0..(n - 1)
  BY MapAssumption DEF n, Workers
<1> HIDE DEF n
<1>2. /\ \A v, w \in 0..(n - 1) : v # w => RowsOf(height, n, v) \cap RowsOf(height, n, w) = {}
      /\ UNION {RowsOf(height, n, w) : w \in 0..(n - 1)} = 0..(height - 1)
  BY <1>1, RowsTiled
<1>3. QED
  BY <1>1, <1>2

\* A worker marks one of its own rows.
LEMMA RowMarked ==
  ASSUME MapInv, FlowTypes, NEW v \in Workers, MarkRow(v)
  PROVE  \E q \in Photos : \E j \in RowsOf(height, n, v) :
           /\ pc[v] = "mark" /\ ii[v] = Item(q, v) /\ y[v] \in Nat
           /\ y[v] < Share(height, n, v) /\ j = Start(height, n, v) + y[v]
           /\ j \in 0..(height - 1)
           /\ marks' = [marks EXCEPT ![q][j] = @ + 1]
           /\ y'[v] = y[v] + 1 /\ \A w \in Workers \ {v} : y'[w] = y[w]
           /\ UNCHANGED <<height, photo, i, Scatter_to_worker, worker_to_collecter, pc, ii,
                          counterVars, collectorVars, main>>
<1>1. /\ pc[v] = "mark" /\ y[v] < ii[v].total_parts
      /\ marks' = [marks EXCEPT ![ii[v].photo][Row(v)] = @ + 1]
      /\ y' = [y EXCEPT ![v] = @ + 1]
      /\ UNCHANGED <<height, photo, i, Scatter_to_worker, worker_to_collecter, pc, ii,
                     counterVars, collectorVars, main>>
  BY DEF MarkRow, scatterVars
<1>2. ii[v] \in ItemsOf(v) \ {EOS} /\ height \in Nat /\ y \in [Workers -> Nat]
  BY <1>1 DEF MapInv, ItemsInv, RowInv
<1>3. PICK q \in Photos : q = ii[v].photo /\ ii[v] = Item(q, v)
  BY <1>2, ItemFacts
<1>4. /\ ii[v].starting = Start(height, n, v) /\ ii[v].total_parts = Share(height, n, v)
      /\ Start(height, n, v) \in Nat /\ Share(height, n, v) \in Nat
  BY <1>2, <1>3, ItemFacts DEF Item, Portion
<1>5. PICK j \in RowsOf(height, n, v) : j = Row(v) /\ j = Start(height, n, v) + y[v]
  BY <1>1, <1>2, <1>4 DEF Row, RowsOf
<1>6. j \in 0..(height - 1)
  BY <1>2, OwnRows
<1>7. y'[v] = y[v] + 1 /\ \A w \in Workers \ {v} : y'[w] = y[w]
  BY <1>1, <1>2
<1>8. QED
  BY <1>1, <1>2, <1>3, <1>4, <1>5, <1>6, <1>7

-----------------------------------------------------------------------------
(* Types                                                                   *)

\* The types at the beginning
LEMMA FlowTypesInit == Init => FlowTypes
<1> SUFFICES ASSUME Init PROVE FlowTypes
  OBVIOUS
<1>1. height \in Nat \ {0} /\ number_workers \in Nat \ {0}
  BY MapAssumption DEF Init
<1>2. i \in 0..n /\ polled \in Workers /\ counter \in Nat
  BY <1>1 DEF Init, Workers, n
<1>3. \A w \in Workers : worker_to_collecter[w] \in Seq(ItemsOf(w))
  BY DEF Init
<1>4. QED
  BY <1>1, <1>2, <1>3 DEF Init, FlowTypes, Labels

\* The steps that leave the marks and the collector alone
LEMMA TypesKept ==
  ASSUME FlowTypes, i' \in 0..n, UNCHANGED <<height, marks, results, images_done, main>>,
         pc' \in [Workers -> Labels],
         DOMAIN worker_to_collecter' = Workers,
         \A w \in Workers : worker_to_collecter'[w] \in Seq(ItemsOf(w)),
         \A w \in Workers : /\ pc'[w] \in {"mark", "push", "insert"} => ii'[w] # EOS
                            /\ pc'[w] \in {"eos", "insert_eos"} => ii'[w] = EOS,
         collector' \in {"poll", "pop", "returned"}, polled' \in Workers, counter' \in Nat
  PROVE  FlowTypes'
<1>1. \A w \in Workers : ItemsOf(w)' = ItemsOf(w)
  BY ItemKept
<1>2. \A w \in Workers : worker_to_collecter'[w] \in Seq(ItemsOf(w)')
  BY <1>1
<1>3. QED
  BY <1>2 DEF FlowTypes, n

\* The types after each step
LEMMA FlowTypesStep ==
  ASSUME MapInv, FlowTypes, EOSInv, [Next]_vars
  PROVE  FlowTypes'
<1>1. CASE ScatterPortion
  BY <1>1, PortionSent, TypesKept DEF FlowTypes, collectorVars
<1>2. CASE ScatterEOS
  BY <1>2, EOSSent, TypesKept DEF FlowTypes, collectorVars
<1>3. ASSUME NEW v \in Workers, WorkerPop(v) PROVE FlowTypes'
  <2>1. \A w \in Workers : /\ pc'[w] \in {"mark", "push", "insert"} => ii'[w] # EOS
                           /\ pc'[w] \in {"eos", "insert_eos"} => ii'[w] = EOS
    <3> TAKE w \in Workers
    <3>1. CASE w = v
      BY <1>3, <3>1, PortionTaken
    <3>2. CASE w # v
      <4>1. ii'[w] = ii[w] /\ pc'[w] = pc[w]
        BY <1>3, <3>2, PortionTaken
      <4>2. QED
        BY <4>1 DEF FlowTypes
    <3>3. QED
      BY <3>1, <3>2
  <2>2. QED
    BY <1>3, <2>1, PortionTaken, TypesKept, SMTT(30) DEF FlowTypes, collectorVars
<1>4. ASSUME NEW v \in Workers, MarkRow(v) PROVE FlowTypes'
  <2>1. PICK q \in Photos, j \in RowsOf(height, n, v) :
          /\ marks' = [marks EXCEPT ![q][j] = @ + 1] /\ j \in 0..(height - 1)
          /\ UNCHANGED <<height, photo, i, Scatter_to_worker, worker_to_collecter, pc, ii,
                         counterVars, collectorVars, main>>
    BY <1>4, RowMarked
  <2>2. marks[q] \in [0..(height - 1) -> Nat]
    BY DEF FlowTypes
  <2>3. [marks[q] EXCEPT ![j] = @ + 1] \in [0..(height - 1) -> Nat]
    <3>1. marks[q][j] \in Nat
      BY <2>1, <2>2, Zenon
    <3>2. marks[q][j] + 1 \in Nat
      BY <3>1
    <3>3. QED
      BY <2>2, <3>2, Zenon
  <2>4. marks' \in [Photos -> [0..(height - 1) -> Nat]]
    BY <2>1, <2>3 DEF FlowTypes
  <2>5. \A w \in Workers : ItemsOf(w)' = ItemsOf(w)
    BY <2>1, ItemKept
  <2>6. \A w \in Workers : worker_to_collecter'[w] \in Seq(ItemsOf(w)')
    BY <2>1, <2>5 DEF FlowTypes
  <2>7. QED
    BY <2>1, <2>4, <2>6 DEF FlowTypes, collectorVars, n
<1>5. ASSUME NEW v \in Workers, LabelStep(v) PROVE FlowTypes'
  <2>1. \A w \in Workers : /\ pc'[w] \in {"mark", "push", "insert"} => ii'[w] # EOS
                           /\ pc'[w] \in {"eos", "insert_eos"} => ii'[w] = EOS
    <3> TAKE w \in Workers
    <3>1. CASE w = v
      BY <1>5, <3>1, LabelMoves DEF FlowTypes
    <3>2. CASE w # v
      BY <1>5, <3>2, LabelMoves DEF FlowTypes
    <3>3. QED
      BY <3>1, <3>2
  <2>2. QED
    BY <1>5, <2>1, LabelMoves, TypesKept DEF FlowTypes, collectorVars
<1>6. ASSUME NEW v \in Workers, PushInsert(v) PROVE FlowTypes'
  <2>1. \A w \in Workers : worker_to_collecter'[w] \in Seq(ItemsOf(w))
    <3> TAKE w \in Workers
    <3>1. CASE w = v
      BY <1>6, <3>1, PortionPassed
    <3>2. CASE w # v
      BY <1>6, <3>2, PortionPassed DEF FlowTypes
    <3>3. QED
      BY <3>1, <3>2
  <2>2. \A w \in Workers : /\ pc'[w] \in {"mark", "push", "insert"} => ii'[w] # EOS
                           /\ pc'[w] \in {"eos", "insert_eos"} => ii'[w] = EOS
    BY <1>6, PortionPassed DEF FlowTypes
  <2>3. QED
    BY <1>6, <2>1, <2>2, PortionPassed, TypesKept, ZenonT(60) DEF FlowTypes, collectorVars
<1>7. CASE Poll
  BY <1>7, Polled, TypesKept DEF FlowTypes
<1>8. CASE Pop
  <2>1. PICK v \in Workers :
           /\ worker_to_collecter[v] # <<>>
           /\ worker_to_collecter[v] \in Seq(ItemsOf(v))
           /\ Head(worker_to_collecter[v]) \in ItemsOf(v)
           /\ worker_to_collecter'[v] = Tail(worker_to_collecter[v])
           /\ DOMAIN worker_to_collecter' = Workers
           /\ \A w \in Workers \ {v} : worker_to_collecter'[w] = worker_to_collecter[w]
           /\ IF Head(worker_to_collecter[v]) # EOS
              THEN LET q == Head(worker_to_collecter[v]).photo
                   IN  /\ results' = [results EXCEPT ![q] = @ + 1]
                       /\ images_done' = IF LastPortion(q) THEN Append(images_done, q)
                                         ELSE images_done
                       /\ counter' = counter
              ELSE results' = results /\ images_done' = images_done /\ counter' = counter + 1
           /\ collector' \in {"poll", "returned"} /\ polled' \in Workers
           /\ UNCHANGED <<height, photo, i, Scatter_to_worker, pc, ii, y, marks,
                          counterVars, main>>
    BY <1>8, PortionCollected
  <2>2. Tail(worker_to_collecter[v]) \in Seq(ItemsOf(v))
    BY <2>1
  <2>3. \A w \in Workers : worker_to_collecter'[w] \in Seq(ItemsOf(w))
    BY <2>1, <2>2 DEF FlowTypes
  <2>4. \A w \in Workers : ItemsOf(w)' = ItemsOf(w)
    BY <2>1, ItemKept
  <2>5. \A w \in Workers : worker_to_collecter'[w] \in Seq(ItemsOf(w)')
    BY <2>3, <2>4
  <2>6. results' \in [Photos -> Nat] /\ images_done' \in Seq(Photos) /\ counter' \in Nat
    <3>1. CASE Head(worker_to_collecter[v]) # EOS
      <4>1. PICK q \in Photos : q = Head(worker_to_collecter[v]).photo
        BY <2>1, <3>1, ItemFacts DEF MapInv
      <4>2. /\ results' = [results EXCEPT ![q] = @ + 1] /\ counter' = counter
            /\ images_done' = Append(images_done, q) \/ images_done' = images_done
        BY <2>1, <3>1, <4>1
      <4>3. results \in [Photos -> Nat] /\ images_done \in Seq(Photos) /\ counter \in Nat
        BY DEF FlowTypes
      <4>4. QED
        BY <4>2, <4>3
    <3>2. CASE Head(worker_to_collecter[v]) = EOS
      BY <2>1, <3>2 DEF FlowTypes
    <3>3. QED
      BY <3>1, <3>2
  <2>7. QED
    BY <2>1, <2>5, <2>6 DEF FlowTypes, n
<1>9. CASE Join \/ UNCHANGED vars
  <2>1. /\ UNCHANGED <<height, i, worker_to_collecter, pc, ii, marks, results, images_done,
                       collector, polled, counter>>
        /\ main' \in {"joining", "joined"}
    BY <1>9 DEF Join, vars, scatterVars, collectorVars, FlowTypes
  <2>2. \A w \in Workers : ItemsOf(w)' = ItemsOf(w)
    BY <2>1, ItemKept
  <2>3. \A w \in Workers : worker_to_collecter'[w] \in Seq(ItemsOf(w)')
    BY <2>1, <2>2 DEF FlowTypes
  <2>4. QED
    BY <2>1, <2>3 DEF FlowTypes, n
<1>10. QED
  BY <1>1, <1>2, <1>3, <1>4, <1>5, <1>6, <1>7, <1>8, <1>9, NextCases

-----------------------------------------------------------------------------
(* Where the portions are                                                  *)

\* The queues of worker w hold its portions, so that copies can be counted.
LEMMA FlowCounts ==
  ASSUME MapInv, FlowTypes, NEW p \in Photos, NEW w \in Workers
  PROVE  /\ Scatter_to_worker[w] \in Seq(ItemsOf(w))
         /\ worker_to_collecter[w] \in Seq(ItemsOf(w))
         /\ Queued(p, w) \in Nat /\ Outgoing(p, w) \in Nat /\ Transit(p, w) \in Nat
<1>1. /\ Scatter_to_worker[w] \in Seq(ItemsOf(w))
      /\ worker_to_collecter[w] \in Seq(ItemsOf(w))
  BY DEF MapInv, ItemsInv, FlowTypes
<1>2. Queued(p, w) \in Nat /\ Outgoing(p, w) \in Nat
  BY <1>1, PlacesFinite DEF Queued, Outgoing
<1>3. QED
  BY <1>1, <1>2 DEF Transit, One

\* Nothing changes for a portion whose queues and holder do not.
LEMMA PlaceKept ==
  ASSUME NEW p \in Photos, NEW w \in Workers, height' = height,
         Ahead(p, w)' <=> Ahead(p, w),
         Scatter_to_worker'[w] = Scatter_to_worker[w],
         worker_to_collecter'[w] = worker_to_collecter[w],
         InHand(p, w)' <=> InHand(p, w)
  PROVE  /\ Transit(p, w)' = Transit(p, w)
         /\ Queued(p, w)' = Queued(p, w) /\ Outgoing(p, w)' = Outgoing(p, w)
<1>1. Item(p, w)' = Item(p, w)
  BY ItemKept
<1>2. Queued(p, w)' = Queued(p, w) /\ Outgoing(p, w)' = Outgoing(p, w)
  BY <1>1 DEF Queued, Outgoing
<1>3. One(Ahead(p, w))' = One(Ahead(p, w)) /\ One(InHand(p, w))' = One(InHand(p, w))
  BY DEF One
<1>4. QED
  BY <1>2, <1>3 DEF Transit

\* The holder of a portion keeps it unless its label or its portion changes.
LEMMA HolderKept ==
  ASSUME NEW p \in Photos, NEW w \in Workers, height' = height,
         pc'[w] \in {"mark", "push", "insert"} <=> pc[w] \in {"mark", "push", "insert"},
         ii'[w] = ii[w]
  PROVE  InHand(p, w)' <=> InHand(p, w)
<1>1. Item(p, w)' = Item(p, w)
  BY ItemKept
<1>2. QED
  BY <1>1 DEF InHand

\* A portion has not left scatter any more or less unless scatter moves.
LEMMA AheadKept ==
  ASSUME NEW p \in Photos, NEW w \in Workers, photo' = photo, i' = i
  PROVE  (Ahead(p, w)' <=> Ahead(p, w)) /\ (EOSAhead(w)' <=> EOSAhead(w))
BY DEF Ahead, EOSAhead

\* What is appended to a queue of portions is there once more; EOS is no portion.
LEMMA SentItem ==
  ASSUME height \in Nat, NEW w \in Workers, NEW s \in Seq(ItemsOf(w)),
         NEW x \in ItemsOf(w), NEW p \in Photos
  PROVE  Copies(Append(s, x), Item(p, w)) = Copies(s, Item(p, w)) + One(x = Item(p, w))
BY CopiesAppend DEF One

\* The portions that scatter sends
LEMMA TransitSent ==
  ASSUME MapInv, FlowTypes, ScatterPortion \/ ScatterEOS,
         NEW p \in Photos, NEW w \in Workers
  PROVE  /\ Transit(p, w)' = Transit(p, w)
         /\ Ahead(p, w)' \/ Queued(p, w)' # 0 <=> Ahead(p, w) \/ Queued(p, w) # 0
<1>1. /\ Scatter_to_worker[w] \in Seq(ItemsOf(w)) /\ Queued(p, w) \in Nat
      /\ height \in Nat /\ i \in 0..n
  BY FlowCounts DEF FlowTypes
<1>2. /\ height' = height /\ worker_to_collecter' = worker_to_collecter
      /\ pc' = pc /\ ii' = ii
  BY DEF ScatterPortion, ScatterEOS
<1>3. (InHand(p, w)' <=> InHand(p, w)) /\ Item(p, w)' = Item(p, w)
  BY <1>2, HolderKept, ItemKept
<1>4. Outgoing(p, w)' = Outgoing(p, w)
  BY <1>2, <1>3 DEF Outgoing
<1>5. One(Ahead(p, w))' + Queued(p, w)' = One(Ahead(p, w)) + Queued(p, w)
  <2>1. CASE ScatterPortion
    <3>1. /\ photo \in Photos /\ i \in Workers /\ Ahead(photo, i)
          /\ Ahead(p, w)' <=> Ahead(p, w) /\ ~(p = photo /\ w = i)
          /\ Scatter_to_worker'[w] = IF w = i
                                     THEN Append(Scatter_to_worker[i], Item(photo, i))
                                     ELSE Scatter_to_worker[w]
      BY <2>1, PortionSent
    <3>2. CASE w = i
      <4>1. Item(photo, w) \in ItemsOf(w) /\ (Item(photo, w) = Item(p, w) => photo = p)
        BY <1>1, <3>1, ItemFacts
      <4>2. Scatter_to_worker'[w] = Append(Scatter_to_worker[w], Item(photo, w))
        BY <3>1, <3>2
      <4>3. Queued(p, w)' = Queued(p, w) + One(Item(photo, w) = Item(p, w))
        BY <1>1, <1>3, <4>1, <4>2, SentItem DEF Queued
      <4>4. Item(photo, w) = Item(p, w) <=> photo = p
        BY <4>1
      <4>5. CASE photo = p
        <5>1. Ahead(p, w) /\ ~Ahead(p, w)'
          BY <3>1, <3>2, <4>5
        <5>2. QED
          BY <1>1, <4>3, <4>4, <4>5, <5>1 DEF One
      <4>6. CASE photo # p
        <5>1. Ahead(p, w)' <=> Ahead(p, w)
          BY <3>1, <4>6
        <5>2. QED
          BY <1>1, <4>3, <4>4, <4>6, <5>1 DEF One
      <4>7. QED
        BY <4>5, <4>6
    <3>3. CASE w # i
      <4>1. Queued(p, w)' = Queued(p, w)
        BY <1>3, <3>1, <3>3 DEF Queued
      <4>2. Ahead(p, w)' <=> Ahead(p, w)
        BY <3>1, <3>3
      <4>3. QED
        BY <4>1, <4>2 DEF One
    <3>4. QED
      BY <3>2, <3>3
  <2>2. CASE ScatterEOS
    <3>1. /\ i \in Workers /\ ~Ahead(p, w) /\ ~Ahead(p, w)'
          /\ Scatter_to_worker'[w] = IF w = i THEN Append(Scatter_to_worker[i], EOS)
                                     ELSE Scatter_to_worker[w]
      BY <1>1, <2>2, EOSSent
    <3>2. EOS \in ItemsOf(w) /\ EOS # Item(p, w)
      BY <1>1, ItemFacts
    <3>3. Queued(p, w)' = Queued(p, w)
      <4>1. CASE w = i
        BY <1>1, <1>3, <3>1, <3>2, <4>1, SentItem DEF Queued, One
      <4>2. CASE w # i
        BY <1>3, <3>1, <4>2 DEF Queued
      <4>3. QED
        BY <4>1, <4>2
    <3>4. QED
      BY <3>1, <3>3 DEF One
  <2>3. QED
    BY <2>1, <2>2
<1>6. Queued(p, w)' \in Nat
  <2>1. One(Ahead(p, w))' + Queued(p, w)' = One(Ahead(p, w)) + Queued(p, w)
    BY <1>5
  <2>2. Scatter_to_worker'[w] \in Seq(ItemsOf(w))
    <3>1. MapInv'
      BY ScatterPortionStep, ScatterEOSStep
    <3>2. QED
      BY <1>2, <3>1, ItemKept DEF MapInv, ItemsInv
  <2>3. QED
    BY <1>3, <2>2, PlacesFinite DEF Queued
<1>7. QED
  <2>1. Transit(p, w)' = Transit(p, w)
    BY <1>1, <1>3, <1>4, <1>5, <1>6, FlowCounts DEF Transit, One
  <2>2. Ahead(p, w)' \/ Queued(p, w)' # 0 <=> Ahead(p, w) \/ Queued(p, w) # 0
    BY <1>1, <1>5, <1>6 DEF One
  <2>3. QED
    BY <2>1, <2>2

\* The portions that workers take
LEMMA TransitTaken ==
  ASSUME MapInv, FlowTypes, NEW v \in Workers, WorkerPop(v),
         NEW p \in Photos, NEW w \in Workers
  PROVE  /\ Transit(p, w)' = Transit(p, w)
         /\ Queued(p, w) + One(InHand(p, w)) = Queued(p, w)' + One(InHand(p, w)')
         /\ Queued(p, w)' \in Nat
<1>1. /\ Scatter_to_worker[w] \in Seq(ItemsOf(w)) /\ Queued(p, w) \in Nat
      /\ height \in Nat /\ i' = i /\ photo' = photo /\ height' = height
      /\ worker_to_collecter' = worker_to_collecter
  BY FlowCounts, PortionTaken DEF FlowTypes
<1>2. (Ahead(p, w)' <=> Ahead(p, w)) /\ Item(p, w)' = Item(p, w)
  BY <1>1, AheadKept, ItemKept
<1>3. Outgoing(p, w)' = Outgoing(p, w)
  BY <1>1, <1>2 DEF Outgoing
<1>4. /\ Queued(p, w) + One(InHand(p, w)) = Queued(p, w)' + One(InHand(p, w)')
      /\ Queued(p, w)' \in Nat
  <2>1. CASE w = v
    <3>1. /\ pc[w] = "pop" /\ Scatter_to_worker[w] # <<>>
          /\ ii'[w] = Head(Scatter_to_worker[w])
          /\ Scatter_to_worker'[w] = Tail(Scatter_to_worker[w])
          /\ pc'[w] = IF ii'[w] # EOS THEN "mark" ELSE "eos"
      BY <2>1, PortionTaken
    <3>2. Copies(Scatter_to_worker[w], Item(p, w))
            = Copies(Tail(Scatter_to_worker[w]), Item(p, w))
                + One(Head(Scatter_to_worker[w]) = Item(p, w))
      BY <1>1, <3>1, CopiesTail DEF One
    <3>3. ~InHand(p, w) /\ (InHand(p, w)' <=> Head(Scatter_to_worker[w]) = Item(p, w))
      BY <1>1, <1>2, <3>1, ItemFacts DEF InHand
    <3>4. Queued(p, w)' = Copies(Tail(Scatter_to_worker[w]), Item(p, w))
      BY <1>2, <3>1 DEF Queued
    <3>5. Tail(Scatter_to_worker[w]) \in Seq(ItemsOf(w))
      BY <1>1, <3>1
    <3>6. Queued(p, w)' \in Nat
      BY <3>4, <3>5, PlacesFinite
    <3>7. Queued(p, w) = Queued(p, w)' + One(Head(Scatter_to_worker[w]) = Item(p, w))
      BY <3>2, <3>4 DEF Queued
    <3>8. QED
      BY <3>3, <3>6, <3>7 DEF One
  <2>2. CASE w # v
    <3>1. /\ Scatter_to_worker'[w] = Scatter_to_worker[w]
          /\ ii'[w] = ii[w] /\ pc'[w] = pc[w]
      BY <2>2, PortionTaken
    <3>2. (InHand(p, w)' <=> InHand(p, w)) /\ Queued(p, w)' = Queued(p, w)
      BY <1>1, <1>2, <3>1, HolderKept DEF Queued
    <3>3. QED
      BY <1>1, <3>2 DEF One
  <2>3. QED
    BY <2>1, <2>2
<1>5. QED
  BY <1>1, <1>2, <1>3, <1>4, FlowCounts DEF Transit, One

\* The portions that workers pass on
LEMMA TransitPassed ==
  ASSUME MapInv, FlowTypes, NEW v \in Workers, PushInsert(v),
         NEW p \in Photos, NEW w \in Workers
  PROVE  Transit(p, w)' = Transit(p, w) /\ Queued(p, w)' = Queued(p, w)
<1>1. /\ worker_to_collecter[w] \in Seq(ItemsOf(w)) /\ Outgoing(p, w) \in Nat
      /\ height \in Nat /\ i' = i /\ photo' = photo /\ height' = height
      /\ Scatter_to_worker' = Scatter_to_worker /\ ii' = ii
  BY FlowCounts, PortionPassed DEF FlowTypes
<1>2. (Ahead(p, w)' <=> Ahead(p, w)) /\ Item(p, w)' = Item(p, w)
  BY <1>1, AheadKept, ItemKept
<1>3. Queued(p, w)' = Queued(p, w)
  BY <1>1, <1>2 DEF Queued
<1>4. One(InHand(p, w)) + Outgoing(p, w) = One(InHand(p, w)') + Outgoing(p, w)'
  <2>1. CASE w = v
    <3>1. /\ \/ pc[w] = "insert" /\ pc'[w] = "test" /\ ii[w] # EOS
             \/ pc[w] = "insert_eos" /\ pc'[w] = "returned" /\ ii[w] = EOS
          /\ ii[w] \in ItemsOf(w)
          /\ worker_to_collecter'[w] = Append(worker_to_collecter[w], ii[w])
      BY <2>1, PortionPassed
    <3>2. Outgoing(p, w)' = Outgoing(p, w) + One(ii[w] = Item(p, w))
      BY <1>1, <1>2, <3>1, SentItem DEF Outgoing
    <3>3. ~InHand(p, w)' /\ (InHand(p, w) <=> ii[w] = Item(p, w))
      BY <1>1, <1>2, <3>1, ItemFacts DEF InHand
    <3>4. QED
      BY <1>1, <3>2, <3>3 DEF One
  <2>2. CASE w # v
    <3>1. worker_to_collecter'[w] = worker_to_collecter[w] /\ pc'[w] = pc[w]
      BY <2>2, PortionPassed
    <3>2. (InHand(p, w)' <=> InHand(p, w)) /\ Outgoing(p, w)' = Outgoing(p, w)
      BY <1>1, <1>2, <3>1, HolderKept DEF Outgoing
    <3>3. QED
      BY <3>2 DEF One
  <2>3. QED
    BY <2>1, <2>2
<1>5. Outgoing(p, w)' \in Nat
  <2>1. CASE w = v
    <3>1. Append(worker_to_collecter[w], ii[w]) \in Seq(ItemsOf(w))
          /\ worker_to_collecter'[w] = Append(worker_to_collecter[w], ii[w])
      BY <1>1, <2>1, PortionPassed
    <3>2. QED
      BY <1>2, <3>1, PlacesFinite DEF Outgoing
  <2>2. CASE w # v
    <3>1. worker_to_collecter'[w] = worker_to_collecter[w]
      BY <2>2, PortionPassed
    <3>2. QED
      BY <1>1, <1>2, <3>1 DEF Outgoing
  <2>3. QED
    BY <2>1, <2>2
<1>6. Queued(p, w) \in Nat
  BY FlowCounts
<1>7. One(Ahead(p, w)') = One(Ahead(p, w)) /\ One(Ahead(p, w)) \in Nat
      /\ One(InHand(p, w)) \in Nat /\ One(InHand(p, w)') \in Nat
  BY <1>2 DEF One
<1>8. Transit(p, w)' = One(Ahead(p, w)') + Queued(p, w)' + One(InHand(p, w)') + Outgoing(p, w)'
  BY DEF Transit, One
<1>9. QED
  BY <1>1, <1>3, <1>4, <1>5, <1>6, <1>7, <1>8, SMTT(30) DEF Transit

\* No other worker step moves a portion.
LEMMA TransitKept ==
  ASSUME MapInv, FlowTypes,
         \/ \E v \in Workers : LabelStep(v) \/ MarkRow(v)
         \/ Poll \/ Join \/ UNCHANGED vars,
         NEW p \in Photos, NEW w \in Workers
  PROVE  /\ Transit(p, w)' = Transit(p, w) /\ Queued(p, w)' = Queued(p, w)
         /\ (InHand(p, w)' <=> InHand(p, w)) /\ (Ahead(p, w)' <=> Ahead(p, w))
<1>1. /\ UNCHANGED <<height, photo, i, Scatter_to_worker, worker_to_collecter, ii>>
      /\ pc'[w] \in {"mark", "push", "insert"} <=> pc[w] \in {"mark", "push", "insert"}
  <2>1. ASSUME NEW v \in Workers, LabelStep(v)
        PROVE  /\ UNCHANGED <<height, photo, i, Scatter_to_worker, worker_to_collecter, ii>>
               /\ pc'[w] \in {"mark", "push", "insert"} <=> pc[w] \in {"mark", "push", "insert"}
    BY <2>1, LabelMoves
  <2>2. ASSUME NEW v \in Workers, MarkRow(v)
        PROVE  UNCHANGED <<height, photo, i, Scatter_to_worker, worker_to_collecter, ii, pc>>
    BY <2>2 DEF MarkRow, scatterVars
  <2>3. CASE Poll \/ Join \/ UNCHANGED vars
    BY <2>3 DEF Poll, Join, vars, scatterVars
  <2>4. QED
    BY <2>1, <2>2, <2>3
<1>2. Ahead(p, w)' <=> Ahead(p, w)
  BY <1>1, AheadKept
<1>3. InHand(p, w)' <=> InHand(p, w)
  BY <1>1, HolderKept
<1>4. QED
  BY <1>1, <1>2, <1>3, PlaceKept

\* The collector takes a portion out of the flow, and no other.
LEMMA TransitCollected ==
  ASSUME MapInv, FlowTypes, PathInv, Pop
  PROVE  /\ \A p \in Photos : \A w \in Workers : /\ Queued(p, w)' = Queued(p, w)
                                                 /\ InHand(p, w)' <=> InHand(p, w)
                                                 /\ Ahead(p, w)' <=> Ahead(p, w)
         /\ \/ /\ \A p \in Photos : \A w \in Workers : Transit(p, w)' = Transit(p, w)
               /\ results' = results /\ images_done' = images_done
            \/ \E q \in Photos : \E v \in Workers :
                 /\ Transit(q, v) = 1 /\ Transit(q, v)' = 0
                 /\ \A p \in Photos : \A w \in Workers :
                      ~(p = q /\ w = v) => Transit(p, w)' = Transit(p, w)
                 /\ results' = [results EXCEPT ![q] = @ + 1]
                 /\ images_done' = IF LastPortion(q) THEN Append(images_done, q)
                                   ELSE images_done
<1>1. PICK v \in Workers :
         /\ worker_to_collecter[v] # <<>>
         /\ worker_to_collecter[v] \in Seq(ItemsOf(v))
         /\ Head(worker_to_collecter[v]) \in ItemsOf(v)
         /\ worker_to_collecter'[v] = Tail(worker_to_collecter[v])
         /\ \A w \in Workers \ {v} : worker_to_collecter'[w] = worker_to_collecter[w]
         /\ IF Head(worker_to_collecter[v]) # EOS
            THEN LET q == Head(worker_to_collecter[v]).photo
                 IN  /\ results' = [results EXCEPT ![q] = @ + 1]
                     /\ images_done' = IF LastPortion(q) THEN Append(images_done, q)
                                       ELSE images_done
                     /\ counter' = counter
            ELSE results' = results /\ images_done' = images_done /\ counter' = counter + 1
         /\ UNCHANGED <<height, photo, i, Scatter_to_worker, pc, ii>>
  BY PortionCollected
<1> DEFINE x == Head(worker_to_collecter[v])
<1>2. height \in Nat /\ height' = height /\ x \in ItemsOf(v)
  BY <1>1 DEF FlowTypes
<1>3. ASSUME NEW p \in Photos, NEW w \in Workers
      PROVE  /\ Item(p, w)' = Item(p, w)
             /\ Queued(p, w)' = Queued(p, w)
             /\ InHand(p, w)' <=> InHand(p, w)
             /\ Ahead(p, w)' <=> Ahead(p, w)
  <2>1. Item(p, w)' = Item(p, w)
    BY <1>2, ItemKept
  <2>2. QED
    BY <1>1, <2>1, HolderKept, AheadKept DEF Queued
<1>4. \A p \in Photos : \A w \in Workers \ {v} : Transit(p, w)' = Transit(p, w)
  BY <1>1, <1>3, PlaceKept
<1>5. ASSUME NEW p \in Photos
      PROVE  /\ Transit(p, v) = Transit(p, v)' + One(x = Item(p, v))
             /\ Transit(p, v)' \in Nat
  <2>1. Outgoing(p, v) = Copies(Tail(worker_to_collecter[v]), Item(p, v))
                           + One(x = Item(p, v))
    BY <1>1, CopiesTail DEF Outgoing, One
  <2>2. Outgoing(p, v)' = Copies(Tail(worker_to_collecter[v]), Item(p, v))
    BY <1>1, <1>3 DEF Outgoing
  <2>3. Tail(worker_to_collecter[v]) \in Seq(ItemsOf(v))
    BY <1>1
  <2>4. Outgoing(p, v)' \in Nat /\ Outgoing(p, v) = Outgoing(p, v)' + One(x = Item(p, v))
    BY <2>1, <2>2, <2>3, PlacesFinite
  <2>5. /\ One(Ahead(p, v)') = One(Ahead(p, v)) /\ One(Ahead(p, v)) \in Nat
        /\ One(InHand(p, v)') = One(InHand(p, v)) /\ One(InHand(p, v)) \in Nat
        /\ Queued(p, v)' = Queued(p, v) /\ Queued(p, v) \in Nat
        /\ One(x = Item(p, v)) \in Nat
    BY <1>3, FlowCounts DEF One
  <2>6. Transit(p, v)' = One(Ahead(p, v)') + Queued(p, v)' + One(InHand(p, v)') + Outgoing(p, v)'
    BY DEF Transit, One
  <2> HIDE DEF x
  <2>7. QED
    BY <2>4, <2>5, <2>6 DEF Transit
<1>6. CASE x = EOS
  <2>1. results' = results /\ images_done' = images_done
    BY <1>1, <1>6
  <2>2. \A p \in Photos : Transit(p, v)' = Transit(p, v)
    BY <1>2, <1>5, <1>6, ItemFacts DEF One
  <2>3. QED
    BY <1>3, <1>4, <2>1, <2>2
<1>7. CASE x # EOS
  <2>1. PICK q \in Photos : q = x.photo /\ x = Item(q, v)
    BY <1>2, <1>7, ItemFacts
  <2>2. \A p \in Photos : x = Item(p, v) <=> p = q
    BY <1>2, <2>1, ItemFacts
  <2>3. /\ results' = [results EXCEPT ![q] = @ + 1]
        /\ images_done' = IF LastPortion(q) THEN Append(images_done, q) ELSE images_done
    BY <1>1, <1>7, <2>1
  <2> HIDE DEF x
  <2>4. Transit(q, v) = Transit(q, v)' + 1 /\ Transit(q, v)' \in Nat
    BY <1>5, <2>2 DEF One
  <2>5. Transit(q, v) = 1 /\ Transit(q, v)' = 0
    BY <2>4 DEF PathInv
  <2>6. ASSUME NEW p \in Photos, p # q PROVE Transit(p, v)' = Transit(p, v)
    BY <1>5, <2>2, <2>6 DEF One
  <2>7. QED
    BY <1>3, <1>4, <2>3, <2>5, <2>6
<1>8. QED
  BY <1>6, <1>7

\* Only pop() of the collector ends the way of a portion.
LEMMA TransitNext ==
  ASSUME MapInv, FlowTypes, PathInv, [Next]_vars, ~Pop
  PROVE  /\ \A p \in Photos : \A w \in Workers : Transit(p, w)' = Transit(p, w)
         /\ results' = results /\ images_done' = images_done
<1>1. \A p \in Photos : \A w \in Workers : Transit(p, w)' = Transit(p, w)
  BY NextCases, TransitSent, TransitTaken, TransitPassed, TransitKept
<1>2. results' = results /\ images_done' = images_done
  <2>1. CASE ScatterPortion \/ ScatterEOS
    BY <2>1 DEF ScatterPortion, ScatterEOS, collectorVars
  <2>2. ASSUME NEW v \in Workers, WorkerPop(v) \/ MarkRow(v) \/ LabelStep(v) \/ PushInsert(v)
        PROVE  UNCHANGED collectorVars
    BY <2>2 DEF WorkerPop, MarkRow, PushInsert, LabelStep, RowsDone, PushLock, TestCounter,
                Sample, LoadCounter, StoreCounter
  <2>3. CASE Poll \/ Join \/ UNCHANGED vars
    BY <2>3 DEF Poll, Join, vars, collectorVars
  <2>4. QED
    BY <2>1, <2>2, <2>3, NextCases DEF collectorVars
<1>3. QED
  BY <1>1, <1>2

\* A portion is never in two places.
LEMMA PathStep ==
  ASSUME MapInv, FlowTypes, PathInv, [Next]_vars
  PROVE  PathInv'
<1>1. CASE Pop
  BY <1>1, TransitCollected DEF PathInv
<1>2. CASE ~Pop
  BY <1>2, TransitNext DEF PathInv
<1>3. QED
  BY <1>1, <1>2

\* There are n workers.
LEMMA WorkersCounted ==
  /\ IsFiniteSet(Workers) /\ Cardinality(Workers) = n
  /\ \A S : S \subseteq Workers =>
       /\ IsFiniteSet(S) /\ Cardinality(S) \in 0..n
       /\ Cardinality(S) = n => S = Workers
<1>1. n \in Nat \ {0} /\ Workers = 0..(n - 1)
  BY MapAssumption DEF n, Workers
<1> HIDE DEF n
<1>2. IsFiniteSet(Workers) /\ Cardinality(Workers) = n
  BY <1>1, FS_Interval
<1>3. ASSUME NEW S, S \subseteq Workers
      PROVE  /\ IsFiniteSet(S) /\ Cardinality(S) \in 0..n
             /\ Cardinality(S) = n => S = Workers
  <2>1. IsFiniteSet(S) /\ Cardinality(S) <= n
    BY <1>2, <1>3, FS_Subset
  <2>2. Cardinality(S) \in Nat
    BY <2>1, FS_CardinalityType
  <2>3. Cardinality(S) = n => S = Workers
    BY <1>2, <1>3, FS_Subset
  <2>4. QED
    BY <1>1, <2>1, <2>2, <2>3
<1>4. QED
  BY <1>2, <1>3

\* The photo is stored with its last portion, and only then.
LEMMA ResultsStep ==
  ASSUME MapInv, FlowTypes, PathInv, ResultsInv, [Next]_vars
  PROVE  ResultsInv'
<1>1. ASSUME UNCHANGED <<results, images_done>>,
             \A p \in Photos : \A w \in Workers : Transit(p, w)' = Transit(p, w)
      PROVE  ResultsInv'
  <2>1. \A p \in Photos : Arrived(p)' = Arrived(p)
    BY <1>1 DEF Arrived
  <2>2. QED
    BY <1>1, <2>1 DEF ResultsInv, One, n
<1>2. CASE ~Pop
  BY <1>1, <1>2, TransitNext
<1>3. ASSUME NEW q \in Photos, NEW v \in Workers,
             Transit(q, v) = 1, Transit(q, v)' = 0,
             \A p \in Photos : \A w \in Workers :
               ~(p = q /\ w = v) => Transit(p, w)' = Transit(p, w),
             results' = [results EXCEPT ![q] = @ + 1],
             images_done' = IF LastPortion(q) THEN Append(images_done, q) ELSE images_done
      PROVE  ResultsInv'
  <2>1. \A p \in Photos \ {q} : Arrived(p)' = Arrived(p)
    BY <1>3 DEF Arrived
  <2>2. Arrived(q)' = Arrived(q) \cup {v} /\ v \notin Arrived(q)
    BY <1>3 DEF Arrived
  <2>3. /\ \A p \in Photos : results'[p] = IF p = q THEN results[q] + 1 ELSE results[p]
        /\ results[q] \in Nat /\ images_done \in Seq(Photos)
    BY <1>3 DEF FlowTypes
  <2>4. IsFiniteSet(Arrived(q)) /\ Cardinality(Arrived(q)') \in 0..n
    <3>1. Arrived(q) \subseteq Workers /\ Arrived(q)' \subseteq Workers
      BY DEF Arrived
    <3>2. QED
      BY <3>1, WorkersCounted
  <2>5. Cardinality(Arrived(q)') = Cardinality(Arrived(q)) + 1
    BY <2>2, <2>4, FS_AddElement
  <2>6. results'[q] = Cardinality(Arrived(q)') /\ results[q] # n
    <3>1. results[q] = Cardinality(Arrived(q))
      BY DEF ResultsInv
    <3>2. QED
      BY <2>3, <2>4, <2>5, <3>1
  <2>7. ASSUME NEW p \in Photos PROVE Copies(images_done', p) = One(results'[p] = n)
    <3>1. Copies(images_done, p) = One(results[p] = n)
      BY DEF ResultsInv
    <3>2. CASE results[q] + 1 = n
      <4>1. images_done' = Append(images_done, q)
        BY <1>3, <3>2 DEF LastPortion, n
      <4>2. Copies(images_done', p) = Copies(images_done, p) + One(q = p)
        BY <2>3, <4>1, CopiesAppend DEF One
      <4>3. CASE p = q
        BY <2>3, <2>6, <3>1, <3>2, <4>2, <4>3 DEF One
      <4>4. CASE p # q
        BY <2>3, <3>1, <4>2, <4>4 DEF One
      <4>5. QED
        BY <4>3, <4>4
    <3>3. CASE results[q] + 1 # n
      <4>1. images_done' = images_done
        BY <1>3, <3>3 DEF LastPortion, n
      <4>2. QED
        BY <2>3, <2>6, <3>1, <3>3, <4>1 DEF One
    <3>4. QED
      BY <3>2, <3>3
  <2>8. \A p \in Photos : results'[p] = Cardinality(Arrived(p)')
    BY <2>1, <2>3, <2>6 DEF ResultsInv
  <2>9. QED
    BY <2>7, <2>8 DEF ResultsInv, One, n
<1>4. CASE Pop
  BY <1>1, <1>3, <1>4, TransitCollected
<1>5. QED
  BY <1>2, <1>4

-----------------------------------------------------------------------------
(* How often the rows have been marked                                     *)

\* A photo whose portion stays where it is has the same rows marked.
LEMMA MarksKept ==
  ASSUME NEW p \in Photos, NEW w \in Workers, NEW r,
         height' = height,
         Ahead(p, w)' \/ Queued(p, w)' # 0 <=> Ahead(p, w) \/ Queued(p, w) # 0,
         pc'[w] = "mark" <=> pc[w] = "mark", ii'[w] = ii[w], y'[w] = y[w]
  PROVE  MarksOf(p, w, r)' = MarksOf(p, w, r)
<1>1. Item(p, w)' = Item(p, w)
  BY ItemKept
<1>2. QED
  BY <1>1 DEF MarksOf, One, n

\* A step that marks nothing, finishes no portion and takes none
LEMMA MarksInvKept ==
  ASSUME MarksInv, height' = height, marks' = marks,
         \A p \in Photos : \A w \in Workers :
           Ahead(p, w)' \/ Queued(p, w)' # 0 <=> Ahead(p, w) \/ Queued(p, w) # 0,
         \A w \in Workers : pc'[w] = "mark" <=> pc[w] = "mark",
         ii' = ii, y' = y
  PROVE  MarksInv'
<1>1. \A p \in Photos : \A w \in Workers : \A r \in RowsOf(height, n, w) :
        marks'[p][r] = MarksOf(p, w, r)'
  BY MarksKept DEF MarksInv
<1>2. \A w \in Workers : pc'[w] = "mark" => y'[w] <= Share(height', n, w)
  BY DEF MarksInv
<1>3. QED
  BY <1>1, <1>2 DEF MarksInv, n

\* A portion that has just been taken has no marks yet.
LEMMA MarksTaken ==
  ASSUME MapInv, FlowTypes, PathInv, MarksInv, NEW v \in Workers, WorkerPop(v)
  PROVE  MarksInv'
<1>1. /\ height' = height /\ height \in Nat /\ marks' = marks
      /\ photo' = photo /\ i' = i
      /\ pc[v] = "pop" /\ pc'[v] = IF ii'[v] # EOS THEN "mark" ELSE "eos"
      /\ y'[v] = 0
      /\ \A w \in Workers \ {v} : ii'[w] = ii[w] /\ pc'[w] = pc[w] /\ y'[w] = y[w]
  BY PortionTaken DEF FlowTypes
<1>2. \A w \in Workers : Start(height, n, w) \in Nat /\ Share(height, n, w) \in Nat
  BY <1>1, ItemFacts
<1>3. \A w \in Workers : pc'[w] = "mark" => y'[w] <= Share(height', n, w)
  <2> TAKE w \in Workers
  <2>1. CASE w = v
    BY <1>1, <1>2, <2>1
  <2>2. CASE w # v
    BY <1>1, <2>2 DEF MarksInv
  <2>3. QED
    BY <2>1, <2>2
<1>4. ASSUME NEW p \in Photos, NEW w \in Workers, NEW r \in RowsOf(height, n, w)
      PROVE  MarksOf(p, w, r)' = MarksOf(p, w, r)
  <2>1. /\ Queued(p, w) + One(InHand(p, w)) = Queued(p, w)' + One(InHand(p, w)')
        /\ Queued(p, w)' \in Nat /\ Queued(p, w) \in Nat /\ Outgoing(p, w) \in Nat
        /\ Ahead(p, w)' <=> Ahead(p, w)
    BY <1>1, TransitTaken, FlowCounts, AheadKept
  <2>2. Item(p, w)' = Item(p, w) /\ Item(p, w) # EOS
    BY <1>1, ItemKept, ItemFacts
  <2>3. CASE w = v /\ InHand(p, w)'
    <3>1. ~InHand(p, w) /\ pc'[w] = "mark" /\ ii'[w] = Item(p, w) /\ y'[w] = 0
      BY <1>1, <2>2, <2>3 DEF InHand
    <3>2. Queued(p, w) = Queued(p, w)' + 1
      BY <2>1, <2>3, <3>1 DEF One
    <3>3. Queued(p, w) = 1 /\ ~Ahead(p, w)
      BY <2>1, <3>1, <3>2 DEF PathInv, Transit, One
    <3>4. MarksOf(p, w, r) = 0
      BY <3>3 DEF MarksOf
    <3>5. Queued(p, w)' = 0 /\ ~Ahead(p, w)'
      BY <2>1, <3>2, <3>3
    <3>6. ~(r < Start(height, n, w) + 0)
      BY <1>2 DEF RowsOf
    <3>7. MarksOf(p, w, r)' = 0
      BY <1>1, <2>2, <3>1, <3>5, <3>6 DEF MarksOf, One, n
    <3>8. QED
      BY <3>4, <3>7
  <2>4. CASE w = v /\ ~InHand(p, w)'
    <3>1. ~InHand(p, w) /\ pc[w] # "mark" /\ ~(pc'[w] = "mark" /\ ii'[w] = Item(p, w))
      BY <1>1, <2>2, <2>4 DEF InHand
    <3>2. Queued(p, w)' = Queued(p, w)
      BY <2>1, <2>4, <3>1 DEF One
    <3>3. QED
      BY <2>1, <2>2, <3>1, <3>2 DEF MarksOf
  <2>5. CASE w # v
    <3>1. ii'[w] = ii[w] /\ pc'[w] = pc[w] /\ y'[w] = y[w]
      BY <1>1, <2>5
    <3>2. InHand(p, w)' <=> InHand(p, w)
      BY <1>1, <3>1, HolderKept
    <3>3. Queued(p, w)' = Queued(p, w)
      BY <2>1, <3>2 DEF One
    <3>4. QED
      BY <1>1, <2>1, <3>1, <3>3, MarksKept
  <2>6. QED
    BY <2>3, <2>4, <2>5
<1>5. QED
  BY <1>1, <1>3, <1>4 DEF MarksInv, n

\* A worker marks the next row of its portion, and no row of another worker's.
LEMMA MarksMarked ==
  ASSUME MapInv, FlowTypes, PathInv, MarksInv, NEW v \in Workers, MarkRow(v)
  PROVE  MarksInv'
<1>1. PICK q \in Photos, j \in RowsOf(height, n, v) :
           /\ pc[v] = "mark" /\ ii[v] = Item(q, v) /\ y[v] \in Nat
           /\ y[v] < Share(height, n, v) /\ j = Start(height, n, v) + y[v]
           /\ j \in 0..(height - 1)
           /\ marks' = [marks EXCEPT ![q][j] = @ + 1]
           /\ y'[v] = y[v] + 1 /\ \A w \in Workers \ {v} : y'[w] = y[w]
           /\ UNCHANGED <<height, photo, i, Scatter_to_worker, worker_to_collecter, pc, ii>>
  BY RowMarked
<1>2. /\ height \in Nat /\ height' = height
      /\ marks \in [Photos -> [0..(height - 1) -> Nat]]
      /\ \A w \in Workers : Start(height, n, w) \in Nat /\ Share(height, n, w) \in Nat
  BY <1>1, ItemFacts DEF FlowTypes
<1>3. \A p \in Photos : \A r \in 0..(height - 1) :
        marks'[p][r] = IF p = q /\ r = j THEN marks[q][j] + 1 ELSE marks[p][r]
  BY <1>1, <1>2
<1>4. \A w \in Workers : pc'[w] = "mark" => y'[w] <= Share(height', n, w)
  <2> TAKE w \in Workers
  <2>1. CASE w = v
    BY <1>1, <1>2, <2>1
  <2>2. CASE w # v
    BY <1>1, <2>2 DEF MarksInv
  <2>3. QED
    BY <2>1, <2>2
<1>5. ASSUME NEW p \in Photos, NEW w \in Workers, NEW r \in RowsOf(height, n, w)
      PROVE  marks'[p][r] = MarksOf(p, w, r)'
  <2>1. r \in 0..(height - 1) /\ marks[p][r] = MarksOf(p, w, r)
    BY <1>2, OwnRows DEF MarksInv
  <2>2. /\ Queued(p, w)' = Queued(p, w) /\ (Ahead(p, w)' <=> Ahead(p, w))
        /\ Item(p, w)' = Item(p, w)
    BY <1>2, TransitKept, ItemKept
  <2>3. CASE p = q /\ w = v
    <3>1. InHand(q, v)
      BY <1>1 DEF InHand
    <3>2. ~Ahead(p, w) /\ Queued(p, w) = 0
      BY <2>3, <3>1, FlowCounts DEF PathInv, Transit, One
    <3>3. MarksOf(p, w, r) = One(r < Start(height, n, w) + y[w])
      BY <1>1, <2>3, <3>2 DEF MarksOf
    <3>4. MarksOf(p, w, r)' = One(r < Start(height, n, w) + y[w] + 1)
      <4>1. ~Ahead(p, w)' /\ Queued(p, w)' = 0 /\ pc'[w] = "mark" /\ ii'[w] = Item(p, w)'
        BY <1>1, <2>2, <2>3, <3>2
      <4>2. MarksOf(p, w, r)' = One(r < Start(height, n, w) + y'[w])
        BY <1>2, <4>1 DEF MarksOf, One, n
      <4>3. Start(height, n, w) + y'[w] = Start(height, n, w) + y[w] + 1
        BY <1>1, <1>2, <2>3, SMTT(30)
      <4>4. QED
        BY <4>2, <4>3
    <3>5. marks'[p][r] = MarksOf(p, w, r) + One(r = Start(height, n, w) + y[w])
      <4>1. CASE r = j
        BY <1>1, <1>3, <2>1, <2>3, <4>1 DEF One
      <4>2. CASE r # j
        <5>1. marks'[p][r] = MarksOf(p, w, r) /\ r # Start(height, n, w) + y[w]
          BY <1>1, <1>3, <2>1, <2>3, <4>2
        <5>2. QED
          BY <3>3, <5>1 DEF One
      <4>3. QED
        BY <4>1, <4>2
    <3>6. r \in Int /\ Start(height, n, w) + y[w] \in Int
      BY <1>1, <1>2, <2>1, <2>3
    <3>7. QED
      BY <3>3, <3>4, <3>5, <3>6 DEF One
  <2>4. CASE p # q \/ w # v
    <3>1. marks'[p][r] = marks[p][r]
      <4>1. w # v => r # j
        BY <1>1, <1>2, OwnRows
      <4>2. QED
        BY <1>3, <2>1, <2>4, <4>1
    <3>2. MarksOf(p, w, r)' = MarksOf(p, w, r)
      <4>1. CASE w = v
        <5>1. ii[w] # Item(p, w)
          BY <1>1, <1>2, <2>4, <4>1, ItemFacts, SMTT(30)
        <5>2. QED
          BY <1>1, <2>2, <5>1 DEF MarksOf
      <4>2. CASE w # v
        <5>1. y'[w] = y[w] /\ pc'[w] = pc[w] /\ ii'[w] = ii[w]
          BY <1>1, <4>2
        <5>2. QED
          BY <1>2, <2>2, <5>1, MarksKept
      <4>3. QED
        BY <4>1, <4>2
    <3>3. QED
      BY <2>1, <3>1, <3>2
  <2>5. QED
    BY <2>3, <2>4
<1>6. QED
  BY <1>2, <1>4, <1>5 DEF MarksInv, n

\* A portion that leaves the loop over its rows has all of them marked.
LEMMA MarksDone ==
  ASSUME MapInv, FlowTypes, PathInv, MarksInv, NEW v \in Workers, LabelStep(v)
  PROVE  MarksInv'
<1>1. /\ height' = height /\ height \in Nat /\ marks' = marks /\ ii' = ii /\ y' = y
      /\ \A w \in Workers \ {v} : pc'[w] = pc[w]
      /\ pc'[v] # "mark"
      /\ pc[v] = "mark" => pc'[v] = "push" /\ y[v] >= ii[v].total_parts
  BY LabelMoves DEF FlowTypes
<1>2. \A p \in Photos : \A w \in Workers :
        Queued(p, w)' = Queued(p, w) /\ (Ahead(p, w)' <=> Ahead(p, w))
  BY TransitKept
<1>3. \A w \in Workers : pc'[w] = "mark" => y'[w] <= Share(height', n, w)
  <2>1. \A w \in Workers : pc'[w] = "mark" => pc[w] = "mark"
    BY <1>1
  <2>2. QED
    BY <1>1, <2>1 DEF MarksInv
<1>4. ASSUME NEW p \in Photos, NEW w \in Workers, NEW r \in RowsOf(height, n, w)
      PROVE  MarksOf(p, w, r)' = MarksOf(p, w, r)
  <2>1. CASE w = v /\ pc[w] = "mark" /\ ii[w] = Item(p, w)
    <3>1. y[w] >= Share(height, n, w)
      BY <1>1, <2>1 DEF Item, Portion
    <3>2. Start(height, n, w) \in Nat /\ Share(height, n, w) \in Nat /\ y[w] \in Nat
      BY <1>1, ItemFacts DEF MapInv
    <3>3. r < Start(height, n, w) + y[w]
      BY <3>1, <3>2 DEF RowsOf
    <3>4. QED
      BY <1>1, <1>2, <2>1, <3>3 DEF MarksOf, One
  <2>2. CASE w = v /\ ~(pc[w] = "mark" /\ ii[w] = Item(p, w))
    BY <1>1, <1>2, <2>2 DEF MarksOf
  <2>3. CASE w # v
    <3>1. pc'[w] = pc[w]
      BY <1>1, <2>3
    <3>2. QED
      BY <1>1, <1>2, <3>1, MarksKept
  <2>4. QED
    BY <2>1, <2>2, <2>3
<1>5. QED
  BY <1>1, <1>3, <1>4 DEF MarksInv, n

\* The rows of a portion are marked between its pop() and its push(), once.
LEMMA MarksStep ==
  ASSUME MapInv, FlowTypes, PathInv, MarksInv, [Next]_vars
  PROVE  MarksInv'
<1>1. CASE ScatterPortion \/ ScatterEOS
  <2>1. UNCHANGED <<height, marks, pc, ii, y>>
    BY <1>1 DEF ScatterPortion, ScatterEOS
  <2>2. QED
    BY <1>1, <2>1, TransitSent, MarksInvKept
<1>2. ASSUME NEW v \in Workers, WorkerPop(v) \/ MarkRow(v) \/ LabelStep(v)
      PROVE  MarksInv'
  BY <1>2, MarksTaken, MarksMarked, MarksDone
<1>3. ASSUME NEW v \in Workers, PushInsert(v) PROVE MarksInv'
  <2>1. /\ UNCHANGED <<height, marks, photo, i, ii, y>>
        /\ \A w \in Workers : pc'[w] = "mark" <=> pc[w] = "mark"
    <3>1. \A w \in Workers \ {v} : pc'[w] = pc[w]
      BY <1>3, PortionPassed
    <3>2. pc'[v] # "mark" /\ pc[v] # "mark"
      BY <1>3, PortionPassed
    <3>3. UNCHANGED <<height, marks, photo, i, ii, y>>
      BY <1>3, PortionPassed
    <3>4. QED
      BY <3>1, <3>2, <3>3
  <2>2. \A p \in Photos : \A w \in Workers :
          Queued(p, w)' = Queued(p, w) /\ (Ahead(p, w)' <=> Ahead(p, w))
    BY <1>3, <2>1, TransitPassed, AheadKept
  <2>3. QED
    BY <2>1, <2>2, MarksInvKept
<1>4. CASE Pop
  <2>1. UNCHANGED <<height, marks, pc, ii, y>>
    BY <1>4 DEF Pop
  <2>2. QED
    BY <1>4, <2>1, TransitCollected, MarksInvKept
<1>5. CASE Poll \/ Join \/ UNCHANGED vars
  <2>1. UNCHANGED <<height, marks, pc, ii, y>>
    BY <1>5 DEF Poll, Join, vars
  <2>2. QED
    BY <1>5, <2>1, TransitKept, MarksInvKept
<1>6. QED
  BY <1>1, <1>2, <1>3, <1>4, <1>5, NextCases

-----------------------------------------------------------------------------
(* The EOS                                                                 *)

AfterEOS == {"eos", "insert_eos", "returned"}

\* Nothing changes for a worker whose queues do not and that stays where it is.
LEMMA WorkerEOSKept ==
  ASSUME NEW w \in Workers, WorkerEOS(w), EOSAhead(w)' <=> EOSAhead(w),
         Scatter_to_worker'[w] = Scatter_to_worker[w],
         worker_to_collecter'[w] = worker_to_collecter[w],
         pc'[w] \in AfterEOS <=> pc[w] \in AfterEOS,
         pc'[w] = "returned" <=> pc[w] = "returned"
  PROVE  WorkerEOS(w)'
BY DEF WorkerEOS, AfterEOS

\* Nor for the count of the collector.
LEMMA CountKept ==
  ASSUME EOSInv, counter' = counter, collector' = "returned" => counter' >= n,
         \A w \in Workers : WorkerEOS(w)',
         \A w \in Workers : w \in Gone' <=> w \in Gone
  PROVE  EOSInv'
<1>1. Gone' = Gone
  BY DEF Gone
<1>2. QED
  BY <1>1 DEF EOSInv, n

\* scatter sends no EOS before the last photo and one EOS to each worker.
LEMMA EOSIsSent ==
  ASSUME MapInv, FlowTypes, EOSInv, ScatterPortion \/ ScatterEOS
  PROVE  EOSInv'
<1>1. /\ UNCHANGED <<height, worker_to_collecter, pc, collector, counter>>
      /\ height \in Nat /\ i \in 0..n
  BY DEF ScatterPortion, ScatterEOS, collectorVars, FlowTypes
<1>2. PICK v \in Workers, x \in UNION {ItemsOf(w) : w \in Workers} :
        /\ x \in ItemsOf(v)
        /\ \A w \in Workers : Scatter_to_worker'[w] = IF w = v
                                                      THEN Append(Scatter_to_worker[v], x)
                                                      ELSE Scatter_to_worker[w]
        /\ EOSAhead(v)
        /\ \A w \in Workers : EOSAhead(w)' <=> EOSAhead(w) /\ ~(w = v /\ x = EOS)
  <2>1. CASE ScatterPortion
    <3>1. /\ photo \in Photos /\ i \in Workers
          /\ \A w \in Workers :
               Scatter_to_worker'[w] = IF w = i
                                       THEN Append(Scatter_to_worker[i], Item(photo, i))
                                       ELSE Scatter_to_worker[w]
          /\ \A w \in Workers : EOSAhead(w) /\ EOSAhead(w)'
      BY <2>1, PortionSent
    <3>2. Item(photo, i) \in ItemsOf(i) /\ Item(photo, i) # EOS
      BY <1>1, <3>1, ItemFacts
    <3>3. QED
      BY <3>1, <3>2
  <2>2. CASE ScatterEOS
    <3>1. /\ i \in Workers /\ EOSAhead(i)
          /\ \A w \in Workers :
               Scatter_to_worker'[w] = IF w = i THEN Append(Scatter_to_worker[i], EOS)
                                       ELSE Scatter_to_worker[w]
          /\ \A w \in Workers : EOSAhead(w)' <=> EOSAhead(w) /\ w # i
      BY <1>1, <2>2, EOSSent
    <3>2. EOS \in ItemsOf(i)
      BY <1>1, <3>1, ItemFacts
    <3>3. QED
      BY <3>1, <3>2
  <2>3. QED
    BY <2>1, <2>2
<1>3. ASSUME NEW w \in Workers PROVE WorkerEOS(w)'
  <2>1. WorkerEOS(w)
    BY DEF EOSInv
  <2>2. CASE w = v
    <3>1. /\ Scatter_to_worker[w] \in Seq(ItemsOf(w)) /\ x \in ItemsOf(w)
          /\ ~IsIn(EOS, Scatter_to_worker[w]) /\ pc[w] \notin AfterEOS
      BY <1>2, <2>1, <2>2 DEF MapInv, ItemsInv, WorkerEOS, AfterEOS
    <3>2. /\ EndsAt(EOS, Append(Scatter_to_worker[w], x))
          /\ IsIn(EOS, Append(Scatter_to_worker[w], x)) => EOS = x
      BY <3>1, EndsAppend, IsInAppend
    <3>3. Scatter_to_worker'[w] = Append(Scatter_to_worker[w], x)
      BY <1>2, <2>2
    <3>4. EndsAt(EOS, Scatter_to_worker'[w]) /\ (EOSAhead(w)' => ~IsIn(EOS, Scatter_to_worker'[w]))
      BY <1>2, <2>2, <3>2, <3>3
    <3>5. EndsAt(EOS, Scatter_to_worker[w])' /\ (EOSAhead(w)' => ~IsIn(EOS, Scatter_to_worker[w])')
      BY <3>4 DEF EndsAt, IsIn, Places
    <3>6. QED
      BY <1>1, <2>1, <3>1, <3>5 DEF WorkerEOS, AfterEOS
  <2>3. CASE w # v
    <3>1. Scatter_to_worker'[w] = Scatter_to_worker[w] /\ (EOSAhead(w)' <=> EOSAhead(w))
      BY <1>2, <2>3
    <3>2. QED
      BY <1>1, <2>1, <3>1, WorkerEOSKept
  <2>4. QED
    BY <2>2, <2>3
<1>4. QED
  BY <1>1, <1>3, CountKept DEF EOSInv, Gone

\* A worker that takes the EOS has taken all its portions before.
LEMMA EOSIsTaken ==
  ASSUME MapInv, FlowTypes, EOSInv, NEW v \in Workers, WorkerPop(v)
  PROVE  EOSInv'
<1>1. /\ UNCHANGED <<photo, i, worker_to_collecter, collectorVars>>
      /\ pc[v] = "pop" /\ Scatter_to_worker[v] # <<>>
      /\ Scatter_to_worker[v] \in Seq(ItemsOf(v))
      /\ ii'[v] = Head(Scatter_to_worker[v])
      /\ Scatter_to_worker'[v] = Tail(Scatter_to_worker[v])
      /\ pc'[v] = IF ii'[v] # EOS THEN "mark" ELSE "eos"
      /\ \A w \in Workers \ {v} :
           Scatter_to_worker'[w] = Scatter_to_worker[w] /\ pc'[w] = pc[w]
  BY PortionTaken
<1>2. ASSUME NEW w \in Workers PROVE WorkerEOS(w)'
  <2>1. WorkerEOS(w) /\ (EOSAhead(w)' <=> EOSAhead(w))
    BY <1>1 DEF EOSInv, EOSAhead
  <2>2. CASE w = v
    <3>1. /\ EndsAt(EOS, Tail(Scatter_to_worker[w]))
          /\ Head(Scatter_to_worker[w]) = EOS => Tail(Scatter_to_worker[w]) = <<>>
      BY <1>1, <2>1, <2>2, EndsTail DEF WorkerEOS
    <3>2. IsIn(EOS, Scatter_to_worker[w])
            <=> EOS = Head(Scatter_to_worker[w]) \/ IsIn(EOS, Tail(Scatter_to_worker[w]))
      BY <1>1, <2>2, IsInTail
    <3>3. /\ EndsAt(EOS, Scatter_to_worker[w])'
          /\ IsIn(EOS, Scatter_to_worker[w])' => IsIn(EOS, Scatter_to_worker[w])
      BY <1>1, <2>2, <3>1, <3>2 DEF EndsAt, IsIn, Places
    <3>4. pc'[w] \in AfterEOS => Head(Scatter_to_worker[w]) = EOS /\ Scatter_to_worker'[w] = <<>>
      BY <1>1, <2>2, <3>1 DEF AfterEOS
    <3>5. pc[w] = "pop" /\ pc'[w] # "returned"
          /\ worker_to_collecter'[w] = worker_to_collecter[w]
      BY <1>1, <2>2
    <3>6. EOSAhead(w)' => pc'[w] \notin AfterEOS
      BY <2>1, <3>2, <3>4 DEF WorkerEOS
    <3>7. EOSAhead(w)' => ~IsIn(EOS, Scatter_to_worker[w])'
      BY <2>1, <3>3 DEF WorkerEOS
    <3>8. QED
      BY <2>1, <3>3, <3>4, <3>5, <3>6, <3>7 DEF WorkerEOS, AfterEOS
  <2>3. CASE w # v
    BY <1>1, <2>1, <2>3, WorkerEOSKept
  <2>4. QED
    BY <2>2, <2>3
<1>3. \A w \in Workers : w \in Gone' <=> w \in Gone
  <2>1. \A w \in Workers : pc'[w] = "returned" <=> pc[w] = "returned"
    BY <1>1
  <2>2. QED
    BY <1>1, <2>1 DEF Gone
<1>4. QED
  BY <1>1, <1>2, <1>3, CountKept DEF EOSInv, collectorVars

\* A worker passes the EOS on as its last action.
LEMMA EOSIsPassed ==
  ASSUME MapInv, FlowTypes, EOSInv, NEW v \in Workers, PushInsert(v)
  PROVE  EOSInv'
<1>1. /\ UNCHANGED <<photo, i, Scatter_to_worker, collectorVars>>
      /\ \/ pc[v] = "insert" /\ pc'[v] = "test" /\ ii[v] # EOS
         \/ pc[v] = "insert_eos" /\ pc'[v] = "returned" /\ ii[v] = EOS
      /\ ii[v] \in ItemsOf(v) /\ worker_to_collecter[v] \in Seq(ItemsOf(v))
      /\ worker_to_collecter'[v] = Append(worker_to_collecter[v], ii[v])
      /\ \A w \in Workers \ {v} :
           pc'[w] = pc[w] /\ worker_to_collecter'[w] = worker_to_collecter[w]
  BY PortionPassed
<1>2. ASSUME NEW w \in Workers PROVE WorkerEOS(w)'
  <2>1. WorkerEOS(w) /\ (EOSAhead(w)' <=> EOSAhead(w))
    BY <1>1 DEF EOSInv, EOSAhead
  <2>2. CASE w = v
    <3>1. ~IsIn(EOS, worker_to_collecter[w])
      BY <1>1, <2>1, <2>2 DEF WorkerEOS
    <3>2. /\ EndsAt(EOS, Append(worker_to_collecter[w], ii[w]))
          /\ IsIn(EOS, Append(worker_to_collecter[w], ii[w])) <=> ii[w] = EOS
      BY <1>1, <2>2, <3>1, EndsAppend, IsInAppend
    <3>3. /\ EndsAt(EOS, worker_to_collecter[w])'
          /\ IsIn(EOS, worker_to_collecter[w])' <=> ii[w] = EOS
      BY <1>1, <2>2, <3>2 DEF EndsAt, IsIn, Places
    <3>4. /\ Scatter_to_worker'[w] = Scatter_to_worker[w]
          /\ pc'[w] \in AfterEOS <=> pc[w] \in AfterEOS
          /\ pc'[w] = "returned" <=> ii[w] = EOS
      BY <1>1, <2>2 DEF AfterEOS
    <3>5. QED
      BY <2>1, <3>3, <3>4 DEF WorkerEOS, AfterEOS
  <2>3. CASE w # v
    BY <1>1, <2>1, <2>3, WorkerEOSKept
  <2>4. QED
    BY <2>2, <2>3
<1>3. \A w \in Workers : w \in Gone' <=> w \in Gone
  <2>1. v \notin Gone /\ v \notin Gone'
    BY <1>1 DEF Gone
  <2>2. \A w \in Workers \ {v} : w \in Gone' <=> w \in Gone
    BY <1>1 DEF Gone
  <2>3. QED
    BY <2>1, <2>2
<1>4. QED
  BY <1>1, <1>2, <1>3, CountKept DEF EOSInv, collectorVars

\* The collector counts each EOS once.
LEMMA EOSIsCounted ==
  ASSUME MapInv, FlowTypes, EOSInv, Pop
  PROVE  EOSInv'
<1>1. PICK v \in Workers :
           /\ worker_to_collecter[v] # <<>> /\ worker_to_collecter[v] \in Seq(ItemsOf(v))
           /\ worker_to_collecter'[v] = Tail(worker_to_collecter[v])
           /\ \A w \in Workers \ {v} : worker_to_collecter'[w] = worker_to_collecter[w]
           /\ counter' = counter + One(Head(worker_to_collecter[v]) = EOS)
           /\ collector' = "returned" => counter' >= n
           /\ UNCHANGED <<photo, i, Scatter_to_worker, pc>>
  <2>1. PICK v \in Workers :
           /\ worker_to_collecter[v] # <<>> /\ worker_to_collecter[v] \in Seq(ItemsOf(v))
           /\ worker_to_collecter'[v] = Tail(worker_to_collecter[v])
           /\ \A w \in Workers \ {v} : worker_to_collecter'[w] = worker_to_collecter[w]
           /\ IF Head(worker_to_collecter[v]) # EOS
              THEN LET q == Head(worker_to_collecter[v]).photo
                   IN  /\ results' = [results EXCEPT ![q] = @ + 1]
                       /\ images_done' = IF LastPortion(q) THEN Append(images_done, q)
                                         ELSE images_done
                       /\ counter' = counter
              ELSE results' = results /\ images_done' = images_done /\ counter' = counter + 1
           /\ collector' = "returned" => counter' >= n
           /\ UNCHANGED <<photo, i, Scatter_to_worker, pc>>
    BY PortionCollected
  <2>2. counter' = counter + One(Head(worker_to_collecter[v]) = EOS)
    BY <2>1, SMTT(30) DEF One, FlowTypes
  <2>3. QED
    BY <2>1, <2>2
<1>2. /\ WorkerEOS(v)
      /\ EndsAt(EOS, Tail(worker_to_collecter[v]))
      /\ Head(worker_to_collecter[v]) = EOS => Tail(worker_to_collecter[v]) = <<>>
      /\ IsIn(EOS, worker_to_collecter[v])
           <=> EOS = Head(worker_to_collecter[v]) \/ IsIn(EOS, Tail(worker_to_collecter[v]))
  <2>1. WorkerEOS(v)
    BY DEF EOSInv
  <2>2. QED
    BY <1>1, <2>1, EndsTail, IsInTail DEF WorkerEOS
<1>3. ASSUME NEW w \in Workers PROVE WorkerEOS(w)'
  <2>1. WorkerEOS(w) /\ (EOSAhead(w)' <=> EOSAhead(w))
    BY <1>1 DEF EOSInv, EOSAhead
  <2>2. CASE w = v
    <3>1. /\ EndsAt(EOS, worker_to_collecter[w])'
          /\ IsIn(EOS, worker_to_collecter[w])' <=> IsIn(EOS, Tail(worker_to_collecter[w]))
      BY <1>1, <1>2, <2>2, ZenonT(60) DEF EndsAt, IsIn, Places
    <3>2. pc'[w] = "returned" /\ worker_to_collecter'[w] # <<>>
            => IsIn(EOS, worker_to_collecter[w])'
      <4>1. SUFFICES ASSUME pc'[w] = "returned", worker_to_collecter'[w] # <<>>
                     PROVE  IsIn(EOS, worker_to_collecter[w])'
        OBVIOUS
      <4>2. IsIn(EOS, worker_to_collecter[w])
        BY <1>1, <1>2, <2>2, <4>1 DEF WorkerEOS
      <4>3. Head(worker_to_collecter[w]) # EOS
        BY <1>1, <1>2, <2>2, <4>1
      <4>4. QED
        BY <1>2, <2>2, <3>1, <4>2, <4>3
    <3>3. IsIn(EOS, worker_to_collecter[w])' => pc'[w] = "returned"
      BY <1>1, <1>2, <2>2, <3>1 DEF WorkerEOS
    <3>4. Scatter_to_worker'[w] = Scatter_to_worker[w] /\ pc'[w] = pc[w]
      BY <1>1
    <3>5. QED
      BY <2>1, <3>1, <3>2, <3>3, <3>4 DEF WorkerEOS
  <2>3. CASE w # v
    BY <1>1, <2>1, <2>3, WorkerEOSKept
  <2>4. QED
    BY <2>2, <2>3
<1>4. \A w \in Workers \ {v} : w \in Gone' <=> w \in Gone
  BY <1>1 DEF Gone
<1>5. v \notin Gone
  BY <1>1 DEF Gone
<1>6. v \in Gone' <=> Head(worker_to_collecter[v]) = EOS
  <2>1. ASSUME Head(worker_to_collecter[v]) = EOS PROVE v \in Gone'
    BY <1>1, <1>2, <2>1 DEF WorkerEOS, Gone
  <2>2. ASSUME Head(worker_to_collecter[v]) # EOS, v \in Gone' PROVE FALSE
    <3>1. pc[v] = "returned" /\ Tail(worker_to_collecter[v]) = <<>>
      BY <1>1, <2>2 DEF Gone
    <3>2. IsIn(EOS, Tail(worker_to_collecter[v]))
      BY <1>1, <1>2, <2>2, <3>1 DEF WorkerEOS
    <3>3. QED
      BY <3>1, <3>2 DEF IsIn, Places
  <2>3. QED
    BY <2>1, <2>2
<1>7. counter' = Cardinality(Gone')
  <2>1. Gone \subseteq Workers /\ Gone' \subseteq Workers /\ counter = Cardinality(Gone)
    BY DEF Gone, EOSInv
  <2>2. IsFiniteSet(Gone) /\ counter \in Nat
    BY <2>1, WorkersCounted DEF FlowTypes
  <2>3. CASE Head(worker_to_collecter[v]) = EOS
    <3>1. Gone' = Gone \cup {v}
      BY <1>4, <1>6, <2>1, <2>3
    <3>2. QED
      BY <1>1, <1>5, <2>1, <2>2, <2>3, <3>1, FS_AddElement DEF One
  <2>4. CASE Head(worker_to_collecter[v]) # EOS
    <3>1. Gone' = Gone
      BY <1>4, <1>5, <1>6, <2>1, <2>4
    <3>2. QED
      BY <1>1, <2>1, <2>2, <2>4, <3>1 DEF One
  <2>5. QED
    BY <2>3, <2>4
<1>8. QED
  BY <1>1, <1>3, <1>7 DEF EOSInv, n

\* Nothing else touches the EOS.
LEMMA EOSStep ==
  ASSUME MapInv, FlowTypes, EOSInv, [Next]_vars
  PROVE  EOSInv'
<1>1. CASE ScatterPortion \/ ScatterEOS
  BY <1>1, EOSIsSent
<1>2. CASE Pop
  BY <1>2, EOSIsCounted
<1>3. ASSUME NEW v \in Workers, WorkerPop(v) \/ PushInsert(v) PROVE EOSInv'
  BY <1>3, EOSIsTaken, EOSIsPassed
<1>4. ASSUME UNCHANGED <<photo, i, Scatter_to_worker, worker_to_collecter, counter>>,
             collector' = "returned" => counter' >= n,
             \A w \in Workers : /\ pc'[w] \in AfterEOS <=> pc[w] \in AfterEOS
                                /\ pc'[w] = "returned" <=> pc[w] = "returned"
      PROVE  EOSInv'
  <2>1. \A w \in Workers : WorkerEOS(w)'
    <3> TAKE w \in Workers
    <3>1. WorkerEOS(w) /\ (EOSAhead(w)' <=> EOSAhead(w))
      BY <1>4 DEF EOSInv, EOSAhead
    <3>2. QED
      BY <1>4, <3>1, WorkerEOSKept
  <2>2. \A w \in Workers : w \in Gone' <=> w \in Gone
    BY <1>4 DEF Gone
  <2>3. QED
    BY <1>4, <2>1, <2>2, CountKept
<1>5. ASSUME NEW v \in Workers, MarkRow(v) PROVE EOSInv'
  BY <1>4, <1>5 DEF MarkRow, scatterVars, collectorVars, EOSInv
<1>6. ASSUME NEW v \in Workers, LabelStep(v) PROVE EOSInv'
  <2>1. /\ UNCHANGED <<photo, i, Scatter_to_worker, worker_to_collecter, collectorVars>>
        /\ pc'[v] \in AfterEOS <=> pc[v] \in AfterEOS
        /\ pc'[v] = "returned" <=> pc[v] = "returned"
        /\ \A w \in Workers \ {v} : pc'[w] = pc[w]
    BY <1>6, LabelMoves DEF AfterEOS
  <2>2. \A w \in Workers : /\ pc'[w] \in AfterEOS <=> pc[w] \in AfterEOS
                           /\ pc'[w] = "returned" <=> pc[w] = "returned"
    BY <2>1
  <2>3. QED
    BY <1>4, <2>1, <2>2 DEF collectorVars, EOSInv
<1>7. CASE Poll
  BY <1>4, <1>7, Polled
<1>8. CASE Join \/ UNCHANGED vars
  BY <1>4, <1>8 DEF Join, vars, scatterVars, collectorVars, EOSInv
<1>9. QED
  BY <1>1, <1>2, <1>3, <1>5, <1>6, <1>7, <1>8, NextCases

-----------------------------------------------------------------------------
(* The end of the program, polling and the service time                    *)

\* Nothing happens after main() has joined the threads.
LEMMA JoinedStep ==
  ASSUME MapInv, FlowTypes, JoinedInv, [Next]_vars
  PROVE  JoinedInv'
<1>1. CASE Join
  BY <1>1 DEF Join, JoinedInv, ScatterReturned, scatterVars, collectorVars, EOSTurns
<1>2. CASE UNCHANGED vars
  BY <1>2 DEF vars, JoinedInv, ScatterReturned, scatterVars, collectorVars, EOSTurns
<1>3. CASE ~Join /\ ~UNCHANGED vars
  <2>1. main' = main /\ main # "joined"
    <3>1. CASE ScatterPortion \/ ScatterEOS
      <4>1. photo \in Nat /\ i \in Nat /\ NPhotos \in Nat /\ number_workers \in Nat
        BY MapAssumption DEF MapInv, FlowTypes, n
      <4>2. ~ScatterReturned
        BY <3>1, <4>1 DEF ScatterPortion, ScatterEOS, ScatterReturned, EOSTurns
      <4>3. QED
        BY <3>1, <4>2 DEF ScatterPortion, ScatterEOS, JoinedInv
    <3>2. ASSUME NEW v \in Workers, WorkerPop(v) \/ MarkRow(v) \/ LabelStep(v) \/ PushInsert(v)
          PROVE  main' = main /\ pc[v] # "returned"
      BY <3>2 DEF WorkerPop, MarkRow, PushInsert, LabelStep, RowsDone, PushLock, TestCounter,
                  Sample, LoadCounter, StoreCounter
    <3>3. CASE Poll \/ Pop
      BY <3>3 DEF Poll, Pop, JoinedInv
    <3>4. QED
      BY <1>3, <3>1, <3>2, <3>3, NextCases DEF JoinedInv
  <2>2. QED
    BY <2>1 DEF JoinedInv
<1>4. QED
  BY <1>1, <1>2, <1>3

\* When isEmpty() has returned false, only the collector makes the queue empty.
LEMMA PollStep ==
  ASSUME MapInv, FlowTypes, EOSInv, PopAfterPollReturns, [Next]_vars
  PROVE  PopAfterPollReturns'
<1>1. PICK u \in Workers : u = polled
  BY DEF FlowTypes
<1>2. CASE Poll
  <2>1. collector' = "pop" => polled' = polled /\ FALSE \in IsEmpty(u)
    <3>1. CASE TRUE \in IsEmpty(u) /\ NextTurn(counter)
      BY <1>1, <3>1 DEF NextTurn
    <3>2. CASE FALSE \in IsEmpty(u) /\ collector' = "pop" /\ polled' = polled
      BY <3>2
    <3>3. QED
      BY <1>1, <1>2, <3>1, <3>2 DEF Poll, IsEmpty
  <2>2. FALSE \in IsEmpty(u) => worker_to_collecter[u] # <<>> \/ Inserting(u)
    BY DEF IsEmpty
  <2>3. worker_to_collecter' = worker_to_collecter /\ pc' = pc
    BY <1>2 DEF Poll
  <2>4. QED
    BY <1>1, <2>1, <2>2, <2>3 DEF PopAfterPollReturns, Inserting
<1>3. CASE Pop
  <2>1. collector' # "pop"
    BY <1>3, PortionCollected
  <2>2. QED
    BY <2>1 DEF PopAfterPollReturns
<1>4. ASSUME NEW v \in Workers, PushInsert(v) PROVE PopAfterPollReturns'
  <2>1. /\ UNCHANGED collectorVars
        /\ worker_to_collecter[v] \in Seq(ItemsOf(v)) /\ ii[v] \in ItemsOf(v)
        /\ worker_to_collecter'[v] = Append(worker_to_collecter[v], ii[v])
        /\ \A w \in Workers \ {v} : /\ pc'[w] = pc[w]
                                    /\ worker_to_collecter'[w] = worker_to_collecter[w]
    BY <1>4, PortionPassed
  <2>2. worker_to_collecter'[v] # <<>>
    BY <2>1
  <2>3. QED
    BY <1>1, <2>1, <2>2 DEF PopAfterPollReturns, Inserting, collectorVars
<1>5. ASSUME UNCHANGED <<worker_to_collecter, collector, polled>>,
             \A w \in Workers : pc[w] \in {"insert", "insert_eos"} => pc'[w] = pc[w]
      PROVE  PopAfterPollReturns'
  BY <1>1, <1>5 DEF PopAfterPollReturns, Inserting
<1>6. ASSUME NEW v \in Workers, LabelStep(v) PROVE PopAfterPollReturns'
  <2>1. \A w \in Workers : pc[w] \in {"insert", "insert_eos"} => pc'[w] = pc[w]
    BY <1>6, LabelMoves
  <2>2. UNCHANGED <<worker_to_collecter, collector, polled>>
    BY <1>6, LabelMoves DEF collectorVars
  <2>3. QED
    BY <1>5, <2>1, <2>2
<1>7. ASSUME NEW v \in Workers, WorkerPop(v) PROVE PopAfterPollReturns'
  <2>1. pc[v] = "pop" /\ UNCHANGED <<worker_to_collecter, collectorVars>>
        /\ \A w \in Workers \ {v} : pc'[w] = pc[w]
    BY <1>7, PortionTaken
  <2>2. QED
    BY <1>5, <2>1 DEF collectorVars
<1>8. CASE ScatterPortion \/ ScatterEOS \/ Join \/ UNCHANGED vars
  BY <1>5, <1>8 DEF ScatterPortion, ScatterEOS, Join, vars, collectorVars
<1>9. ASSUME NEW v \in Workers, MarkRow(v) PROVE PopAfterPollReturns'
  BY <1>5, <1>9 DEF MarkRow, collectorVars
<1>10. QED
  BY <1>2, <1>3, <1>4, <1>6, <1>7, <1>8, <1>9, NextCases

\* A portion that its worker has passed on was passed on before, or the worker is
\* about to test the counter.
LEMMA PassedBefore ==
  ASSUME MapInv, FlowTypes, PathInv, [Next]_vars, NEW p \in Photos, NEW w \in Workers
  PROVE  Passed(p, w)' => Passed(p, w) \/ pc'[w] = "test"
<1>1. CASE ScatterPortion \/ ScatterEOS
  <2>1. Ahead(p, w)' \/ Queued(p, w)' # 0 <=> Ahead(p, w) \/ Queued(p, w) # 0
    BY <1>1, TransitSent
  <2>2. InHand(p, w)' <=> InHand(p, w)
    BY <1>1, HolderKept DEF ScatterPortion, ScatterEOS
  <2>3. QED
    BY <2>1, <2>2 DEF Passed
<1>2. ASSUME NEW v \in Workers, WorkerPop(v) PROVE Passed(p, w)' => Passed(p, w)
  <2>1. /\ Queued(p, w) + One(InHand(p, w)) = Queued(p, w)' + One(InHand(p, w)')
        /\ Queued(p, w)' \in Nat /\ Queued(p, w) \in Nat
        /\ Ahead(p, w)' <=> Ahead(p, w)
    BY <1>2, TransitTaken, FlowCounts, PortionTaken, AheadKept
  <2>2. QED
    BY <2>1 DEF Passed, One
<1>3. ASSUME NEW v \in Workers, PushInsert(v)
      PROVE  Passed(p, w)' => Passed(p, w) \/ pc'[w] = "test"
  <2>1. /\ Queued(p, w)' = Queued(p, w) /\ (Ahead(p, w)' <=> Ahead(p, w))
        /\ height' = height /\ ii' = ii
    BY <1>3, TransitPassed, PortionPassed, AheadKept
  <2>2. CASE w = v
    <3>1. pc'[w] = "test" \/ ~InHand(p, w)
      BY <1>3, <2>2, PortionPassed DEF InHand
    <3>2. QED
      BY <2>1, <3>1 DEF Passed
  <2>3. CASE w # v
    <3>1. pc'[w] = pc[w]
      BY <1>3, <2>3, PortionPassed
    <3>2. InHand(p, w)' <=> InHand(p, w)
      BY <2>1, <3>1, HolderKept
    <3>3. QED
      BY <2>1, <3>2 DEF Passed
  <2>4. QED
    BY <2>2, <2>3
<1>4. CASE Pop
  BY <1>4, TransitCollected DEF Passed
<1>5. CASE \/ \E v \in Workers : LabelStep(v) \/ MarkRow(v)
           \/ Poll \/ Join \/ UNCHANGED vars
  BY <1>5, TransitKept DEF Passed
<1>6. QED
  BY <1>1, <1>2, <1>3, <1>4, <1>5, NextCases

\* The steps that neither record a service time nor change the counter
LEMMA SampleKept ==
  ASSUME SampleInv, UNCHANGED counterVars,
         \A w \in Workers :
           /\ pc'[w] = "sample" => pc[w] = "sample" \/ (pc[w] = "test" /\ counter_worker = 0)
           /\ pc'[w] \in {"load", "store"} <=> pc[w] \in {"load", "store"}
           /\ pc'[w] \notin {"test", "sample"} =>
                pc[w] \notin {"test", "sample"} \/ counter_worker # 0
           /\ \A p \in Photos : Passed(p, w)' => Passed(p, w) \/ pc'[w] = "test"
  PROVE  SampleInv'
<1>1. UNCHANGED <<register, counter_worker, samples>> /\ counter_worker \in Nat
  BY DEF counterVars, SampleInv
<1>2. Sampled' <=> Sampled
  BY <1>1 DEF Sampled
<1>3. ASSUME NEW w \in Workers
      PROVE  /\ pc'[w] = "sample" => samples'[w] = 0
             /\ pc'[w] \in {"load", "store"} => samples'[w] = 1
             /\ samples'[w] = 1 => pc'[w] \in {"load", "store"} \/ counter_worker' > 0
             /\ pc'[w] \notin {"test", "sample"} =>
                  \A p \in Photos : Passed(p, w)' => Sampled'
  <2>1. /\ pc[w] = "sample" => samples[w] = 0
        /\ pc[w] \in {"load", "store"} => samples[w] = 1
        /\ samples[w] = 1 => pc[w] \in {"load", "store"} \/ counter_worker > 0
        /\ pc[w] \notin {"test", "sample"} => \A p \in Photos : Passed(p, w) => Sampled
        /\ counter_worker > 0 => Sampled
        /\ samples[w] \in {0, 1}
    BY DEF SampleInv
  <2>2. pc'[w] = "sample" => samples'[w] = 0
    BY <1>1, <2>1
  <2>3. pc'[w] \in {"load", "store"} => samples'[w] = 1
    BY <1>1, <2>1
  <2>4. samples'[w] = 1 => pc'[w] \in {"load", "store"} \/ counter_worker' > 0
    BY <1>1, <2>1
  <2>5. pc'[w] \notin {"test", "sample"} => \A p \in Photos : Passed(p, w)' => Sampled'
    BY <1>1, <1>2, <2>1
  <2>6. QED
    BY <2>2, <2>3, <2>4, <2>5
<1>4. /\ samples' \in [Workers -> {0, 1}] /\ register' \in [Workers -> Nat]
      /\ counter_worker' \in Nat /\ (counter_worker' > 0 => Sampled')
  BY <1>1, <1>2 DEF SampleInv
<1>5. QED
  BY <1>3, <1>4 DEF SampleInv

\* The test of the counter, the record and the two halves of the increment keep
\* SampleInv, although other workers' steps come between them.
LEMMA SampleStep ==
  ASSUME MapInv, FlowTypes, PathInv, SampleInv, [Next]_vars
  PROVE  SampleInv'
<1>1. \A w \in Workers : \A p \in Photos : Passed(p, w)' => Passed(p, w) \/ pc'[w] = "test"
  BY PassedBefore
<1>2. counter_worker \in Nat
  BY DEF SampleInv
<1>3. CASE pc' = pc /\ UNCHANGED counterVars
  BY <1>1, <1>3, SampleKept
<1>4. ASSUME NEW v \in Workers,
             WorkerPop(v) \/ RowsDone(v) \/ PushLock(v) \/ TestCounter(v) \/ PushInsert(v)
      PROVE  SampleInv'
  <2>1. /\ \/ pc[v] = "pop" /\ pc'[v] \in {"mark", "eos"}
           \/ pc[v] = "mark" /\ pc'[v] = "push"
           \/ pc[v] = "push" /\ pc'[v] = "insert"
           \/ pc[v] = "eos" /\ pc'[v] = "insert_eos"
           \/ pc[v] = "insert" /\ pc'[v] = "test"
           \/ pc[v] = "insert_eos" /\ pc'[v] = "returned"
           \/ pc[v] = "test" /\ counter_worker = 0 /\ pc'[v] = "sample"
           \/ pc[v] = "test" /\ counter_worker # 0 /\ pc'[v] = "pop"
        /\ \A w \in Workers \ {v} : pc'[w] = pc[w]
        /\ UNCHANGED counterVars
    BY <1>4 DEF WorkerPop, RowsDone, PushLock, TestCounter, PushInsert, Goto, counterVars,
                FlowTypes
  <2>2. \A w \in Workers :
           /\ pc'[w] = "sample" => pc[w] = "sample" \/ (pc[w] = "test" /\ counter_worker = 0)
           /\ pc'[w] \in {"load", "store"} <=> pc[w] \in {"load", "store"}
           /\ pc'[w] \notin {"test", "sample"} =>
                pc[w] \notin {"test", "sample"} \/ counter_worker # 0
    BY <2>1
  <2>3. QED
    BY <1>1, <2>1, <2>2, SampleKept
<1>5. ASSUME NEW v \in Workers, Sample(v) \/ LoadCounter(v) \/ StoreCounter(v)
      PROVE  SampleInv'
  <2>1. /\ \/ /\ pc[v] = "sample" /\ pc'[v] = "load"
              /\ samples' = [samples EXCEPT ![v] = @ + 1] /\ register' = register
              /\ counter_worker' = counter_worker
           \/ /\ pc[v] = "load" /\ pc'[v] = "store" /\ samples' = samples
              /\ register' = [register EXCEPT ![v] = counter_worker]
              /\ counter_worker' = counter_worker
           \/ /\ pc[v] = "store" /\ pc'[v] = "pop" /\ samples' = samples
              /\ register' = register /\ counter_worker' = register[v] + 1
        /\ \A w \in Workers \ {v} : pc'[w] = pc[w]
    BY <1>5 DEF Sample, LoadCounter, StoreCounter, Goto, Incremented, FlowTypes
  <2>2. /\ samples \in [Workers -> {0, 1}] /\ register \in [Workers -> Nat]
        /\ pc[v] = "sample" => samples[v] = 0
        /\ pc[v] \in {"load", "store"} => samples[v] = 1
    BY DEF SampleInv
  <2>3. /\ samples' \in [Workers -> {0, 1}] /\ register' \in [Workers -> Nat]
        /\ counter_worker' \in Nat
        /\ samples'[v] = 1 /\ \A w \in Workers \ {v} : samples'[w] = samples[w]
        /\ counter_worker > 0 => counter_worker' > 0
        /\ pc'[v] \in {"load", "store"} \/ counter_worker' > 0
    BY <1>2, <2>1, <2>2
  <2>4. Sampled'
    BY <2>3 DEF Sampled
  <2>5. ASSUME NEW w \in Workers
        PROVE  /\ pc'[w] = "sample" => samples'[w] = 0
               /\ pc'[w] \in {"load", "store"} => samples'[w] = 1
               /\ samples'[w] = 1 => pc'[w] \in {"load", "store"} \/ counter_worker' > 0
    <3>1. CASE w = v
      BY <2>1, <2>3, <3>1
    <3>2. CASE w # v
      BY <2>1, <2>3, <3>2 DEF SampleInv
    <3>3. QED
      BY <3>1, <3>2
  <2>6. QED
    BY <2>3, <2>4, <2>5 DEF SampleInv
<1>6. CASE ScatterPortion \/ ScatterEOS \/ Poll \/ Pop \/ Join \/ UNCHANGED vars
  BY <1>3, <1>6 DEF ScatterPortion, ScatterEOS, Poll, Pop, Join, vars
<1>7. ASSUME NEW v \in Workers, MarkRow(v) PROVE SampleInv'
  BY <1>3, <1>7 DEF MarkRow
<1>8. QED
  BY <1>4, <1>5, <1>6, <1>7, NextCases DEF LabelStep

-----------------------------------------------------------------------------
(* The invariant of the flow                                               *)

\* Nothing is in an empty queue.
LEMMA NothingThere ==
  ASSUME NEW x
  PROVE  Copies(<<>>, x) = 0
<1>1. Places(<<>>, x) = {}
  BY DEF Places
<1>2. QED
  BY <1>1, FS_EmptySet DEF Copies

\* At the beginning scatter has all the portions.
LEMMA FullInit == Init => MapFull
<1> SUFFICES ASSUME Init PROVE MapFull
  OBVIOUS
<1>1. MapInv /\ FlowTypes
  BY Init_MapInv, FlowTypesInit
<1>2. n \in Nat \ {0} /\ Workers = 0..(n - 1) /\ NPhotos \in Nat /\ height \in Nat
  BY <1>1, MapAssumption DEF n, Workers, MapInv
<1>3. photo = 1 /\ i = 0 /\ \A w \in Workers : pc[w] = "pop" /\ y[w] = 0 /\ samples[w] = 0
  BY DEF Init
<1>4. \A w \in Workers : Scatter_to_worker[w] = <<>> /\ worker_to_collecter[w] = <<>>
  BY DEF Init
<1>5. \A p \in Photos : \A w \in Workers : Ahead(p, w)
  BY <1>2, <1>3 DEF Ahead, Photos
<1>6. \A p \in Photos : \A w \in Workers : Transit(p, w) = 1
  BY <1>3, <1>4, <1>5, NothingThere DEF Transit, Queued, Outgoing, InHand, One
<1>7. PathInv
  BY <1>6 DEF PathInv
<1>8. ResultsInv
  <2>1. \A p \in Photos : Arrived(p) = {}
    BY <1>6 DEF Arrived
  <2>2. \A p \in Photos : results[p] = 0 /\ Copies(images_done, p) = 0
    BY NothingThere DEF Init
  <2>3. QED
    BY <1>2, <2>1, <2>2, FS_EmptySet DEF ResultsInv, One
<1>9. MarksInv
  <2>1. \A p \in Photos : \A r \in 0..(height - 1) : marks[p][r] = 0
    BY DEF Init
  <2>2. \A w \in Workers : RowsOf(height, n, w) \subseteq 0..(height - 1)
    BY <1>2, OwnRows
  <2>3. QED
    BY <1>3, <1>5, <2>1, <2>2 DEF MarksInv, MarksOf
<1>10. EOSInv
  <2>1. \A w \in Workers : WorkerEOS(w)
    BY <1>2, <1>3, <1>4 DEF WorkerEOS, EOSAhead, EndsAt, IsIn, Places
  <2>2. Gone = {}
    BY <1>3 DEF Gone
  <2>3. counter = 0 /\ collector = "poll"
    BY DEF Init
  <2>4. QED
    BY <2>1, <2>2, <2>3, FS_EmptySet DEF EOSInv
<1>11. JoinedInv /\ PopAfterPollReturns
  BY DEF Init, JoinedInv, PopAfterPollReturns
<1>12. SampleInv
  <2>1. \A p \in Photos : \A w \in Workers : ~Passed(p, w)
    BY <1>5 DEF Passed
  <2>2. QED
    BY <1>3, <2>1 DEF Init, SampleInv
<1>13. QED
  BY <1>1, <1>7, <1>8, <1>9, <1>10, <1>11, <1>12 DEF MapFull, FlowInv

\* Where each portion is, how often its rows have been marked, and what the collector
\* knows of it, in every reachable state.
THEOREM FlowInvariant == Spec => []MapFull
<1>1. MapFull /\ [Next]_vars => MapFull'
  BY Next_MapInv, FlowTypesStep, PathStep, ResultsStep, MarksStep, EOSStep, JoinedStep,
     SampleStep, PollStep
     DEF MapFull, FlowInv
<1>2. QED
  BY <1>1, FullInit, PTL DEF Spec

\* In map.cpp, pop() after isEmpty() has returned false does not wait for ever: only
\* the collector takes anything out of the queue.
THEOREM PollingIsSafe == Spec => []PopAfterPollReturns
BY FlowInvariant, PTL DEF MapFull

\* A portion that has arrived has all its rows marked, each once.
LEMMA ArrivedIsMarked ==
  ASSUME MapFull, NEW p \in Photos, NEW w \in Workers, w \in Arrived(p)
  PROVE  \A r \in RowsOf(height, n, w) : marks[p][r] = 1
<1>1. ~Ahead(p, w) /\ Queued(p, w) = 0 /\ ~InHand(p, w)
  BY FlowCounts DEF MapFull, FlowInv, Arrived, Transit, One
<1>2. \A r \in RowsOf(height, n, w) : MarksOf(p, w, r) = 1
  BY <1>1 DEF MarksOf, InHand
<1>3. QED
  BY <1>2 DEF MapFull, FlowInv, MarksInv

\* A photo is stored when all its portions have arrived.
LEMMA StoredIsComplete ==
  ASSUME MapFull, NEW p \in Photos
  PROVE  /\ IsIn(p, images_done) <=> results[p] = n
         /\ results[p] = n <=> Arrived(p) = Workers
         /\ Copies(images_done, p) \in {0, 1}
<1>1. /\ images_done \in Seq(Photos) /\ results[p] = Cardinality(Arrived(p))
      /\ Copies(images_done, p) = One(results[p] = n)
  BY DEF MapFull, FlowInv, FlowTypes, ResultsInv
<1>2. Arrived(p) \subseteq Workers
  BY DEF Arrived
<1>3. QED
  BY <1>1, <1>2, NoCopies, WorkersCounted DEF One

\* A photo is stored with its last portion, when all its rows are marked.
LEMMA StoredIsMarked == MapFull => DoneMeansMarked
<1>1. ASSUME MapFull, NEW p \in Photos, IsIn(p, images_done)
      PROVE  /\ Copies(images_done, p) = 1
             /\ \A r \in Rows : marks[p][r] = 1
  <2>1. height \in Nat /\ images_done \in Seq(Photos)
    BY <1>1 DEF MapFull, MapInv, FlowInv, FlowTypes
  <2>2. Copies(images_done, p) = 1 /\ Arrived(p) = Workers
    BY <1>1, <2>1, StoredIsComplete, NoCopies
  <2>3. \A r \in Rows : \E w \in Workers : r \in RowsOf(height, n, w)
    BY <2>1, OwnRows DEF Rows
  <2>4. QED
    BY <1>1, <2>2, <2>3, ArrivedIsMarked
<1>2. QED
  BY <1>1 DEF DoneMeansMarked

\* The last portion to arrive at the collector is not merely the last one sent: when
\* a photo of map.cpp is stored it is stored once, and the workers have marked each
\* of its rows exactly once.
THEOREM StoredPhotosAreMarked == Spec => []DoneMeansMarked
BY StoredIsMarked, FlowInvariant, PTL

\* When all threads have returned, all portions have arrived.
LEMMA AllArrived ==
  ASSUME MapFull, ScatterReturned, collector = "returned",
         \A w \in Workers : pc[w] = "returned", NEW p \in Photos
  PROVE  /\ Arrived(p) = Workers
         /\ \A w \in Workers : Passed(p, w)
<1>1. /\ MapInv /\ FlowTypes /\ EOSInv
      /\ photo > NPhotos /\ photo \in Nat /\ NPhotos \in Nat
  BY MapAssumption DEF MapFull, FlowInv, MapInv, ScatterReturned
<1>2. Gone = Workers
  <2>1. Gone \subseteq Workers /\ counter = Cardinality(Gone) /\ counter >= n
    BY <1>1 DEF Gone, EOSInv
  <2>2. Cardinality(Gone) \in 0..n /\ (Cardinality(Gone) = n => Gone = Workers)
    BY <2>1, WorkersCounted
  <2>3. n \in Nat
    BY MapAssumption DEF n
  <2>4. Cardinality(Gone) = n
    BY <2>1, <2>2, <2>3
  <2>5. QED
    BY <2>2, <2>4
<1>3. ASSUME NEW w \in Workers PROVE Transit(p, w) = 0 /\ Passed(p, w)
  <2>1. Scatter_to_worker[w] = <<>> /\ worker_to_collecter[w] = <<>> /\ pc[w] = "returned"
    BY <1>1, <1>2 DEF Gone, EOSInv, WorkerEOS
  <2>2. ~Ahead(p, w)
    BY <1>1 DEF Ahead, Photos
  <2>3. QED
    BY <2>1, <2>2, NothingThere DEF Transit, Passed, Queued, Outgoing, InHand, One
<1>4. QED
  BY <1>3 DEF Arrived

\* Every worker of map.cpp records the service time at most once, and when the
\* program has ended with a photo one of them has: worker 0 has passed on its portion
\* of photo 1 by then, and its test of the counter followed.
THEOREM ServiceTimeIsRecorded == Spec => []ServiceTimeRecorded
<1>1. ASSUME MapFull PROVE ServiceTimeRecorded
  <2>1. \A w \in Workers : samples[w] <= 1
    BY <1>1 DEF MapFull, SampleInv
  <2>2. ASSUME main = "joined", NPhotos > 0 PROVE \E w \in Workers : samples[w] = 1
    <3>1. 1 \in Photos /\ 0 \in Workers
      BY <2>2, MapAssumption DEF Photos, Workers
    <3>2. /\ ScatterReturned /\ collector = "returned"
          /\ \A w \in Workers : pc[w] = "returned"
      BY <1>1, <2>2 DEF MapFull, JoinedInv
    <3>3. Passed(1, 0) /\ pc[0] = "returned"
      BY <1>1, <3>1, <3>2, AllArrived
    <3>4. Sampled
      BY <1>1, <3>1, <3>3 DEF MapFull, SampleInv
    <3>5. QED
      BY <3>4 DEF Sampled
  <2>3. QED
    BY <2>1, <2>2 DEF ServiceTimeRecorded
<1>2. QED
  BY <1>1, FlowInvariant, PTL

-----------------------------------------------------------------------------
(* The refinement                                                          *)

\* No row is marked twice, so that a photo is marked when its last row is.
LEMMA RowsAtMostOnce ==
  ASSUME MapFull, NEW p \in Photos
  PROVE  /\ \A r \in Rows : marks[p][r] \in {0, 1}
         /\ TimesMarked(p) = One(\A r \in Rows : marks[p][r] = 1)
<1>1. height \in Nat
  BY DEF MapFull, MapInv
<1>2. ASSUME NEW r \in Rows PROVE marks[p][r] \in {0, 1}
  <2>1. PICK w \in Workers : r \in RowsOf(height, n, w)
    BY <1>1, OwnRows DEF Rows
  <2>2. marks[p][r] = MarksOf(p, w, r)
    BY <2>1 DEF MapFull, FlowInv, MarksInv
  <2>3. QED
    BY <2>2 DEF MarksOf, One
<1>3. ~\E r \in Rows : marks[p][r] > 1
  BY <1>2
<1>4. QED
  BY <1>2, <1>3 DEF TimesMarked, One

\* No photo is marked twice.
LEMMA MarkedAtMostOnce == MapFull => \A p \in Photos : TimesMarked(p) \in {0, 1}
BY RowsAtMostOnce DEF One

\* The worker that marks a row marks it for the first time.
LEMMA RowIsFirst ==
  ASSUME MapFull, NEW v \in Workers, MarkRow(v)
  PROVE  \E q \in Photos : \E j \in Rows :
           /\ marks[q][j] = 0
           /\ \A p \in Photos \ {q} : marks'[p] = marks[p]
           /\ UNCHANGED <<height, images_done, main>>
<1>1. MapInv /\ FlowTypes /\ PathInv /\ MarksInv
  BY DEF MapFull, FlowInv
<1>2. PICK q \in Photos, j \in RowsOf(height, n, v) :
           /\ pc[v] = "mark" /\ ii[v] = Item(q, v) /\ y[v] \in Nat
           /\ j = Start(height, n, v) + y[v]
           /\ j \in 0..(height - 1)
           /\ marks' = [marks EXCEPT ![q][j] = @ + 1]
           /\ UNCHANGED <<height, collectorVars, main>>
  BY <1>1, RowMarked
<1>3. InHand(q, v)
  BY <1>2 DEF InHand
<1>4. ~Ahead(q, v) /\ Queued(q, v) = 0
  BY <1>1, <1>3, FlowCounts DEF PathInv, Transit, One
<1>5. Start(height, n, v) \in Nat
  BY <1>1, ItemFacts DEF MapInv
<1>6. MarksOf(q, v, j) = 0
  BY <1>2, <1>4, <1>5 DEF MarksOf, One
<1>7. marks[q][j] = 0
  BY <1>1, <1>6 DEF MarksInv
<1>8. \A p \in Photos \ {q} : marks'[p] = marks[p]
  BY <1>1, <1>2 DEF FlowTypes
<1>9. QED
  BY <1>2, <1>7, <1>8 DEF Rows, collectorVars

\* Each step of map.cpp is one of MarkedBatch, or none.
LEMMA BatchStep == MapFull /\ MapFull' /\ [Next]_vars => [Batch!BatchNext]_(Batch!batchVars)
<1> SUFFICES ASSUME MapFull, MapFull', [Next]_vars
             PROVE  [Batch!BatchNext]_(Batch!batchVars)
  OBVIOUS
<1> DEFINE times == [p \in Photos |-> TimesMarked(p)]
<1>1. ASSUME UNCHANGED <<height, marks>> PROVE times' = times
  BY <1>1 DEF TimesMarked, Rows
<1>2. ASSUME UNCHANGED <<height, marks, images_done, main>>
      PROVE  [Batch!BatchNext]_(Batch!batchVars)
  BY <1>1, <1>2 DEF Batch!batchVars
<1>3. CASE \/ ScatterPortion \/ ScatterEOS
           \/ \E v \in Workers : WorkerPop(v) \/ LabelStep(v) \/ PushInsert(v)
           \/ Poll \/ UNCHANGED vars
  <2>1. UNCHANGED <<height, marks, images_done, main>>
    BY <1>3 DEF ScatterPortion, ScatterEOS, WorkerPop, LabelStep, RowsDone, PushLock,
                TestCounter, Sample, LoadCounter, StoreCounter, PushInsert, Poll, vars,
                collectorVars
  <2>2. QED
    BY <1>2, <2>1
<1>4. ASSUME NEW v \in Workers, MarkRow(v) PROVE [Batch!BatchNext]_(Batch!batchVars)
  <2>1. PICK q \in Photos, j \in Rows :
           /\ marks[q][j] = 0
           /\ \A p \in Photos \ {q} : marks'[p] = marks[p]
           /\ UNCHANGED <<height, images_done, main>>
    BY <1>4, RowIsFirst
  <2>2. TimesMarked(q) = 0
    BY <2>1, RowsAtMostOnce DEF One
  <2>3. TimesMarked(q)' \in {0, 1}
    <3>1. (\A p \in Photos : TimesMarked(p) \in {0, 1})'
      BY MarkedAtMostOnce, PTL
    <3>2. QED
      BY <3>1
  <2>4. \A p \in Photos \ {q} : TimesMarked(p)' = TimesMarked(p)
    BY <2>1 DEF TimesMarked, Rows
  <2>5. CASE TimesMarked(q)' = 0
    <3>1. times' = times
      BY <2>2, <2>4, <2>5
    <3>2. QED
      BY <2>1, <3>1 DEF Batch!batchVars
  <2>6. CASE TimesMarked(q)' = 1
    <3>1. times[q] = 0 /\ times' = [times EXCEPT ![q] = 1]
      BY <2>2, <2>4, <2>6
    <3>2. Batch!MarkPhoto(q)
      BY <2>1, <3>1 DEF Batch!MarkPhoto
    <3>3. QED
      BY <3>2 DEF Batch!BatchNext
  <2>7. QED
    BY <2>3, <2>5, <2>6
<1>5. CASE Pop
  <2>1. UNCHANGED <<height, marks, main>>
    BY <1>5 DEF Pop
  <2>2. CASE images_done' = images_done
    BY <1>2, <2>1, <2>2
  <2>3. CASE images_done' # images_done
    <3>1. PICK q \in Photos : images_done' = Append(images_done, q)
      BY <1>5, <2>3, TransitCollected DEF MapFull, FlowInv
    <3>2. images_done \in Seq(Photos)
      BY DEF MapFull, FlowInv, FlowTypes
    <3>3. Copies(images_done', q) = Copies(images_done, q) + 1 /\ IsIn(q, images_done')
      BY <3>1, <3>2, CopiesAppend, IsInAppend
    <3>4. Copies(images_done', q) = 1 /\ \A r \in Rows : marks[q][r] = 1
      <4>1. DoneMeansMarked'
        BY StoredIsMarked, PTL
      <4>2. QED
        BY <2>1, <3>3, <4>1 DEF DoneMeansMarked, IsIn, Copies, Places, Rows
    <3>5. times[q] = 1
      BY <3>4, RowsAtMostOnce DEF One
    <3>6. ~IsIn(q, images_done)
      BY <3>2, <3>3, <3>4, PlacesFinite, NoCopies
    <3>7. times' = times
      BY <1>1, <2>1
    <3> HIDE DEF times
    <3>8. Batch!HandOver(q)
      BY <2>1, <3>1, <3>5, <3>6, <3>7
         DEF Batch!HandOver, Batch!IsIn, Batch!Places, IsIn, Places, times
    <3>9. QED
      BY <3>8 DEF Batch!BatchNext
  <2>4. QED
    BY <2>2, <2>3
<1>6. CASE Join
  <2>1. /\ main = "joining" /\ main' = "joined" /\ ScatterReturned
        /\ collector = "returned" /\ \A w \in Workers : pc[w] = "returned"
        /\ UNCHANGED <<height, marks, images_done>>
    BY <1>6 DEF Join, collectorVars
  <2>2. \A p \in Photos : IsIn(p, images_done)
    BY <2>1, AllArrived, StoredIsComplete
  <2>3. times' = times
    BY <1>1, <2>1
  <2>4. Batch!Finish
    BY <2>1, <2>2, <2>3 DEF Batch!Finish, Batch!IsIn, Batch!Places, IsIn, Places
  <2>5. QED
    BY <2>4 DEF Batch!BatchNext
<1>7. QED
  BY <1>3, <1>4, <1>5, <1>6, NextCases

\* map.cpp implements MarkedBatch: the row that completes a photo marks it as a
\* whole, the last portion to arrive hands it over, and main() joins its threads when
\* all photos are stored.
THEOREM PthreadMapImplementsBatch == Spec => ImplementsBatch
<1>1. Init => Batch!BatchInit
  <2> SUFFICES ASSUME Init PROVE Batch!BatchInit
    OBVIOUS
  <2>1. 0 \in Rows /\ \A p \in Photos : \A r \in Rows : marks[p][r] = 0
    BY MapAssumption DEF Init, Rows
  <2>2. \A p \in Photos : TimesMarked(p) = 0
    BY <2>1 DEF TimesMarked
  <2>3. images_done = <<>> /\ main # "joined"
    BY DEF Init
  <2>4. QED
    BY <2>2, <2>3 DEF Batch!BatchInit
<1>2. QED
  BY <1>1, BatchStep, FlowInvariant, PTL DEF Spec, ImplementsBatch, Batch!BatchSpec
=============================================================================
