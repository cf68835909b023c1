-------------------------- MODULE LockFreeProofs ----------------------------
(***************************************************************************)
(* The lock-free parts of FastFlow.  First the ring, SpscRing, for every   *)
(* size of the buffer and every kind of batch: its two threads see each    *)
(* other's work correctly through the cells alone.  The inductive          *)
(* invariant RingInv says what each cell holds, counted from the place     *)
(* where the consumer really is: first the contents, then the part of a    *)
(* batch that has been written, then free cells.                           *)
(*                                                                         *)
(* Next the barrier alone: spinBarrier keeps its promise for every number  *)
(* of threads.  Nobody leaves a round before all have entered it, although *)
(* the threads never meet, the counters are only two, and a fast thread    *)
(* may enter the next round while slow ones still spin in this one.  The   *)
(* invariant says which two rounds can be going on at a time.  With g the  *)
(* last complete round, every thread is in g, out of it or spinning on its *)
(* counter, which is 0, or in g + 1, and the other counter has the number  *)
(* of those who have been counted there.  The last one to arrive finds     *)
(* everybody in g + 1 and makes it the complete round.                     *)
(*                                                                         *)
(* Then the threads of a farm, which start together for every number of    *)
(* workers and however often the farm is run, frozen, thawed and joined.   *)
(* The barrier keeps its invariant as long as its users enter it properly: *)
(* each thread under an index of its own, the same in every run of the     *)
(* farm, because its flag is never reset.  The index is the value of a     *)
(* counter when the thread is spawned, so what has to be shown is that the *)
(* counter is back at 0 whenever the farm starts.                          *)
(*                                                                         *)
(* After that, what the threads do in each run: which of them have still   *)
(* to run their node is known from where they are and from their flags, so *)
(* that all have done so, once, when the farm is frozen or has ended.  A   *)
(* program that thaws the threads before it has waited for them to freeze  *)
(* can lose a run.  With its assertions it comes to the one of the         *)
(* collector first, as the invariant shows: it is Doomed, and stays so.    *)
(* Without them, or if it waits for the end of threads it has just thawed, *)
(* nothing is claimed of its runs.                                         *)
(*                                                                         *)
(* The parallel loops come after that.  Filling the table is arithmetic    *)
(* over the width of a chunk, step by _chunk; then LoopInv follows the     *)
(* team of a loop, the party of its barrier, and the ranges in the table.  *)
(* A worker is called, works and enters the barrier, or is not needed; the *)
(* caller leaves only when nobody works any more.  Until then no range     *)
(* loses a chunk: its counter is behind, never ahead.  Last, WorkInv says  *)
(* where each index of the loop is: in one range, in one claim, or run; a  *)
(* worker goes away from an exhausted range only, so all have been run     *)
(* when the caller returns, which is the refinement of LoopCalls.          *)
(*                                                                         *)
(* The farm and the loops have barriers of their own and share no more     *)
(* than the lemmas on parties: no theorem on the one has a constant of the *)
(* other, and their assumptions hold together for every MaxWorkers when NW *)
(* is large enough, and for every NW when MaxWorkers is 1.                 *)
(***************************************************************************)
EXTENDS FFThreads, ParallelFor, SpscRing, FiniteSetTheorems, SequenceTheorems, TLAPS

-----------------------------------------------------------------------------
(* The ring of FastFlow                                                    *)

\* Where the oldest value is, and where the next one goes: a thread that has
\* not moved its index yet is really one step further.
Front == IF cpc = "advance" THEN Ahead(pread, 1) ELSE pread
Rear == IF ppc = "advance" THEN Ahead(pwrite, Len(batch)) ELSE pwrite

\* What the cell k places after the front must hold
Holds(k) ==
  IF k < Len(contents) THEN contents[k + 1]
  ELSE IF /\ ppc = "write"
          /\ Len(contents) + left <= k /\ k < Len(contents) + Len(batch)
       THEN batch[k - Len(contents) + 1]
       ELSE NULL

ProducerInv ==
  ppc # "outside" => /\ batch \in Batches
                     /\ Len(batch) <= size
                     /\ ppc = "advance" => left = 0

WriteInv ==
  ppc = "write" => /\ left \in 1..Len(batch)
                   /\ Len(contents) + Len(batch) <= size

ConsumerInv ==
  cpc = "clear" => contents # <<>> /\ popped = contents[1]

CellInv == \A k \in 0..size-1 : buf[Ahead(Front, k)] = Holds(k)

RingInv ==
  /\ TypeOK
  /\ Len(contents) <= size
  /\ ProducerInv
  /\ WriteInv
  /\ ConsumerInv
  /\ Rear = Ahead(Front, Len(contents))
  /\ CellInv

-----------------------------------------------------------------------------
\* Walking around the ring: steps add up, and different distances of less than
\* a turn lead to different cells.
LEMMA Walk ==
  ASSUME size \in Nat \ {0}, NEW i \in 0..size-1, NEW a \in 0..size, NEW b \in 0..size
  PROVE  /\ Ahead(i, a) \in 0..size-1
         /\ a + b <= size => Ahead(Ahead(i, a), b) = Ahead(i, a + b)
         /\ a + b >= size => Ahead(Ahead(i, a), b) = Ahead(i, a + b - size)
         /\ a < size /\ b < size /\ Ahead(i, a) = Ahead(i, b) => a = b
BY DEF Ahead

\* Where the invariant says the indexes and the contents are
LEMMA Places ==
  ASSUME RingInv
  PROVE  /\ size \in Nat \ {0}
         /\ Front \in 0..size-1
         /\ Len(contents) \in 0..size
         /\ batch \in Seq(Values) /\ Len(batch) \in Nat
         /\ contents \in Seq(Values)
<1>1. size \in Nat \ {0}
  BY RingAssumption DEF RingInv, TypeOK
<1>2. Front \in 0..size-1
  BY <1>1 DEF RingInv, TypeOK, Front, Ahead
<1>3. QED
  BY <1>1, <1>2 DEF RingInv, TypeOK

-----------------------------------------------------------------------------
\* The ring is empty.
LEMMA InitInv == RingInit => RingInv
<1> SUFFICES ASSUME RingInit PROVE RingInv
  OBVIOUS
<1>1. size \in Nat \ {0} /\ Len(contents) = 0 /\ Front = pread /\ Rear = pwrite
  BY RingAssumption DEF RingInit, Front, Rear
<1>2. TypeOK
  BY <1>1 DEF RingInit, TypeOK
<1>3. Rear = Ahead(Front, Len(contents))
  BY <1>1 DEF RingInit, Ahead
<1>4. CellInv
  BY <1>1 DEF RingInit, CellInv, Holds, Ahead
<1>5. QED
  BY <1>1, <1>2, <1>3, <1>4 DEF RingInit, RingInv, ProducerInv, WriteInv, ConsumerInv

\* The type invariant, action by action
LEMMA TypeStep == RingInv /\ [RingNext]_ringVars => TypeOK'
<1> SUFFICES ASSUME RingInv, [RingNext]_ringVars PROVE TypeOK'
  OBVIOUS
<1> USE RingAssumption DEF TypeOK, ring, producer, consumer
<1>0. TypeOK /\ size \in Nat \ {0}
  BY Places DEF RingInv
<1>1. ASSUME NEW b \in Batches, Look(b) PROVE TypeOK'
  <2>1. b \in Seq(Values)
    OBVIOUS
  <2>2. Len(b) \in 0..Len(b)
    BY <2>1
  <2>3. QED
    BY <1>0, <1>1, <2>1, <2>2 DEF Look
<1>2. ASSUME WriteCell PROVE TypeOK'
  <2>1. left \in 1..Len(batch) /\ batch \in Seq(Values) /\ Len(batch) \in Nat
    BY <1>2, Places DEF WriteCell, RingInv, WriteInv
  <2>2. batch[left] \in Values
    BY <2>1
  <2>3. buf' \in [0..size-1 -> Values \cup {NULL}]
    BY <1>0, <1>2, <2>2 DEF WriteCell, Written
  <2>4. left' \in 0..Len(batch)
    BY <1>2, <2>1 DEF WriteCell
  <2>5. /\ contents \o batch \in Seq(Values)
        /\ contents' \in Seq(Values) /\ ppc' \in {"outside", "write", "advance"}
    <3>1. contents \in Seq(Values) /\ batch \in Seq(Values)
      BY <1>0
    <3>2. contents \o batch \in Seq(Values)
      BY <3>1
    <3>3. QED
      BY <1>0, <1>2, <3>2 DEF WriteCell
  <2>6. QED
    BY <1>0, <1>2, <2>3, <2>4, <2>5 DEF WriteCell
<1>3. ASSUME MoveWrite PROVE TypeOK'
  <2>1. Len(batch) \in 0..size
    BY <1>3, Places DEF MoveWrite, RingInv, ProducerInv
  <2>2. pwrite' \in 0..size-1
    BY <1>0, <1>3, <2>1 DEF MoveWrite, Ahead
  <2>3. left = 0
    BY <1>3 DEF MoveWrite, RingInv, ProducerInv
  <2>4. left' \in 0..Len(batch') /\ batch' \in Seq(Values)
    BY <1>3, <2>3 DEF MoveWrite
  <2>5. QED
    BY <1>0, <1>3, <2>2, <2>4 DEF MoveWrite
<1>4. ASSUME ReadCell PROVE TypeOK'
  BY <1>0, <1>4 DEF ReadCell, Empty
<1>5. ASSUME ClearCell PROVE TypeOK'
  <2>1. contents # <<>> /\ contents \in Seq(Values) /\ popped = contents[1]
    BY <1>0, <1>5 DEF ClearCell, RingInv, ConsumerInv
  <2>2. Tail(contents) \in Seq(Values) /\ popped \in Values
    BY <2>1
  <2>3. QED
    BY <1>0, <1>5, <2>2 DEF ClearCell
<1>6. ASSUME MoveRead PROVE TypeOK'
  BY <1>0, <1>6 DEF MoveRead, Ahead
<1>7. ASSUME Reset PROVE TypeOK'
  BY <1>0, <1>7 DEF Reset
<1>8. CASE UNCHANGED ringVars
  BY <1>0, <1>8 DEF ringVars
<1>9. QED
  BY <1>1, <1>2, <1>3, <1>4, <1>5, <1>6, <1>7, <1>8 DEF RingNext, Producer, Consumer

-----------------------------------------------------------------------------
(* Each action keeps the rest of the invariant.                            *)

\* A push that finds the last cell it needs free has room for all its values:
\* the cells in between are free as well.
LEMMA RoomIsRoom ==
  ASSUME RingInv, ppc = "outside", NEW n \in 1..size
  PROVE  Room(n) <=> Len(contents) + n <= size
<1> DEFINE c == Len(contents)
<1>0. /\ size \in Nat \ {0} /\ Front \in 0..size-1 /\ c \in 0..size
      /\ contents \in Seq(Values) /\ n - 1 \in 0..size-1
  BY Places
<1>1. pwrite = Ahead(Front, c)
  BY DEF RingInv, Rear
<1>2. CASE c + n <= size
  <2>1. Ahead(pwrite, n - 1) = Ahead(Front, c + n - 1) /\ c + n - 1 \in 0..size-1
    BY <1>0, <1>1, <1>2 DEF Ahead
  <2>2. Holds(c + n - 1) = NULL
    BY <1>0, <1>2 DEF Holds
  <2>3. buf[Ahead(Front, c + n - 1)] = Holds(c + n - 1)
    BY <2>1 DEF RingInv, CellInv
  <2>4. QED
    BY <1>2, <2>1, <2>2, <2>3 DEF Room
<1>3. CASE c + n > size
  <2> DEFINE k == c + n - 1 - size
  <2>1. Ahead(pwrite, n - 1) = Ahead(Front, k) /\ k \in 0..size-1 /\ k < c
    BY <1>0, <1>1, <1>3 DEF Ahead
  <2>2. contents[k + 1] \in Values
    BY <1>0, <2>1
  <2>3. Holds(k) # NULL
    BY <2>1, <2>2, RingAssumption DEF Holds
  <2>4. buf[Ahead(Front, k)] = Holds(k)
    BY <2>1 DEF RingInv, CellInv
  <2>5. QED
    BY <1>0, <1>3, <2>1, <2>3, <2>4 DEF Room
<1>4. QED
  BY <1>0, <1>2, <1>3

\* Looking at a cell changes nothing in the ring.
LEMMA LookInv ==
  ASSUME RingInv, NEW b \in Batches, Look(b)
  PROVE  RingInv'
<1>0. /\ size \in Nat \ {0} /\ Front \in 0..size-1 /\ Len(contents) \in 0..size
      /\ b \in Seq(Values) /\ b # <<>> /\ Len(b) \in Nat \ {0}
  BY Places, RingAssumption
<1>1. Len(b) \in 1..size
  BY <1>0 DEF Look
<1>2. Len(contents) + Len(b) <= size
  BY <1>1, RoomIsRoom DEF Look
<1>3. TypeOK'
  BY TypeStep DEF RingNext, Producer
<1>4. /\ Front' = Front /\ Rear' = Rear
  BY DEF Look, ring, consumer, Front, Rear, Ahead
<1>5. CellInv'
  <2> SUFFICES ASSUME NEW k \in (0..size-1)'
               PROVE  (buf[Ahead(Front, k)] = Holds(k))'
    BY DEF CellInv
  <2>1. k \in 0..size-1
    BY DEF Look, ring
  <2>2. buf[Ahead(Front, k)] = Holds(k)
    BY <2>1 DEF RingInv, CellInv
  <2>3. Holds(k) = IF k < Len(contents) THEN contents[k + 1] ELSE NULL
    BY DEF Holds, Look
  <2>4. (Holds(k))' = IF k < Len(contents) THEN contents[k + 1] ELSE NULL
    BY <1>0, <1>1, <2>1 DEF Holds, Look, ring, consumer
  <2>5. (buf[Ahead(Front, k)])' = buf[Ahead(Front, k)]
    BY <1>4 DEF Look, ring, consumer, Ahead
  <2>6. QED
    BY <2>2, <2>3, <2>4, <2>5
<1>6. ProducerInv' /\ WriteInv'
  BY <1>0, <1>1, <1>2 DEF ProducerInv, WriteInv, Look, ring
<1>7. ConsumerInv'
  BY DEF RingInv, ConsumerInv, Look, consumer
<1>8. (Rear = Ahead(Front, Len(contents)))'
  BY <1>4 DEF RingInv, Look, ring, Ahead
<1>9. (Len(contents) <= size)'
  BY <1>0 DEF Look, ring
<1>10. QED
  BY <1>3, <1>5, <1>6, <1>7, <1>8, <1>9 DEF RingInv

\* The written cell is the one that Holds counts next from the batch's end; the
\* contents grow by the whole batch when its first cell is written.
LEMMA WriteCellInv ==
  ASSUME RingInv, WriteCell
  PROVE  RingInv'
<1> DEFINE c == Len(contents)
           m == Len(batch)
<1>0. /\ size \in Nat \ {0} /\ Front \in 0..size-1 /\ c \in 0..size
      /\ contents \in Seq(Values) /\ batch \in Seq(Values) /\ m \in Nat
  BY Places
<1>1. /\ left \in 1..m /\ c + m <= size /\ batch \in Batches
  BY DEF WriteCell, RingInv, WriteInv, ProducerInv
<1>2. pwrite = Ahead(Front, c) /\ pwrite \in 0..size-1
  BY DEF WriteCell, RingInv, Rear, TypeOK
<1>3. Front' = Front
  BY DEF WriteCell, consumer, Front, Ahead
<1>4. TypeOK'
  BY TypeStep DEF RingNext, Producer
<1>5. /\ Ahead(pwrite, left - 1) = Ahead(Front, c + left - 1)
      /\ Ahead(pwrite, left - 1) \in 0..size-1
  BY <1>0, <1>1, <1>2 DEF Ahead
<1>6. /\ size' = size /\ batch' = batch /\ left' = left - 1
      /\ buf' = [buf EXCEPT ![Ahead(pwrite, left - 1)] = batch[left]]
  BY DEF WriteCell, Written
<1>7. (left = 1 /\ ppc' = "advance" /\ contents' = contents \o batch)
        \/ (left # 1 /\ ppc' = "write" /\ contents' = contents)
  BY DEF WriteCell
<1>8. ASSUME NEW k \in 0..size-1
      PROVE  buf'[Ahead(Front, k)] = IF k = c + left - 1 THEN batch[left] ELSE Holds(k)
  <2>1. buf[Ahead(Front, k)] = Holds(k)
    BY DEF RingInv, CellInv
  <2>2. Ahead(Front, k) = Ahead(Front, c + left - 1) <=> k = c + left - 1
    <3>1. c + left - 1 \in 0..size-1
      BY <1>0, <1>1
    <3>2. \A j \in 0..size-1 : Ahead(Front, k) = Ahead(Front, j) => k = j
      BY <1>0, Walk
    <3>3. QED
      BY <3>1, <3>2
  <2>3. Ahead(Front, k) \in 0..size-1
    BY <1>0 DEF Ahead
  <2>4. buf \in [0..size-1 -> Values \cup {NULL}]
    BY DEF RingInv, TypeOK
  <2>5. QED
    BY <1>5, <1>6, <2>1, <2>2, <2>3, <2>4
<1>9. ASSUME NEW k \in 0..size-1
      PROVE  (Holds(k))' = IF k = c + left - 1 THEN batch[left] ELSE Holds(k)
  <2>1. ppc = "write"
    BY DEF WriteCell
  <2>2. CASE left = 1
    <3>1. contents' = contents \o batch /\ ppc' = "advance"
      BY <1>7, <2>2
    <3>2. Len(contents') = c + m
      BY <1>0, <3>1
    <3>3. \A i \in 1..c+m : contents'[i] = IF i <= c THEN contents[i] ELSE batch[i - c]
      BY <1>0, <3>1
    <3>4. (Holds(k))' = IF k < c + m THEN (IF k < c THEN contents[k + 1]
                                           ELSE batch[k - c + 1])
                        ELSE NULL
      <4>1. (Holds(k))' = IF k < c + m THEN contents'[k + 1] ELSE NULL
        BY <3>1, <3>2 DEF Holds
      <4>2. k < c + m => contents'[k + 1] = IF k < c THEN contents[k + 1]
                                            ELSE batch[k - c + 1]
        BY <1>0, <3>3
      <4>3. QED
        BY <4>1, <4>2
    <3>5. Holds(k) = IF k < c THEN contents[k + 1]
                     ELSE IF c + 1 <= k /\ k < c + m THEN batch[k - c + 1] ELSE NULL
      BY <2>1, <2>2 DEF Holds
    <3>6. QED
      BY <1>0, <1>1, <2>2, <3>4, <3>5
  <2>3. CASE left # 1
    <3>1. contents' = contents /\ ppc' = "write"
      BY <1>7, <2>3
    <3>2. (Holds(k))' = IF k < c THEN contents[k + 1]
                        ELSE IF c + (left - 1) <= k /\ k < c + m
                             THEN batch[k - c + 1] ELSE NULL
      BY <1>6, <3>1 DEF Holds
    <3>3. Holds(k) = IF k < c THEN contents[k + 1]
                     ELSE IF c + left <= k /\ k < c + m
                          THEN batch[k - c + 1] ELSE NULL
      BY <2>1 DEF Holds
    <3>4. QED
      BY <1>0, <1>1, <3>2, <3>3
  <2>4. QED
    BY <2>2, <2>3
<1>10. CellInv'
  <2>1. ASSUME NEW k \in 0..size-1
        PROVE  (buf[Ahead(Front, k)] = Holds(k))'
    <3>1. (Ahead(Front, k))' = Ahead(Front, k)
      BY <1>3, <1>6 DEF Ahead
    <3>2. QED
      BY <1>8, <1>9, <3>1
  <2>2. QED
    BY <1>6, <2>1 DEF CellInv
<1>11. ProducerInv'
  BY <1>0, <1>1, <1>6, <1>7 DEF ProducerInv
<1>12. WriteInv'
  BY <1>0, <1>1, <1>6, <1>7 DEF WriteInv
<1>13. (Len(contents) <= size)'
  BY <1>0, <1>1, <1>6, <1>7
<1>14. ConsumerInv'
  <2>1. cpc' = cpc /\ popped' = popped
    BY DEF WriteCell, consumer
  <2>2. cpc = "clear" => contents # <<>> /\ popped = contents[1]
    BY DEF RingInv, ConsumerInv
  <2>3. contents # <<>> => contents' # <<>> /\ contents'[1] = contents[1]
    BY <1>0, <1>7
  <2>4. QED
    BY <2>1, <2>2, <2>3 DEF ConsumerInv
<1>15. (Rear = Ahead(Front, Len(contents)))'
  <2>1. pwrite' = pwrite /\ ppc = "write"
    BY DEF WriteCell
  <2>2. CASE left = 1
    <3>1. ppc' = "advance" /\ Len(contents') = c + m
      BY <1>0, <1>7, <2>2
    <3>2. Rear' = Ahead(pwrite, m)
      BY <1>6, <2>1, <3>1 DEF Rear, Ahead
    <3>3. (Ahead(Front, Len(contents)))' = Ahead(Front, c + m)
      BY <1>3, <1>6, <3>1 DEF Ahead
    <3>4. Ahead(pwrite, m) = Ahead(Front, c + m)
      BY <1>0, <1>1, <1>2 DEF Ahead
    <3>5. QED
      BY <3>2, <3>3, <3>4
  <2>3. CASE left # 1
    BY <1>2, <1>3, <1>6, <1>7, <2>1, <2>3 DEF Rear, Ahead
  <2>4. QED
    BY <2>2, <2>3
<1>16. QED
  BY <1>4, <1>10, <1>11, <1>12, <1>13, <1>14, <1>15 DEF RingInv

\* The producer moves pwrite.
LEMMA MoveWriteInv ==
  ASSUME RingInv, MoveWrite
  PROVE  RingInv'
<1>0. TypeOK'
  BY TypeStep DEF RingNext, Producer
<1>1. /\ size' = size /\ contents' = contents /\ buf' = buf
      /\ cpc' = cpc /\ popped' = popped /\ pread' = pread
      /\ ppc = "advance" /\ ppc' = "outside"
  BY DEF MoveWrite, consumer
<1>2. Front' = Front /\ Rear' = Rear
  BY <1>1 DEF MoveWrite, Front, Rear, Ahead
<1>3. CellInv'
  <2>1. ASSUME NEW k \in 0..size-1
        PROVE  (Ahead(Front, k))' = Ahead(Front, k) /\ (Holds(k))' = Holds(k)
    BY <1>1, <1>2 DEF Ahead, Holds
  <2>2. QED
    BY <1>1, <2>1 DEF RingInv, CellInv
<1>4. ProducerInv' /\ WriteInv' /\ ConsumerInv'
  BY <1>1 DEF RingInv, ProducerInv, WriteInv, ConsumerInv
<1>5. (Rear = Ahead(Front, Len(contents)))' /\ (Len(contents) <= size)'
  BY <1>1, <1>2 DEF RingInv, Ahead
<1>6. QED
  BY <1>0, <1>3, <1>4, <1>5 DEF RingInv

\* A pop that finds its cell occupied finds the oldest value in it.
LEMMA FrontIsOldest ==
  ASSUME RingInv, cpc = "outside"
  PROVE  /\ Empty <=> contents = <<>>
         /\ ~Empty => buf[pread] = contents[1]
<1>0. /\ size \in Nat \ {0} /\ pread \in 0..size-1 /\ Front = pread
      /\ contents \in Seq(Values) /\ Len(contents) \in 0..size
  BY Places DEF RingInv, TypeOK, Front
<1>1. Ahead(Front, 0) = pread
  BY <1>0 DEF Ahead
<1>2. buf[pread] = Holds(0)
  BY <1>0, <1>1 DEF RingInv, CellInv
<1>3. CASE contents = <<>>
  <2>1. Len(contents) = 0
    BY <1>3
  <2>2. ~(ppc = "write" /\ Len(contents) + left <= 0)
    BY <2>1, Places DEF RingInv, WriteInv
  <2>3. Holds(0) = NULL
    BY <2>1, <2>2 DEF Holds
  <2>4. QED
    BY <1>2, <1>3, <2>3 DEF Empty
<1>4. CASE contents # <<>>
  <2>1. Holds(0) = contents[1] /\ contents[1] \in Values
    BY <1>0, <1>4 DEF Holds
  <2>2. QED
    BY <1>2, <1>4, <2>1, RingAssumption DEF Empty
<1>5. QED
  BY <1>3, <1>4

\* The consumer reads the value in its cell.
LEMMA ReadCellInv ==
  ASSUME RingInv, ReadCell
  PROVE  RingInv'
<1>0. TypeOK'
  BY TypeStep DEF RingNext, Consumer
<1>1. /\ size' = size /\ contents' = contents /\ buf' = buf /\ pread' = pread
      /\ ppc' = ppc /\ batch' = batch /\ left' = left /\ pwrite' = pwrite
      /\ cpc = "outside" /\ cpc' = "clear" /\ popped' = buf[pread] /\ ~Empty
  BY DEF ReadCell, ring, producer
<1>2. Front' = Front /\ Rear' = Rear
  BY <1>1 DEF Front, Rear, Ahead
<1>3. CellInv'
  <2>1. ASSUME NEW k \in 0..size-1
        PROVE  (Ahead(Front, k))' = Ahead(Front, k) /\ (Holds(k))' = Holds(k)
    BY <1>1, <1>2 DEF Ahead, Holds
  <2>2. QED
    BY <1>1, <2>1 DEF RingInv, CellInv
<1>4. ProducerInv' /\ WriteInv'
  BY <1>1 DEF RingInv, ProducerInv, WriteInv
<1>5. ConsumerInv'
  BY <1>1, FrontIsOldest DEF ConsumerInv
<1>6. (Rear = Ahead(Front, Len(contents)))' /\ (Len(contents) <= size)'
  BY <1>1, <1>2 DEF RingInv, Ahead
<1>7. QED
  BY <1>0, <1>3, <1>4, <1>5, <1>6 DEF RingInv

\* Freeing the oldest cell: the front moves on, and the freed cell becomes the
\* one farthest from it.
LEMMA ClearCellInv ==
  ASSUME RingInv, ClearCell
  PROVE  RingInv'
<1> DEFINE c == Len(contents)
           m == Len(batch)
<1>0. /\ size \in Nat \ {0} /\ c \in 1..size /\ contents \in Seq(Values)
      /\ pread \in 0..size-1 /\ pwrite \in 0..size-1
      /\ batch \in Seq(Values) /\ m \in Nat
  BY Places DEF RingInv, TypeOK, ClearCell, ConsumerInv
<1>1. TypeOK'
  BY TypeStep DEF RingNext, Consumer
<1>2. /\ size' = size /\ pread' = pread /\ pwrite' = pwrite
      /\ ppc' = ppc /\ batch' = batch /\ left' = left
      /\ cpc = "clear" /\ cpc' = "advance"
      /\ buf' = [buf EXCEPT ![pread] = NULL] /\ contents' = Tail(contents)
  BY DEF ClearCell, producer
<1>3. /\ Len(contents') = c - 1
      /\ \A k \in 1..c-1 : contents'[k] = contents[k + 1]
  BY <1>0, <1>2
<1>4. Front = pread /\ Front' = Ahead(pread, 1) /\ Rear' = Rear
  BY <1>2 DEF Front, Rear, Ahead
<1>5. ppc = "write" => left \in 1..m /\ c + m <= size
  BY DEF RingInv, WriteInv
<1>6. ASSUME NEW k \in 0..size-2
      PROVE  (buf[Ahead(Front, k)] = Holds(k))'
  <2>1. (Ahead(Front, k))' = Ahead(pread, k + 1)
    BY <1>0, <1>2, <1>4 DEF Ahead
  <2>2. buf[Ahead(pread, k + 1)] = Holds(k + 1)
    BY <1>0, <1>4 DEF RingInv, CellInv
  <2>3. Ahead(pread, k + 1) # pread /\ Ahead(pread, k + 1) \in 0..size-1
    BY <1>0 DEF Ahead
  <2>4. buf'[Ahead(pread, k + 1)] = buf[Ahead(pread, k + 1)]
    BY <1>0, <1>2, <2>3 DEF RingInv, TypeOK
  <2>5. (Holds(k))' = Holds(k + 1)
    <3>1. (Holds(k))' = IF k < c - 1 THEN contents'[k + 1]
                        ELSE IF ppc = "write" /\ c - 1 + left <= k /\ k < c - 1 + m
                             THEN batch[k - (c - 1) + 1] ELSE NULL
      BY <1>2, <1>3 DEF Holds
    <3>2. Holds(k + 1) = IF k + 1 < c THEN contents[k + 2]
                         ELSE IF ppc = "write" /\ c + left <= k + 1 /\ k + 1 < c + m
                              THEN batch[k + 1 - c + 1] ELSE NULL
      BY DEF Holds
    <3>3. k < c - 1 => contents'[k + 1] = contents[k + 2]
      BY <1>0, <1>3
    <3>4. k - (c - 1) + 1 = k + 1 - c + 1 /\ (k < c - 1 <=> k + 1 < c)
      BY <1>0
    <3>5. ppc = "write" => /\ c - 1 + left <= k <=> c + left <= k + 1
                           /\ k < c - 1 + m <=> k + 1 < c + m
      BY <1>0, <1>5
    <3>6. QED
      BY <3>1, <3>2, <3>3, <3>4, <3>5
  <2>6. QED
    BY <2>1, <2>2, <2>4, <2>5
<1>7. (buf[Ahead(Front, size - 1)] = Holds(size - 1))'
  <2>1. (Ahead(Front, size - 1))' = pread
    BY <1>0, <1>2, <1>4 DEF Ahead
  <2>2. buf'[pread] = NULL
    BY <1>0, <1>2 DEF RingInv, TypeOK
  <2>3. ~(size - 1 < c - 1)
    BY <1>0
  <2>4. ~(ppc = "write" /\ size - 1 < c - 1 + m)
    BY <1>0, <1>5
  <2>5. (Holds(size - 1))' = NULL
    BY <1>2, <1>3, <2>3, <2>4 DEF Holds
  <2>6. QED
    BY <2>1, <2>2, <2>5
<1>8. CellInv'
  <2>1. ASSUME NEW k \in 0..size-1
        PROVE  (buf[Ahead(Front, k)] = Holds(k))'
    <3>1. CASE k = size - 1
      BY <1>2, <1>7, <3>1
    <3>2. CASE k # size - 1
      BY <1>0, <1>6, <3>2
    <3>3. QED
      BY <3>1, <3>2
  <2>2. QED
    BY <1>2, <2>1 DEF CellInv
<1>9. ProducerInv' /\ ConsumerInv'
  BY <1>2 DEF RingInv, ProducerInv, ConsumerInv
<1>10. WriteInv'
  BY <1>0, <1>2, <1>3, <1>5 DEF WriteInv
<1>11. (Rear = Ahead(Front, Len(contents)))'
  <2>1. Rear = Ahead(pread, c)
    BY <1>4 DEF RingInv
  <2>2. (Ahead(Front, Len(contents)))' = Ahead(pread, c)
    <3>1. (Ahead(Front, Len(contents)))' = Ahead(Ahead(pread, 1), c - 1)
      BY <1>2, <1>3, <1>4 DEF Ahead
    <3>2. Ahead(Ahead(pread, 1), c - 1) = Ahead(pread, c)
      BY <1>0 DEF Ahead
    <3>3. QED
      BY <3>1, <3>2
  <2>3. QED
    BY <1>4, <2>1, <2>2
<1>12. (Len(contents) <= size)'
  BY <1>0, <1>2, <1>3
<1>13. QED
  BY <1>1, <1>8, <1>9, <1>10, <1>11, <1>12 DEF RingInv

\* The consumer empties its cell and moves pread.
LEMMA MoveReadInv ==
  ASSUME RingInv, MoveRead
  PROVE  RingInv'
<1>0. TypeOK'
  BY TypeStep DEF RingNext, Consumer
<1>1. /\ size' = size /\ contents' = contents /\ buf' = buf
      /\ ppc' = ppc /\ batch' = batch /\ left' = left /\ pwrite' = pwrite
      /\ cpc = "advance" /\ cpc' = "outside" /\ pread' = Ahead(pread, 1)
  BY DEF MoveRead, producer
<1>2. Front' = Front /\ Rear' = Rear
  BY <1>1 DEF Front, Rear, Ahead
<1>3. CellInv'
  <2>1. ASSUME NEW k \in 0..size-1
        PROVE  (Ahead(Front, k))' = Ahead(Front, k) /\ (Holds(k))' = Holds(k)
    BY <1>1, <1>2 DEF Ahead, Holds
  <2>2. QED
    BY <1>1, <2>1 DEF RingInv, CellInv
<1>4. ProducerInv' /\ WriteInv' /\ ConsumerInv'
  BY <1>1 DEF RingInv, ProducerInv, WriteInv, ConsumerInv
<1>5. (Rear = Ahead(Front, Len(contents)))' /\ (Len(contents) <= size)'
  BY <1>1, <1>2 DEF RingInv, Ahead
<1>6. QED
  BY <1>0, <1>3, <1>4, <1>5 DEF RingInv

\* reset() empties the ring while nobody uses it.
LEMMA ResetInv ==
  ASSUME RingInv, Reset
  PROVE  RingInv'
<1>0. TypeOK'
  BY TypeStep DEF RingNext
<1>1. /\ size' = size /\ contents' = <<>> /\ ppc' = "outside" /\ cpc' = "outside"
      /\ pread' = 0 /\ pwrite' = 0 /\ buf' = [i \in 0..size-1 |-> NULL]
  BY DEF Reset, producer, consumer
<1>2. size \in Nat \ {0} /\ Len(contents') = 0 /\ Front' = 0 /\ Rear' = 0
  BY <1>1, Places DEF Front, Rear
<1>3. CellInv'
  BY <1>1, <1>2 DEF CellInv, Holds, Ahead
<1>4. ProducerInv' /\ WriteInv' /\ ConsumerInv'
  BY <1>1 DEF ProducerInv, WriteInv, ConsumerInv
<1>5. (Rear = Ahead(Front, Len(contents)))' /\ (Len(contents) <= size)'
  BY <1>1, <1>2 DEF Ahead
<1>6. QED
  BY <1>0, <1>3, <1>4, <1>5 DEF RingInv

\* Nothing changes.
LEMMA StutterInv ==
  ASSUME RingInv, UNCHANGED ringVars
  PROVE  RingInv'
<1>0. TypeOK'
  BY TypeStep
<1>1. /\ size' = size /\ contents' = contents /\ buf' = buf
      /\ ppc' = ppc /\ batch' = batch /\ left' = left /\ pwrite' = pwrite
      /\ cpc' = cpc /\ pread' = pread /\ popped' = popped
  BY DEF ringVars, ring, producer, consumer
<1>2. Front' = Front /\ Rear' = Rear
  BY <1>1 DEF Front, Rear, Ahead
<1>3. CellInv'
  <2>1. ASSUME NEW k \in 0..size-1
        PROVE  (Ahead(Front, k))' = Ahead(Front, k) /\ (Holds(k))' = Holds(k)
    BY <1>1, <1>2 DEF Ahead, Holds
  <2>2. QED
    BY <1>1, <2>1 DEF RingInv, CellInv
<1>4. ProducerInv' /\ WriteInv' /\ ConsumerInv'
  BY <1>1 DEF RingInv, ProducerInv, WriteInv, ConsumerInv
<1>5. (Rear = Ahead(Front, Len(contents)))' /\ (Len(contents) <= size)'
  BY <1>1, <1>2 DEF RingInv, Ahead
<1>6. QED
  BY <1>0, <1>3, <1>4, <1>5 DEF RingInv

\* All steps
LEMMA StepInv == RingInv /\ [RingNext]_ringVars => RingInv'
BY LookInv, WriteCellInv, MoveWriteInv, ReadCellInv, ClearCellInv, MoveReadInv,
   ResetInv, StutterInv DEF RingNext, Producer, Consumer

\* RingInv holds in every reachable state.
THEOREM CellsHoldTheContents == RingSpec => []RingInv
BY InitInv, StepInv, PTL DEF RingSpec

-----------------------------------------------------------------------------
\* For every size and every point at which the other thread may be, a push is
\* refused only when its values do not fit and a pop only when nothing is inside.
THEOREM AnswersAreHonest == RingSpec => []HonestAnswers
<1>1. RingInv => HonestAnswers
  BY RoomIsRoom, FrontIsOldest DEF HonestAnswers
<1>2. QED
  BY <1>1, CellsHoldTheContents, PTL

\* For every size and all batches, each step of the ring is a step of the
\* channel or invisible to its clients.
THEOREM RingImplementsChannel == RingSpec => ImplementsChannel
<1>1. RingInit => Channel!ChInit
  BY DEF RingInit, Channel!ChInit
<1>2. ASSUME RingInv, [RingNext]_ringVars
      PROVE  [Channel!SpscNext]_(Channel!chVars)
  <2> USE <1>2 DEF Channel!SpscNext, Channel!chVars, ring, producer, consumer
  <2>1. CASE \E b \in Batches : Look(b)
    BY <2>1 DEF Look
  <2>2. CASE WriteCell
    <3>1. batch \in Batches
      BY <2>2 DEF WriteCell, RingInv, ProducerInv
    <3>2. CASE left = 1
      BY <2>2, <3>1, <3>2 DEF WriteCell, Channel!PushAll
    <3>3. CASE left # 1
      BY <2>2, <3>3 DEF WriteCell
    <3>4. QED
      BY <3>2, <3>3
  <2>3. CASE MoveWrite \/ ReadCell \/ MoveRead \/ Reset
    BY <2>3 DEF MoveWrite, ReadCell, MoveRead, Reset
  <2>4. CASE ClearCell
    <3>1. contents # <<>> /\ popped = Head(contents)
      BY <2>4, Places DEF ClearCell, RingInv, ConsumerInv
    <3>2. QED
      BY <2>4, <3>1 DEF ClearCell, Channel!Pop
  <2>5. CASE UNCHANGED ringVars
    BY <2>5 DEF ringVars
  <2>6. QED
    BY <2>1, <2>2, <2>3, <2>4, <2>5 DEF RingNext, Producer, Consumer
<1>3. QED
  BY <1>1, <1>2, CellsHoldTheContents, PTL DEF RingSpec, ImplementsChannel, Channel!SpscSpec

-----------------------------------------------------------------------------
(* The barrier                                                             *)

\* A party of threads uses the barrier, each under an index of its own: slot[t] is
\* the place of its flag in barArray.
Party(party, slot) ==
  /\ party \subseteq BarThreads
  /\ slot \in [party -> Tids]
  /\ \A t, u \in party : slot[t] = slot[u] => t = u

BarTypes(party) ==
  /\ team = Cardinality(party)
  /\ barArray \in [Tids -> {0, 1}]
  /\ B \in [{0, 1} -> Nat]
  /\ bpc \in [BarThreads -> {"out", "arrive", "spin", "last"}]
  /\ whichBar \in [BarThreads -> {0, 1}]
  /\ entered \in [BarThreads -> Nat]
  /\ passed \in [BarThreads -> Nat]

\* passed counts the rounds a thread has left, the flags are the parity of entered.
Rounds(party, slot) ==
  \A t \in party : /\ bpc[t] = "out" => passed[t] = entered[t]
                   /\ bpc[t] # "out" => passed[t] + 1 = entered[t]
                   /\ barArray[slot[t]] = entered[t] % 2
                   /\ whichBar[t] = entered[t] % 2

\* Every thread is in round g or in the next.
InRound(party, g) ==
  \A t \in party : \/ entered[t] = g /\ bpc[t] \in {"out", "spin"}
                   \/ entered[t] = g + 1 /\ bpc[t] \in {"arrive", "spin", "last"}

Counted(party, g) == {t \in party : entered[t] = g + 1 /\ bpc[t] \in {"spin", "last"}}

Counters(party, g) == /\ B[g % 2] = 0
                      /\ B[(g + 1) % 2] = Cardinality(Counted(party, g))

\* The last to arrive finds everybody counted, and is the only last one.
LastOne(party, g) ==
  /\ \A t \in party : bpc[t] = "last" => B[(g + 1) % 2] = team
  /\ \A t, u \in party : bpc[t] = "last" /\ bpc[u] = "last" => t = u

RoundInv(party, g) == InRound(party, g) /\ Counters(party, g) /\ LastOne(party, g)

PartyInv(party, slot) ==
  BarTypes(party) /\ Rounds(party, slot) /\ \E g \in Nat : RoundInv(party, g)

\* The barrier alone: all threads use it, under their own numbers.
BarInv == PartyInv(BarThreads, [t \in BarThreads |-> t])

\* The parity of a round is that of the other flag than in the next.
LEMMA Parity ==
  ASSUME NEW g \in Nat
  PROVE  /\ g % 2 \in {0, 1}
         /\ (g + 1) % 2 = 1 - (g % 2)
         /\ (g + 2) % 2 = g % 2
BY SMT

\* The number of counted threads is a number.
LEMMA CountedFinite ==
  ASSUME NEW party \in SUBSET BarThreads, NEW g \in Nat
  PROVE  IsFiniteSet(Counted(party, g)) /\ Cardinality(Counted(party, g)) \in Nat
<1>1. Counted(party, g) \subseteq BarThreads
  BY DEF Counted
<1>2. IsFiniteSet(Counted(party, g))
  BY <1>1, BarAssumption, FS_Subset DEF BarAssumption
<1> QED
  BY <1>2, FS_CardinalityType

\* Before any thread enters, the complete round is round 0.
LEMMA PartyInit ==
  ASSUME NEW party, NEW slot, Party(party, slot), BarStart(Cardinality(party))
  PROVE  PartyInv(party, slot)
<1> USE BarAssumption DEF BarAssumption, Party
<1>1. BarTypes(party)
  BY DEF BarStart, BarTypes
<1>2. Rounds(party, slot)
  <2>1. 0 % 2 = 0
    OBVIOUS
  <2> QED
    BY <2>1 DEF BarStart, Rounds
<1>3. Counted(party, 0) = {}
  BY DEF BarStart, Counted
<1>4. Counters(party, 0)
  BY <1>3, FS_EmptySet DEF BarStart, Counters
<1>5. InRound(party, 0) /\ LastOne(party, 0)
  BY DEF BarStart, InRound, LastOne
<1> QED
  BY <1>1, <1>2, <1>4, <1>5 DEF PartyInv, RoundInv

\* A thread enters the next round, on the other counter.
LEMMA PartyFlipFlag ==
  ASSUME NEW party, NEW slot, Party(party, slot), PartyInv(party, slot),
         NEW t \in party, FlipFlag(t, slot[t])
  PROVE  PartyInv(party, slot)'
<1> USE BarAssumption DEF BarAssumption, Party
<1> PICK g \in Nat : RoundInv(party, g)
  BY DEF PartyInv
<1>1. entered[t] = g /\ bpc[t] = "out" /\ passed[t] = g
  BY DEF PartyInv, FlipFlag, RoundInv, InRound, Rounds, BarTypes
<1>2. BarTypes(party)'
  <2>1. barArray' \in [Tids -> {0, 1}] /\ whichBar' \in [BarThreads -> {0, 1}]
    BY DEF PartyInv, BarTypes, FlipFlag, Flipped
  <2> QED
    BY <2>1 DEF PartyInv, BarTypes, FlipFlag
<1>3. Rounds(party, slot)'
  <2>1. barArray[slot[t]] = g % 2
    BY <1>1 DEF PartyInv, Rounds
  <2>2. barArray'[slot[t]] = (g + 1) % 2 /\ whichBar'[t] = (g + 1) % 2
    BY <2>1, Parity DEF PartyInv, BarTypes, FlipFlag, Flipped
  <2>3. entered'[t] = g + 1 /\ passed'[t] = g /\ bpc'[t] = "arrive"
    BY <1>1 DEF PartyInv, BarTypes, FlipFlag
  <2>4. ASSUME NEW u \in party, u # t
        PROVE  /\ barArray'[slot[u]] = barArray[slot[u]] /\ whichBar'[u] = whichBar[u]
               /\ entered'[u] = entered[u] /\ passed'[u] = passed[u] /\ bpc'[u] = bpc[u]
    BY <2>4 DEF PartyInv, BarTypes, FlipFlag
  <2>5. ASSUME NEW u \in party
        PROVE  /\ bpc'[u] = "out" => passed'[u] = entered'[u]
               /\ bpc'[u] # "out" => passed'[u] + 1 = entered'[u]
               /\ barArray'[slot[u]] = entered'[u] % 2
               /\ whichBar'[u] = entered'[u] % 2
    <3>1. CASE u = t
      BY <3>1, <2>2, <2>3
    <3>2. CASE u # t
      BY <3>2, <2>4 DEF PartyInv, Rounds
    <3> QED
      BY <3>1, <3>2
  <2> QED
    BY <2>5 DEF Rounds
<1>4. InRound(party, g)'
  BY <1>1 DEF PartyInv, BarTypes, RoundInv, InRound, FlipFlag
<1>5. Counted(party, g)' = Counted(party, g)
  BY <1>1 DEF PartyInv, BarTypes, Counted, FlipFlag
<1>6. Counters(party, g)'
  BY <1>5 DEF RoundInv, Counters, FlipFlag
<1>7. LastOne(party, g)'
  BY DEF PartyInv, BarTypes, RoundInv, LastOne, FlipFlag
<1> QED
  BY <1>2, <1>3, <1>4, <1>6, <1>7 DEF PartyInv, RoundInv

\* A thread is counted; the one that completes the count is the last.
LEMMA PartyArrive ==
  ASSUME NEW party, NEW slot, Party(party, slot), PartyInv(party, slot),
         NEW t \in party, Arrive(t)
  PROVE  PartyInv(party, slot)'
<1> USE BarAssumption DEF BarAssumption, Party
<1> PICK g \in Nat : RoundInv(party, g)
  BY DEF PartyInv
<1>1. entered[t] = g + 1 /\ bpc[t] = "arrive" /\ whichBar[t] = (g + 1) % 2
  BY DEF PartyInv, Arrive, RoundInv, InRound, Rounds
<1>0. g % 2 \in {0, 1} /\ (g + 1) % 2 \in {0, 1} /\ g % 2 # (g + 1) % 2
  BY Parity
<1>2. B'[(g + 1) % 2] = B[(g + 1) % 2] + 1 /\ B'[g % 2] = B[g % 2] /\ B' \in [{0, 1} -> Nat]
  BY <1>0, <1>1 DEF PartyInv, BarTypes, Arrive
<1>3. bpc'[t] = IF B[(g + 1) % 2] + 1 = team THEN "last" ELSE "spin"
  BY <1>1 DEF PartyInv, BarTypes, Arrive
<1>4. \A u \in party : u # t => bpc'[u] = bpc[u]
  BY DEF PartyInv, BarTypes, Arrive
<1>5. BarTypes(party)'
  BY <1>2 DEF PartyInv, BarTypes, Arrive, rounds
<1>6. Rounds(party, slot)'
  <2>1. /\ passed' = passed /\ entered' = entered
        /\ barArray' = barArray /\ whichBar' = whichBar /\ bpc'[t] # "out"
    BY <1>3 DEF Arrive, rounds
  <2> QED
    BY <1>1, <1>4, <2>1 DEF PartyInv, Rounds
<1>7. InRound(party, g)'
  BY <1>1, <1>3, <1>4 DEF RoundInv, InRound, Arrive, rounds
<1>8. Counted(party, g)' = Counted(party, g) \cup {t} /\ t \notin Counted(party, g)
  BY <1>1, <1>3, <1>4 DEF Counted, Arrive, rounds
<1>9. Cardinality(Counted(party, g)') = Cardinality(Counted(party, g)) + 1
  BY <1>8, CountedFinite, FS_AddElement
<1>10. Counters(party, g)'
  BY <1>2, <1>9 DEF RoundInv, Counters
<1>11. LastOne(party, g)'
  <2>1. B[(g + 1) % 2] \in Nat
    BY <1>0 DEF PartyInv, BarTypes
  <2>2. team' = team
    BY DEF Arrive
  <2>3. IsFiniteSet(party)
    BY FS_Subset
  <2>4. Cardinality(Counted(party, g)) \in Nat /\ Cardinality(party) \in Nat
    BY <2>3, CountedFinite, FS_CardinalityType
  <2>5. Cardinality(Counted(party, g)') <= Cardinality(party)
    <3>1. Counted(party, g)' \subseteq party
      BY DEF Counted
    <3> QED
      BY <2>3, <3>1, FS_Subset
  <2>6. B[(g + 1) % 2] + 1 <= team
    BY <1>9, <2>5 DEF PartyInv, BarTypes, RoundInv, Counters
  <2>7. \A u \in party : bpc[u] # "last"
    BY <2>1, <2>4, <2>6 DEF PartyInv, BarTypes, RoundInv, LastOne
  <2>8. \A u \in party : bpc'[u] = "last" => u = t /\ B[(g + 1) % 2] + 1 = team
    BY <1>3, <1>4, <2>7
  <2> QED
    BY <2>2, <2>8, <1>2 DEF LastOne
<1> QED
  BY <1>5, <1>6, <1>7, <1>10, <1>11 DEF PartyInv, RoundInv

\* The last one finds everybody in the next round and completes it.
LEMMA PartyResetCounter ==
  ASSUME NEW party, NEW slot, Party(party, slot), PartyInv(party, slot),
         NEW t \in party, ResetCounter(t)
  PROVE  PartyInv(party, slot)'
<1> USE BarAssumption DEF BarAssumption, Party
<1> PICK g \in Nat : RoundInv(party, g)
  BY DEF PartyInv
<1>1. entered[t] = g + 1 /\ bpc[t] = "last" /\ whichBar[t] = (g + 1) % 2
  BY DEF PartyInv, ResetCounter, RoundInv, InRound, Rounds
<1>0. /\ g % 2 \in {0, 1} /\ (g + 1) % 2 \in {0, 1} /\ g % 2 # (g + 1) % 2
      /\ (g + 2) % 2 = g % 2 /\ g + 1 \in Nat
  BY Parity
<1>2. Counted(party, g) = party
  <2>1. Cardinality(Counted(party, g)) = Cardinality(party)
    BY <1>1 DEF PartyInv, BarTypes, RoundInv, Counters, LastOne
  <2>2. Counted(party, g) \subseteq party /\ IsFiniteSet(party)
    BY FS_Subset DEF Counted
  <2> QED
    BY <2>1, <2>2, FS_Subset
<1>3. \A u \in party : entered[u] = g + 1 /\ bpc[u] \in {"spin", "last"}
  BY <1>2 DEF Counted
<1>4. \A u \in party : u # t => bpc[u] = "spin"
  BY <1>1, <1>3 DEF RoundInv, LastOne
<1>5. /\ bpc'[t] = "out" /\ passed'[t] = passed[t] + 1
      /\ \A u \in party : u # t => bpc'[u] = "spin" /\ passed'[u] = passed[u]
      /\ entered' = entered /\ whichBar' = whichBar /\ barArray' = barArray /\ team' = team
  BY <1>4 DEF PartyInv, BarTypes, ResetCounter, Leave
<1>6. B'[(g + 1) % 2] = 0 /\ B'[g % 2] = 0 /\ B' \in [{0, 1} -> Nat]
  BY <1>0, <1>1 DEF PartyInv, BarTypes, ResetCounter, RoundInv, Counters
<1>7. BarTypes(party)'
  BY <1>6 DEF PartyInv, BarTypes, ResetCounter, Leave
<1>8. Rounds(party, slot)'
  BY <1>1, <1>3, <1>5 DEF PartyInv, BarTypes, Rounds
<1>9. InRound(party, g + 1)'
  BY <1>3, <1>5 DEF InRound
<1>10. Counters(party, g + 1)'
  <2>1. Counted(party, g + 1)' = {}
    BY <1>3, <1>5 DEF Counted
  <2>2. g + 1 + 1 = g + 2
    OBVIOUS
  <2> QED
    BY <2>1, <2>2, <1>0, <1>6, FS_EmptySet DEF Counters
<1>11. LastOne(party, g + 1)'
  BY <1>5 DEF LastOne
<1> QED
  BY <1>0, <1>7, <1>8, <1>9, <1>10, <1>11 DEF PartyInv, RoundInv

\* Who sees its counter at 0 is in the complete round.
LEMMA PartySpinEnds ==
  ASSUME NEW party, NEW slot, Party(party, slot), PartyInv(party, slot),
         NEW t \in party, SpinEnds(t)
  PROVE  PartyInv(party, slot)'
<1> USE BarAssumption DEF BarAssumption, Party
<1> PICK g \in Nat : RoundInv(party, g)
  BY DEF PartyInv
<1>1. entered[t] = g
  <2> SUFFICES ASSUME entered[t] # g
               PROVE  FALSE
    OBVIOUS
  <2>1. entered[t] = g + 1 /\ bpc[t] = "spin" /\ whichBar[t] = (g + 1) % 2
    BY DEF PartyInv, SpinEnds, RoundInv, InRound, Rounds
  <2>2. Cardinality(Counted(party, g)) = 0
    BY <2>1 DEF SpinEnds, RoundInv, Counters
  <2>3. t \in Counted(party, g)
    BY <2>1 DEF Counted
  <2> QED
    BY <2>2, <2>3, CountedFinite, FS_EmptySet
<1>2. /\ bpc'[t] = "out" /\ passed'[t] = passed[t] + 1 /\ bpc[t] = "spin"
      /\ \A u \in party : u # t => bpc'[u] = bpc[u] /\ passed'[u] = passed[u]
      /\ entered' = entered /\ whichBar' = whichBar /\ barArray' = barArray
      /\ team' = team /\ B' = B
  BY DEF PartyInv, BarTypes, SpinEnds, Leave
<1>3. BarTypes(party)'
  BY DEF PartyInv, BarTypes, SpinEnds, Leave
<1>4. Rounds(party, slot)'
  BY <1>2 DEF PartyInv, BarTypes, Rounds
<1>5. InRound(party, g)'
  BY <1>1, <1>2 DEF RoundInv, InRound
<1>6. Counted(party, g)' = Counted(party, g)
  BY <1>1, <1>2 DEF Counted
<1>7. Counters(party, g)' /\ LastOne(party, g)'
  BY <1>2, <1>6 DEF RoundInv, Counters, LastOne
<1> QED
  BY <1>3, <1>4, <1>5, <1>7 DEF PartyInv, RoundInv

\* The steps of a thread after its first
LEMMA PartyBarStep ==
  ASSUME NEW party, NEW slot, Party(party, slot), PartyInv(party, slot),
         NEW t \in party, BarStep(t)
  PROVE  PartyInv(party, slot)'
BY PartyArrive, PartyResetCounter, PartySpinEnds DEF BarStep

\* A step of another variable changes nothing here.
LEMMA PartyStutter ==
  ASSUME NEW party, NEW slot, PartyInv(party, slot), UNCHANGED barVars
  PROVE  PartyInv(party, slot)'
BY DEF PartyInv, BarTypes, Rounds, RoundInv, InRound, Counters, Counted, LastOne,
       barVars, barrier, waiting, rounds

\* A thread that has left a round is at most in the one the others are in.
LEMMA PartyTogether ==
  ASSUME NEW party, NEW slot, Party(party, slot), PartyInv(party, slot)
  PROVE  LeaveTogether(party)
<1> SUFFICES ASSUME NEW t \in party, NEW u \in party
             PROVE  passed[t] <= entered[u]
  BY DEF LeaveTogether
<1> PICK g \in Nat : RoundInv(party, g)
  BY DEF PartyInv
<1>1. t \in BarThreads /\ u \in BarThreads
  BY DEF Party
<1>2. passed[t] \in Nat /\ passed[t] <= g
  BY <1>1 DEF PartyInv, BarTypes, Rounds, RoundInv, InRound
<1>3. entered[u] \in Nat /\ g <= entered[u]
  BY <1>1 DEF PartyInv, BarTypes, RoundInv, InRound
<1> QED
  BY <1>2, <1>3

-----------------------------------------------------------------------------
(* All threads under their own numbers: the barrier alone, and the farm    *)

\* They are a party.
LEMMA AllAreAParty ==
  /\ Party(BarThreads, [t \in BarThreads |-> t])
  /\ \A t \in BarThreads : [u \in BarThreads |-> u][t] = t
BY BarAssumption DEF Party, BarAssumption

LEMMA BarInitInv == BarStart(Cardinality(BarThreads)) => BarInv
BY AllAreAParty, PartyInit DEF BarInv

\* A thread enters.
LEMMA FlipFlagInv ==
  ASSUME BarInv, NEW t \in BarThreads, FlipFlag(t, t)
  PROVE  BarInv'
<1> DEFINE own == [u \in BarThreads |-> u]
<1>1. Party(BarThreads, own) /\ own[t] = t
  BY AllAreAParty
<1>2. PartyInv(BarThreads, own)
  BY DEF BarInv
<1> HIDE DEF own
<1>3. FlipFlag(t, own[t])
  BY <1>1
<1>4. PartyInv(BarThreads, own)'
  BY <1>1, <1>2, <1>3, PartyFlipFlag
<1> QED
  BY <1>4 DEF BarInv, own

\* It arrives and leaves.
LEMMA BarStepInv ==
  ASSUME BarInv, NEW t \in BarThreads, BarStep(t)
  PROVE  BarInv'
BY AllAreAParty, PartyBarStep DEF BarInv

LEMMA BarStutter ==
  ASSUME BarInv, UNCHANGED barVars
  PROVE  BarInv'
BY PartyStutter DEF BarInv

\* The rounds of the barrier, for every number of threads: two at a time, and the
\* counters say how many threads have arrived (doBarrier of spinBarrier).
THEOREM TwoRoundsAtATime == BarSpec => []BarInv
<1>1. BarInv /\ [BarNext]_barVars => BarInv'
  <2> SUFFICES ASSUME BarInv, [BarNext]_barVars
               PROVE  BarInv'
    OBVIOUS
  <2>1. ASSUME NEW t \in BarThreads, FlipFlag(t, t) \/ BarStep(t)
        PROVE  BarInv'
    BY <2>1, FlipFlagInv, BarStepInv
  <2>2. CASE UNCHANGED barVars
    BY <2>2, BarStutter
  <2> QED
    BY <2>1, <2>2 DEF BarNext
<1> QED
  BY <1>1, BarInitInv, PTL DEF BarSpec

\* Nobody leaves a round of spinBarrier before everybody has entered it.
THEOREM NobodyLeavesEarly == BarSpec => []LeaveTogether(BarThreads)
<1>1. BarInv => LeaveTogether(BarThreads)
  BY AllAreAParty, PartyTogether DEF BarInv
<1> QED
  BY <1>1, TwoRoundsAtATime, PTL

-----------------------------------------------------------------------------
(* The threads of a farm                                                   *)

\* What threadCounter is between and within the calls of the program.
Spawned == IF hpc = "stopped" THEN 0
           ELSE IF hpc \in {"spawn", "spawn_to_freeze"} THEN at - 1
           ELSE IF hpc \in {"wait", "wait_to_thaw", "join"} THEN NW + 3 - at
           ELSE NW + 2

\* The collector's assertion holds for a program that has waited for the threads to
\* freeze, and for no other.
HostInv == /\ at \in 1..(NW + 2)
           /\ threadCounter = Spawned
           /\ hpc \in {"spawned", "thawed"} => gathering
           /\ hpc = "frozen" => ~gathering

\* A thread about to enter the barrier has its own index.
TidInv == /\ tid \in [Threads -> Nat]
          /\ DOMAIN pc = Threads
          /\ \A t \in Threads : pc[t] = "new" => tid[t] = t

\* The barrier is set up by the first run of the farm, before there are threads,
\* and never reset.
FarmBarrier == \/ BarStart(0) /\ hpc = "stopped" /\ \A t \in Threads : pc[t] = "none"
               \/ team = NW + 2 /\ BarInv

FarmInv == HostInv /\ TidInv /\ FarmBarrier

\* A farm of NW workers has NW + 2 threads.
LEMMA ThreadsCounted == Cardinality(BarThreads) = NW + 2
BY SomeWorkers, OneBarrier, FS_Interval, SMT DEF Threads, Collector

\* The collector comes last in both orders.
LEMMA LastPlace == SpawnOrder[NW + 2] = Collector /\ WaitOrder[NW + 2] = Collector
BY SomeWorkers DEF SpawnOrder, WaitOrder, Emitter, Collector

\* Before the first run.
LEMMA FarmInitInv == Init => FarmInv
<1> SUFFICES ASSUME Init PROVE FarmInv
  OBVIOUS
<1>1. HostInv
  BY SomeWorkers DEF Init, HostInv, Spawned
<1>2. TidInv
  BY DEF Init, TidInv
<1>3. FarmBarrier
  BY DEF Init, BarInit, FarmBarrier
<1> QED
  BY <1>1, <1>2, <1>3 DEF FarmInv

\* A step that leaves the barrier alone after the first run keeps it as it is.
LEMMA BarrierUntouched ==
  ASSUME FarmBarrier, hpc # "stopped", UNCHANGED barVars
  PROVE  FarmBarrier'
<1>1. team = NW + 2 /\ BarInv
  BY DEF FarmBarrier
<1> QED
  BY <1>1, BarStutter DEF FarmBarrier, barVars, barrier

\* The first run sets the barrier up for all threads of the farm, the others
\* leave it alone.
LEMMA SetupInv ==
  ASSUME FarmBarrier, BarrierSetup(FarmCardinality)
  PROVE  FarmBarrier'
<1>1. CASE BarStart(0)
  <2>1. team # FarmCardinality
    BY <1>1, SomeWorkers DEF BarStart, FarmCardinality
  <2>2. BarStart(NW + 2)'
    BY <1>1, <2>1 DEF BarStart, BarrierSetup, FarmCardinality, waiting, rounds
  <2>3. BarStart(Cardinality(BarThreads))'
    BY <2>2, ThreadsCounted
  <2>4. BarInv'
    BY <2>3, BarInitInv, PTL
  <2> QED
    BY <2>2, <2>4 DEF BarStart, FarmBarrier
<1>2. CASE team = NW + 2 /\ BarInv
  <2>1. UNCHANGED barVars
    BY <1>2 DEF BarrierSetup, FarmCardinality, barVars, barrier
  <2> QED
    BY <1>2, <2>1, BarStutter DEF FarmBarrier, barVars, barrier
<1> QED
  BY <1>1, <1>2 DEF FarmBarrier

\* The calls of the program: the counter follows them thread by thread.
LEMMA StartCallInv ==
  ASSUME FarmInv, StartCall
  PROVE  FarmInv'
<1> USE SomeWorkers
<1>1. HostInv'
  <2>1. at' = 1 /\ threadCounter' = threadCounter /\ gathering' = gathering
    BY DEF StartCall, Call, RunAndWaitEnd, EndFrozen, RunThenFreeze, RunFrozen, Wait,
           CallWaitFreezing, farm
  <2>2. \/ hpc = "stopped" /\ hpc' \in {"spawn", "spawn_to_freeze"}
        \/ hpc \in WithThreads /\ hpc' \in {"thaw", "tell_to_stop", "wait", "wait_freezing"}
    BY DEF StartCall, Call, WithThreads, RunAndWaitEnd, EndFrozen, RunThenFreeze, RunFrozen,
           Wait, CallWaitFreezing
  <2> QED
    BY <2>1, <2>2 DEF FarmInv, HostInv, Spawned, WithThreads
<1>2. TidInv'
  BY DEF FarmInv, TidInv, StartCall, RunAndWaitEnd, EndFrozen, RunThenFreeze, RunFrozen,
         Wait, CallWaitFreezing, farm
<1>3. FarmBarrier'
  <2>1. CASE RunAndWaitEnd \/ RunThenFreeze
    BY <2>1, SetupInv DEF FarmInv, RunAndWaitEnd, RunThenFreeze
  <2>2. CASE EndFrozen \/ RunFrozen \/ Wait \/ CallWaitFreezing
    BY <2>2, BarrierUntouched
    DEF FarmInv, EndFrozen, RunFrozen, Wait, CallWaitFreezing, Call, WithThreads
  <2> QED
    BY <2>1, <2>2 DEF StartCall
<1> QED
  BY <1>1, <1>2, <1>3 DEF FarmInv

\* Within a call.
LEMMA InCallInv ==
  ASSUME FarmInv, InCall
  PROVE  FarmInv'
<1> USE SomeWorkers
<1>1. HostInv'
  <2> USE DEF FarmInv, HostInv, Spawned
  <2>1. CASE Spawn
    <3>1. at = NW + 2 => gathering'
      BY <2>1, LastPlace DEF Spawn
    <3>2. /\ hpc \in {"spawn", "spawn_to_freeze"}
          /\ hpc' = (IF at = NW + 2 THEN IF hpc = "spawn" THEN "wait" ELSE "spawned" ELSE hpc)
          /\ at' = (IF at = NW + 2 THEN 1 ELSE at + 1)
          /\ threadCounter' = threadCounter + 1
      BY <2>1 DEF Spawn, Then
    <3> QED
      BY <3>1, <3>2
  <2>2. CASE ThawOne
    <3>1. at = NW + 2 => gathering'
      BY <2>2, LastPlace DEF ThawOne
    <3>2. /\ hpc \in {"thaw", "thaw_to_end"}
          /\ hpc' = (IF at = NW + 2 THEN IF hpc = "thaw" THEN "thawed" ELSE "wait" ELSE hpc)
          /\ at' = (IF at = NW + 2 THEN 1 ELSE at + 1)
          /\ threadCounter' = threadCounter
      BY <2>2 DEF ThawOne, Then
    <3> QED
      BY <3>1, <3>2
  <2>3. CASE WaitFreezing
    <3>1. at = NW + 2 => ~gathering'
      BY <2>3, LastPlace DEF WaitFreezing
    <3>2. /\ hpc = "wait_freezing"
          /\ hpc' = (IF at = NW + 2 THEN "frozen" ELSE hpc)
          /\ at' = (IF at = NW + 2 THEN 1 ELSE at + 1)
          /\ threadCounter' = threadCounter
      BY <2>3 DEF WaitFreezing, Then
    <3> QED
      BY <3>1, <3>2
  <2>4. CASE Abort \/ TellToStop
    BY <2>4 DEF Abort, TellToStop, Then, farm
  <2>5. CASE Stop \/ ThawToStop
    BY <2>5 DEF Stop, ThawToStop, farm
  <2>6. CASE Join
    BY <2>6 DEF Join
  <2> QED
    BY <2>1, <2>2, <2>3, <2>4, <2>5, <2>6 DEF InCall
<1>2. TidInv'
  <2>1. CASE Spawn
    <3>1. SpawnOrder[at] = at - 1 /\ threadCounter = at - 1 /\ at - 1 \in Nat
      BY <2>1 DEF FarmInv, HostInv, Spawned, Spawn, SpawnOrder
    <3> QED
      BY <2>1, <3>1 DEF FarmInv, TidInv, Spawn
  <2>2. CASE Join
    BY <2>2 DEF FarmInv, TidInv, Join
  <2>3. CASE ThawOne \/ Abort \/ TellToStop \/ WaitFreezing \/ Stop \/ ThawToStop
    BY <2>3 DEF FarmInv, TidInv, ThawOne, Abort, TellToStop, WaitFreezing, Stop, ThawToStop,
                farm
  <2> QED
    BY <2>1, <2>2, <2>3 DEF InCall
<1>3. FarmBarrier'
  <2>1. hpc # "stopped" /\ UNCHANGED barVars
    BY DEF InCall, Spawn, ThawOne, Abort, TellToStop, WaitFreezing, Stop, ThawToStop, Join
  <2> QED
    BY <2>1, BarrierUntouched DEF FarmInv
<1> QED
  BY <1>1, <1>2, <1>3 DEF FarmInv

\* The threads: they enter the barrier under their own index.
LEMMA ThreadStepInv ==
  ASSUME FarmInv, NEW t \in Threads, ThreadStep(t)
  PROVE  FarmInv'
<1>1. UNCHANGED host
  BY DEF ThreadStep, Enter, Cross, Svc, Freeze, GoOn, WakeUp, LoopOrLeave, Finish, LastWord
<1>2. HostInv'
  BY <1>1 DEF FarmInv, HostInv, Spawned, host, farm
<1>3. TidInv'
  <2>1. PICK to \in {"barrier", "svc", "mutex", "parked", "while", "leave", "last_word",
                     "done"} : pc' = [pc EXCEPT ![t] = to]
    BY DEF ThreadStep, Enter, Cross, Svc, Freeze, GoOn, WakeUp, LoopOrLeave, Finish,
           LastWord, Goto
  <2> QED
    BY <1>1, <2>1 DEF FarmInv, TidInv, host, farm
<1>4. FarmBarrier'
  <2>1. BarInv /\ team = NW + 2
    <3>1. pc[t] # "none"
      BY DEF ThreadStep, Enter, Cross, Svc, Freeze, GoOn, WakeUp, LoopOrLeave, Finish, LastWord
    <3> QED
      BY <3>1 DEF FarmInv, FarmBarrier
  <2>2. CASE Enter(t)
    <3>1. tid[t] = t /\ t \in BarThreads
      BY <2>2, OneBarrier DEF FarmInv, TidInv, Enter
    <3>2. FlipFlag(t, t)
      BY <2>2, <3>1 DEF Enter
    <3>3. BarInv'
      BY <2>1, <3>1, <3>2, FlipFlagInv
    <3> QED
      BY <2>1, <3>2, <3>3 DEF FarmBarrier, FlipFlag
  <2>3. CASE Cross(t)
    <3>1. t \in BarThreads /\ BarStep(t)
      BY <2>3, OneBarrier DEF Cross
    <3>2. BarInv'
      BY <2>1, <3>1, BarStepInv
    <3>3. team' = team
      BY <3>1 DEF BarStep, Arrive, ResetCounter, SpinEnds, Leave
    <3> QED
      BY <2>1, <3>2, <3>3 DEF FarmBarrier
  <2>4. CASE UNCHANGED barVars
    <3>1. BarInv' /\ team' = team
      BY <2>1, <2>4, BarStutter DEF barVars, barrier
    <3> QED
      BY <2>1, <3>1 DEF FarmBarrier
  <2> QED
    BY <2>2, <2>3, <2>4
    DEF ThreadStep, Svc, Freeze, GoOn, WakeUp, LoopOrLeave, Finish, LastWord
<1> QED
  BY <1>2, <1>3, <1>4 DEF FarmInv

\* Nothing moves.
LEMMA FarmStutter ==
  ASSUME FarmInv, UNCHANGED vars
  PROVE  FarmInv'
<1>1. HostInv' /\ TidInv'
  BY DEF FarmInv, HostInv, Spawned, TidInv, vars, host, farm
<1>2. FarmBarrier'
  <2>1. CASE BarStart(0) /\ hpc = "stopped" /\ \A t \in Threads : pc[t] = "none"
    BY <2>1 DEF FarmBarrier, BarStart, vars, host, barVars, barrier, waiting, rounds
  <2>2. CASE team = NW + 2 /\ BarInv
    BY <2>2, BarStutter DEF FarmBarrier, vars, barVars, barrier
  <2> QED
    BY <2>1, <2>2 DEF FarmInv, FarmBarrier
<1> QED
  BY <1>1, <1>2 DEF FarmInv

\* The barrier and the tids of the farm stay in order through every run.
THEOREM FarmBarrierInOrder == Spec => []FarmInv
<1>1. FarmInv /\ [Next]_vars => FarmInv'
  <2> SUFFICES ASSUME FarmInv, [Next]_vars
               PROVE  FarmInv'
    OBVIOUS
  <2>1. CASE StartCall
    BY <2>1, StartCallInv
  <2>2. CASE InCall
    BY <2>2, InCallInv
  <2>3. ASSUME NEW t \in Threads, ThreadStep(t)
        PROVE  FarmInv'
    BY <2>3, ThreadStepInv
  <2>4. CASE UNCHANGED vars
    BY <2>4, FarmStutter
  <2> QED
    BY <2>1, <2>2, <2>3, <2>4 DEF Next
<1> QED
  BY <1>1, FarmInitInv, PTL DEF Spec

\* No thread of a farm starts its node before all threads have been spawned and
\* have reached the barrier, in each run of the farm.
THEOREM ThreadsStartTogether == Spec => []StartTogether
<1>1. FarmInv => StartTogether
  <2>1. CASE BarStart(0)
    BY <2>1, OneBarrier DEF BarStart, StartTogether, LeaveTogether
  <2>2. CASE BarInv
    BY <2>2, OneBarrier, AllAreAParty, PartyTogether DEF BarInv, StartTogether
  <2> QED
    BY <2>1, <2>2 DEF FarmInv, FarmBarrier
<1> QED
  BY <1>1, FarmBarrierInOrder, PTL
-----------------------------------------------------------------------------
(* What the threads do in each run                                         *)

\* How much one thing counts in a sum
One(condition) == IF condition THEN 1 ELSE 0

\* The place of thread t in WaitOrder
WaitPlace(t) == IF t \in Workers THEN t ELSE IF t = Emitter THEN NW + 1 ELSE NW + 2

\* A call that thaws the threads before the program has waited for them ends at the
\* collector's assertion.
Doomed == \/ hpc = "aborted"
          \/ hpc \in {"thaw", "tell_to_stop", "thaw_to_end"} /\ gathering

\* Thread t has still to run its node in this run of the farm.
Due(t) == \/ pc[t] = "none" /\ hpc \in {"spawn", "spawn_to_freeze"}
          \/ pc[t] \in {"new", "barrier", "svc"}
          \/ pc[t] = "while" /\ ~stp[t]
          \/ pc[t] = "parked" /\ (freezing[t] = 2 \/ (hpc = "thaw" /\ at <= t + 1))

Thawing == {"thaw", "thawed", "wait_freezing"}
Waiting == {"wait", "wait_to_thaw", "join"}

\* A thread that has parked, or says a last word, is frozen until it is thawed; it
\* goes around its loop again only if it has been thawed to run.
FlagInv(t) ==
  /\ frozen[t] <=> pc[t] \in {"parked", "done"} /\ freezing[t] = 1
  /\ freezing[t] = 0 => stp[t]
  /\ freezing[t] = 2 => pc[t] = "parked" /\ ~stp[t] /\ hpc \in Thawing
  /\ pc[t] = "while" /\ ~stp[t] => freezing[t] = 1 /\ hpc \in Thawing
  /\ pc[t] \in {"leave", "last_word", "done"} => stp[t]
  /\ pc[t] = "last_word" => freezing[t] = 1

\* How far the program's call has got with thread t
CallInv(t) ==
  /\ hpc = "stopped" => pc[t] = "none" /\ freezing[t] = 0
  /\ hpc = "spawn" => freezing[t] = 0 /\ (pc[t] = "none" <=> at <= t + 1)
  /\ hpc = "spawn_to_freeze" => ~stp[t] /\ (pc[t] = "none" <=> at <= t + 1)
  /\ hpc \in Thawing \cup {"spawned", "frozen"} => ~stp[t] /\ pc[t] # "none"
  /\ hpc = "thaw" /\ at <= t + 1 => frozen[t]
  /\ hpc = "wait_freezing" /\ WaitPlace(t) < at => frozen[t]
  /\ hpc = "frozen" => frozen[t]
  /\ hpc = "tell_to_stop" => frozen[t] /\ pc[t] = "parked" /\ (WaitPlace(t) < at => stp[t])
  /\ hpc = "thaw_to_end" => pc[t] # "none" /\ stp[t] /\ (at <= t + 1 => frozen[t])
  /\ hpc \in Waiting => IF WaitPlace(t) < at THEN pc[t] = "none" /\ freezing[t] = 0
                        ELSE pc[t] # "none"
  /\ hpc = "wait_to_thaw" /\ WaitPlace(t) = at => stp[t] /\ freezing[t] = 1
  /\ hpc = "join" /\ WaitPlace(t) = at => freezing[t] = 0

\* One EOS from the emitter for each worker, one from each worker for the collector
StreamInv ==
  /\ \A t \in Threads : runs[t] + One(Due(t)) + cutOff = asked
  /\ eos[Emitter] = 0
  /\ \A w \in Workers : eos[w] + runs[w] = runs[Emitter]
  /\ IF Due(Collector) THEN eos[Collector] = Cardinality({w \in Workers : ~Due(w)})
     ELSE eos[Collector] = 0 /\ \A w \in Workers : ~Due(w)

InOrder == (\A t \in Threads : FlagInv(t) /\ CallInv(t)) /\ StreamInv

\* The types of the threads' variables
RestTypes ==
  /\ asked \in Nat /\ cutOff \in Nat
  /\ stp \in [Threads -> BOOLEAN] /\ frozen \in [Threads -> BOOLEAN]
  /\ freezing \in [Threads -> {0, 1, 2}]
  /\ pc \in [Threads -> {"none", "new", "barrier", "svc", "mutex", "parked", "while",
                         "leave", "last_word", "done"}]
  /\ runs \in [Threads -> Nat] /\ eos \in [Threads -> Nat]

\* Where each thread is in this run of the farm, and what it will do next, unless the
\* program is about to abort
RestInv == RestTypes /\ (Doomed \/ InOrder)

-----------------------------------------------------------------------------
(* The steps of the threads                                                *)

\* The waiting order has a place for each thread.
LEMMA WaitPlaces ==
  ASSUME HostInv
  PROVE  /\ WaitOrder[at] \in Threads
         /\ \A t \in Threads : /\ WaitPlace(t) \in 1..(NW + 2)
                               /\ WaitOrder[at] = t <=> WaitPlace(t) = at
BY SomeWorkers DEF HostInv, WaitOrder, WaitPlace, Threads, Workers, Emitter, Collector

\* What a step of another thread does not change
LEMMA ThreadFrame ==
  ASSUME NEW t \in Threads, FlagInv(t), CallInv(t), hpc' = hpc, at' = at,
         pc'[t] = pc[t], stp'[t] = stp[t], freezing'[t] = freezing[t],
         frozen'[t] = frozen[t]
  PROVE  FlagInv(t)' /\ CallInv(t)' /\ (Due(t)' <=> Due(t))
BY DEF FlagInv, CallInv, Due, WaitPlace, Waiting, Thawing

\* Where a thread is and what its flags are after a step of its own
LEMMA ThreadMoves ==
  ASSUME RestTypes, NEW t \in Threads, ThreadStep(t)
  PROVE  /\ UNCHANGED host
         /\ \A u \in Threads \ {t} : /\ pc'[u] = pc[u] /\ stp'[u] = stp[u]
                                     /\ freezing'[u] = freezing[u] /\ frozen'[u] = frozen[u]
         /\ ~Svc(t) => UNCHANGED <<runs, eos>>
<1>1. UNCHANGED host /\ (~Svc(t) => UNCHANGED <<runs, eos>>)
  BY DEF ThreadStep, Enter, Cross, Svc, Freeze, GoOn, WakeUp, LoopOrLeave, Finish, LastWord
<1>2. \A u \in Threads \ {t} : pc'[u] = pc[u]
  BY DEF RestTypes, ThreadStep, Enter, Cross, Svc, Freeze, GoOn, WakeUp, LoopOrLeave, Finish,
         LastWord, Goto
<1>3. \A u \in Threads \ {t} : stp'[u] = stp[u]
  BY DEF RestTypes, ThreadStep, Enter, Cross, Svc, Freeze, GoOn, WakeUp, LoopOrLeave, Finish,
         LastWord, flags
<1>4. \A u \in Threads \ {t} : freezing'[u] = freezing[u]
  BY DEF RestTypes, ThreadStep, Enter, Cross, Svc, Freeze, GoOn, WakeUp, LoopOrLeave, Finish,
         LastWord, flags, AgainNextTime
<1>5. \A u \in Threads \ {t} : frozen'[u] = frozen[u]
  BY DEF RestTypes, ThreadStep, Enter, Cross, Svc, Freeze, GoOn, WakeUp, LoopOrLeave, Finish,
         LastWord, flags
<1>6. QED
  BY <1>1, <1>2, <1>3, <1>4, <1>5

\* A thread keeps the order of its flags, and only svc() is what it is due to do.
LEMMA ThreadEffect ==
  ASSUME RestTypes, NEW t \in Threads, FlagInv(t), CallInv(t), ThreadStep(t)
  PROVE  /\ FlagInv(t)' /\ CallInv(t)'
         /\ IF Svc(t) THEN Due(t) /\ ~Due(t)' ELSE Due(t)' <=> Due(t)
<1> USE DEF FlagInv, CallInv, Due, WaitPlace, Waiting, Thawing
<1>0. hpc' = hpc /\ at' = at
  BY ThreadMoves DEF host
<1>1. CASE Enter(t)
  <2>1. /\ pc[t] = "new" /\ pc'[t] = "barrier" /\ stp'[t] = stp[t]
        /\ freezing'[t] = freezing[t] /\ frozen'[t] = frozen[t]
    BY <1>1 DEF Enter, Goto, flags, RestTypes
  <2>2. ~Svc(t)
    BY <2>1 DEF Svc
  <2>3. QED
    BY <1>0, <2>1, <2>2
<1>2. CASE Cross(t)
  <2>1. /\ pc[t] = "barrier" /\ pc'[t] \in {"barrier", "svc"} /\ stp'[t] = stp[t]
        /\ freezing'[t] = freezing[t] /\ frozen'[t] = frozen[t]
    BY <1>2 DEF Cross, Goto, flags, RestTypes
  <2>2. ~Svc(t)
    BY <2>1 DEF Svc
  <2>3. QED
    BY <1>0, <2>1, <2>2
<1>3. CASE Svc(t)
  <2>1. /\ pc[t] = "svc" /\ pc'[t] = "mutex" /\ stp'[t] = stp[t]
        /\ freezing'[t] = freezing[t] /\ frozen'[t] = frozen[t]
    BY <1>3 DEF Svc, Goto, flags, RestTypes
  <2>2. QED
    BY <1>0, <1>3, <2>1
<1>4. CASE Freeze(t)
  <2>1. /\ pc[t] = "mutex" /\ pc'[t] = "parked" /\ stp'[t] = stp[t] /\ ~stp[t]
        /\ freezing[t] = 1 /\ freezing'[t] = 1 /\ frozen'[t] = TRUE
    BY <1>4 DEF Freeze, Goto, RestTypes
  <2>2. ~Svc(t)
    BY <2>1 DEF Svc
  <2>3. QED
    BY <1>0, <2>1, <2>2
<1>5. CASE GoOn(t)
  <2>1. /\ pc[t] = "mutex" /\ pc'[t] = "while" /\ frozen'[t] = frozen[t]
        /\ stp[t] \/ freezing[t] # 1
        /\ freezing'[t] = IF freezing[t] # 0 THEN 1 ELSE 0
    BY <1>5 DEF GoOn, Goto, AgainNextTime, RestTypes
  <2>2. ~Svc(t)
    BY <2>1 DEF Svc
  <2>3. stp[t]
    BY <2>1 DEF RestTypes
  <2>4. stp'[t]
    BY <1>5, <2>3 DEF GoOn, RestTypes
  <2>5. freezing'[t] = freezing[t]
    BY <2>1, <2>3 DEF RestTypes
  <2>6. QED
    BY <1>0, <2>1, <2>2, <2>3, <2>4, <2>5
<1>6. CASE WakeUp(t)
  <2>1. /\ pc[t] = "parked" /\ pc'[t] = "while" /\ frozen'[t] = frozen[t]
        /\ stp'[t] = stp[t] /\ freezing[t] \in {0, 2}
        /\ freezing'[t] = IF freezing[t] # 0 THEN 1 ELSE 0
    BY <1>6 DEF WakeUp, Goto, AgainNextTime, RestTypes
  <2>2. ~Svc(t)
    BY <2>1 DEF Svc
  <2>3. QED
    BY <1>0, <2>1, <2>2
<1>7. CASE LoopOrLeave(t)
  <2>1. /\ pc[t] = "while" /\ pc'[t] = (IF stp[t] THEN "leave" ELSE "svc")
        /\ stp'[t] = stp[t] /\ freezing'[t] = freezing[t] /\ frozen'[t] = frozen[t]
    BY <1>7 DEF LoopOrLeave, Goto, flags, RestTypes
  <2>2. ~Svc(t)
    BY <2>1 DEF Svc
  <2>3. QED
    BY <1>0, <2>1, <2>2
<1>8. CASE Finish(t)
  <2>1. /\ pc[t] = "leave" /\ pc'[t] = (IF freezing[t] > 0 THEN "last_word" ELSE "done")
        /\ stp'[t] = stp[t] /\ freezing'[t] = freezing[t] /\ frozen'[t] = frozen[t]
        /\ freezing[t] \in {0, 1, 2}
    BY <1>8 DEF Finish, Goto, flags, RestTypes
  <2>2. ~Svc(t)
    BY <2>1 DEF Svc
  <2>3. QED
    BY <1>0, <2>1, <2>2
<1>9. CASE LastWord(t)
  <2>1. /\ pc[t] = "last_word" /\ pc'[t] = "done" /\ stp'[t] = stp[t]
        /\ freezing'[t] = freezing[t] /\ frozen'[t] = TRUE
    BY <1>9 DEF LastWord, Goto, RestTypes
  <2>2. ~Svc(t)
    BY <2>1 DEF Svc
  <2>3. QED
    BY <1>0, <2>1, <2>2
<1>10. QED
  BY <1>1, <1>2, <1>3, <1>4, <1>5, <1>6, <1>7, <1>8, <1>9 DEF ThreadStep

\* The types of the threads' variables, after a step of a thread
LEMMA ThreadTypes ==
  ASSUME RestTypes, NEW t \in Threads, ThreadStep(t)
  PROVE  RestTypes'
<1>1. asked' = asked /\ cutOff' = cutOff
  BY ThreadMoves DEF host, calls
<1>2. pc' \in [Threads -> {"none", "new", "barrier", "svc", "mutex", "parked", "while",
                           "leave", "last_word", "done"}]
  <2>1. PICK to \in {"barrier", "svc", "mutex", "parked", "while", "leave", "last_word",
                     "done"} : pc' = [pc EXCEPT ![t] = to]
    BY DEF ThreadStep, Enter, Cross, Svc, Freeze, GoOn, WakeUp, LoopOrLeave, Finish,
           LastWord, Goto
  <2>2. QED
    BY <2>1 DEF RestTypes
<1>3. stp' \in [Threads -> BOOLEAN] /\ frozen' \in [Threads -> BOOLEAN]
  BY DEF RestTypes, ThreadStep, Enter, Cross, Svc, Freeze, GoOn, WakeUp, LoopOrLeave, Finish,
         LastWord, flags
<1>4. freezing' \in [Threads -> {0, 1, 2}]
  BY DEF RestTypes, ThreadStep, Enter, Cross, Svc, Freeze, GoOn, WakeUp, LoopOrLeave, Finish,
         LastWord, flags, AgainNextTime
<1>5. runs' \in [Threads -> Nat] /\ eos' \in [Threads -> Nat]
  <2>1. CASE ~Svc(t)
    BY <2>1, ThreadMoves DEF RestTypes
  <2>2. CASE Svc(t)
    <3>1. runs' \in [Threads -> Nat]
      BY <2>2 DEF Svc, RestTypes
    <3>2. CASE t = Emitter
      BY <2>2, <3>2 DEF Svc, Sent, RestTypes
    <3>3. CASE t = Collector
      <4>1. eos[t] \in Nat /\ eos[t] >= NW /\ NW \in Nat /\ Collector # Emitter
        BY <2>2, <3>3, SomeWorkers DEF Svc, RestTypes, Collector, Emitter
      <4>2. eos' = [eos EXCEPT ![t] = eos[t] - NW] /\ eos[t] - NW \in Nat
        BY <2>2, <3>3, <4>1 DEF Svc, Sent
      <4>3. QED
        BY <3>1, <4>2 DEF RestTypes
    <3>4. CASE t \in Workers
      <4>1. /\ eos[t] \in Nat /\ eos[t] > 0 /\ eos[Collector] \in Nat
            /\ t # Collector /\ t # Emitter /\ Collector \in Threads
        BY <2>2, <3>4, SomeWorkers DEF Svc, RestTypes, Collector, Emitter, Workers, Threads
      <4>2. eos' = [eos EXCEPT ![t] = eos[t] - 1, ![Collector] = eos[Collector] + 1]
        BY <2>2, <4>1 DEF Svc, Sent
      <4>3. eos[t] - 1 \in Nat /\ eos[Collector] + 1 \in Nat
        BY <4>1
      <4>4. QED
        BY <3>1, <4>2, <4>3 DEF RestTypes
    <3>5. QED
      BY <3>2, <3>3, <3>4, SomeWorkers DEF Threads, Workers, Emitter, Collector
  <2>3. QED
    BY <2>1, <2>2
<1>6. QED
  BY <1>1, <1>2, <1>3, <1>4, <1>5 DEF RestTypes

\* As many runs as before: one more may be asked for, but cut off.
NoRunAdded == \E n \in {0, 1} : asked' = asked + n /\ cutOff' = cutOff + n

\* No run is added unless a call asks for it.
LEMMA NoCallNoRun ==
  ASSUME RestTypes, UNCHANGED calls
  PROVE  NoRunAdded
BY DEF RestTypes, calls, NoRunAdded

\* The stream is where it was if nobody runs its node and everybody stays as due
\* as it was; a run that is asked for and cut off does not count.
LEMMA StreamFrame ==
  ASSUME RestTypes, StreamInv, UNCHANGED <<runs, eos>>,
         NoRunAdded, \A t \in Threads : Due(t)' <=> Due(t)
  PROVE  StreamInv'
<1>1. Emitter \in Threads /\ Collector \in Threads /\ Workers \subseteq Threads
  BY SomeWorkers DEF Threads, Workers, Emitter, Collector
<1>2. \A t \in Threads : runs'[t] + One(Due(t)') + cutOff' = asked'
  <2> TAKE t \in Threads
  <2>1. runs[t] + One(Due(t)) + cutOff = asked /\ runs[t] + One(Due(t)) \in Nat
    BY DEF StreamInv, RestTypes, One
  <2>2. One(Due(t)') = One(Due(t)) /\ runs'[t] = runs[t]
    BY DEF One
  <2>3. asked \in Nat /\ cutOff \in Nat /\ runs[t] \in Nat /\ One(Due(t)) \in Nat
    BY DEF RestTypes, One
  <2>4. runs[t] + One(Due(t)) + cutOff' = asked'
    BY <2>1, <2>3 DEF NoRunAdded
  <2>5. QED
    BY <2>2, <2>4
<1>3. {w \in Workers : ~Due(w)'} = {w \in Workers : ~Due(w)}
  BY <1>1
<1>4. QED
  BY <1>1, <1>2, <1>3 DEF StreamInv

\* A thread runs its node: the emitter sends the EOS, a worker passes its own on,
\* and the collector has them all, because it has as many as there are workers.
LEMMA StreamStep ==
  ASSUME RestTypes, StreamInv, NEW t \in Threads, Svc(t), Due(t), ~Due(t)',
         asked' = asked, cutOff' = cutOff, \A u \in Threads \ {t} : Due(u)' <=> Due(u)
  PROVE  StreamInv'
<1>1. /\ Emitter \in Threads /\ Collector \in Threads /\ Workers \subseteq Threads
      /\ Emitter \notin Workers /\ Collector \notin Workers /\ Emitter # Collector
      /\ Threads = Workers \cup {Emitter, Collector} /\ NW \in Nat \ {0}
  BY SomeWorkers DEF Threads, Workers, Emitter, Collector
<1>2. /\ runs \in [Threads -> Nat] /\ eos \in [Threads -> Nat]
      /\ asked \in Nat /\ cutOff \in Nat
      /\ runs' = [runs EXCEPT ![t] = @ + 1] /\ eos' = Sent(t)
  BY DEF RestTypes, Svc
<1>3. runs[t] + 1 + cutOff = asked
  BY DEF StreamInv, One
<1>4. \A u \in Threads : runs'[u] + One(Due(u)') + cutOff' = asked'
  <2> TAKE u \in Threads
  <2>1. CASE u = t
    BY <1>2, <1>3, <2>1 DEF One
  <2>2. CASE u # t
    <3>1. runs'[u] = runs[u] /\ runs[u] + One(Due(u)) + cutOff = asked
      BY <1>2, <2>2 DEF StreamInv
    <3>2. QED
      BY <2>2, <3>1 DEF One
  <2>3. QED
    BY <2>1, <2>2
<1>5. IsFiniteSet({w \in Workers : ~Due(w)}) /\ IsFiniteSet(Workers) /\ Cardinality(Workers) = NW
  <2>1. IsFiniteSet(Workers) /\ Cardinality(Workers) = NW
    BY <1>1, FS_Interval, SMT DEF Workers
  <2>2. QED
    BY <2>1, FS_Subset
<1>6. CASE t = Emitter
  <2>1. eos' = [u \in Threads |-> IF u \in Workers THEN eos[u] + 1 ELSE eos[u]]
    BY <1>2, <1>6 DEF Sent
  <2>2. eos'[Emitter] = 0 /\ eos'[Collector] = eos[Collector]
    BY <1>1, <2>1 DEF StreamInv
  <2>3. \A w \in Workers : eos'[w] + runs'[w] = runs'[Emitter]
    BY <1>1, <1>2, <1>6, <2>1 DEF StreamInv
  <2>4. {w \in Workers : ~Due(w)'} = {w \in Workers : ~Due(w)} /\ (Due(Collector)' <=> Due(Collector))
    BY <1>1, <1>6
  <2>5. QED
    BY <1>1, <1>4, <1>6, <2>2, <2>3, <2>4 DEF StreamInv
<1>7. CASE t \in Workers
  <2>1. eos' = [eos EXCEPT ![t] = eos[t] - 1, ![Collector] = eos[Collector] + 1]
    BY <1>1, <1>2, <1>7 DEF Sent
  <2>2. /\ eos'[Emitter] = 0 /\ eos'[Collector] = eos[Collector] + 1
        /\ \A w \in Workers : eos'[w] = IF w = t THEN eos[w] - 1 ELSE eos[w]
    BY <1>1, <1>2, <1>7, <2>1 DEF StreamInv
  <2>3. \A w \in Workers : eos'[w] + runs'[w] = runs'[Emitter]
    BY <1>1, <1>2, <1>7, <2>2 DEF StreamInv
  <2>4. Due(Collector) /\ Due(Collector)'
    BY <1>1, <1>7 DEF StreamInv
  <2>5. {w \in Workers : ~Due(w)'} = {w \in Workers : ~Due(w)} \cup {t}
    BY <1>1, <1>7
  <2>6. Cardinality({w \in Workers : ~Due(w)'}) = Cardinality({w \in Workers : ~Due(w)}) + 1
    BY <1>5, <2>5, FS_AddElement
  <2>7. eos'[Collector] = Cardinality({w \in Workers : ~Due(w)'})
    BY <2>2, <2>4, <2>6 DEF StreamInv
  <2>8. QED
    BY <1>4, <2>2, <2>3, <2>4, <2>7 DEF StreamInv
<1>8. CASE t = Collector
  <2>1. eos' = [eos EXCEPT ![t] = eos[t] - NW] /\ eos[t] >= NW
    BY <1>1, <1>2, <1>8 DEF Sent, Svc
  <2>2. \A u \in Threads \ {t} : eos'[u] = eos[u] /\ runs'[u] = runs[u]
    BY <1>2, <2>1
  <2>3. eos'[Emitter] = 0 /\ \A w \in Workers : eos'[w] + runs'[w] = runs'[Emitter]
    BY <1>1, <1>8, <2>2 DEF StreamInv
  <2>4. eos[t] = Cardinality({w \in Workers : ~Due(w)})
    BY <1>8 DEF StreamInv
  <2>5. {w \in Workers : ~Due(w)} = Workers /\ eos[t] = NW
    <3>1. Cardinality({w \in Workers : ~Due(w)}) <= NW
      BY <1>5, FS_Subset
    <3>2. eos[t] = NW
      BY <1>1, <1>2, <2>1, <2>4, <3>1
    <3>3. QED
      BY <1>5, <2>4, <3>2, FS_Subset
  <2>6. eos'[Collector] = 0
    BY <1>1, <1>2, <1>8, <2>1, <2>5
  <2>7. \A w \in Workers : ~Due(w)'
    BY <1>1, <1>8, <2>5
  <2>8. QED
    BY <1>4, <1>8, <2>3, <2>6, <2>7 DEF StreamInv
<1>9. QED
  BY <1>1, <1>6, <1>7, <1>8

\* Any step of a thread
LEMMA ThreadStepRest ==
  ASSUME RestTypes, InOrder, NEW t \in Threads, ThreadStep(t)
  PROVE  InOrder'
<1>1. StreamInv /\ \A u \in Threads : FlagInv(u) /\ CallInv(u)
  BY DEF InOrder
<1>2. hpc' = hpc /\ at' = at /\ UNCHANGED calls
  BY ThreadMoves DEF host
<1>3. /\ FlagInv(t)' /\ CallInv(t)'
      /\ IF Svc(t) THEN Due(t) /\ ~Due(t)' ELSE Due(t)' <=> Due(t)
  BY <1>1, ThreadEffect
<1>4. \A u \in Threads \ {t} : FlagInv(u)' /\ CallInv(u)' /\ (Due(u)' <=> Due(u))
  <2> TAKE u \in Threads \ {t}
  <2>1. /\ pc'[u] = pc[u] /\ stp'[u] = stp[u]
        /\ freezing'[u] = freezing[u] /\ frozen'[u] = frozen[u]
    BY <1>1, ThreadMoves
  <2>2. QED
    BY <1>1, <1>2, <2>1, ThreadFrame
<1>5. \A u \in Threads : FlagInv(u)' /\ CallInv(u)'
  BY <1>3, <1>4
<1>6. asked' = asked /\ cutOff' = cutOff /\ NoRunAdded
  BY <1>2, NoCallNoRun DEF calls
<1>7. StreamInv'
  <2>1. CASE Svc(t)
    BY <1>1, <1>3, <1>4, <1>6, <2>1, StreamStep
  <2>2. CASE ~Svc(t)
    <3>1. \A u \in Threads : Due(u)' <=> Due(u)
      BY <1>3, <1>4, <2>2
    <3>2. runs' = runs /\ eos' = eos
      BY <1>1, <2>2, ThreadMoves
    <3>3. QED
      BY <1>1, <1>6, <3>1, <3>2, StreamFrame
  <2>3. QED
    BY <2>1, <2>2
<1>8. QED
  BY <1>5, <1>7 DEF InOrder

-----------------------------------------------------------------------------
(* The steps of the program                                                *)

\* The flags of the threads after a step of the program: it changes those of one
\* thread at most.
LEMMA CallTypes ==
  ASSUME RestTypes, HostInv, StartCall \/ InCall
  PROVE  RestTypes'
<1>1. SpawnOrder[at] \in Threads /\ WaitOrder[at] \in Threads
  BY WaitPlaces, SomeWorkers DEF HostInv, SpawnOrder, Threads, Collector
<1>2. CASE StartCall
  <2>1. CASE RunAndWaitEnd \/ RunThenFreeze
    <3>1. /\ asked' = asked + 1 /\ UNCHANGED <<cutOff, pc, runs, eos>>
          /\ stp' \in [Threads -> BOOLEAN]
          /\ \/ freezing' = ForNewThreads(freezing, 0)
             \/ freezing' = [t \in Threads |-> 1]
          /\ frozen' = ForNewThreads(frozen, FALSE)
      BY <2>1 DEF RunAndWaitEnd, RunThenFreeze, AskedForRun
    <3>2. freezing' \in [Threads -> {0, 1, 2}]
      BY <3>1 DEF RestTypes, ForNewThreads
    <3>3. frozen' \in [Threads -> BOOLEAN]
      <4>1. \A t \in Threads : (IF t \in Workers THEN FALSE ELSE frozen[t]) \in BOOLEAN
        BY DEF RestTypes
      <4>2. frozen' = [t \in Threads |-> IF t \in Workers THEN FALSE ELSE frozen[t]]
        BY <3>1 DEF ForNewThreads
      <4>3. QED
        BY <4>1, <4>2, Zenon
    <3>4. asked' \in Nat /\ cutOff' \in Nat
      BY <3>1 DEF RestTypes
    <3>5. /\ pc' \in [Threads -> {"none", "new", "barrier", "svc", "mutex", "parked", "while",
                               "leave", "last_word", "done"}]
          /\ runs' \in [Threads -> Nat] /\ eos' \in [Threads -> Nat]
      BY <3>1 DEF RestTypes
    <3>6. QED
      BY <3>1, <3>2, <3>3, <3>4, <3>5, Zenon DEF RestTypes
  <2>3. CASE EndFrozen \/ RunFrozen \/ Wait \/ CallWaitFreezing
    BY <2>3 DEF RestTypes, EndFrozen, RunFrozen, Wait, CallWaitFreezing, AskedForRun, flags,
                calls
  <2>4. QED
    BY <1>2, <2>1, <2>3 DEF StartCall
<1>3. CASE InCall
  <2>1. asked' = asked /\ cutOff' = cutOff /\ runs' = runs /\ eos' = eos
    BY <1>3 DEF InCall, Spawn, ThawOne, Abort, TellToStop, WaitFreezing, Stop, ThawToStop,
                Join, flags, calls
  <2>2. pc' \in [Threads -> {"none", "new", "barrier", "svc", "mutex", "parked", "while",
                             "leave", "last_word", "done"}]
    BY <1>1, <1>3 DEF RestTypes, InCall, Spawn, ThawOne, Abort, TellToStop, WaitFreezing,
                      Stop, ThawToStop, Join
  <2>3. stp' \in [Threads -> BOOLEAN]
    BY <1>1, <1>3 DEF RestTypes, InCall, Spawn, ThawOne, Abort, TellToStop, WaitFreezing,
                      Stop, ThawToStop, Join, flags
  <2>4. frozen' \in [Threads -> BOOLEAN]
    BY <1>1, <1>3 DEF RestTypes, InCall, Spawn, ThawOne, Abort, TellToStop, WaitFreezing,
                      Stop, ThawToStop, Join, flags, Thaw, ThawedFlag
  <2>5. freezing' \in [Threads -> {0, 1, 2}]
    BY <1>1, <1>3 DEF RestTypes, InCall, Spawn, ThawOne, Abort, TellToStop, WaitFreezing,
                      Stop, ThawToStop, Join, flags, Thaw
  <2>6. QED
    BY <2>1, <2>2, <2>3, <2>4, <2>5 DEF RestTypes
<1>4. QED
  BY <1>2, <1>3

\* The program goes on with a call: what that means for each thread.
LEMMA CallEffect ==
  ASSUME RestTypes, HostInv, ~Doomed, InCall, NEW t \in Threads, FlagInv(t), CallInv(t)
  PROVE  FlagInv(t)' /\ CallInv(t)' /\ (Due(t)' <=> Due(t))
<1>1. /\ at \in 1..(NW + 2) /\ NW \in Nat \ {0} /\ t \in 0..(NW + 1)
      /\ SpawnOrder[at] = at - 1 /\ at - 1 \in Threads /\ WaitOrder[at] \in Threads
      /\ WaitPlace(t) \in 1..(NW + 2)
      /\ WaitOrder[at] = t <=> WaitPlace(t) = at
  BY WaitPlaces, SomeWorkers DEF HostInv, SpawnOrder, Threads, Collector
<1>2. WaitPlace(t)' = WaitPlace(t)
  BY DEF WaitPlace
<1>3. CASE Spawn
  <2>1. /\ hpc \in {"spawn", "spawn_to_freeze"}
        /\ pc'[t] = (IF t = at - 1 THEN "new" ELSE pc[t])
        /\ stp'[t] = stp[t] /\ freezing'[t] = freezing[t] /\ frozen'[t] = frozen[t]
        /\ at' = (IF at = NW + 2 THEN 1 ELSE at + 1)
        /\ hpc' = (IF at = NW + 2 THEN IF hpc = "spawn" THEN "wait" ELSE "spawned" ELSE hpc)
    BY <1>1, <1>3 DEF Spawn, Then, flags, RestTypes
  <2>2. QED
    BY <1>1, <1>2, <2>1 DEF FlagInv, CallInv, Due, Waiting, Thawing
<1>4. CASE ThawOne
  <2>1. /\ hpc \in {"thaw", "thaw_to_end"} /\ pc'[t] = pc[t] /\ stp'[t] = stp[t]
        /\ freezing'[t] = (IF t = at - 1 THEN IF hpc = "thaw" THEN 2 ELSE 0 ELSE freezing[t])
        /\ frozen'[t] = (IF t = at - 1 THEN FALSE ELSE frozen[t])
        /\ at' = (IF at = NW + 2 THEN 1 ELSE at + 1)
        /\ hpc' = (IF at = NW + 2 THEN IF hpc = "thaw" THEN "thawed" ELSE "wait" ELSE hpc)
    BY <1>1, <1>4 DEF ThawOne, Thaw, ThawedFlag, Then, RestTypes
  <2>2. CASE hpc = "thaw"
    BY <1>1, <1>2, <2>1, <2>2 DEF FlagInv, CallInv, Due, Waiting, Thawing
  <2>3. CASE hpc = "thaw_to_end"
    BY <1>1, <1>2, <2>1, <2>3 DEF FlagInv, CallInv, Due, Waiting, Thawing
  <2>4. QED
    BY <2>1, <2>2, <2>3
<1>5. CASE WaitFreezing
  <2>1. /\ hpc = "wait_freezing" /\ pc' = pc /\ stp' = stp
        /\ freezing' = freezing /\ frozen' = frozen
        /\ WaitPlace(t) = at => frozen[t]
        /\ at' = (IF at = NW + 2 THEN 1 ELSE at + 1)
        /\ hpc' = (IF at = NW + 2 THEN "frozen" ELSE hpc)
    BY <1>1, <1>5 DEF WaitFreezing, Then, flags
  <2>2. QED
    BY <1>1, <1>2, <2>1 DEF FlagInv, CallInv, Due, Waiting, Thawing
<1>6. CASE Stop
  <2>1. /\ hpc = "wait" /\ pc' = pc /\ freezing' = freezing /\ frozen' = frozen /\ at' = at
        /\ WaitPlace(t) = at => stp'[t]
        /\ WaitPlace(t) # at => stp'[t] = stp[t]
        /\ hpc' \in {"wait_to_thaw", "join"}
        /\ WaitPlace(t) = at => hpc' = (IF freezing[t] > 0 THEN "wait_to_thaw" ELSE "join")
        /\ freezing[t] \in {0, 1, 2}
    BY <1>1, <1>6 DEF Stop, Isfrozen, RestTypes
  <2>2. QED
    BY <1>1, <1>2, <2>1 DEF FlagInv, CallInv, Due, Waiting, Thawing
<1>7. CASE ThawToStop
  <2>1. /\ hpc = "wait_to_thaw" /\ hpc' = "join" /\ pc' = pc /\ stp' = stp /\ at' = at
        /\ freezing'[t] = (IF WaitPlace(t) = at THEN 0 ELSE freezing[t])
        /\ frozen'[t] = (IF WaitPlace(t) = at THEN FALSE ELSE frozen[t])
        /\ WaitPlace(t) = at => frozen[t]
    <3>1. freezing'[t] = (IF t \in ThawedWith(WaitOrder[at]) THEN 0 ELSE freezing[t])
      BY <1>7 DEF ThawToStop, Thaw, RestTypes
    <3>2. frozen'[t] = (IF t \in ThawedWith(WaitOrder[at]) THEN FALSE ELSE frozen[t])
      BY <1>7 DEF ThawToStop, Thaw, ThawedFlag, RestTypes
    <3>3. WaitPlace(t) = at => t \in ThawedWith(WaitOrder[at])
      BY <1>1 DEF ThawedWith
    <3>4. t \in ThawedWith(WaitOrder[at]) /\ WaitPlace(t) # at => WaitPlace(t) < at
      BY <1>1, WaitPlaces, SomeWorkers
      DEF ThawedWith, WaitPlace, WaitOrder, Workers, Emitter, Collector
    <3>5. WaitPlace(t) < at => freezing[t] = 0 /\ ~frozen[t]
      BY <1>7 DEF ThawToStop, CallInv, FlagInv, Waiting
    <3>6. frozen[t] \in BOOLEAN
      BY DEF RestTypes
    <3>7. /\ hpc = "wait_to_thaw" /\ hpc' = "join" /\ pc' = pc /\ stp' = stp /\ at' = at
          /\ WaitPlace(t) = at => frozen[t]
      BY <1>1, <1>7 DEF ThawToStop
    <3>8. QED
      BY <3>1, <3>2, <3>3, <3>4, <3>5, <3>6, <3>7
  <2>2. CASE WaitPlace(t) = at
    <3>1. /\ stp[t] /\ pc[t] \in {"parked", "done"} /\ freezing[t] = 1
          /\ ~frozen'[t] /\ freezing'[t] = 0
      BY <2>1, <2>2 DEF CallInv, FlagInv
    <3>2. stp'[t] /\ pc'[t] = pc[t] /\ pc[t] # "none"
      BY <1>1, <2>1, <2>2, <3>1 DEF CallInv, Waiting
    <3>3. FlagInv(t)'
      BY <2>1, <3>1, <3>2 DEF FlagInv
    <3>4. CallInv(t)'
      BY <1>1, <1>2, <2>1, <2>2, <3>1, <3>2 DEF CallInv, Waiting, Thawing
    <3>5. Due(t)' <=> Due(t)
      BY <2>1, <3>1, <3>2 DEF Due
    <3>6. QED
      BY <3>3, <3>4, <3>5
  <2>3. CASE WaitPlace(t) # at
    BY <1>1, <1>2, <2>1, <2>3 DEF FlagInv, CallInv, Due, Waiting, Thawing
  <2>4. QED
    BY <2>2, <2>3
<1>8. CASE Join
  <2>1. /\ hpc = "join" /\ stp' = stp /\ freezing' = freezing /\ frozen' = frozen
        /\ WaitPlace(t) = at => pc[t] = "done"
        /\ pc'[t] = (IF WaitPlace(t) = at THEN "none" ELSE pc[t])
        /\ at' = (IF at = NW + 2 THEN 1 ELSE at + 1)
        /\ hpc' = (IF at = NW + 2 THEN "stopped" ELSE "wait")
    BY <1>1, <1>8 DEF Join, flags, RestTypes
  <2>2. QED
    BY <1>1, <1>2, <2>1 DEF FlagInv, CallInv, Due, Waiting, Thawing
<1>9. CASE TellToStop
  <2>1. /\ hpc = "tell_to_stop" /\ pc' = pc /\ freezing' = freezing /\ frozen' = frozen
        /\ stp'[t] = (IF WaitPlace(t) = at THEN TRUE ELSE stp[t])
        /\ at' = (IF at = NW + 2 THEN 1 ELSE at + 1)
        /\ hpc' = (IF at = NW + 2 THEN "thaw_to_end" ELSE hpc)
    BY <1>1, <1>9 DEF TellToStop, Then, RestTypes
  <2>2. QED
    BY <1>1, <1>2, <2>1 DEF FlagInv, CallInv, Due, Waiting, Thawing
<1>10. ~Abort
  BY DEF Abort, AssertionFails, Doomed
<1>11. QED
  BY <1>3, <1>4, <1>5, <1>6, <1>7, <1>8, <1>9, <1>10 DEF InCall

\* Each step of a call
LEMMA InCallRest ==
  ASSUME RestTypes, InOrder, HostInv, ~Doomed, InCall
  PROVE  InOrder'
<1>1. NoRunAdded
  BY NoCallNoRun DEF InCall, Spawn, ThawOne, Abort, TellToStop, WaitFreezing, Stop,
                     ThawToStop, Join
<1>2. \A t \in Threads : FlagInv(t)' /\ CallInv(t)' /\ (Due(t)' <=> Due(t))
  BY CallEffect DEF InOrder
<1>3. runs' = runs /\ eos' = eos
  BY DEF InCall, Spawn, ThawOne, Abort, TellToStop, WaitFreezing, Stop, ThawToStop, Join,
         flags
<1>4. StreamInv'
  BY <1>1, <1>2, <1>3, StreamFrame DEF InOrder
<1>5. QED
  BY <1>2, <1>4 DEF InOrder

\* A new run of the farm: every thread is due again.
LEMMA NewRun ==
  ASSUME StreamInv, RestTypes, asked' = asked + 1, UNCHANGED <<cutOff, runs, eos>>,
         \A t \in Threads : ~Due(t) /\ Due(t)'
  PROVE  StreamInv'
<1>1. Emitter \in Threads /\ Collector \in Threads /\ Workers \subseteq Threads
  BY SomeWorkers DEF Threads, Workers, Emitter, Collector
<1>2. \A t \in Threads : runs'[t] + One(Due(t)') + cutOff' = asked'
  BY DEF StreamInv, RestTypes, One
<1>3. eos'[Emitter] = 0 /\ \A w \in Workers : eos'[w] + runs'[w] = runs'[Emitter]
  BY DEF StreamInv
<1>4. eos'[Collector] = 0 /\ {w \in Workers : ~Due(w)'} = {}
  BY <1>1 DEF StreamInv
<1>5. QED
  BY <1>1, <1>2, <1>3, <1>4, FS_EmptySet DEF StreamInv

\* A run for all threads, either way
LEMMA NewRunRest ==
  ASSUME RestTypes, InOrder, HostInv, RunAndWaitEnd \/ RunThenFreeze \/ RunFrozen
  PROVE  Doomed' \/ InOrder'
<1>1. /\ StreamInv /\ at' = 1 /\ \A t \in Threads : FlagInv(t) /\ CallInv(t)
  BY DEF InOrder, RunAndWaitEnd, RunThenFreeze, RunFrozen, Call
<1>2. \A t \in Threads : t \in 0..(NW + 1) /\ WaitPlace(t) \in 1..(NW + 2)
  BY WaitPlaces, SomeWorkers DEF Threads, Collector
<1>3. pc' = pc /\ asked' = asked + 1 /\ cutOff' = cutOff /\ runs' = runs /\ eos' = eos
  BY DEF RunAndWaitEnd, RunThenFreeze, RunFrozen, AskedForRun
<1>4. \/ Doomed'
      \/ \A t \in Threads : FlagInv(t)' /\ CallInv(t)' /\ ~Due(t) /\ Due(t)'
  <2>1. CASE RunAndWaitEnd \/ RunThenFreeze
    <3>1. /\ hpc = "stopped" /\ hpc' \in {"spawn", "spawn_to_freeze"}
          /\ hpc' = "spawn" => \A t \in Threads : stp'[t] /\ freezing'[t] \in {0, freezing[t]}
          /\ hpc' = "spawn_to_freeze" => \A t \in Threads : ~stp'[t] /\ freezing'[t] = 1
          /\ \A t \in Threads : ~frozen[t] => ~frozen'[t]
      BY <2>1 DEF RunAndWaitEnd, RunThenFreeze, Call, ForNewThreads, RestTypes
    <3>2. \A t \in Threads : FlagInv(t)' /\ CallInv(t)' /\ ~Due(t) /\ Due(t)'
      BY <1>1, <1>2, <1>3, <3>1, SomeWorkers
      DEF FlagInv, CallInv, Due, Waiting, Thawing, WaitPlace
    <3>3. QED
      BY <3>2
  <2>2. CASE RunFrozen
    <3>1. /\ hpc \in WithThreads /\ hpc' = "thaw" /\ gathering' = gathering
          /\ stp' = stp /\ freezing' = freezing /\ frozen' = frozen
      BY <2>2 DEF RunFrozen, Call, flags, farm
    <3>2. CASE hpc = "frozen"
      BY <1>1, <1>2, <1>3, <3>1, <3>2, SomeWorkers
      DEF FlagInv, CallInv, Due, Waiting, Thawing, WaitPlace
    <3>3. CASE hpc \in {"spawned", "thawed"}
      BY <3>1, <3>3 DEF HostInv, Doomed
    <3>4. QED
      BY <3>1, <3>2, <3>3 DEF WithThreads
  <2>3. QED
    BY <2>1, <2>2
<1>5. CASE Doomed'
  BY <1>5
<1>6. CASE \A t \in Threads : FlagInv(t)' /\ CallInv(t)' /\ ~Due(t) /\ Due(t)'
  <2>1. StreamInv'
    BY <1>1, <1>3, <1>6, NewRun
  <2>2. QED
    BY <1>6, <2>1 DEF InOrder
<1>7. QED
  BY <1>4, <1>5, <1>6

\* No run for the threads
LEMMA NoRunRest ==
  ASSUME RestTypes, InOrder, HostInv, ~WaitsAtOnce, EndFrozen \/ Wait \/ CallWaitFreezing
  PROVE  Doomed' \/ InOrder'
<1>1. /\ StreamInv /\ at' = 1 /\ \A t \in Threads : FlagInv(t) /\ CallInv(t)
  BY DEF InOrder, EndFrozen, Wait, CallWaitFreezing, Call
<1>2. \A t \in Threads : t \in 0..(NW + 1) /\ WaitPlace(t) \in 1..(NW + 2)
  BY WaitPlaces, SomeWorkers DEF Threads, Collector
<1>3. /\ UNCHANGED <<pc, stp, freezing, frozen, gathering, runs, eos>>
      /\ NoRunAdded
  BY DEF EndFrozen, Wait, CallWaitFreezing, AskedForRun, RestTypes, NoRunAdded, flags, farm,
         calls
<1>4. \/ hpc = "spawned" /\ hpc' \in {"wait", "wait_freezing"}
      \/ hpc = "thawed" /\ hpc' = "wait_freezing"
      \/ hpc = "frozen" /\ hpc' \in {"wait", "tell_to_stop"}
      \/ hpc \in {"spawned", "thawed"} /\ hpc' = "tell_to_stop"
  BY DEF EndFrozen, Wait, CallWaitFreezing, Call, WithThreads
<1>5. CASE hpc \in {"spawned", "thawed"} /\ hpc' = "tell_to_stop"
  BY <1>3, <1>5 DEF HostInv, Doomed
<1>6. CASE ~(hpc \in {"spawned", "thawed"} /\ hpc' = "tell_to_stop")
  <2>1. \A t \in Threads : FlagInv(t)' /\ CallInv(t)' /\ (Due(t)' <=> Due(t))
    BY <1>1, <1>2, <1>3, <1>4, <1>6 DEF FlagInv, CallInv, Due, Waiting, Thawing, WaitPlace
  <2>2. StreamInv'
    BY <1>1, <1>3, <2>1, StreamFrame
  <2>3. QED
    BY <2>1, <2>2 DEF InOrder
<1>7. QED
  BY <1>5, <1>6

\* A program that is about to abort does not come back from its call.
LEMMA DoomStays ==
  ASSUME Asserts, HostInv, Doomed, [Next]_vars
  PROVE  Doomed'
<1> USE DEF Doomed
<1>1. CASE StartCall
  BY <1>1 DEF StartCall, RunAndWaitEnd, EndFrozen, RunThenFreeze, RunFrozen, Wait,
              CallWaitFreezing, Call, WithThreads
<1>2. CASE InCall
  <2>2. CASE ThawOne
    <3>1. at # NW + 2 /\ gathering
      BY <2>2, LastPlace DEF ThawOne, AssertionFails
    <3>2. hpc' = hpc /\ gathering'
      BY <2>2, <3>1 DEF ThawOne, Then
    <3>3. QED
      BY <2>2, <3>2 DEF ThawOne
  <2>3. CASE Abort
    BY <2>3 DEF Abort
  <2>4. CASE TellToStop
    BY <2>4 DEF TellToStop, Then, farm
  <2>5. QED
    BY <1>2, <2>2, <2>3, <2>4 DEF InCall, Spawn, WaitFreezing, Stop, ThawToStop, Join
<1>3. CASE \E t \in Threads : ThreadStep(t)
  BY <1>3 DEF ThreadStep, Enter, Cross, Svc, Freeze, GoOn, WakeUp, LoopOrLeave, Finish,
              LastWord, host, farm
<1>4. CASE UNCHANGED vars
  BY <1>4 DEF vars, host, farm
<1>5. QED
  BY <1>1, <1>2, <1>3, <1>4 DEF Next

\* Before the first run
LEMMA RestInit == Init => RestInv
<1> SUFFICES ASSUME Init PROVE RestInv
  OBVIOUS
<1>1. RestTypes
  BY DEF Init, RestTypes
<1>2. \A t \in Threads : FlagInv(t) /\ CallInv(t) /\ ~Due(t)
  <2> TAKE t \in Threads
  <2>1. hpc = "stopped" /\ pc[t] = "none" /\ freezing[t] = 0 /\ stp[t] /\ ~frozen[t]
    BY DEF Init
  <2>2. QED
    BY <2>1 DEF FlagInv, CallInv, Due, Waiting, Thawing
<1>3. StreamInv
  BY <1>2, SomeWorkers DEF Init, StreamInv, One, Threads, Workers, Emitter, Collector
<1>4. QED
  BY <1>1, <1>2, <1>3 DEF RestInv, InOrder

\* What each thread has to do in this run, and what it is asked to do after it, is
\* known in every state until the collector's assertion fails, in a program that is
\* built with its assertions and waits for the threads it has thawed to freeze before
\* it waits for them to end: nobody misses a run or does one twice.
THEOREM RunsAreCounted ==
  ASSUME Asserts, ~WaitsAtOnce
  PROVE  Spec => []RestInv
<1>1. RestInv /\ HostInv /\ [Next]_vars => RestInv'
  <2> SUFFICES ASSUME RestInv, HostInv, [Next]_vars PROVE RestInv'
    OBVIOUS
  <2>1. RestTypes
    BY DEF RestInv
  <2>2. RestTypes'
    <3>1. CASE StartCall \/ InCall
      BY <2>1, <3>1, CallTypes
    <3>2. ASSUME NEW t \in Threads, ThreadStep(t) PROVE RestTypes'
      BY <2>1, <3>2, ThreadTypes
    <3>3. CASE UNCHANGED vars
      BY <2>1, <3>3 DEF vars, host, calls, flags, RestTypes
    <3>4. QED
      BY <3>1, <3>2, <3>3 DEF Next
  <2>3. CASE Doomed
    BY <2>2, <2>3, DoomStays DEF RestInv
  <2>4. CASE ~Doomed
    <3>1. InOrder
      BY <2>4 DEF RestInv
    <3>2. CASE StartCall
      BY <2>1, <2>2, <3>1, <3>2, NewRunRest, NoRunRest DEF StartCall, RestInv
    <3>3. CASE InCall
      BY <2>1, <2>2, <2>4, <3>1, <3>3, InCallRest DEF RestInv
    <3>4. ASSUME NEW t \in Threads, ThreadStep(t) PROVE RestInv'
      BY <2>1, <2>2, <3>1, <3>4, ThreadStepRest DEF RestInv
    <3>5. CASE UNCHANGED vars
      <4>1. UNCHANGED <<hpc, at, asked, cutOff, pc, stp, freezing, frozen, runs, eos>>
        BY <3>5 DEF vars, host, calls, flags
      <4>2. \A t \in Threads : FlagInv(t)' /\ CallInv(t)' /\ (Due(t)' <=> Due(t))
        BY <3>1, <4>1, ThreadFrame DEF InOrder
      <4>3. StreamInv'
        BY <2>1, <3>1, <4>1, <4>2, NoCallNoRun, StreamFrame DEF InOrder, calls
      <4>4. QED
        BY <2>2, <4>2, <4>3 DEF RestInv, InOrder
    <3>6. QED
      BY <3>2, <3>3, <3>4, <3>5 DEF Next
  <2>5. QED
    BY <2>3, <2>4
<1>2. FarmInv => HostInv
  BY DEF FarmInv
<1>3. QED
  BY <1>1, <1>2, RestInit, FarmBarrierInOrder, PTL DEF Spec

\* Such a program finds all threads parked when wait_freezing() has returned, and
\* none left when wait() has; each has then run its node once in each run of the farm
\* that has been asked for, but for those of run_and_wait_end() of a frozen farm.
THEOREM ThreadsComeToRest ==
  ASSUME Asserts, ~WaitsAtOnce
  PROVE  Spec => []AllAtRest
<1>1. RestInv /\ HostInv => AllAtRest
  <2> SUFFICES ASSUME RestInv, HostInv, hpc \in {"frozen", "stopped"} PROVE AllAtRest
    BY DEF AllAtRest
  <2>1. /\ Emitter \in Threads /\ Collector \in Threads
        /\ Threads = Workers \cup {Emitter, Collector}
    BY SomeWorkers DEF Threads, Workers, Emitter, Collector
  <2>2. RestTypes /\ InOrder
    BY DEF RestInv, Doomed
  <2>3. \A t \in Threads :
          /\ ~Due(t)
          /\ hpc = "frozen" => pc[t] = "parked" /\ freezing[t] = 1
          /\ hpc = "stopped" => pc[t] = "none" /\ freezing[t] = 0 /\ ~frozen[t]
    BY <2>2 DEF InOrder, FlagInv, CallInv, Due
  <2>4. \A t \in Threads : runs[t] + cutOff = asked
    BY <2>2, <2>3 DEF InOrder, StreamInv, RestTypes, One
  <2>5. \A t \in Threads : eos[t] = 0
    <3>1. \A t \in Threads : runs[t] = runs[Emitter] /\ eos[t] \in Nat /\ runs[t] \in Nat
      BY <2>1, <2>2, <2>4 DEF RestTypes
    <3>2. eos[Emitter] = 0 /\ eos[Collector] = 0
      BY <2>1, <2>2, <2>3 DEF InOrder, StreamInv
    <3>3. \A w \in Workers : eos[w] = 0
      BY <2>1, <2>2, <3>1 DEF InOrder, StreamInv
    <3>4. QED
      BY <2>1, <3>2, <3>3
  <2>6. threadCounter = IF hpc = "frozen" THEN NW + 2 ELSE 0
    BY DEF HostInv, Spawned
  <2>7. QED
    BY <2>3, <2>4, <2>5, <2>6 DEF AllAtRest
<1>2. FarmInv => HostInv
  BY DEF FarmInv
<1>3. QED
  BY <1>1, <1>2, RunsAreCounted, FarmBarrierInOrder, PTL

-----------------------------------------------------------------------------
(* Arithmetic                                                              *)

\* Multiples of a positive number are ordered like their factors.
LEMMA Multiples ==
  ASSUME NEW b \in Nat \ {0}, NEW p \in Int, NEW q \in Int
  PROVE  /\ p <= q => p * b <= q * b
         /\ p * b < q * b => p < q
         /\ (p + 1) * b = p * b + b
         /\ (p - 1) * b = p * b - b
         /\ p * b \in Int
<1>1. p * b \in Int /\ q * b \in Int
  BY SMT
<1>2. p <= q => p * b <= q * b
  BY Z3
<1>3. p * b < q * b => p < q
  BY <1>1, <1>2, Z3
<1> QED
  BY <1>1, <1>2, <1>3, Z3

LEMMA Positive ==
  ASSUME NEW a \in Nat \ {0}, NEW b \in Nat \ {0}
  PROVE  a * b \in Nat \ {0}
  BY Z3

\* What rounding up means
LEMMA RoundedUp ==
  ASSUME NEW a \in Int, NEW b \in Nat \ {0}
  PROVE  /\ CeilDiv(a, b) \in Int
         /\ (CeilDiv(a, b) - 1) * b < a
         /\ a <= CeilDiv(a, b) * b
<1> DEFINE q == CeilDiv(a, b)
<1>1. q \in Int
  BY SMT DEF CeilDiv
<1>2. (a + b - 1) = (b * q) + ((a + b - 1) % b)
  BY SMT DEF CeilDiv
<1>3. (a + b - 1) % b \in 0..(b - 1)
  BY SMT
<1>4. b * q = q * b /\ q * b \in Int
  BY <1>1, Z3
<1>5. (q - 1) * b = q * b - b
  BY <1>1, Multiples
<1> HIDE DEF q
<1>6. (q - 1) * b < a /\ a <= q * b
  BY <1>1, <1>2, <1>3, <1>4, <1>5, SMT
<1> QED
  BY <1>1, <1>6 DEF q

\* What dividing means
LEMMA Divided ==
  ASSUME NEW a \in Nat, NEW b \in Nat \ {0}
  PROVE  /\ a \div b \in Nat
         /\ a % b \in 0..(b - 1)
         /\ b * (a \div b) + (a % b) = a
         /\ b <= a => a \div b >= 1
<1> DEFINE q == a \div b
           r == a % b
<1>1. q \in Int /\ r \in 0..(b - 1)
  BY SMT
<1>2. b * q + r = a
  BY SMT
<1>3. b * q = q * b /\ 0 * b = 0 /\ 1 * b = b /\ -1 * b = 0 - b /\ q * b \in Int
  BY <1>1, Z3
<1> HIDE DEF q, r
<1>4. q <= -1 => q * b <= -1 * b
  BY <1>1, Multiples
<1>5. q <= 0 => q * b <= 0 * b
  BY <1>1, Multiples
<1>6. q \in Nat /\ (b <= a => q >= 1)
  BY <1>1, <1>2, <1>3, <1>4, <1>5
<1> QED
  BY <1>1, <1>2, <1>6 DEF q, r

\* The multiples of b determine the quotient.
LEMMA OneQuotient ==
  ASSUME NEW x \in Int, NEW b \in Nat \ {0}, NEW p \in Int, NEW q \in Int,
         (p - 1) * b < x, x <= p * b, (q - 1) * b < x, x <= q * b
  PROVE  p = q
<1>1. (p - 1) * b < q * b /\ (q - 1) * b < p * b
  <2>1. p * b \in Int /\ q * b \in Int /\ (p - 1) * b \in Int /\ (q - 1) * b \in Int
    BY Multiples
  <2> QED
    BY <2>1
<1>2. p - 1 < q /\ q - 1 < p
  BY <1>1, Multiples
<1> QED
  BY <1>2

\* The chunks in x indexes of a range: rounding up twice is rounding up once, by the
\* width of a chunk.
LEMMA ChunksAre ==
  ASSUME NEW x \in Int, NEW s \in Nat \ {0}, NEW c \in Nat \ {0}, NEW q \in Int
  PROVE  /\ c * s \in Nat \ {0}
         /\ CeilDiv(CeilDiv(x, s), c) \in Int
         /\ CeilDiv(CeilDiv(x, s), c) = q <=> (q - 1) * (c * s) < x /\ x <= q * (c * s)
<1> DEFINE n == CeilDiv(x, s)
           k == CeilDiv(n, c)
<1>1. c * s \in Nat \ {0}
  BY Z3
<1>2. n \in Int /\ (n - 1) * s < x /\ x <= n * s
  BY RoundedUp
<1>3. k \in Int /\ (k - 1) * c < n /\ n <= k * c
  BY <1>2, RoundedUp
<1> HIDE DEF n, k
<1>4. (k - 1) * c <= n - 1 /\ (k - 1) * c \in Int /\ k * c \in Int
  BY <1>2, <1>3, Multiples
<1>5. ((k - 1) * c) * s <= (n - 1) * s /\ n * s <= (k * c) * s
  BY <1>2, <1>3, <1>4, Multiples
<1>6. ((k - 1) * c) * s = (k - 1) * (c * s) /\ (k * c) * s = k * (c * s)
  BY <1>3, Z3
<1>7. (k - 1) * (c * s) < x /\ x <= k * (c * s)
  <2>1. /\ (n - 1) * s \in Int /\ n * s \in Int
        /\ ((k - 1) * c) * s \in Int /\ (k * c) * s \in Int
    BY <1>2, <1>4, Multiples
  <2> QED
    BY <1>2, <1>5, <1>6, <2>1
<1>8. (q - 1) * (c * s) < x /\ x <= q * (c * s) => k = q
  BY <1>1, <1>3, <1>7, OneQuotient
<1> QED
  BY <1>1, <1>3, <1>7, <1>8 DEF n, k

-----------------------------------------------------------------------------
(* The table                                                               *)

\* A loop has one chunk at least, and all but the last one are full.
LEMMA TasksOfLoop ==
  ASSUME NEW l \in Loops, NEW c \in Nat \ {0}
  PROVE  /\ c * l.step \in Nat \ {0}
         /\ TotalTasks(l, c) \in Nat \ {0}
         /\ (TotalTasks(l, c) - 1) * (c * l.step) < l.stop - l.start
         /\ l.stop - l.start <= TotalTasks(l, c) * (c * l.step)
<1> DEFINE W == c * l.step
           x == l.stop - l.start
           T == TotalTasks(l, c)
<1>1. l.start \in Int /\ l.stop \in Int /\ l.step \in Nat \ {0} /\ l.start < l.stop
  BY LoopsAssumption
<1>2. x \in Int /\ x > 0
  BY <1>1
<1>3. W \in Nat \ {0} /\ T \in Int /\ (T - 1) * W < x /\ x <= T * W
  <2>1. T = CeilDiv(CeilDiv(x, l.step), c)
    BY DEF TotalTasks, NumTasks
  <2>2. W \in Nat \ {0} /\ CeilDiv(CeilDiv(x, l.step), c) \in Int
    BY <1>1, <1>2, ChunksAre
  <2> HIDE DEF x, T, W
  <2>3. T \in Int
    BY <2>1, <2>2
  <2>4. \A q \in Int : CeilDiv(CeilDiv(x, l.step), c) = q
                      => (q - 1) * (c * l.step) < x /\ x <= q * (c * l.step)
    BY <1>1, <1>2, ChunksAre
  <2>5. (T - 1) * W < x /\ x <= T * W
    BY <2>1, <2>3, <2>4, Zenon DEF W
  <2> QED
    BY <2>2, <2>3, <2>5
<1> HIDE DEF W, x, T
<1>4. T * W \in Int /\ 0 * W = 0
  BY <1>3, Multiples, Z3
<1>5. 0 * W < T * W
  BY <1>2, <1>3, <1>4
<1>6. T > 0
  BY <1>3, <1>5, Multiples
<1> QED
  BY <1>3, <1>6 DEF W, x, T

\* A range of m tasks behind k others, as long as the loop has so many: it has m
\* chunks, and what follows its start has all that are left.
LEMMA PieceOfLoop ==
  ASSUME NEW l \in Loops, NEW c \in Nat \ {0}, NEW k \in Nat, NEW m \in Nat \ {0},
         k + m <= TotalTasks(l, c)
  PROVE  LET p == Piece(l, k * c, m * c)
             W == c * l.step
             rest == TotalTasks(l, c) - k
         IN  /\ p.start \in Int /\ p.end \in Int
             /\ p.start < p.end /\ p.start < l.stop
             /\ (m - 1) * W < p.end - p.start /\ p.end - p.start <= m * W
             /\ (rest - 1) * W < l.stop - p.start /\ l.stop - p.start <= rest * W
<1> DEFINE s == l.step
           W == c * s
           T == TotalTasks(l, c)
           p == Piece(l, k * c, m * c)
<1>1. l.start \in Int /\ l.stop \in Int /\ s \in Nat \ {0} /\ l.start < l.stop
  BY LoopsAssumption
<1>2. /\ W \in Nat \ {0} /\ T \in Nat \ {0}
      /\ (T - 1) * W < l.stop - l.start /\ l.stop - l.start <= T * W
  BY TasksOfLoop
<1>3. (k * c) * s = k * W /\ (m * c - 1) * s = m * W - s /\ k * W \in Int /\ m * W \in Int
  <2>1. (m * c - 1) * s = (m * c) * s - s
    BY <1>1, Z3
  <2>2. (m * c) * s = m * (c * s) /\ (k * c) * s = k * (c * s)
    BY <1>1, Z3
  <2> QED
    BY <1>2, <2>1, <2>2, Multiples
<1>4. W >= s
  <2>1. 1 * s <= c * s
    BY <1>1, Multiples
  <2>2. 1 * s = s
    BY <1>1, Z3
  <2> QED
    BY <1>1, <1>2, <2>1, <2>2
<1>5. k * W <= (T - 1) * W /\ (k + m - 1) * W <= (T - 1) * W
  BY <1>2, Multiples
<1>6. /\ (k + m - 1) * W = k * W + m * W - W
      /\ (m - 1) * W = m * W - W
      /\ (T - 1) * W = T * W - W
      /\ (T - k) * W = T * W - k * W
      /\ (T - k - 1) * W = T * W - k * W - W
      /\ T * W \in Int
  BY <1>2, Z3
<1>7. W <= m * W
  <2>1. 1 * W <= m * W
    BY <1>2, Multiples
  <2>2. 1 * W = W
    BY <1>2, Z3
  <2> QED
    BY <2>1, <2>2
<1>8. /\ p.start = Least(l.start + k * W, l.stop - 1 + s)
      /\ p.end = Least(p.start + m * W - s + 1, l.stop)
  BY <1>1, <1>3 DEF Piece, EndOf
<1> HIDE DEF s, W, T, p
<1>9. p.start = l.start + k * W
  BY <1>1, <1>2, <1>3, <1>5, <1>6, <1>8 DEF Least
<1>10. /\ p.start \in Int /\ p.end \in Int
       /\ p.start < p.end /\ p.start < l.stop
       /\ (m - 1) * W < p.end - p.start /\ p.end - p.start <= m * W
       /\ (T - k - 1) * W < l.stop - p.start /\ l.stop - p.start <= (T - k) * W
  BY <1>1, <1>2, <1>3, <1>4, <1>5, <1>6, <1>7, <1>8, <1>9 DEF Least
<1> QED
  BY <1>10 DEF p, W, T, s

\* The chunks of a line of the table, counted by their width
LEMMA ChunksOfLine ==
  ASSUME NEW n, NEW a \in Int, NEW e \in Int, a < e,
         NEW s \in Nat \ {0}, NEW c \in Nat \ {0}, NEW q \in Int,
         (q - 1) * (c * s) < e - a, e - a <= q * (c * s)
  PROVE  ChunksIn(DataPair(n, a, e), s, c) = q
<1>1. CeilDiv(CeilDiv(e - a, s), c) = q
  BY ChunksAre
<1>2. DataPair(n, a, e).start = a /\ DataPair(n, a, e).end = e
  BY DEF DataPair
<1>3. ChunksIn(DataPair(n, a, e), s, c) = CeilDiv(CeilDiv(e - a, s), c)
  BY <1>2 DEF ChunksIn
<1> QED
  BY <1>1, <1>3

\* The tasks are dealt out to the workers, one after the other.
LEMMA DealtOut ==
  ASSUME NEW nw \in Nat \ {0}, NEW i \in 0..(nw - 1), NEW ntxw \in Nat \ {0},
         NEW more \in 0..(nw - 1), NEW T \in Nat, nw * ntxw + more <= T
  PROVE  /\ i * ntxw + Least(i, more) \in Nat
         /\ TasksOf(i, ntxw, more) \in Nat \ {0}
         /\ (i * ntxw + Least(i, more)) + TasksOf(i, ntxw, more) <= T
<1>1. i * ntxw \in Int /\ (i + 1) * ntxw = i * ntxw + ntxw /\ (i + 1) * ntxw <= nw * ntxw
  BY Multiples
<1>2. i * ntxw >= 0 /\ nw * ntxw \in Int
  BY Z3
<1>3. i * ntxw + Least(i, more) \in Nat /\ TasksOf(i, ntxw, more) \in Nat \ {0}
  BY <1>1, <1>2 DEF Least, TasksOf
<1>4. Least(i, more) + (IF i < more THEN 1 ELSE 0) <= more
  BY DEF Least
<1>5. Least(i, more) \in Int
  BY DEF Least
<1> QED
  BY <1>1, <1>2, <1>3, <1>4, <1>5 DEF TasksOf

\* init_data() fills the lines of the workers that will be started; ntask is the
\* number of chunks of the range, also when the chunks have been doubled.
LEMMA TableOfLoop ==
  ASSUME NEW l \in Loops, l.chunk > 0
  PROVE  LET tab == InitData(l)
         IN  /\ tab.total \in Nat \ {0} /\ tab.chunk \in Nat \ {0}
             /\ DOMAIN tab.table = 0..(l.nw - 1)
             /\ \A id \in 0..(Least(tab.total, l.nw) - 1) :
                  LET d == tab.table[id]
                  IN  \E a, e \in Int : /\ d = DataPair(ChunksIn(d, l.step, tab.chunk), a, e)
                                        /\ ChunksIn(d, l.step, tab.chunk) \in Nat
             /\ \A id \in 0..(l.nw - 1) :
                  id >= Least(tab.total, l.nw) => tab.table[id] = Kept(id)
<1> DEFINE c == l.chunk
           s == l.step
           W == c * s
           total == TotalTasks(l, l.chunk)
           few == total < l.nw
           ntxw == IF few THEN 1 ELSE total \div l.nw
           r == IF few THEN 0 ELSE total % l.nw
           more == IF r > 1 THEN r ELSE 0
           cut(i) == Share(l, i, ntxw, more, l.chunk)
           Line(i) == IF r = 1 /\ i = l.nw - 1
                      THEN DataPair(IF ntxw > 1 THEN WithTheLeftOver(ntxw) ELSE 1,
                                 cut(i).start, l.stop)
                      ELSE DataPair(TasksOf(i, ntxw, more), cut(i).start, cut(i).end)
           double == r = 1 /\ ntxw = 1
           tab == InitData(l)
<1>1. /\ tab.table = [i \in 0..(l.nw - 1) |-> IF i < total THEN Line(i) ELSE Kept(i)]
      /\ tab.total = IF double THEN total - 1 ELSE total
      /\ tab.chunk = IF double THEN 2 * l.chunk ELSE l.chunk
  BY DEF InitData
<1>2. c \in Nat \ {0} /\ s \in Nat \ {0} /\ l.nw \in Nat \ {0} /\ l.stop \in Int
  BY LoopsAssumption
<1>3. W \in Nat \ {0} /\ total \in Nat \ {0}
  BY <1>2, TasksOfLoop
<1> HIDE DEF total, tab
<1>4. ~few => /\ ntxw \in Nat \ {0} /\ r \in 0..(l.nw - 1) /\ l.nw * ntxw + r = total
  <2> SUFFICES ASSUME ~few
               PROVE  ntxw \in Nat \ {0} /\ r \in 0..(l.nw - 1) /\ l.nw * ntxw + r = total
    OBVIOUS
  <2>1. ntxw = total \div l.nw /\ r = total % l.nw /\ l.nw <= total
    BY <1>2, <1>3
  <2> HIDE DEF ntxw, r
  <2>2. /\ total \div l.nw \in Nat /\ total % l.nw \in 0..(l.nw - 1)
        /\ l.nw * (total \div l.nw) + (total % l.nw) = total
        /\ total \div l.nw >= 1
    BY <1>2, <1>3, <2>1, Divided
  <2> QED
    BY <2>1, <2>2
<1>5. few => ntxw = 1 /\ r = 0 /\ more = 0
  OBVIOUS
<1> DEFINE K(i) == i * ntxw + Least(i, more)
           M(i) == TasksOf(i, ntxw, more)
<1>6. ASSUME NEW i \in 0..(l.nw - 1), i < total
      PROVE  /\ K(i) \in Nat /\ M(i) \in Nat \ {0} /\ K(i) + M(i) <= total
  <2>1. CASE few
    BY <1>2, <1>3, <1>5, <1>6, <2>1 DEF Least, TasksOf
  <2>2. CASE ~few
    <3>1. more \in 0..(l.nw - 1) /\ more <= r
      <4> HIDE DEF r
      <4> QED
        BY <1>2, <1>4, <2>2
    <3> HIDE DEF more, ntxw, r
    <3>2. l.nw * ntxw \in Int
      BY <1>2, <1>4, <2>2, Multiples
    <3>3. l.nw * ntxw + more <= total
      BY <1>2, <1>3, <1>4, <2>2, <3>1, <3>2
    <3> QED
      BY <1>2, <1>3, <1>4, <2>2, <3>1, <3>3, DealtOut
  <2> QED
    BY <2>1, <2>2
<1> HIDE DEF few, more
<1>7. ASSUME NEW i \in 0..(l.nw - 1), i < total
      PROVE  /\ cut(i).start \in Int /\ cut(i).end \in Int
             /\ cut(i).start < cut(i).end /\ cut(i).start < l.stop
             /\ (M(i) - 1) * W < cut(i).end - cut(i).start
             /\ cut(i).end - cut(i).start <= M(i) * W
             /\ (total - K(i) - 1) * W < l.stop - cut(i).start
             /\ l.stop - cut(i).start <= (total - K(i)) * W
  BY <1>2, <1>6, <1>7, PieceOfLoop DEF Share, total
<1> DEFINE N(i) == IF r = 1 /\ i = l.nw - 1 THEN (IF ntxw > 1 THEN ntxw + 1 ELSE 1) ELSE M(i)
           E(i) == IF r = 1 /\ i = l.nw - 1 THEN l.stop ELSE cut(i).end
<1>8. ASSUME NEW i \in 0..(l.nw - 1), i < total
      PROVE  /\ Line(i) = DataPair(N(i), cut(i).start, E(i))
             /\ cut(i).start \in Int /\ E(i) \in Int /\ cut(i).start < E(i)
             /\ N(i) \in Nat
             /\ (N(i) - 1) * (tab.chunk * s) < E(i) - cut(i).start
             /\ E(i) - cut(i).start <= N(i) * (tab.chunk * s)
  <2> DEFINE a == cut(i).start
             e == cut(i).end
             m == M(i)
             k == K(i)
             n == N(i)
             f == E(i)
  <2>1. /\ a \in Int /\ e \in Int /\ a < e /\ a < l.stop
        /\ (m - 1) * W < e - a /\ e - a <= m * W
        /\ (total - k - 1) * W < l.stop - a /\ l.stop - a <= (total - k) * W
    BY <1>7, <1>8
  <2>2. m \in Nat \ {0} /\ k \in Nat /\ k + m <= total
    BY <1>6, <1>8
  <2>3. Line(i) = DataPair(n, a, f)
    BY DEF WithTheLeftOver
  <2>4. r = 1 => /\ ntxw \in Nat \ {0} /\ l.nw * ntxw + 1 = total
                 /\ m = ntxw /\ k = i * ntxw
    <3> SUFFICES ASSUME r = 1
                 PROVE  /\ ntxw \in Nat \ {0} /\ l.nw * ntxw + 1 = total
                        /\ m = ntxw /\ k = i * ntxw
      OBVIOUS
    <3>1. ~few
      BY <1>5
    <3>2. ntxw \in Nat \ {0} /\ l.nw * ntxw + 1 = total
      BY <1>4, <3>1
    <3>3. more = 0
      BY DEF more
    <3> HIDE DEF ntxw, r
    <3>4. Least(i, more) = 0 /\ ~(i < more) /\ i * ntxw \in Int
      BY <3>2, <3>3, Multiples DEF Least
    <3> QED
      BY <3>2, <3>4 DEF TasksOf
  <2>5. r = 1 /\ i = l.nw - 1 => total - k = ntxw + 1
    <3> HIDE DEF ntxw, r, k
    <3>1. r = 1 /\ i = l.nw - 1 => l.nw * ntxw = i * ntxw + ntxw /\ i * ntxw \in Int
      <4>1. ntxw \in Int => (l.nw - 1) * ntxw = l.nw * ntxw - ntxw /\ l.nw * ntxw \in Int
        BY <1>2, Z3
      <4> QED
        BY <1>2, <2>4, <4>1
    <3> QED
      BY <1>2, <1>3, <2>4, <3>1
  <2>6. tab.chunk * s = IF double THEN 2 * W ELSE W
    <3> HIDE DEF r, ntxw, double
    <3>1. (2 * c) * s = 2 * (c * s)
      BY <1>2, Z3
    <3> QED
      BY <1>1, <3>1
  <2>7. /\ n = IF r = 1 /\ i = l.nw - 1 THEN (IF ntxw > 1 THEN ntxw + 1 ELSE 1) ELSE m
        /\ f = IF r = 1 /\ i = l.nw - 1 THEN l.stop ELSE e
        /\ double <=> r = 1 /\ ntxw = 1
    OBVIOUS
  <2> HIDE DEF a, e, m, k, n, f, W, r, ntxw, double, cut, Line, N, E, M, K
  <2> DEFINE V == tab.chunk * s
  <2>8. a \in Int /\ f \in Int /\ a < f /\ n \in Nat /\ (n - 1) * V < f - a /\ f - a <= n * V
    <3> HIDE DEF V
    <3>1. CASE r = 1 /\ i = l.nw - 1 /\ ntxw > 1
      <4>1. n = ntxw + 1 /\ f = l.stop /\ V = W /\ total - k = n /\ n \in Nat
        BY <2>4, <2>5, <2>6, <2>7, <3>1 DEF V
      <4> QED
        BY <1>2, <2>1, <4>1
    <3>2. CASE double /\ i = l.nw - 1
      <4>1. n = 1 /\ f = l.stop /\ total - k = 2 /\ V = 2 * W
        BY <2>4, <2>5, <2>6, <2>7, <3>2 DEF V
      <4> QED
        BY <1>2, <1>3, <2>1, <4>1
    <3>3. CASE double /\ i # l.nw - 1
      <4>1. n = 1 /\ m = 1 /\ f = e /\ V = 2 * W
        BY <2>4, <2>6, <2>7, <3>3 DEF V
      <4> QED
        BY <1>2, <1>3, <2>1, <4>1
    <3>4. CASE ~(r = 1 /\ i = l.nw - 1) /\ ~double
      <4>1. n = m /\ f = e /\ V = W
        BY <2>6, <2>7, <3>4 DEF V
      <4> QED
        BY <2>1, <2>2, <4>1
    <3>5. \/ r = 1 /\ i = l.nw - 1 /\ ntxw > 1
          \/ double
          \/ ~(r = 1 /\ i = l.nw - 1) /\ ~double
      BY <2>4, <2>7
    <3> QED
      BY <3>1, <3>2, <3>3, <3>4, <3>5
  <2> QED
    BY <2>3, <2>8 DEF a, n, f
<1>9. tab.total \in Nat \ {0} /\ Least(tab.total, l.nw) <= total /\ tab.chunk \in Nat \ {0}
  <2>1. double => total = l.nw + 1
    <3>1. double => ~few /\ ntxw = 1 /\ r = 1
      BY <1>5
    <3> HIDE DEF double, r, ntxw
    <3> QED
      BY <1>2, <1>3, <1>4, <3>1
  <2> HIDE DEF double
  <2> QED
    BY <1>1, <1>2, <1>3, <2>1 DEF Least
<1>10. ASSUME NEW id \in 0..(Least(tab.total, l.nw) - 1)
       PROVE  LET d == tab.table[id]
              IN  \E a, e \in Int : /\ d = DataPair(ChunksIn(d, l.step, tab.chunk), a, e)
                                    /\ ChunksIn(d, l.step, tab.chunk) \in Nat
  <2>1. id \in 0..(l.nw - 1) /\ id < total
    BY <1>2, <1>3, <1>9 DEF Least
  <2>2. tab.table[id] = Line(id)
    BY <1>1, <2>1
  <2> HIDE DEF Line, N, E, cut
  <2> DEFINE n == N(id)
             a == cut(id).start
             e == E(id)
  <2>4. /\ Line(id) = DataPair(n, a, e) /\ a \in Int /\ e \in Int /\ a < e /\ n \in Nat
        /\ (n - 1) * (tab.chunk * s) < e - a /\ e - a <= n * (tab.chunk * s)
    BY <1>8, <2>1
  <2> HIDE DEF n, a, e, s
  <2>3. ChunksIn(DataPair(n, a, e), s, tab.chunk) = n
    <3>1. n \in Int /\ s \in Nat \ {0} /\ tab.chunk \in Nat \ {0}
      BY <1>2, <1>9, <2>4
    <3> QED
      BY <2>4, <3>1, ChunksOfLine, Zenon
  <2> QED
    BY <2>4, <2>2, <2>3 DEF s
<1>11. ASSUME NEW id \in 0..(l.nw - 1), id >= Least(tab.total, l.nw)
       PROVE  tab.table[id] = Kept(id)
  <2>1. double => total = l.nw + 1
    <3>1. double => ~few /\ ntxw = 1 /\ r = 1
      BY <1>5
    <3> HIDE DEF double, r, ntxw
    <3> QED
      BY <1>2, <1>3, <1>4, <3>1
  <2> HIDE DEF double
  <2>2. ~(id < total)
    BY <1>1, <1>2, <1>3, <1>11, <2>1 DEF Least
  <2> QED
    BY <1>1, <2>2
<1> QED
  BY <1>1, <1>9, <1>10, <1>11 DEF tab

\* A range is between two integers.
LEMMA PieceTypes ==
  ASSUME NEW l \in Loops, NEW before \in Int, NEW width \in Int
  PROVE  Piece(l, before, width).start \in Int /\ Piece(l, before, width).end \in Int
<1>1. l.start \in Int /\ l.stop \in Int /\ l.step \in Int
  BY LoopsAssumption
<1>2. before * l.step \in Int /\ (width - 1) * l.step \in Int
  BY <1>1, Z3
<1> QED
  BY <1>1, <1>2 DEF Piece, EndOf, Least

-----------------------------------------------------------------------------
(* The parallel loops                                                      *)

Lines == [ntask : Int, start : Int, end : Int]
Locals == [id : Int, old : Int, end : Int, max : Int, next : Int]

\* A worker is busy with a loop, or waits for the others or for the next loop.
Busy == {"look", "load", "claim", "count", "none", "scan", "victim", "steal", "barrier"}
Resting == {"idle", "wait"}

\* The caller has started, or is about to start, workers.
Started == {"setup", "wake", "arrive", "wait"}

LoopTypes ==
  /\ loop \in Loops
  /\ sched \in [chunk : Int, nw : 1..MaxWorkers, static : BOOLEAN, maxid : Int]
  /\ data \in [DOMAIN data -> Lines] /\ DOMAIN data \subseteq Nat
  /\ mpc \in {"user", "alone", "back"} \cup Started
  /\ inbox \in [LoopWorkers -> Nat]
  /\ wpc \in [LoopWorkers -> Busy \cup Resting]
  /\ my \in [LoopWorkers -> Locals]

\* The table has a line for each worker started, and maxid is a line of it.
TableInv ==
  /\ 0..(sched.nw - 1) \subseteq DOMAIN data
  /\ sched.maxid >= 0 => sched.maxid \in DOMAIN data
  /\ mpc \in Started /\ ~sched.static => loop.chunk > 0
  /\ mpc \in Started /\ loop.chunk >= 0 => sched.chunk > 0
  /\ mpc \in Started => sched.nw >= 2
  /\ mpc = "wake" => woken \in 0..(sched.nw - 1)

\* What a busy worker has in its local variables: lines of the table and, before it
\* claims a chunk of a range, whose end does not change, the end of that chunk.
LocalInv(w) ==
  wpc[w] \in Busy =>
    /\ my[w].id \in DOMAIN data
    /\ wpc[w] \in {"scan", "victim", "steal"} => my[w].max \in DOMAIN data
    /\ wpc[w] = "claim" =>
         my[w].end = Least(my[w].old + ((sched.chunk - 1) * loop.step + 1), data[my[w].id].end)

\* The party of the barrier: the workers started and the caller, under the next index.
Members(k) == 0..(k - 2) \cup {Main}
Slots(k) == [t \in Members(k) |-> IF t = Main THEN k - 1 ELSE t]

\* Worker w has been called, for a round that the caller has not entered.
IsCalled(w) == mpc = "arrive" \/ (mpc = "wake" /\ w < woken)
LatestRound(w) == entered[Main] + (IF IsCalled(w) THEN 1 ELSE 0)

\* A worker has entered the round it was called for, or it has still to work, and
\* the caller will wait for it.
Ready(w) == /\ inbox[w] = 0 /\ wpc[w] \in Resting
            /\ entered[w] = LatestRound(w)

Pending(w) == /\ \/ inbox[w] = 1 /\ wpc[w] \in Resting
                 \/ inbox[w] = 0 /\ wpc[w] \in Busy
              /\ IsCalled(w) \/ mpc = "wait"
              /\ entered[w] + 1 = LatestRound(w)

Unused(w) == wpc[w] = "idle" /\ inbox[w] = 0

\* The barrier is set up by the first loop on several workers, for its team.
NoTeam == /\ BarStart(0)
          /\ mpc \in {"user", "alone", "back", "setup"}
          /\ \A w \in LoopWorkers : Unused(w)

TeamOf(k) == /\ PartyInv(Members(k), Slots(k))
             /\ team = k
             /\ mpc \in Started => sched.nw + 1 = k
             /\ mpc = "wait" <=> bpc[Main] # "out"
             /\ \A w \in LoopWorkers : IF w \in 0..(k - 2) THEN Ready(w) \/ Pending(w)
                                                           ELSE Unused(w)

TeamInv == NoTeam \/ \E k \in 3..(MaxWorkers + 1) : TeamOf(k)

\* While a range has chunks, ntask is their number and that of the claims not counted.
TaskInv ==
  mpc \in Started /\ loop.chunk >= 0 =>
    \A id \in 0..(sched.nw - 1) :
      Unclaimed(id) > 0 => data[id].ntask = Unclaimed(id) + Cardinality(Uncounting(id))

LoopInv == LoopTypes /\ TableInv /\ (\A w \in LoopWorkers : LocalInv(w)) /\ TeamInv /\ TaskInv

-----------------------------------------------------------------------------
(* The initial state, and the calls                                        *)

\* The workers are numbered, and the caller is another thread of the barrier.
LEMMA LoopThreads ==
  /\ MaxWorkers \in Nat \ {0}
  /\ LoopWorkers = 0..(MaxWorkers - 1) /\ LoopWorkers \subseteq BarThreads
  /\ Main = MaxWorkers /\ Main \in BarThreads /\ Main \notin LoopWorkers
  /\ 0..MaxWorkers \subseteq BarThreads /\ BarThreads \subseteq Tids
BY LoopsAssumption, TeamUsesTheBarrier, BarAssumption DEF LoopWorkers, Main, BarAssumption

LEMMA LoopInitInv == LoopInit => LoopInv
<1> SUFFICES ASSUME LoopInit PROVE LoopInv
  OBVIOUS
<1> USE LoopThreads
<1>1. LoopTypes
  BY DEF LoopInit, LoopTypes, Lines, Locals, DataPair, Resting, Busy, Started
<1>2. TableInv
  BY DEF LoopInit, TableInv, Started
<1>3. \A w \in LoopWorkers : LocalInv(w)
  BY DEF LoopInit, LocalInv, Busy
<1>4. TeamInv
  BY DEF LoopInit, TeamInv, NoTeam, Unused, BarInit
<1>5. TaskInv
  BY DEF LoopInit, TaskInv, Started
<1> QED
  BY <1>1, <1>2, <1>3, <1>4, <1>5 DEF LoopInv

\* What a table has, whoever filled it: a line for each worker to be started; without a
\* grain, ntask is the number of chunks, and the other lines are as they were.
TableOK(l, tab) ==
  LET nw == Least(tab.total, l.nw)
  IN  /\ nw \in 1..MaxWorkers
      /\ tab.chunk \in Int
      /\ tab.table \in [DOMAIN tab.table -> Lines] /\ DOMAIN tab.table \subseteq Nat
      /\ 0..(nw - 1) \subseteq DOMAIN tab.table
      /\ l.chunk < 0 => DOMAIN data \subseteq DOMAIN tab.table
      /\ l.chunk >= 0 =>
           /\ tab.chunk > 0
           /\ \A id \in 0..(nw - 1) :
                LET chunks == ChunksIn(tab.table[id], l.step, tab.chunk)
                IN  chunks > 0 => tab.table[id].ntask = chunks
           /\ \A id \in DOMAIN tab.table : id >= nw => tab.table[id] = Kept(id)

\* init_data()
LEMMA DataTable ==
  ASSUME LoopTypes, NEW l \in Loops, l.chunk > 0
  PROVE  TableOK(l, InitData(l))
<1> DEFINE tab == InitData(l)
           nw == Least(tab.total, l.nw)
<1>1. l.chunk \in Int /\ l.nw \in 1..MaxWorkers /\ MaxWorkers \in Nat
  BY LoopsAssumption
<1>2. \A i : Kept(i) \in Lines
  BY DEF LoopTypes, Kept, DataPair, Lines
<1>3. \A n, a, e \in Int : DataPair(n, a, e) \in Lines
  BY DEF DataPair, Lines
<1>4. /\ tab.total \in Nat \ {0} /\ tab.chunk \in Nat \ {0}
      /\ DOMAIN tab.table = 0..(l.nw - 1)
      /\ \A id \in 0..(nw - 1) :
           LET d == tab.table[id]
           IN  \E a, e \in Int : /\ d = DataPair(ChunksIn(d, l.step, tab.chunk), a, e)
                                 /\ ChunksIn(d, l.step, tab.chunk) \in Nat
      /\ \A id \in 0..(l.nw - 1) : id >= nw => tab.table[id] = Kept(id)
  BY TableOfLoop, Zenon
<1>5. tab.table = [i \in DOMAIN tab.table |-> tab.table[i]]
  BY DEF InitData
<1> HIDE DEF tab
<1>6. nw \in 1..MaxWorkers /\ nw <= l.nw
  BY <1>1, <1>4 DEF Least
<1> HIDE DEF nw
<1>7. ASSUME NEW id \in DOMAIN tab.table
      PROVE  tab.table[id] \in Lines
  <2>1. CASE id \in 0..(nw - 1)
    BY <1>3, <1>4, <2>1
  <2>2. CASE id \notin 0..(nw - 1)
    <3>1. id \in 0..(l.nw - 1) /\ id >= nw
      BY <1>1, <1>4, <1>6, <2>2
    <3> QED
      BY <1>2, <1>4, <3>1
  <2> QED
    BY <2>1, <2>2
<1>8. tab.table \in [DOMAIN tab.table -> Lines]
  BY <1>5, <1>7
<1>9. \A id \in 0..(nw - 1) : tab.table[id].ntask = ChunksIn(tab.table[id], l.step, tab.chunk)
  <2> SUFFICES ASSUME NEW id \in 0..(nw - 1)
               PROVE  tab.table[id].ntask = ChunksIn(tab.table[id], l.step, tab.chunk)
    OBVIOUS
  <2>1. \E a, e : tab.table[id] = DataPair(ChunksIn(tab.table[id], l.step, tab.chunk), a, e)
    BY <1>4 DEF nw
  <2> QED
    BY <2>1 DEF DataPair
<1> QED
  BY <1>1, <1>4, <1>6, <1>8, <1>9 DEF tab, nw, TableOK

\* init_data_static() with grain 0: a share is a single chunk, or nothing.
LEMMA SharesTable ==
  ASSUME NEW l \in Loops, l.chunk = 0
  PROVE  TableOK(l, InitShares(l))
<1> DEFINE tab == InitShares(l)
           n == NumTasks(l)
           share == n \div l.nw
           r == n % l.nw
           cut(i) == Share(l, i, share, r, 1)
           start(i) == cut(i).start
           end(i) == cut(i).end
<1>1. /\ l.start \in Int /\ l.stop \in Int /\ l.step \in Nat \ {0}
      /\ l.nw \in 1..MaxWorkers /\ MaxWorkers \in Nat /\ l.nw \in Nat \ {0}
  BY LoopsAssumption
<1>2. share \in Nat /\ r \in 0..(l.nw - 1) /\ (share = 0 => r > 0)
  <2>1. n \in Nat \ {0}
    <3>1. TotalTasks(l, 1) \in Nat \ {0}
      BY TasksOfLoop
    <3>2. l.stop - l.start \in Int
      BY <1>1
    <3>3. n \in Int
      BY <1>1, <3>2, RoundedUp DEF NumTasks
    <3>4. TotalTasks(l, 1) = CeilDiv(n, 1)
      BY DEF TotalTasks
    <3> HIDE DEF n
    <3>5. CeilDiv(n, 1) = n
      BY <3>3 DEF CeilDiv
    <3> QED
      BY <3>1, <3>4, <3>5
  <2> HIDE DEF n
  <2>2. /\ n \div l.nw \in Nat /\ n % l.nw \in 0..(l.nw - 1)
        /\ l.nw * (n \div l.nw) + (n % l.nw) = n
    BY <1>1, <2>1, Divided
  <2>3. l.nw * 0 = 0
    BY <1>1, Z3
  <2> QED
    BY <1>1, <2>1, <2>2, <2>3
<1>3. /\ tab.table = [i \in 0..(l.nw - 1) |-> DataPair(1, cut(i).start, cut(i).end)]
      /\ tab.total = l.nw /\ tab.chunk = IF r > 0 THEN share + 1 ELSE share
  BY DEF InitShares
<1> HIDE DEF n, share, r, tab
<1>4. tab.chunk \in Nat \ {0}
  BY <1>2, <1>3
<1>5. ASSUME NEW i \in 0..(l.nw - 1)
      PROVE  /\ start(i) \in Int /\ end(i) \in Int
             /\ end(i) - start(i) <= tab.chunk * l.step
  <2> DEFINE before == (i * share + Least(i, r)) * 1
             m == TasksOf(i, share, r)
             width == m * 1
  <2>1. before \in Int /\ width \in Int /\ width = m /\ m \in Nat /\ m <= tab.chunk
    <3>1. i * share \in Int /\ Least(i, r) \in Int
      BY <1>2, Z3 DEF Least
    <3> QED
      BY <1>2, <1>3, <3>1 DEF TasksOf
  <2>2. cut(i) = Piece(l, before, width)
    BY DEF Share
  <2> HIDE DEF before, width, cut, m
  <2>3. start(i) \in Int /\ end(i) \in Int
    BY <2>1, <2>2, PieceTypes
  <2>4. end(i) = Least(start(i) + (m - 1) * l.step + 1, l.stop)
    BY <2>1, <2>2 DEF Piece, EndOf
  <2> HIDE DEF start, end
  <2>5. /\ (m - 1) * l.step = m * l.step - l.step /\ m * l.step \in Int
        /\ m * l.step <= tab.chunk * l.step /\ tab.chunk * l.step \in Int
    BY <1>1, <1>4, <2>1, Multiples
  <2>6. end(i) <= start(i) + (m - 1) * l.step + 1
    BY <1>1, <2>3, <2>4, <2>5 DEF Least
  <2> DEFINE M == m * l.step
             S == (m - 1) * l.step
             W == tab.chunk * l.step
  <2>7. S = M - l.step /\ M \in Int /\ M <= W /\ W \in Int /\ end(i) <= start(i) + S + 1
    BY <2>5, <2>6
  <2> HIDE DEF M, S, W
  <2>8. end(i) - start(i) <= W
    BY <1>1, <2>3, <2>7
  <2> QED
    BY <2>3, <2>8 DEF W
<1> HIDE DEF cut
<1>6. ASSUME NEW i \in 0..(l.nw - 1)
      PROVE  /\ tab.table[i] = DataPair(1, start(i), end(i)) /\ tab.table[i] \in Lines
             /\ LET chunks == ChunksIn(tab.table[i], l.step, tab.chunk)
                IN  chunks > 0 => tab.table[i].ntask = chunks
  <2>1. tab.table[i] = DataPair(1, start(i), end(i))
    BY <1>3
  <2>2. start(i) \in Int /\ end(i) \in Int /\ end(i) - start(i) <= tab.chunk * l.step
    BY <1>5
  <2> HIDE DEF start, end
  <2>3. CASE start(i) < end(i)
    <3> DEFINE W == tab.chunk * l.step
    <3>4. W \in Nat \ {0}
      BY <1>1, <1>4, Positive
    <3> HIDE DEF W
    <3>1. (1 - 1) * W = 0 /\ 1 * W = W
      BY <3>4, Z3
    <3>2. (1 - 1) * W < end(i) - start(i) /\ end(i) - start(i) <= 1 * W
      BY <2>2, <2>3, <3>1, <3>4 DEF W
    <3>3. ChunksIn(DataPair(1, start(i), end(i)), l.step, tab.chunk) = 1
      BY <1>1, <1>4, <2>2, <2>3, <3>2, ChunksOfLine DEF W
    <3> QED
      BY <2>1, <2>2, <3>3 DEF DataPair, Lines
  <2>4. CASE start(i) >= end(i)
    <3>1. ChunksIn(DataPair(1, start(i), end(i)), l.step, tab.chunk) = 0
      BY <2>4 DEF ChunksIn, DataPair
    <3> QED
      BY <2>1, <2>2, <3>1 DEF DataPair, Lines
  <2> QED
    BY <2>2, <2>3, <2>4
<1> HIDE DEF start, end
<1>7. Least(l.nw, l.nw) = l.nw
  BY DEF Least
<1>8. DOMAIN tab.table = 0..(l.nw - 1) /\ tab.table \in [DOMAIN tab.table -> Lines]
  <2>1. DOMAIN tab.table = 0..(l.nw - 1) /\ tab.table = [i \in 0..(l.nw - 1) |-> tab.table[i]]
    BY <1>3
  <2> QED
    BY <1>6, <2>1
<1>9. \A id \in DOMAIN tab.table : ~(id >= l.nw)
  BY <1>1, <1>8
<1>10. Least(tab.total, l.nw) = l.nw /\ tab.chunk \in Int /\ tab.chunk > 0
  BY <1>3, <1>4, <1>7
<1>11. 0..(l.nw - 1) = DOMAIN tab.table /\ DOMAIN tab.table \subseteq Nat
  BY <1>8
<1>12. \A id \in 0..(l.nw - 1) :
         LET chunks == ChunksIn(tab.table[id], l.step, tab.chunk)
         IN  chunks > 0 => tab.table[id].ntask = chunks
  BY <1>6
<1>13. ~(l.chunk < 0)
  OBVIOUS
<1> HIDE DEF tab
<1>14. TableOK(l, tab)
  BY <1>1, <1>8, <1>9, <1>10, <1>11, <1>12, <1>13, Zenon DEF TableOK
<1> QED
  BY <1>14 DEF tab

\* init_data_static() with a grain
LEMMA RoundRobinTable ==
  ASSUME LoopTypes, NEW l \in Loops, l.chunk < 0
  PROVE  TableOK(l, InitRoundRobin(l))
<1> DEFINE tab == InitRoundRobin(l)
           grain == 0 - l.chunk
           started == Least(l.nw, TotalTasks(l, grain))
           D == 0..(started - 1) \cup DOMAIN data
           Put(i) == IF i < started THEN DataPair(1, l.start + i * grain, l.stop) ELSE data[i]
<1>1. /\ l.start \in Int /\ l.stop \in Int /\ l.chunk \in Int
      /\ l.nw \in 1..MaxWorkers /\ MaxWorkers \in Nat
  BY LoopsAssumption
<1>2. tab.table = [i \in D |-> Put(i)] /\ tab.total = started /\ tab.chunk = l.stop
  BY DEF InitRoundRobin
<1>3. grain \in Nat \ {0}
  BY <1>1
<1>4. TotalTasks(l, grain) \in Nat \ {0}
  BY <1>3, TasksOfLoop
<1> HIDE DEF tab, grain
<1>5. started \in 1..MaxWorkers /\ started <= l.nw
  BY <1>1, <1>4 DEF Least
<1> HIDE DEF started
<1>6. ASSUME NEW i \in D
      PROVE  Put(i) \in Lines
  <2>1. CASE i \in 0..(started - 1)
    <3>1. i * grain \in Int
      BY <1>3, <1>5, <2>1, Z3
    <3>2. Put(i) = DataPair(1, l.start + i * grain, l.stop)
      BY <1>5, <2>1
    <3> QED
      BY <1>1, <3>1, <3>2 DEF DataPair, Lines
  <2>2. CASE i \notin 0..(started - 1)
    <3>1. i \in DOMAIN data /\ i \in Nat
      BY <2>2 DEF LoopTypes
    <3>2. ~(i < started)
      BY <1>5, <2>2, <3>1
    <3> QED
      BY <3>1, <3>2 DEF LoopTypes
  <2> QED
    BY <2>1, <2>2
<1>7. Least(started, l.nw) = started
  BY <1>1, <1>5 DEF Least
<1>8. DOMAIN tab.table = D /\ tab.table \in [D -> Lines]
  BY <1>2, <1>6
<1>9. D \subseteq Nat
  BY <1>5 DEF LoopTypes
<1> QED
  BY <1>1, <1>2, <1>5, <1>7, <1>8, <1>9 DEF tab, TableOK

LEMMA Tables ==
  ASSUME LoopTypes, NEW l \in Loops
  PROVE  TableOK(l, Filled(l))
<1>1. l.chunk \in Int
  BY LoopsAssumption
<1>2. l.chunk > 0 \/ l.chunk = 0 \/ l.chunk < 0
  BY <1>1
<1> QED
  BY <1>1, <1>2, DataTable, SharesTable, RoundRobinTable DEF Filled

\* The chunks of a range are a number, and there is one if it is not exhausted.
LEMMA ChunksType ==
  ASSUME NEW a \in Int, NEW e \in Int, NEW s \in Nat \ {0}, NEW c \in Nat \ {0}
  PROVE  \A n : /\ ChunksIn(DataPair(n, a, e), s, c) \in Nat
                /\ a < e => ChunksIn(DataPair(n, a, e), s, c) > 0
                /\ a >= e => ChunksIn(DataPair(n, a, e), s, c) = 0
<1> DEFINE x == e - a
           W == c * s
           q == CeilDiv(CeilDiv(x, s), c)
<1>1. x \in Int
  OBVIOUS
<1>2. q \in Int /\ W \in Nat \ {0}
  BY <1>1, ChunksAre
<1>3. x <= q * W
  BY <1>1, <1>2, ChunksAre
<1> HIDE DEF x, W, q
<1>4. q * W \in Int /\ 0 * W = 0
  BY <1>2, Multiples, Z3
<1>5. x > 0 => 0 * W < q * W
  BY <1>1, <1>3, <1>4
<1>6. x > 0 => q > 0
  BY <1>2, <1>5, Multiples
<1>7. \A n : ChunksIn(DataPair(n, a, e), s, c) = IF a >= e THEN 0 ELSE q
  BY DEF ChunksIn, DataPair, q, x
<1>8. a < e => x > 0
  BY DEF x
<1> QED
  BY <1>2, <1>6, <1>7, <1>8

LEMMA ChunksOfLines ==
  ASSUME NEW d \in Lines, NEW s \in Nat \ {0}, NEW c \in Nat \ {0}
  PROVE  /\ ChunksIn(d, s, c) \in Nat
         /\ ChunksIn(d, s, c) = 0 <=> d.start >= d.end
<1>1. d = DataPair(d.ntask, d.start, d.end) /\ d.start \in Int /\ d.end \in Int
  BY DEF Lines, DataPair
<1> QED
  BY <1>1, ChunksType

-----------------------------------------------------------------------------
(* The caller                                                              *)

\* Between loops nobody works.
LEMMA NobodyBusy ==
  ASSUME TeamInv, mpc \notin {"wake", "arrive", "wait"}
  PROVE  \A w \in LoopWorkers : wpc[w] \in Resting /\ inbox[w] = 0
BY DEF TeamInv, NoTeam, TeamOf, Ready, Pending, Unused, IsCalled, Resting

\* A worker that rests is not counting.
LEMMA NobodyCounts ==
  ASSUME \A w \in LoopWorkers : wpc[w] \in Resting
  PROVE  \A id : Cardinality(Uncounting(id)) = 0
<1>1. \A id : Uncounting(id) = {}
  BY DEF Uncounting, Resting
<1> QED
  BY <1>1, FS_EmptySet

\* The team stays as it is when the barrier, the workers and their tasks do.
LEMMA TeamStays ==
  ASSUME TeamInv, UNCHANGED <<barVars, wpc, inbox>>,
         mpc \notin {"wake", "arrive", "wait"}, mpc' \in {"user", "alone", "back", "setup"},
         mpc' = "setup" => team \in {0, sched'.nw + 1}
  PROVE  TeamInv'
<1> USE DEF barVars, barrier, waiting, rounds
<1>1. CASE NoTeam
  BY <1>1 DEF TeamInv, NoTeam, BarStart, Unused
<1>2. ASSUME NEW k \in 3..(MaxWorkers + 1), TeamOf(k)
      PROVE  TeamOf(k)'
  <2>1. PartyInv(Members(k), Slots(k))'
    BY <1>2, PartyStutter DEF TeamOf
  <2>2. ASSUME NEW w \in 0..(k - 2), Ready(w)
        PROVE  Ready(w)'
    BY <2>2 DEF Ready, LatestRound, IsCalled
  <2>3. \A w \in LoopWorkers : ~Pending(w)
    BY DEF Pending, IsCalled
  <2>4. \A w \in LoopWorkers : Unused(w) => Unused(w)'
    BY DEF Unused
  <2>5. team = k /\ k # 0
    BY <1>2 DEF TeamOf
  <2> QED
    BY <1>2, <2>1, <2>2, <2>3, <2>4, <2>5 DEF TeamOf, Started
<1> QED
  BY <1>1, <1>2 DEF TeamInv

\* A loop is called: the new table satisfies the invariants, and nobody uses the old
\* one any more.
LEMMA SetLoopInv ==
  ASSUME LoopInv, ~TeamMayChange, NEW l \in Loops, SetLoop(l)
  PROVE  LoopInv'
<1> DEFINE tab == Filled(l)
           nw == Least(tab.total, l.nw)
<1>1. /\ mpc = "user" /\ loop' = l /\ data' = tab.table
      /\ sched' = [chunk |-> tab.chunk, nw |-> nw, static |-> l.chunk <= 0,
                   maxid |-> IF l.chunk < 0 THEN sched.maxid ELSE -1]
      /\ mpc' = IF nw = 1 THEN "alone" ELSE "setup"
      /\ nw = 1 \/ team \in {0, nw + 1}
      /\ UNCHANGED <<woken, inbox, wpc, my, barVars>>
  BY DEF SetLoop, mine
<1>2. TableOK(l, tab) /\ l.chunk \in Int
  BY Tables, LoopsAssumption DEF LoopInv
<1> HIDE DEF tab
<1>0. /\ sched'.nw = nw /\ sched'.chunk = tab.chunk
      /\ ~sched'.static => l.chunk > 0
      /\ sched'.maxid = IF l.chunk < 0 THEN sched.maxid ELSE -1
  <2> HIDE DEF nw
  <2>1. CASE l.chunk <= 0
    <3>1. (l.chunk <= 0) = TRUE
      BY <2>1
    <3>2. sched'.static = TRUE
      BY <1>1, <3>1, Zenon
    <3> QED
      BY <1>1, <3>2
  <2>2. CASE ~(l.chunk <= 0)
    BY <1>1, <1>2, <2>2
  <2> QED
    BY <2>1, <2>2
<1>3. LoopTypes'
  BY <1>1, <1>2, LoopThreads DEF LoopInv, LoopTypes, TableOK, Started
<1>4. TableInv'
  <2>1. nw \in 1..MaxWorkers /\ MaxWorkers \in Nat
    BY <1>2, LoopThreads DEF TableOK
  <2>2. 0..(nw - 1) \subseteq DOMAIN tab.table
    BY <1>2 DEF TableOK
  <2>3. l.chunk >= 0 => tab.chunk > 0
    BY <1>2 DEF TableOK
  <2>4. l.chunk < 0 => DOMAIN data \subseteq DOMAIN tab.table
    BY <1>2 DEF TableOK
  <2>5. sched.maxid >= 0 => sched.maxid \in DOMAIN data
    BY DEF LoopInv, TableInv
  <2>6. tab.chunk \in Int
    BY <1>2 DEF TableOK
  <2> HIDE DEF nw
  <2> QED
    BY <1>0, <1>1, <1>2, <2>1, <2>2, <2>3, <2>4, <2>5, <2>6 DEF TableInv, Started
<1>5. \A w \in LoopWorkers : wpc[w] \in Resting /\ inbox[w] = 0
  BY <1>1, NobodyBusy DEF LoopInv
<1>6. \A w \in LoopWorkers : LocalInv(w)'
  BY <1>1, <1>5 DEF LocalInv, Busy, Resting
<1>7. TeamInv'
  BY <1>1, TeamStays DEF LoopInv
<1>8. TaskInv'
  <2>1. \A id : Cardinality(Uncounting(id)') = 0
    <3>1. \A id : Uncounting(id)' = {}
      BY <1>1, <1>5 DEF Uncounting, Resting
    <3> QED
      BY <3>1, FS_EmptySet
  <2>2. ASSUME l.chunk >= 0, NEW id \in 0..(nw - 1), Unclaimed(id)' > 0
        PROVE  data'[id].ntask = Unclaimed(id)' /\ Unclaimed(id)' \in Nat
    <3>1. LET chunks == ChunksIn(tab.table[id], l.step, tab.chunk)
          IN  chunks > 0 => tab.table[id].ntask = chunks
      BY <1>2, <2>2 DEF TableOK
    <3>2. Unclaimed(id)' = ChunksIn(tab.table[id], l.step, tab.chunk)
      BY <1>0, <1>1 DEF Unclaimed
    <3>3. tab.table[id] \in Lines /\ l.step \in Nat \ {0} /\ tab.chunk \in Nat \ {0}
      BY <1>2, <2>2, LoopsAssumption DEF TableOK
    <3>4. Unclaimed(id)' \in Nat
      BY <3>2, <3>3, ChunksOfLines
    <3> QED
      BY <1>1, <2>2, <3>1, <3>2, <3>4
  <2>3. sched'.nw = nw /\ loop' = l
    BY <1>0, <1>1
  <2> HIDE DEF nw
  <2> QED
    BY <2>1, <2>2, <2>3 DEF TaskInv
<1> QED
  BY <1>3, <1>4, <1>6, <1>7, <1>8 DEF LoopInv

\* The members of a team are a party of the barrier.
LEMMA TeamIsAParty ==
  ASSUME NEW k \in 3..(MaxWorkers + 1)
  PROVE  /\ Party(Members(k), Slots(k))
         /\ Cardinality(Members(k)) = k
         /\ Slots(k)[Main] = k - 1 /\ Main \in Members(k)
         /\ \A w \in 0..(k - 2) : Slots(k)[w] = w /\ w \in Members(k) /\ w \in LoopWorkers
<1>1. /\ k \in Nat /\ 0..(k - 2) \subseteq LoopWorkers /\ Main \notin 0..(k - 2)
      /\ Main = MaxWorkers /\ MaxWorkers \in Nat /\ k - 1 \in 0..MaxWorkers
  BY LoopThreads
<1>2. Cardinality(Members(k)) = k
  <2>1. IsFiniteSet(0..(k - 2)) /\ Cardinality(0..(k - 2)) = k - 1
    BY <1>1, FS_Interval, SMT
  <2>2. Cardinality(0..(k - 2) \cup {Main}) = (k - 1) + 1
    BY <1>1, <2>1, FS_AddElement
  <2> QED
    BY <1>1, <2>2 DEF Members
<1>3. Party(Members(k), Slots(k))
  BY <1>1, LoopThreads DEF Party, Members, Slots
<1> QED
  BY <1>1, <1>2, <1>3 DEF Members, Slots

\* The barrier is set up for a team, and its members leave a round together.
TeamsStart ==
  \A k \in 3..(MaxWorkers + 1) : BarStart(k) => PartyInv(Members(k), Slots(k))

LEMMA TeamStart == TeamsStart
BY TeamIsAParty, PartyInit DEF TeamsStart

TeamsLeaveTogether ==
  \A k \in 3..(MaxWorkers + 1) :
    PartyInv(Members(k), Slots(k)) => \A w \in 0..(k - 2) : passed[Main] <= entered[w]

LEMMA TeamTogether == TeamsLeaveTogether
BY TeamIsAParty, PartyTogether DEF TeamsLeaveTogether, LeaveTogether

\* The caller goes on while the workers and the table stay as they are.
LEMMA CallerGoesOn ==
  ASSUME LoopInv, UNCHANGED <<loop, sched, data, wpc, my>>,
         inbox' \in [LoopWorkers -> Nat],
         mpc' \in {"user", "alone", "back"} \cup Started, mpc' \in Started => mpc \in Started,
         mpc' = "wake" => woken' \in 0..(sched.nw - 1),
         TeamInv'
  PROVE  LoopInv'
<1>1. LoopTypes' /\ TableInv'
  BY DEF LoopInv, LoopTypes, TableInv
<1>2. \A w \in LoopWorkers : LocalInv(w)'
  BY DEF LoopInv, LocalInv
<1>3. TaskInv'
  BY DEF LoopInv, TaskInv, Unclaimed, Uncounting
<1> QED
  BY <1>1, <1>2, <1>3 DEF LoopInv

\* A loop without workers
LEMMA AloneInv ==
  ASSUME LoopInv, RunAlone \/ ReturnAlone
  PROVE  LoopInv'
<1>1. /\ mpc \in {"alone", "back"} /\ mpc' \in {"back", "user"}
      /\ UNCHANGED <<loop, sched, data, wpc, my, barVars, inbox>>
  BY DEF RunAlone, ReturnAlone, mine
<1>2. TeamInv'
  BY <1>1, TeamStays DEF LoopInv
<1> QED
  BY <1>1, <1>2, CallerGoesOn DEF LoopInv, LoopTypes, Started

\* The barrier is set up by the first loop, and left alone by the others.
LEMMA SetupBarrierInv ==
  ASSUME LoopInv, SetupBarrier
  PROVE  LoopInv'
<1>1. /\ mpc = "setup" /\ mpc' = "wake" /\ woken' = 0 /\ BarrierSetup(sched.nw + 1)
      /\ UNCHANGED <<loop, sched, data, wpc, my, inbox>>
  BY DEF SetupBarrier, TeamSize, mine
<1>2. sched.nw \in 2..MaxWorkers /\ MaxWorkers \in Nat
  BY <1>1, LoopThreads DEF LoopInv, LoopTypes, TableInv, Started
<1>3. TeamInv'
  <2>1. CASE NoTeam
    <3> DEFINE k == sched.nw + 1
    <3>1. k \in 3..(MaxWorkers + 1)
      BY <1>2
    <3>2. BarStart(k)' /\ sched'.nw + 1 = k /\ k' = k
      BY <1>1, <1>2, <2>1 DEF NoTeam, BarStart, BarrierSetup, waiting, rounds
    <3>3. TeamsStart'
      BY TeamStart, PTL
    <3> HIDE DEF k
    <3>4. PartyInv(Members(k), Slots(k))'
      BY <3>1, <3>2, <3>3 DEF TeamsStart
    <3>5. \A w \in LoopWorkers : Ready(w)' /\ Unused(w)'
      BY <1>1, <2>1, <3>2, LoopThreads
      DEF NoTeam, BarStart, Ready, Unused, LatestRound, IsCalled, Resting
    <3> QED
      BY <1>1, <3>1, <3>2, <3>4, <3>5, LoopThreads DEF TeamInv, TeamOf, BarStart
  <2>2. ASSUME NEW k \in 3..(MaxWorkers + 1), TeamOf(k)
        PROVE  TeamOf(k)'
    <3>1. UNCHANGED barVars /\ team = sched.nw + 1
      BY <1>1, <2>2 DEF TeamOf, Started, BarrierSetup, barVars, barrier
    <3>2. PartyInv(Members(k), Slots(k))'
      BY <2>2, <3>1, PartyStutter DEF TeamOf
    <3>3. ASSUME NEW w \in LoopWorkers
          PROVE  ~Pending(w) /\ (Ready(w) => Ready(w)') /\ (Unused(w) => Unused(w)')
      BY <1>1, <3>1, LoopThreads
      DEF Pending, Ready, Unused, LatestRound, IsCalled, barVars, rounds
    <3> QED
      BY <1>1, <2>2, <3>1, <3>2, <3>3 DEF TeamOf, Started, barVars, barrier, waiting
  <2> QED
    BY <2>1, <2>2 DEF LoopInv, TeamInv
<1> QED
  BY <1>1, <1>2, <1>3, CallerGoesOn DEF LoopInv, LoopTypes, Started

\* The next worker is called: it was ready for the round.
LEMMA SendWakeUpInv ==
  ASSUME LoopInv, SendWakeUp
  PROVE  LoopInv'
<1>1. /\ mpc = "wake" /\ inbox' = [inbox EXCEPT ![woken] = @ + 1] /\ woken' = woken + 1
      /\ mpc' = IF woken + 1 = sched.nw THEN "arrive" ELSE "wake"
      /\ UNCHANGED <<loop, sched, data, wpc, my, barVars>>
  BY DEF SendWakeUp, mine
<1>2. woken \in 0..(sched.nw - 1) /\ sched.nw \in 2..MaxWorkers /\ MaxWorkers \in Nat
  BY <1>1, LoopThreads DEF LoopInv, LoopTypes, TableInv, Started
<1> PICK k \in 3..(MaxWorkers + 1) : TeamOf(k)
  BY <1>1 DEF LoopInv, TeamInv, NoTeam
<1>3. sched.nw + 1 = k /\ k - 2 = sched.nw - 1 /\ team = k /\ bpc[Main] = "out"
  BY <1>1, <1>2 DEF TeamOf, Started
<1>4. PartyInv(Members(k), Slots(k))'
  BY <1>1, PartyStutter DEF TeamOf
<1>5. inbox \in [LoopWorkers -> Nat] /\ woken \in LoopWorkers
  BY <1>2, LoopThreads DEF LoopInv, LoopTypes
<1>6. inbox' \in [LoopWorkers -> Nat] /\ inbox'[woken] = inbox[woken] + 1
      /\ \A w \in LoopWorkers : w # woken => inbox'[w] = inbox[w]
  BY <1>1, <1>5
<1>7. UNCHANGED <<entered, bpc, team>>
  BY <1>1 DEF barVars, barrier, waiting, rounds
<1>8. entered \in [BarThreads -> Nat] /\ Main \in BarThreads /\ LoopWorkers \subseteq BarThreads
  BY LoopThreads DEF TeamOf, PartyInv, BarTypes
<1>9. ASSUME NEW w \in LoopWorkers, w \in 0..(k - 2), w # woken
      PROVE  Ready(w)' \/ Pending(w)'
  <2>1. IsCalled(w)' <=> IsCalled(w)
    BY <1>1, <1>2, <1>3, <1>9 DEF IsCalled
  <2>2. LatestRound(w)' = LatestRound(w)
    BY <1>7, <2>1 DEF LatestRound
  <2>3. Ready(w) \/ Pending(w)
    BY <1>9 DEF TeamOf
  <2> QED
    BY <1>1, <1>6, <1>7, <1>9, <2>1, <2>2, <2>3 DEF Ready, Pending
<1>10. ASSUME NEW w \in LoopWorkers, w = woken
       PROVE  Pending(w)'
  <2>1. ~IsCalled(w) /\ IsCalled(w)'
    BY <1>1, <1>2, <1>10 DEF IsCalled
  <2>2. LatestRound(w) = entered[Main] /\ LatestRound(w)' = entered[Main] + 1
    BY <1>7, <1>8, <2>1 DEF LatestRound
  <2>3. w \in 0..(k - 2) /\ mpc # "wait"
    BY <1>1, <1>2, <1>3, <1>10
  <2>4. Ready(w)
    BY <2>1, <2>3 DEF TeamOf, Pending
  <2> QED
    BY <1>1, <1>6, <1>7, <1>10, <2>1, <2>2, <2>4 DEF Ready, Pending
<1>11. ASSUME NEW w \in LoopWorkers, w \notin 0..(k - 2)
       PROVE  Unused(w)'
  BY <1>1, <1>2, <1>3, <1>6, <1>11 DEF TeamOf, Unused
<1>12. TeamOf(k)'
  <2>1. mpc' # "wait" /\ bpc'[Main] = "out" /\ team' = k /\ sched' = sched
    BY <1>1, <1>3, <1>7
  <2> QED
    BY <1>3, <1>4, <1>9, <1>10, <1>11, <2>1 DEF TeamOf
<1> QED
  BY <1>1, <1>2, <1>6, <1>12, CallerGoesOn DEF TeamInv, LoopInv, LoopTypes, Started

\* The caller enters the barrier under the index after those of the workers.
LEMMA MainArrivesInv ==
  ASSUME LoopInv, MainArrives
  PROVE  LoopInv'
<1>1. /\ mpc = "arrive" /\ mpc' = "wait" /\ FlipFlag(Main, sched.nw)
      /\ UNCHANGED <<loop, sched, data, wpc, my, inbox, woken>>
  BY DEF MainArrives, mine
<1>2. sched.nw \in 2..MaxWorkers /\ MaxWorkers \in Nat
  BY <1>1, LoopThreads DEF LoopInv, LoopTypes, TableInv, Started
<1> PICK k \in 3..(MaxWorkers + 1) : TeamOf(k)
  BY <1>1 DEF LoopInv, TeamInv, NoTeam
<1>3. sched.nw + 1 = k /\ team = k /\ PartyInv(Members(k), Slots(k))
  BY <1>1 DEF TeamOf, Started
<1>4. PartyInv(Members(k), Slots(k))'
  <2>1. FlipFlag(Main, Slots(k)[Main])
    BY <1>1, <1>2, <1>3, TeamIsAParty
  <2> QED
    BY <1>3, <2>1, TeamIsAParty, PartyFlipFlag
<1>5. /\ entered \in [BarThreads -> Nat] /\ bpc \in [BarThreads -> {"out", "arrive", "spin", "last"}]
      /\ Main \in BarThreads /\ LoopWorkers \subseteq BarThreads /\ Main \notin LoopWorkers
  BY LoopThreads DEF TeamOf, PartyInv, BarTypes
<1>6. /\ entered'[Main] = entered[Main] + 1 /\ bpc'[Main] = "arrive" /\ team' = team
      /\ \A w \in LoopWorkers : entered'[w] = entered[w]
  BY <1>1, <1>5 DEF FlipFlag
<1>7. \A w \in LoopWorkers : LatestRound(w)' = LatestRound(w) /\ IsCalled(w) /\ ~IsCalled(w)'
  BY <1>1, <1>5, <1>6 DEF LatestRound, IsCalled
<1>8. ASSUME NEW w \in LoopWorkers
      PROVE  /\ Ready(w) => Ready(w)'
             /\ Pending(w) => Pending(w)'
             /\ Unused(w) => Unused(w)'
  BY <1>1, <1>6, <1>7 DEF Ready, Pending, Unused
<1>9. TeamOf(k)'
  BY <1>1, <1>3, <1>4, <1>6, <1>8 DEF TeamOf, Started
<1> QED
  BY <1>1, <1>9, CallerGoesOn DEF TeamInv, LoopInv, LoopTypes, Started

\* A step of the barrier moves only the thread that makes it.
LEMMA BarStepMoves ==
  ASSUME NEW party, BarTypes(party), NEW t \in BarThreads, BarStep(t)
  PROVE  /\ entered' = entered /\ team' = team
         /\ bpc[t] # "out"
         /\ bpc' \in [BarThreads -> {"out", "arrive", "spin", "last"}]
         /\ \A u \in BarThreads : u # t => bpc'[u] = bpc[u]
BY DEF BarStep, Arrive, ResetCounter, SpinEnds, Leave, BarTypes, rounds

\* The caller leaves the barrier when all workers it called have entered the round.
LEMMA MainWaitsInv ==
  ASSUME LoopInv, MainWaits
  PROVE  LoopInv'
<1>1. /\ mpc = "wait" /\ BarStep(Main)
      /\ mpc' = IF bpc'[Main] = "out" THEN "user" ELSE "wait"
      /\ UNCHANGED <<loop, sched, data, wpc, my, inbox, woken>>
  BY DEF MainWaits, mine
<1> PICK k \in 3..(MaxWorkers + 1) : TeamOf(k)
  BY <1>1 DEF LoopInv, TeamInv, NoTeam
<1>2. team = k /\ PartyInv(Members(k), Slots(k)) /\ BarTypes(Members(k))
  BY DEF TeamOf, PartyInv
<1>3. PartyInv(Members(k), Slots(k))'
  BY <1>1, <1>2, TeamIsAParty, PartyBarStep
<1>4. /\ entered' = entered /\ team' = team
      /\ Main \in BarThreads /\ LoopWorkers \subseteq BarThreads
      /\ entered \in [BarThreads -> Nat]
  BY <1>1, <1>2, LoopThreads, BarStepMoves DEF BarTypes
<1>5. \A w \in LoopWorkers : ~IsCalled(w) /\ ~IsCalled(w)' /\ LatestRound(w)' = LatestRound(w) /\ LatestRound(w) = entered[Main]
  BY <1>1, <1>4 DEF IsCalled, LatestRound
<1>6. ASSUME mpc' = "user", NEW w \in 0..(k - 2), w \in LoopWorkers
      PROVE  ~Pending(w)
  <2>1. TeamsLeaveTogether'
    BY TeamTogether, PTL
  <2>2. passed'[Main] <= entered'[w]
    BY <1>3, <1>6, <2>1 DEF TeamsLeaveTogether
  <2>3. bpc'[Main] = "out"
    BY <1>1, <1>6
  <2>4. passed'[Main] = entered'[Main]
    BY <1>3, <2>3, TeamIsAParty DEF PartyInv, Rounds
  <2>5. entered[Main] \in Nat /\ entered[w] \in Nat /\ entered[Main] <= entered[w]
    BY <1>4, <1>6, <2>2, <2>4
  <2> QED
    BY <1>5, <1>6, <2>5 DEF Pending
<1>7. ASSUME NEW w \in LoopWorkers
      PROVE  /\ Ready(w) => Ready(w)'
             /\ Pending(w) /\ mpc' = "wait" => Pending(w)'
             /\ Unused(w) => Unused(w)'
  BY <1>1, <1>4, <1>5 DEF Ready, Pending, Unused
<1>8. TeamOf(k)'
  <2>1. mpc' = "wait" <=> bpc'[Main] # "out"
    BY <1>1
  <2>2. mpc' \in {"user", "wait"} /\ sched' = sched /\ (mpc' \in Started => mpc \in Started)
    BY <1>1 DEF Started
  <2>3. \A w \in LoopWorkers : w \in 0..(k - 2) => Ready(w)' \/ Pending(w)'
    BY <1>1, <1>6, <1>7 DEF TeamOf
  <2>4. \A w \in LoopWorkers : w \notin 0..(k - 2) => Unused(w)'
    BY <1>7 DEF TeamOf
  <2> QED
    BY <1>2, <1>3, <1>4, <2>1, <2>2, <2>3, <2>4 DEF TeamOf
<1> QED
  BY <1>1, <1>8, CallerGoesOn DEF TeamInv, LoopInv, LoopTypes, Started

-----------------------------------------------------------------------------
(* The workers                                                             *)

\* Claiming a chunk leaves one chunk less in the range, and none of none.
LEMMA OneChunkLess ==
  ASSUME NEW a \in Int, NEW e \in Int, NEW s \in Nat \ {0}, NEW c \in Nat \ {0}, NEW n
  PROVE  LET b == Least(a + ((c - 1) * s + 1), e)
             before == ChunksIn(DataPair(n, a, e), s, c)
             after == ChunksIn(DataPair(n, b - 1 + s, e), s, c)
         IN  after = IF before > 0 THEN before - 1 ELSE 0
<1> DEFINE W == c * s
           b == Least(a + ((c - 1) * s + 1), e)
           x == e - a
           q == CeilDiv(CeilDiv(x, s), c)
           y == e - (a + W)
           r == CeilDiv(CeilDiv(y, s), c)
           before == ChunksIn(DataPair(n, a, e), s, c)
           after == ChunksIn(DataPair(n, b - 1 + s, e), s, c)
<1>1. W \in Nat \ {0} /\ (c - 1) * s = W - s /\ 1 * W = W
  BY Multiples, ChunksAre, Z3
<1>2. b = Least(a + W - s + 1, e)
  BY <1>1
<1>3. x \in Int /\ y \in Int /\ y = x - W
  BY <1>1
<1>4. b \in Int /\ b - 1 + s \in Int
  BY <1>1, <1>2 DEF Least
<1>5. before \in Nat /\ (a < e => before > 0) /\ (a >= e => before = 0)
  BY ChunksType
<1>6. (b - 1 + s >= e => after = 0) /\ (b - 1 + s < e => after > 0 /\ after \in Nat)
  BY <1>4, ChunksType
<1>7. /\ a < e => before = q
      /\ b - 1 + s < e => after = CeilDiv(CeilDiv(e - (b - 1 + s), s), c)
  BY <1>4 DEF ChunksIn, DataPair
<1>8. /\ q \in Int
      /\ \A p \in Int : q = p <=> (p - 1) * W < x /\ x <= p * W
      /\ r \in Int
      /\ \A p \in Int : r = p <=> (p - 1) * W < y /\ y <= p * W
  BY <1>3, ChunksAre
<1> HIDE DEF W, x, y, q, r, b, before, after
<1>9. CASE b - 1 + s < e
  <2>1. b - 1 + s = a + W /\ a < e
    BY <1>1, <1>2, <1>9 DEF Least
  <2>2. before = q /\ after = r /\ before > 0
    BY <1>5, <1>7, <1>9, <2>1 DEF r, y
  <2>3. (q - 1) * W < x /\ x <= q * W
    BY <1>8
  <2>4. (q - 1 - 1) * W = q * W - W - W /\ (q - 1) * W = q * W - W /\ q * W \in Int
    BY <1>1, <1>8, Z3
  <2>5. (q - 1 - 1) * W < y /\ y <= (q - 1) * W
    BY <1>1, <1>3, <2>3, <2>4
  <2>6. q - 1 \in Int
    BY <1>8
  <2>7. r = q - 1
    BY <1>8, <2>5, <2>6, Zenon
  <2> QED
    BY <2>2, <2>7 DEF before, after, b
<1>10. CASE ~(b - 1 + s < e)
  <2>1. after = 0
    BY <1>4, <1>6, <1>10
  <2>2. CASE a < e
    <3>1. x <= W
      BY <1>1, <1>2, <1>10 DEF Least, x
    <3>2. 0 < x
      BY <2>2 DEF x
    <3>3. (1 - 1) * W = 0
      BY <1>1, Z3
    <3>4. q = 1
      BY <1>1, <1>8, <3>1, <3>2, <3>3
    <3> QED
      BY <1>7, <2>1, <2>2, <3>4 DEF before, after, b
  <2>3. CASE a >= e
    BY <1>5, <2>1, <2>3 DEF before, after, b
  <2> QED
    BY <2>2, <2>3
<1> QED
  BY <1>9, <1>10

\* A worker that is busy was called by the loop that is run, and the caller waits for it.
LEMMA BusyIsPending ==
  ASSUME LoopInv, NEW w \in LoopWorkers, wpc[w] \in Busy
  PROVE  /\ mpc \in {"wake", "arrive", "wait"}
         /\ w \in 0..(sched.nw - 1)
         /\ \E k \in 3..(MaxWorkers + 1) : TeamOf(k) /\ w \in 0..(k - 2) /\ Pending(w)
<1>1. ~Unused(w) /\ ~Ready(w)
  BY DEF Unused, Ready, Busy, Resting
<1> PICK k \in 3..(MaxWorkers + 1) : TeamOf(k)
  BY <1>1 DEF LoopInv, TeamInv, NoTeam
<1>2. w \in 0..(k - 2) /\ Pending(w)
  BY <1>1 DEF TeamOf
<1>3. mpc \in {"wake", "arrive", "wait"}
  BY <1>2 DEF Pending, IsCalled
<1>4. sched.nw + 1 = k /\ sched.nw \in 1..MaxWorkers
  BY <1>3 DEF TeamOf, Started, LoopInv, LoopTypes
<1>5. w \in 0..(sched.nw - 1)
  BY <1>2, <1>4, LoopThreads
<1> QED
  BY <1>2, <1>3, <1>5

\* The team while a worker works: nothing that the barrier or the caller sees.
LEMMA TeamWorks ==
  ASSUME LoopInv, NEW w \in LoopWorkers, wpc[w] \in Busy, NEW to \in Busy,
         wpc' = [wpc EXCEPT ![w] = to], UNCHANGED <<mpc, woken, inbox, barVars>>,
         sched'.nw = sched.nw
  PROVE  TeamInv'
<1> PICK k \in 3..(MaxWorkers + 1) : TeamOf(k) /\ w \in 0..(k - 2) /\ Pending(w)
  BY BusyIsPending
<1>1. PartyInv(Members(k), Slots(k))'
  BY PartyStutter DEF TeamOf
<1>2. wpc'[w] = to /\ \A u \in LoopWorkers : u # w => wpc'[u] = wpc[u]
  BY DEF LoopInv, LoopTypes
<1>3. UNCHANGED <<entered, bpc, team>>
  BY DEF barVars, barrier, waiting, rounds
<1>4. Pending(w)'
  BY <1>2, <1>3 DEF Pending, LatestRound, IsCalled, Busy, Resting
<1>5. ASSUME NEW u \in LoopWorkers, u # w
      PROVE  /\ Ready(u) => Ready(u)'
             /\ Pending(u) => Pending(u)'
             /\ Unused(u) => Unused(u)'
  BY <1>2, <1>3, <1>5 DEF Ready, Pending, Unused, LatestRound, IsCalled
<1>6. TeamOf(k)'
  BY <1>1, <1>3, <1>4, <1>5 DEF TeamOf
<1> QED
  BY <1>6 DEF TeamInv

\* The local variables of a worker say the same as long as no range is moved.
LEMMA LocalStays ==
  ASSUME NEW u, LocalInv(u), wpc'[u] = wpc[u], my'[u] = my[u],
         DOMAIN data' = DOMAIN data, \A i \in DOMAIN data : data'[i].end = data[i].end,
         sched'.chunk = sched.chunk, loop' = loop
  PROVE  LocalInv(u)'
BY DEF LocalInv

\* maxid, which is written without a lock, may change; nothing else of the scheduler.
ScheduleStays ==
  /\ sched' \in [chunk : Int, nw : 1..MaxWorkers, static : BOOLEAN, maxid : Int]
  /\ sched'.chunk = sched.chunk /\ sched'.nw = sched.nw /\ sched'.static = sched.static
  /\ sched'.maxid >= 0 => sched'.maxid \in DOMAIN data

\* A step of a worker that touches no range.
LEMMA WorkerMoves ==
  ASSUME LoopInv, NEW w \in LoopWorkers, wpc[w] # "count",
         NEW to \in (Busy \cup Resting) \ {"count"}, wpc' = [wpc EXCEPT ![w] = to],
         NEW m \in Locals, my' = [my EXCEPT ![w] = m],
         UNCHANGED <<loop, data, mpc, woken>>, inbox' \in [LoopWorkers -> Nat],
         ScheduleStays, LocalInv(w)', TeamInv'
  PROVE  LoopInv'
<1>1. wpc \in [LoopWorkers -> Busy \cup Resting] /\ my \in [LoopWorkers -> Locals]
  BY DEF LoopInv, LoopTypes
<1>2. /\ wpc'[w] = to /\ \A u \in LoopWorkers : u # w => wpc'[u] = wpc[u]
      /\ my'[w] = m /\ \A u \in LoopWorkers : u # w => my'[u] = my[u]
      /\ wpc' \in [LoopWorkers -> Busy \cup Resting] /\ my' \in [LoopWorkers -> Locals]
  BY <1>1
<1>3. LoopTypes'
  BY <1>2 DEF LoopInv, LoopTypes, ScheduleStays
<1>4. TableInv'
  BY DEF LoopInv, TableInv, ScheduleStays
<1>5. \A u \in LoopWorkers : LocalInv(u)'
  BY <1>2, LocalStays DEF LoopInv, ScheduleStays
<1>6. TaskInv'
  <2>1. \A id : Uncounting(id)' = Uncounting(id)
    BY <1>2 DEF Uncounting
  <2>2. \A id : Unclaimed(id)' = Unclaimed(id)
    BY DEF Unclaimed, ScheduleStays
  <2>3. sched'.nw = sched.nw /\ sched'.static = sched.static
    BY DEF ScheduleStays
  <2> QED
    BY <2>1, <2>2, <2>3 DEF LoopInv, TaskInv
<1> QED
  BY <1>3, <1>4, <1>5, <1>6 DEF LoopInv

LEMMA SameSchedule ==
  ASSUME LoopInv, UNCHANGED sched
  PROVE  ScheduleStays
BY DEF LoopInv, LoopTypes, TableInv, ScheduleStays

\* A worker takes the wake-up task and begins with its own range.
LEMMA AwakeInv ==
  ASSUME LoopInv, NEW w \in LoopWorkers, Awake(w)
  PROVE  LoopInv'
<1> DEFINE m == [my[w] EXCEPT !.id = w]
<1>1. /\ wpc[w] = "idle" /\ inbox[w] > 0 /\ inbox' = [inbox EXCEPT ![w] = @ - 1]
      /\ wpc' = [wpc EXCEPT ![w] = "look"]
      /\ UNCHANGED <<loop, sched, data, mpc, woken, barVars>>
  BY DEF Awake, Proceed, caller
<1>2. my \in [LoopWorkers -> Locals] /\ inbox \in [LoopWorkers -> Nat] /\ w \in Int
  BY LoopThreads DEF LoopInv, LoopTypes
<1>3. my' = [my EXCEPT ![w] = m] /\ m \in Locals /\ m.id = w
  BY <1>2 DEF Awake, Locals
<1>4. /\ inbox' \in [LoopWorkers -> Nat] /\ inbox'[w] = inbox[w] - 1
      /\ \A u \in LoopWorkers : u # w => inbox'[u] = inbox[u]
  BY <1>1, <1>2
<1>5. /\ wpc'[w] = "look" /\ \A u \in LoopWorkers : u # w => wpc'[u] = wpc[u]
  BY <1>1 DEF LoopInv, LoopTypes
<1>6. ~Unused(w) /\ ~Ready(w)
  BY <1>1 DEF Unused, Ready
<1> PICK k \in 3..(MaxWorkers + 1) : TeamOf(k)
  BY <1>6 DEF LoopInv, TeamInv, NoTeam
<1>7. w \in 0..(k - 2) /\ Pending(w)
  BY <1>6 DEF TeamOf
<1>8. TeamOf(k)'
  <2>1. PartyInv(Members(k), Slots(k))'
    BY <1>1, PartyStutter DEF TeamOf
  <2>2. UNCHANGED <<entered, bpc, team>>
    BY <1>1 DEF barVars, barrier, waiting, rounds
  <2>3. Pending(w)'
    BY <1>1, <1>4, <1>5, <1>7, <2>2 DEF Pending, LatestRound, IsCalled, Busy, Resting
  <2>4. ASSUME NEW u \in LoopWorkers, u # w
        PROVE  /\ Ready(u) => Ready(u)'
               /\ Pending(u) => Pending(u)'
               /\ Unused(u) => Unused(u)'
    BY <1>1, <1>4, <1>5, <2>2, <2>4 DEF Ready, Pending, Unused, LatestRound, IsCalled
  <2> QED
    BY <1>1, <1>7, <2>1, <2>2, <2>3, <2>4 DEF TeamOf
<1>9. sched.nw + 1 = k /\ sched.nw \in Nat
  BY <1>7 DEF TeamOf, Pending, IsCalled, Started, LoopInv, LoopTypes
<1>10. LocalInv(w)'
  <2>1. w \in DOMAIN data
    BY <1>7, <1>9 DEF LoopInv, TableInv
  <2>2. my'[w] = m
    BY <1>2, <1>3
  <2> QED
    BY <1>1, <1>3, <1>5, <2>1, <2>2 DEF LocalInv
<1> HIDE DEF m
<1> QED
  BY <1>1, <1>3, <1>4, <1>8, <1>10, SameSchedule, WorkerMoves DEF TeamInv, Busy

\* A worker looks for a task, in its range or in those of the others.
LEMMA WorkerLooksInv ==
  ASSUME LoopInv, NEW w \in LoopWorkers, wpc[w] \in Busy \ {"count"},
         NEW to \in Busy \ {"count"}, wpc' = [wpc EXCEPT ![w] = to],
         NEW m \in Locals, my' = [my EXCEPT ![w] = m], LocalInv(w)',
         ScheduleStays, UNCHANGED <<loop, data, mpc, woken, inbox, barVars>>
  PROVE  LoopInv'
<1>1. TeamInv'
  BY TeamWorks DEF ScheduleStays
<1>2. inbox' \in [LoopWorkers -> Nat]
  BY DEF LoopInv, LoopTypes
<1> QED
  BY <1>1, <1>2, WorkerMoves DEF Busy

LEMMA LocalsSearched ==
  ASSUME NEW m \in Locals, NEW i \in Int, NEW j \in Int
  PROVE  LET n == [m EXCEPT !.max = i, !.next = j]
         IN  n \in Locals /\ n.id = m.id /\ n.max = i
BY DEF Locals

\* The steps of nextTaskConcurrent() that move no range
LEMMA LooksInv ==
  ASSUME LoopInv, NEW w \in LoopWorkers,
         \/ LookForTask(w) \/ LoadStart(w) \/ LookElsewhere(w)
         \/ Scan(w) \/ LookAtVictim(w) \/ StealFrom(w)
  PROVE  LoopInv'
<1>1. /\ my \in [LoopWorkers -> Locals] /\ my[w] \in Locals
      /\ wpc \in [LoopWorkers -> Busy \cup Resting]
      /\ data \in [DOMAIN data -> Lines] /\ DOMAIN data \subseteq Nat
      /\ sched \in [chunk : Int, nw : 1..MaxWorkers, static : BOOLEAN, maxid : Int]
      /\ loop.step \in Nat
      /\ LocalInv(w) /\ TableInv
  BY LoopsAssumption DEF LoopInv, LoopTypes
<1>2. 0 \in DOMAIN data
  BY <1>1, LoopThreads DEF TableInv
<1>3. CASE LookForTask(w)
  <2> DEFINE to == IF data[my[w].id].ntask > 0 THEN "load" ELSE "none"
  <2>1. /\ wpc[w] = "look" /\ wpc' = [wpc EXCEPT ![w] = to] /\ my' = my
        /\ UNCHANGED <<loop, sched, data, mpc, woken, inbox, barVars>>
    BY <1>3 DEF LookForTask, Proceed, caller
  <2>2. to \in {"load", "none"}
    OBVIOUS
  <2> HIDE DEF to
  <2>3. my' = [my EXCEPT ![w] = my[w]] /\ wpc'[w] = to
    BY <1>1, <2>1
  <2>4. LocalInv(w)'
    BY <1>1, <2>1, <2>2, <2>3 DEF LocalInv, Busy
  <2> QED
    BY <1>1, <2>1, <2>2, <2>3, <2>4, SameSchedule, WorkerLooksInv DEF Busy
<1>4. CASE LoadStart(w)
  <2> DEFINE d == data[my[w].id]
             m == [my[w] EXCEPT !.old = d.start,
                                !.end = Least(d.start + ((sched.chunk - 1) * loop.step + 1), d.end)]
  <2>1. /\ wpc[w] = "load" /\ wpc' = [wpc EXCEPT ![w] = "claim"]
        /\ UNCHANGED <<loop, sched, data, mpc, woken, inbox, barVars>>
    BY <1>4 DEF LoadStart, Proceed, caller
  <2>2. my[w].id \in DOMAIN data /\ d.start \in Int /\ d.end \in Int
    BY <1>1, <2>1 DEF LocalInv, Busy, Lines
  <2>3. my' = [my EXCEPT ![w] = m]
    BY <1>1, <1>4 DEF LoadStart, Locals
  <2>4. (sched.chunk - 1) * loop.step \in Int
    <3>1. sched.chunk - 1 \in Int
      BY <1>1
    <3> QED
      BY <1>1, <3>1, Z3
  <2>5. Least(d.start + ((sched.chunk - 1) * loop.step + 1), d.end) \in Int
    BY <2>2, <2>4 DEF Least
  <2>6. m \in Locals
    BY <1>1, <2>2, <2>5 DEF Locals
  <2>7. my'[w] = m /\ wpc'[w] = "claim" /\ m.id = my[w].id /\ m.old = d.start
        /\ m.end = Least(d.start + ((sched.chunk - 1) * loop.step + 1), d.end)
    BY <1>1, <2>1, <2>3 DEF Locals
  <2> HIDE DEF m
  <2>8. LocalInv(w)'
    BY <2>1, <2>2, <2>7 DEF LocalInv
  <2> QED
    BY <2>1, <2>3, <2>6, <2>8, SameSchedule, WorkerLooksInv DEF Busy
<1>5. CASE LookElsewhere(w)
  <2> DEFINE m == [my[w] EXCEPT !.max = IF sched.maxid < 0 THEN 0 ELSE sched.maxid, !.next = 1]
             to == IF sched.static THEN "barrier" ELSE IF sched.maxid < 0 THEN "scan" ELSE "victim"
  <2>1. /\ wpc[w] = "none" /\ wpc' = [wpc EXCEPT ![w] = to]
        /\ UNCHANGED <<loop, sched, data, mpc, woken, inbox, barVars>>
    BY <1>5 DEF LookElsewhere, Proceed, caller
  <2>2. my' = [my EXCEPT ![w] = m]
    BY <1>1, <1>5 DEF LookElsewhere, Locals
  <2>3. to \in {"barrier", "scan", "victim"}
    OBVIOUS
  <2> HIDE DEF to
  <2>4. /\ m \in Locals /\ m.id = my[w].id
        /\ m.max = IF sched.maxid < 0 THEN 0 ELSE sched.maxid
    <3> DEFINE first == IF sched.maxid < 0 THEN 0 ELSE sched.maxid
    <3>1. first \in Int
      BY <1>1
    <3> HIDE DEF first
    <3>2. \A j \in Int : LET n == [my[w] EXCEPT !.max = first, !.next = j]
                         IN  n \in Locals /\ n.id = my[w].id /\ n.max = first
      BY <1>1, <3>1, LocalsSearched
    <3>3. 1 \in Int
      OBVIOUS
    <3> QED
      BY <3>2, <3>3, Zenon DEF first
  <2> HIDE DEF m
  <2>5. my'[w] = m /\ wpc'[w] = to
    BY <1>1, <2>1, <2>2
  <2>6. m.max \in DOMAIN data
    BY <1>1, <1>2, <2>4 DEF TableInv
  <2>7. LocalInv(w)'
    BY <1>1, <2>1, <2>3, <2>4, <2>5, <2>6 DEF LocalInv, Busy
  <2> QED
    BY <2>1, <2>2, <2>3, <2>4, <2>7, SameSchedule, WorkerLooksInv DEF Busy
<1>6. CASE Scan(w)
  <2>1. /\ wpc[w] = "scan" /\ UNCHANGED <<loop, sched, data, mpc, woken, inbox, barVars>>
    BY <1>6 DEF Scan, caller
  <2>2. my[w].id \in DOMAIN data /\ my[w].max \in DOMAIN data
    BY <1>1, <2>1 DEF LocalInv, Busy
  <2>3. CASE my[w].next \in DOMAIN data
    <3> DEFINE top == IF data[my[w].max].ntask < data[my[w].next].ntask THEN my[w].next ELSE my[w].max
               m == [my[w] EXCEPT !.max = top, !.next = my[w].next + 1]
    <3>1. my' = [my EXCEPT ![w] = m] /\ wpc' = [wpc EXCEPT ![w] = "scan"]
      BY <1>1, <1>6, <2>1, <2>3 DEF Scan, Locals
    <3>2. top \in DOMAIN data
      BY <2>2, <2>3
    <3> HIDE DEF top
    <3>3. m \in Locals /\ m.id = my[w].id /\ m.max = top
      <4>1. top \in Int /\ my[w].next + 1 \in Int
        BY <1>1, <3>2 DEF Locals
      <4> QED
        BY <1>1, <4>1 DEF Locals
    <3> HIDE DEF m
    <3>4. my'[w] = m /\ wpc'[w] = "scan"
      BY <1>1, <3>1
    <3>5. LocalInv(w)'
      BY <2>1, <2>2, <3>2, <3>3, <3>4 DEF LocalInv
    <3> QED
      BY <2>1, <3>1, <3>3, <3>5, SameSchedule, WorkerLooksInv DEF Busy
  <2>4. CASE my[w].next \notin DOMAIN data
    <3>1. my' = [my EXCEPT ![w] = my[w]] /\ wpc' = [wpc EXCEPT ![w] = "victim"] /\ my' = my
      BY <1>1, <1>6, <2>4 DEF Scan, Proceed
    <3>2. wpc'[w] = "victim"
      BY <1>1, <3>1
    <3>3. LocalInv(w)'
      BY <2>1, <2>2, <3>1, <3>2 DEF LocalInv
    <3> QED
      BY <1>1, <2>1, <3>1, <3>3, SameSchedule, WorkerLooksInv DEF Busy
  <2> QED
    BY <2>3, <2>4
<1>7. CASE LookAtVictim(w)
  <2> DEFINE to == IF data[my[w].max].ntask > 0 THEN "steal" ELSE "barrier"
  <2>1. /\ wpc[w] = "victim" /\ wpc' = [wpc EXCEPT ![w] = to] /\ my' = my
        /\ UNCHANGED <<loop, sched, data, mpc, woken, inbox, barVars>>
    BY <1>7 DEF LookAtVictim, Proceed, caller
  <2>2. to \in {"steal", "barrier"}
    OBVIOUS
  <2> HIDE DEF to
  <2>3. my' = [my EXCEPT ![w] = my[w]] /\ wpc'[w] = to
    BY <1>1, <2>1
  <2>4. LocalInv(w)'
    BY <1>1, <2>1, <2>2, <2>3 DEF LocalInv, Busy
  <2> QED
    BY <1>1, <2>1, <2>2, <2>3, <2>4, SameSchedule, WorkerLooksInv DEF Busy
<1>8. CASE StealFrom(w)
  <2> DEFINE m == [my[w] EXCEPT !.id = my[w].max]
  <2>1. /\ wpc[w] = "steal" /\ wpc' = [wpc EXCEPT ![w] = "look"]
        /\ sched' = [sched EXCEPT !.maxid = my[w].max] /\ my' = [my EXCEPT ![w] = m]
        /\ UNCHANGED <<loop, data, mpc, woken, inbox, barVars>>
    BY <1>1, <1>8 DEF StealFrom, Proceed, caller, Locals
  <2>2. my[w].max \in DOMAIN data /\ my[w].max \in Int
    BY <1>1, <2>1 DEF LocalInv, Busy
  <2>3. m \in Locals /\ m.id = my[w].max
    BY <1>1, <2>2 DEF Locals
  <2> HIDE DEF m
  <2>4. my'[w] = m /\ wpc'[w] = "look"
    BY <1>1, <2>1
  <2>5. LocalInv(w)'
    BY <2>1, <2>2, <2>3, <2>4 DEF LocalInv
  <2>6. ScheduleStays
    <3>1. sched' \in [chunk : Int, nw : 1..MaxWorkers, static : BOOLEAN, maxid : Int]
      BY <1>1, <2>1, <2>2
    <3>2. sched'.static = sched.static
      BY <1>1, <2>1, Zenon
    <3>3. sched'.chunk = sched.chunk /\ sched'.nw = sched.nw /\ sched'.maxid = my[w].max
      BY <1>1, <2>1
    <3> QED
      BY <2>2, <3>1, <3>2, <3>3 DEF ScheduleStays
  <2> QED
    BY <2>1, <2>3, <2>5, <2>6, WorkerLooksInv DEF Busy
<1> QED
  BY <1>3, <1>4, <1>5, <1>6, <1>7, <1>8

LEMMA UncountingFinite ==
  \A id : IsFiniteSet(Uncounting(id)) /\ Cardinality(Uncounting(id)) \in Nat
<1>1. IsFiniteSet(LoopWorkers)
  <2>1. MaxWorkers - 1 \in Int /\ LoopWorkers = 0..(MaxWorkers - 1)
    BY LoopThreads
  <2> QED
    BY <2>1, FS_Interval
<1>2. \A id : Uncounting(id) \subseteq LoopWorkers
  BY DEF Uncounting
<1> QED
  BY <1>1, <1>2, FS_Subset, FS_CardinalityType

LEMMA UnclaimedType ==
  ASSUME LoopInv, mpc \in Started, loop.chunk >= 0, NEW id \in DOMAIN data
  PROVE  Unclaimed(id) \in Nat
<1>1. data[id] \in Lines /\ loop.step \in Nat \ {0} /\ sched.chunk \in Nat \ {0}
  BY LoopsAssumption DEF LoopInv, LoopTypes, TableInv
<1> QED
  BY <1>1, ChunksOfLines DEF Unclaimed

\* A chunk is claimed: its worker is one of those that have to count it.
LEMMA ClaimInv ==
  ASSUME LoopInv, NEW w \in LoopWorkers, Claim(w)
  PROVE  LoopInv'
<1> DEFINE id == my[w].id
           d == data[id]
           start == my[w].end - 1 + loop.step
<1>1. /\ my \in [LoopWorkers -> Locals]
      /\ wpc \in [LoopWorkers -> Busy \cup Resting]
      /\ data \in [DOMAIN data -> Lines] /\ DOMAIN data \subseteq Nat
      /\ sched \in [chunk : Int, nw : 1..MaxWorkers, static : BOOLEAN, maxid : Int]
      /\ loop.step \in Nat \ {0}
      /\ LocalInv(w) /\ TableInv /\ TaskInv
  BY LoopsAssumption DEF LoopInv, LoopTypes
<1>2. wpc[w] = "claim" /\ UNCHANGED <<loop, sched, mpc, woken, inbox, my, barVars>>
  BY DEF Claim, caller
<1>3. CASE ~StartIsUnchanged(w)
  <2>1. wpc' = [wpc EXCEPT ![w] = "look"] /\ data' = data
    BY <1>3 DEF Claim, Proceed
  <2>2. my' = [my EXCEPT ![w] = my[w]] /\ my[w] \in Locals /\ wpc'[w] = "look"
    BY <1>1, <1>2, <2>1
  <2>3. LocalInv(w)'
    BY <1>1, <1>2, <2>1, <2>2 DEF LocalInv, Busy
  <2> QED
    BY <1>2, <2>1, <2>2, <2>3, SameSchedule, WorkerLooksInv DEF Busy
<1>4. CASE StartIsUnchanged(w)
  <2>1. /\ wpc' = [wpc EXCEPT ![w] = "count"] /\ data' = [data EXCEPT ![id].start = start]
        /\ d.start = my[w].old
    BY <1>4 DEF Claim, Proceed, StartIsUnchanged
  <2>2. /\ id \in DOMAIN data /\ d \in Lines /\ start \in Int
        /\ my[w].end = Least(my[w].old + ((sched.chunk - 1) * loop.step + 1), d.end)
    BY <1>1, <1>2 DEF LocalInv, Busy, Locals
  <2>3. /\ data' \in [DOMAIN data -> Lines] /\ DOMAIN data' = DOMAIN data
        /\ data'[id] = DataPair(d.ntask, start, d.end)
        /\ \A i \in DOMAIN data : i # id => data'[i] = data[i]
    BY <1>1, <2>1, <2>2 DEF Lines, DataPair
  <2>4. /\ wpc' \in [LoopWorkers -> Busy \cup Resting] /\ wpc'[w] = "count"
        /\ \A u \in LoopWorkers : u # w => wpc'[u] = wpc[u]
    BY <1>1, <2>1 DEF Busy
  <2>5. LoopTypes' /\ TableInv'
    BY <1>2, <2>3, <2>4 DEF LoopInv, LoopTypes, TableInv
  <2>6. ASSUME NEW u \in LoopWorkers
        PROVE  LocalInv(u)'
    <3>1. \A i \in DOMAIN data : data'[i].end = data[i].end
      BY <2>2, <2>3 DEF DataPair
    <3>2. CASE u # w
      BY <1>2, <2>3, <2>4, <3>1, <3>2, LocalStays DEF LoopInv
    <3>3. CASE u = w
      BY <1>2, <2>2, <2>3, <2>4, <3>3 DEF LocalInv
    <3> QED
      BY <3>2, <3>3
  <2>7. TeamInv'
    BY <1>2, <2>1, TeamWorks DEF Busy
  <2>8. TaskInv'
    <3> SUFFICES ASSUME mpc \in Started, loop.chunk >= 0, NEW i \in 0..(sched.nw - 1),
                        Unclaimed(i)' > 0
                 PROVE  data'[i].ntask = Unclaimed(i)' + Cardinality(Uncounting(i)')
      BY <1>2 DEF TaskInv
    <3>1. i \in DOMAIN data /\ sched.chunk \in Nat \ {0} /\ sched' = sched /\ loop' = loop
      BY <1>1, <1>2 DEF TableInv
    <3>2. Unclaimed(i) > 0 => data[i].ntask = Unclaimed(i) + Cardinality(Uncounting(i))
      BY <1>1 DEF TaskInv
    <3>3. CASE i # id
      <4>1. data'[i] = data[i]
        BY <2>3, <3>1, <3>3
      <4>2. Unclaimed(i)' = Unclaimed(i)
        BY <3>1, <4>1 DEF Unclaimed
      <4>3. Uncounting(i)' = Uncounting(i)
        BY <1>2, <2>4, <3>3 DEF Uncounting
      <4> QED
        BY <3>2, <4>1, <4>2, <4>3
    <3>4. CASE i = id
      <4> DEFINE U == Unclaimed(i)
                 C == Cardinality(Uncounting(i))
      <4>1. /\ d = DataPair(d.ntask, d.start, d.end)
            /\ d.ntask \in Int /\ d.start \in Int /\ d.end \in Int
        BY <2>2 DEF Lines, DataPair
      <4>2. Unclaimed(i)' = IF U > 0 THEN U - 1 ELSE 0
        <5>1. U = ChunksIn(DataPair(d.ntask, d.start, d.end), loop.step, sched.chunk)
          BY <3>4, <4>1 DEF Unclaimed
        <5>2. Unclaimed(i)' = ChunksIn(DataPair(d.ntask, start, d.end), loop.step, sched.chunk)
          BY <2>3, <3>1, <3>4 DEF Unclaimed
        <5>3. start = Least(d.start + ((sched.chunk - 1) * loop.step + 1), d.end) - 1 + loop.step
          BY <2>1, <2>2
        <5> HIDE DEF d, start, U
        <5> QED
          BY <1>1, <3>1, <4>1, <5>1, <5>2, <5>3, OneChunkLess
      <4>3. U \in Nat
        BY <3>1, <3>4, UnclaimedType
      <4>4. Uncounting(i)' = Uncounting(i) \cup {w} /\ w \notin Uncounting(i)
        BY <1>2, <2>4, <3>4 DEF Uncounting
      <4>5. Cardinality(Uncounting(i)') = C + 1 /\ C \in Nat
        BY <4>4, UncountingFinite, FS_AddElement
      <4>6. data'[i].ntask = data[i].ntask
        BY <2>3, <3>4 DEF DataPair
      <4> HIDE DEF U, C
      <4> QED
        BY <3>2, <4>2, <4>3, <4>5, <4>6 DEF U, C
    <3> QED
      BY <3>3, <3>4
  <2> QED
    BY <2>5, <2>6, <2>7, <2>8 DEF LoopInv
<1> QED
  BY <1>3, <1>4

\* A claim is counted, and its worker looks for another.
LEMMA CountAndRunInv ==
  ASSUME LoopInv, NEW w \in LoopWorkers, CountAndRun(w)
  PROVE  LoopInv'
<1> DEFINE id == my[w].id
           d == data[id]
           some == my[w].old < my[w].end
           to == IF some THEN "look" ELSE "none"
           m == [my[w] EXCEPT !.id = IF some THEN w ELSE id]
<1>1. /\ my \in [LoopWorkers -> Locals]
      /\ wpc \in [LoopWorkers -> Busy \cup Resting]
      /\ data \in [DOMAIN data -> Lines] /\ DOMAIN data \subseteq Nat
      /\ LocalInv(w) /\ TableInv /\ TaskInv /\ sched.nw \in Nat
  BY DEF LoopInv, LoopTypes
<1>2. /\ wpc[w] = "count" /\ wpc' = [wpc EXCEPT ![w] = to]
      /\ data' = [data EXCEPT ![id].ntask = @ - 1]
      /\ UNCHANGED <<loop, sched, mpc, woken, inbox, barVars>>
  BY DEF CountAndRun, Proceed, caller
<1>3. my' = [my EXCEPT ![w] = m]
  BY <1>1 DEF CountAndRun, Locals
<1>4. id \in DOMAIN data /\ d \in Lines /\ id \in Int
  BY <1>1, <1>2 DEF LocalInv, Busy
<1>5. to \in {"look", "none"}
  OBVIOUS
<1>6. w \in DOMAIN data /\ w \in Int
  BY <1>1, <1>2, BusyIsPending DEF TableInv, Busy
<1>7. m \in Locals /\ m.id \in DOMAIN data
  BY <1>1, <1>4, <1>6 DEF Locals
<1> HIDE DEF m, to
<1>8. /\ my' \in [LoopWorkers -> Locals] /\ my'[w] = m
      /\ \A u \in LoopWorkers : u # w => my'[u] = my[u]
  BY <1>1, <1>3, <1>7
<1>9. /\ wpc' \in [LoopWorkers -> Busy \cup Resting] /\ wpc'[w] = to
      /\ \A u \in LoopWorkers : u # w => wpc'[u] = wpc[u]
  BY <1>1, <1>2, <1>5 DEF Busy
<1>10. /\ data' \in [DOMAIN data -> Lines] /\ DOMAIN data' = DOMAIN data
       /\ data'[id] = DataPair(d.ntask - 1, d.start, d.end)
       /\ \A i \in DOMAIN data : i # id => data'[i] = data[i]
  BY <1>1, <1>2, <1>4 DEF Lines, DataPair
<1>11. LoopTypes' /\ TableInv'
  BY <1>2, <1>8, <1>9, <1>10 DEF LoopInv, LoopTypes, TableInv
<1>12. ASSUME NEW u \in LoopWorkers
       PROVE  LocalInv(u)'
  <2>1. \A i \in DOMAIN data : data'[i].end = data[i].end
    BY <1>4, <1>10 DEF DataPair
  <2>2. CASE u # w
    BY <1>2, <1>8, <1>9, <1>10, <2>1, <2>2, LocalStays DEF LoopInv
  <2>3. CASE u = w
    BY <1>5, <1>7, <1>8, <1>9, <1>10, <2>3 DEF LocalInv
  <2> QED
    BY <2>2, <2>3
<1>13. TeamInv'
  BY <1>2, <1>5, TeamWorks DEF Busy
<1>14. TaskInv'
  <2> SUFFICES ASSUME mpc \in Started, loop.chunk >= 0, NEW i \in 0..(sched.nw - 1),
                      Unclaimed(i)' > 0
               PROVE  data'[i].ntask = Unclaimed(i)' + Cardinality(Uncounting(i)')
    BY <1>2 DEF TaskInv
  <2>1. i \in DOMAIN data /\ sched' = sched /\ loop' = loop
    BY <1>1, <1>2 DEF TableInv
  <2>2. Unclaimed(i) > 0 => data[i].ntask = Unclaimed(i) + Cardinality(Uncounting(i))
    BY <1>1 DEF TaskInv
  <2>3. Unclaimed(i)' = Unclaimed(i)
    <3>1. data'[i].start = data[i].start /\ data'[i].end = data[i].end
      BY <1>4, <1>10, <2>1 DEF DataPair
    <3> QED
      BY <2>1, <3>1 DEF Unclaimed, ChunksIn
  <2>4. CASE i # id
    <3>1. data'[i] = data[i]
      BY <1>10, <2>1, <2>4
    <3>2. Uncounting(i)' = Uncounting(i)
      BY <1>2, <1>5, <1>8, <1>9, <2>4 DEF Uncounting
    <3> QED
      BY <2>2, <2>3, <3>1, <3>2
  <2>5. CASE i = id
    <3> DEFINE U == Unclaimed(i)
               C == Cardinality(Uncounting(i))
    <3>1. Uncounting(i)' = Uncounting(i) \ {w} /\ w \in Uncounting(i)
      BY <1>2, <1>5, <1>8, <1>9, <2>5 DEF Uncounting
    <3>2. Cardinality(Uncounting(i)') = C - 1 /\ C \in Nat
      BY <3>1, UncountingFinite, FS_RemoveElement
    <3>3. data'[i].ntask = data[i].ntask - 1
      BY <1>10, <2>5 DEF DataPair
    <3>4. U = Unclaimed(i)' /\ U > 0 /\ data[i].ntask = U + C
      BY <2>2, <2>3
    <3>5. U \in Nat
      BY <1>4, <2>5, UnclaimedType
    <3> HIDE DEF U, C
    <3> QED
      BY <3>2, <3>3, <3>4, <3>5 DEF U, C
  <2> QED
    BY <2>4, <2>5
<1> QED
  BY <1>11, <1>12, <1>13, <1>14 DEF LoopInv

\* A worker enters the round it was called for.
LEMMA WorkerArrivesInv ==
  ASSUME LoopInv, NEW w \in LoopWorkers, WorkerArrives(w)
  PROVE  LoopInv'
<1>1. /\ wpc[w] = "barrier" /\ wpc' = [wpc EXCEPT ![w] = "wait"] /\ FlipFlag(w, w)
      /\ UNCHANGED <<loop, sched, data, mpc, woken, inbox, my>>
  BY DEF WorkerArrives, Proceed, caller
<1>2. /\ inbox \in [LoopWorkers -> Nat] /\ my \in [LoopWorkers -> Locals]
      /\ wpc \in [LoopWorkers -> Busy \cup Resting]
  BY DEF LoopInv, LoopTypes
<1>3. my' = [my EXCEPT ![w] = my[w]] /\ my[w] \in Locals
  BY <1>1, <1>2
<1>4. wpc'[w] = "wait" /\ \A u \in LoopWorkers : u # w => wpc'[u] = wpc[u]
  BY <1>1, <1>2
<1>5. LocalInv(w)'
  BY <1>4 DEF LocalInv, Busy
<1> PICK k \in 3..(MaxWorkers + 1) : TeamOf(k) /\ w \in 0..(k - 2) /\ Pending(w)
  BY <1>1, BusyIsPending DEF Busy
<1>6. PartyInv(Members(k), Slots(k))'
  <2>1. FlipFlag(w, Slots(k)[w])
    BY <1>1, TeamIsAParty
  <2> QED
    BY <2>1, TeamIsAParty, PartyFlipFlag DEF TeamOf
<1>7. /\ entered \in [BarThreads -> Nat] /\ bpc \in [BarThreads -> {"out", "arrive", "spin", "last"}]
      /\ Main \in BarThreads /\ LoopWorkers \subseteq BarThreads /\ Main \notin LoopWorkers
  BY LoopThreads DEF TeamOf, PartyInv, BarTypes
<1>8. /\ entered'[w] = entered[w] + 1 /\ team' = team
      /\ entered'[Main] = entered[Main] /\ bpc'[Main] = bpc[Main]
      /\ \A u \in LoopWorkers : u # w => entered'[u] = entered[u]
  BY <1>1, <1>7 DEF FlipFlag
<1>9. \A u \in LoopWorkers : (IsCalled(u)' <=> IsCalled(u)) /\ LatestRound(u)' = LatestRound(u)
  BY <1>1, <1>8 DEF IsCalled, LatestRound
<1>10. Ready(w)'
  BY <1>1, <1>4, <1>8, <1>9 DEF Pending, Ready, Busy, Resting
<1>11. ASSUME NEW u \in LoopWorkers, u # w
       PROVE  /\ Ready(u) => Ready(u)'
              /\ Pending(u) => Pending(u)'
              /\ Unused(u) => Unused(u)'
  BY <1>1, <1>4, <1>8, <1>9, <1>11 DEF Ready, Pending, Unused
<1>12. TeamOf(k)'
  <2>1. UNCHANGED <<mpc, sched>> /\ team' = team /\ bpc'[Main] = bpc[Main]
    BY <1>1, <1>8
  <2> QED
    BY <1>6, <1>10, <1>11, <2>1 DEF TeamOf
<1> QED
  BY <1>1, <1>2, <1>3, <1>5, <1>12, SameSchedule, WorkerMoves DEF TeamInv, Busy, Resting

\* It arrives in it and leaves it, whenever the others let it.
LEMMA WorkerWaitsInv ==
  ASSUME LoopInv, NEW w \in LoopWorkers, WorkerWaits(w)
  PROVE  LoopInv'
<1> DEFINE to == IF bpc'[w] = "out" THEN "idle" ELSE "wait"
<1>1. /\ wpc[w] = "wait" /\ wpc' = [wpc EXCEPT ![w] = to] /\ BarStep(w)
      /\ UNCHANGED <<loop, sched, data, mpc, woken, inbox, my>>
  BY DEF WorkerWaits, Proceed, caller
<1>2. to \in Resting
  BY DEF Resting
<1> HIDE DEF to
<1>3. /\ inbox \in [LoopWorkers -> Nat] /\ my \in [LoopWorkers -> Locals]
      /\ wpc \in [LoopWorkers -> Busy \cup Resting]
  BY DEF LoopInv, LoopTypes
<1>4. my' = [my EXCEPT ![w] = my[w]] /\ my[w] \in Locals
  BY <1>1, <1>3
<1>5. wpc'[w] = to /\ \A u \in LoopWorkers : u # w => wpc'[u] = wpc[u]
  BY <1>1, <1>3
<1>6. LocalInv(w)'
  BY <1>2, <1>5 DEF LocalInv, Busy, Resting
<1>7. ~Unused(w)
  BY <1>1 DEF Unused
<1> PICK k \in 3..(MaxWorkers + 1) : TeamOf(k)
  BY <1>7 DEF LoopInv, TeamInv, NoTeam
<1>8. w \in 0..(k - 2)
  BY <1>7 DEF TeamOf
<1>9. PartyInv(Members(k), Slots(k))'
  BY <1>1, <1>8, TeamIsAParty, PartyBarStep DEF TeamOf
<1>10. /\ entered' = entered /\ team' = team /\ bpc'[Main] = bpc[Main]
  <2>1. w \in BarThreads /\ Main \in BarThreads /\ w # Main /\ BarTypes(Members(k))
    BY LoopThreads DEF TeamOf, PartyInv
  <2> QED
    BY <1>1, <2>1, BarStepMoves
<1>11. ASSUME NEW u \in LoopWorkers
       PROVE  /\ Ready(u) => Ready(u)'
              /\ Pending(u) => Pending(u)'
              /\ u # w => (Unused(u) => Unused(u)')
  <2>1. wpc[u] \in Resting => wpc'[u] \in Resting
    BY <1>2, <1>5
  <2>2. wpc[u] \in Busy => wpc'[u] \in Busy
    BY <1>1, <1>5 DEF Busy
  <2>3. IsCalled(u)' = IsCalled(u) /\ LatestRound(u)' = LatestRound(u)
    BY <1>1, <1>10 DEF IsCalled, LatestRound
  <2>4. u # w => wpc'[u] = wpc[u]
    BY <1>5
  <2> QED
    BY <1>1, <1>10, <2>1, <2>2, <2>3, <2>4 DEF Ready, Pending, Unused
<1>12. TeamOf(k)'
  BY <1>1, <1>8, <1>9, <1>10, <1>11 DEF TeamOf
<1>13. to \in (Busy \cup Resting) \ {"count"}
  BY <1>2 DEF Resting
<1> QED
  BY <1>1, <1>3, <1>4, <1>6, <1>12, <1>13, SameSchedule, WorkerMoves DEF TeamInv

-----------------------------------------------------------------------------
(* The loops                                                               *)

LEMMA LoopNextInv ==
  ASSUME ~TeamMayChange, LoopInv, [LoopNext]_loopVars
  PROVE  LoopInv'
<1>1. ASSUME MainStep
      PROVE  LoopInv'
  BY <1>1, SetLoopInv, AloneInv, SetupBarrierInv, SendWakeUpInv, MainArrivesInv, MainWaitsInv
  DEF MainStep
<1>2. ASSUME NEW w \in LoopWorkers, WorkerStep(w)
      PROVE  LoopInv'
  BY <1>2, AwakeInv, LooksInv, ClaimInv, CountAndRunInv, WorkerArrivesInv, WorkerWaitsInv
  DEF WorkerStep
<1>3. CASE UNCHANGED loopVars
  <2>1. UNCHANGED <<loop, sched, data, mpc, woken, inbox, wpc, my, barVars>>
    BY <1>3 DEF loopVars
  <2>2. LoopTypes' /\ TableInv' /\ (\A w \in LoopWorkers : LocalInv(w)')
    BY <2>1 DEF LoopInv, LoopTypes, TableInv, LocalInv
  <2>3. TaskInv'
    BY <2>1 DEF LoopInv, TaskInv, Unclaimed, Uncounting
  <2>4. CASE NoTeam
    BY <2>1, <2>2, <2>3, <2>4
    DEF LoopInv, TeamInv, NoTeam, BarStart, Unused, barVars, barrier, waiting, rounds
  <2>5. ASSUME NEW k \in 3..(MaxWorkers + 1), TeamOf(k)
        PROVE  TeamOf(k)'
    <3>1. PartyInv(Members(k), Slots(k))'
      BY <2>1, <2>5, PartyStutter DEF TeamOf
    <3> QED
      BY <2>1, <2>5, <3>1
      DEF TeamOf, Ready, Pending, Unused, LatestRound, IsCalled, barVars, barrier, waiting, rounds
  <2> QED
    BY <2>2, <2>3, <2>4, <2>5 DEF LoopInv, TeamInv
<1> QED
  BY <1>1, <1>2, <1>3 DEF LoopNext

\* The invariant of parallel_for(), for any number of workers and any loops, as long as
\* all those that start workers start the same number of them: the table has a line for
\* every worker started, a worker that is late is one the caller waits for at the
\* barrier, and nobody works between two loops (run_then_freeze, wait_freezing).
THEOREM LoopsKeepTheirTable == ~TeamMayChange => (LoopSpec => []LoopInv)
<1> SUFFICES ASSUME ~TeamMayChange
             PROVE  LoopSpec => []LoopInv
  OBVIOUS
<1>1. LoopInv /\ [LoopNext]_loopVars => LoopInv'
  BY LoopNextInv
<1> QED
  BY <1>1, LoopInitInv, PTL DEF LoopSpec

\* While a range has chunks, its counter is at least their number, however the workers
\* claim and count them: no chunk of a loop is stranded (nextTaskConcurrent).
THEOREM TasksAreNotStranded == ~TeamMayChange => (LoopSpec => []NoTaskIsStranded)
<1>1. LoopInv => NoTaskIsStranded
  <2> SUFFICES ASSUME LoopInv, mpc \in Started, ~sched.static
               PROVE  \A id \in 0..(sched.nw - 1) : Unclaimed(id) > 0 =>
                        data[id].ntask = Unclaimed(id) + Cardinality(Uncounting(id))
    BY DEF NoTaskIsStranded, Started
  <2>1. loop.chunk \in Int /\ loop.chunk > 0
    BY LoopsAssumption DEF LoopInv, LoopTypes, TableInv
  <2>2. loop.chunk >= 0
    BY <2>1
  <2> QED
    BY <2>2 DEF LoopInv, TaskInv
<1> QED
  BY <1>1, LoopsKeepTheirTable, PTL

-----------------------------------------------------------------------------
(* The indexes of a loop                                                   *)

LEMMA NoRemainder ==
  ASSUME NEW x \in Int, NEW s \in Nat \ {0}
  PROVE  x % s = 0 <=> \E q \in Int : x = q * s
<1> DEFINE d == x \div s
           r == x % s
<1>1. d \in Int /\ r \in 0..(s - 1) /\ x = s * d + r
  BY SMT
<1>2. s * d = d * s /\ d * s \in Int
  BY <1>1, Z3
<1> HIDE DEF d, r
<1>3. r = 0 => x = d * s
  BY <1>1, <1>2
<1>4. ASSUME NEW q \in Int, x = q * s
      PROVE  r = 0
  <2>1. /\ (d + 1) * s = d * s + s /\ q * s \in Int
        /\ q * s < (d + 1) * s => q < d + 1
        /\ d <= q - 1 => d * s <= (q - 1) * s
        /\ q <= d => q * s <= d * s
        /\ (q - 1) * s = q * s - s
    BY <1>1, Multiples
  <2>2. q <= d
    BY <1>1, <1>2, <1>4, <2>1
  <2> QED
    BY <1>1, <1>2, <1>4, <2>1, <2>2
<1> QED
  BY <1>1, <1>3, <1>4 DEF r

\* Index q of a loop
Nth(l, q) == l.start + q * l.step

LEMMA NthIndex ==
  ASSUME NEW l \in Loops
  PROVE  /\ \A q \in Int : Nth(l, q) \in Int
         /\ Calls!Iterations(l) =
              {i \in Indices : \E q \in Nat : i = Nth(l, q) /\ i < l.stop}
<1>1. /\ l.start \in Int /\ l.stop \in Int /\ l.step \in Nat \ {0}
      /\ Indices \subseteq Int
  BY LoopsAssumption
<1>2. \A q \in Int : q * l.step \in Int
  BY <1>1, Multiples
<1>3. ASSUME NEW i \in Indices
      PROVE  i >= l.start /\ i < l.stop /\ (i - l.start) % l.step = 0
               <=> \E q \in Nat : i = Nth(l, q) /\ i < l.stop
  <2>1. i \in Int /\ i - l.start \in Int
    BY <1>1
  <2>2. (i - l.start) % l.step = 0 <=> \E q \in Int : i - l.start = q * l.step
    BY <1>1, <2>1, NoRemainder
  <2>3. ASSUME NEW q \in Int
        PROVE  /\ i - l.start = q * l.step <=> i = Nth(l, q)
               /\ i = Nth(l, q) => (i >= l.start <=> q \in Nat)
    <3>1. q * l.step \in Int /\ 0 * l.step = 0 /\ -1 * l.step = 0 - l.step
      BY <1>1, <1>2, Z3
    <3>2. (0 <= q => 0 * l.step <= q * l.step) /\ (q <= -1 => q * l.step <= -1 * l.step)
      BY <1>1, Multiples
    <3> QED
      BY <1>1, <2>1, <3>1, <3>2 DEF Nth
  <2> QED
    BY <2>2, <2>3
<1>4. \A q \in Int : Nth(l, q) \in Int
  BY <1>1, <1>2 DEF Nth
<1> QED
  BY <1>3, <1>4 DEF Calls!Iterations

\* A range of a loop: if it is not empty, it begins with an index.
InLoop(l, a, b) == a < b => /\ \E k \in Nat : a = Nth(l, k)
                           /\ b <= l.stop

\* The body over a range runs for the indexes in it.
LEMMA BodyOfRange ==
  ASSUME NEW l \in Loops, NEW a \in Int, NEW b \in Int, InLoop(l, a, b)
  PROVE  Strided(l, a, b) = {i \in Calls!Iterations(l) : a <= i /\ i < b}
<1>1. /\ l.start \in Int /\ l.stop \in Int /\ l.step \in Nat \ {0}
      /\ Indices \subseteq Int
  BY LoopsAssumption
<1>2. CASE a < b
  <2>1. PICK k \in Nat : a = Nth(l, k)
    BY <1>2 DEF InLoop
  <2>2. b <= l.stop
    BY <1>2 DEF InLoop
  <2>3. ASSUME NEW i \in Indices, i >= a, i < b
        PROVE  (i - a) % l.step = 0 <=> \E q \in Nat : i = Nth(l, q)
    <3>1. i \in Int /\ i - a \in Int
      BY <1>1
    <3>2. (i - a) % l.step = 0 <=> \E q \in Int : i - a = q * l.step
      BY <1>1, <3>1, NoRemainder
    <3>3. k * l.step \in Int /\ a = l.start + k * l.step
      BY <1>1, <2>1, Multiples DEF Nth
    <3>4. ASSUME NEW q \in Int, i - a = q * l.step
          PROVE  \E p \in Nat : i = Nth(l, p)
      <4>1. q * l.step \in Int /\ (q + k) * l.step = q * l.step + k * l.step
        BY <1>1, Z3
      <4>2. i = Nth(l, q + k)
        BY <1>1, <3>1, <3>3, <3>4, <4>1 DEF Nth
      <4>3. q <= -1 => q * l.step <= -1 * l.step
        BY <1>1, Multiples
      <4>4. -1 * l.step = 0 - l.step
        BY <1>1, Z3
      <4>5. q >= 0
        BY <1>1, <2>3, <3>1, <3>4, <4>1, <4>3, <4>4
      <4> QED
        BY <4>2, <4>5
    <3>5. ASSUME NEW p \in Nat, i = Nth(l, p)
          PROVE  \E q \in Int : i - a = q * l.step
      <4>1. p * l.step \in Int /\ (p - k) * l.step = p * l.step - k * l.step
        BY <1>1, Z3
      <4>2. i - a = (p - k) * l.step
        BY <1>1, <3>3, <3>5, <4>1 DEF Nth
      <4> QED
        BY <4>2
    <3> QED
      BY <3>2, <3>4, <3>5
  <2>4. \A i \in Indices : i >= a /\ i < b => i < l.stop
    BY <1>1, <2>2
  <2>5. Calls!Iterations(l) = {i \in Indices : \E q \in Nat : i = Nth(l, q) /\ i < l.stop}
    BY NthIndex
  <2>6. \A i \in Indices : i >= a /\ i < b =>
          ((i - a) % l.step = 0 <=> i \in Calls!Iterations(l))
    BY <2>3, <2>4, <2>5
  <2>7. \A i \in Indices : a <= i <=> i >= a
    BY <1>1
  <2>8. Calls!Iterations(l) \subseteq Indices
    BY <2>5
  <2> QED
    BY <2>6, <2>7, <2>8, Zenon DEF Strided
<1>3. CASE ~(a < b)
  <2>1. \A i \in Int : ~(a <= i /\ i < b) /\ ~(i >= a /\ i < b)
    BY <1>3
  <2>2. Strided(l, a, b) = {}
    BY <1>1, <2>1, Zenon DEF Strided
  <2>3. {i \in Calls!Iterations(l) : a <= i /\ i < b} = {}
    BY <1>1, <2>1, Zenon DEF Calls!Iterations
  <2> QED
    BY <2>2, <2>3
<1> QED
  BY <1>2, <1>3

\* A piece has the indexes it is cut for: those of number before to before + width - 1.
LEMMA PieceCovers ==
  ASSUME NEW l \in Loops, NEW k \in Nat, NEW m \in Nat
  PROVE  LET p == Piece(l, k, m)
         IN  /\ p.start \in Int /\ p.end \in Int
             /\ InLoop(l, p.start, p.end) /\ InLoop(l, p.start, l.stop)
             /\ \A q \in Nat : Nth(l, q) < l.stop =>
                  /\ p.start <= Nth(l, q) <=> k <= q
                  /\ p.start <= Nth(l, q) /\ Nth(l, q) < p.end <=> k <= q /\ q < k + m
<1> DEFINE s == l.step
           p == Piece(l, k, m)
           first == l.start + k * s
           top == l.stop - 1 + s
<1>1. l.start \in Int /\ l.stop \in Int /\ s \in Nat \ {0} /\ k * s \in Int /\ (m - 1) * s \in Int
  BY LoopsAssumption, Z3
<1>2. /\ p.start = Least(first, top)
      /\ p.end = Least(p.start + (m - 1) * s + 1, l.stop)
  BY DEF Piece, EndOf
<1>3. first = Nth(l, k)
  BY DEF Nth
<1> HIDE DEF p
<1>4. p.start \in Int /\ p.end \in Int /\ p.end <= l.stop
  BY <1>1, <1>2 DEF Least
<1>5. p.start < l.stop => p.start = Nth(l, k)
  BY <1>1, <1>2, <1>3 DEF Least
<1>6. InLoop(l, p.start, p.end) /\ InLoop(l, p.start, l.stop)
  BY <1>1, <1>4, <1>5 DEF InLoop
<1>7. ASSUME NEW q \in Nat, Nth(l, q) < l.stop
      PROVE  /\ p.start <= Nth(l, q) <=> k <= q
             /\ p.start <= Nth(l, q) /\ Nth(l, q) < p.end <=> k <= q /\ q < k + m
  <2> DEFINE i == Nth(l, q)
             K == k * s
             Q == q * s
             M == (m - 1) * s
             E == (k + m - 1) * s
  <2>1. /\ i = l.start + Q /\ Q \in Int /\ i \in Int /\ K \in Int
        /\ k <= q => K <= Q
        /\ q <= k - 1 => Q <= K - s
        /\ E = K + M /\ M \in Int /\ E \in Int
        /\ q <= k + m - 1 => Q <= E
        /\ k + m <= q => E <= Q - s
    <3>1. i = l.start + Q /\ Q \in Int /\ K \in Int /\ M \in Int /\ E \in Int
      BY <1>1, Multiples DEF Nth
    <3>2. (k <= q => K <= Q) /\ (q <= k - 1 => Q <= (k - 1) * s) /\ (k - 1) * s = K - s
      BY <1>1, Multiples
    <3>3. /\ q <= k + m - 1 => Q <= E
          /\ k + m - 1 <= q - 1 => E <= (q - 1) * s
          /\ (q - 1) * s = Q - s
      BY <1>1, Multiples
    <3>4. E = K + M
      <4>1. (k + (m - 1)) * s = k * s + (m - 1) * s
        <5>1. \A x, y \in Int : (x + y) * s = x * s + y * s
          BY <1>1, Z3
        <5>2. k \in Int /\ m - 1 \in Int
          OBVIOUS
        <5> QED
          BY <5>1, <5>2, Zenon
      <4>2. k + (m - 1) = k + m - 1
        OBVIOUS
      <4> QED
        BY <4>1, <4>2, Zenon
    <3> HIDE DEF K, Q, M, E
    <3> QED
      BY <1>1, <3>1, <3>2, <3>3, <3>4
  <2>2. p.start = Least(l.start + K, top) /\ p.end = Least(p.start + M + 1, l.stop)
    BY <1>2
  <2> HIDE DEF i, K, Q, M, E, s
  <2>3. i < l.stop /\ s \in Nat \ {0}
    BY <1>1, <1>7 DEF i
  <2>4. p.start <= i <=> k <= q
    BY <1>1, <1>4, <2>1, <2>2, <2>3 DEF Least
  <2>5. k <= q => p.start = l.start + K
    BY <1>1, <1>4, <2>1, <2>2, <2>3 DEF Least
  <2>6. k <= q => (i < p.end <=> q < k + m)
    BY <1>1, <1>4, <2>1, <2>2, <2>3, <2>5 DEF Least
  <2> QED
    BY <2>4, <2>6 DEF i
<1> QED
  BY <1>4, <1>6, <1>7 DEF p

\* Worker j has its tasks behind those of the workers before it.
FirstTask(j, each, more) == j * each + Least(j, more)
Has(j, each, more, u) == /\ FirstTask(j, each, more) <= u
                         /\ u < FirstTask(j, each, more) + TasksOf(j, each, more)

\* Task u is one of those dealt out to n workers.
Dealt(n, each, more, u) == /\ n \in Nat \ {0} /\ each \in Nat /\ more \in 0..(n - 1)
                           /\ u \in Nat /\ u < n * each + more

\* Of n workers, one has a task that is dealt out.
LEMMA Tiling ==
  ASSUME NEW n, NEW each, NEW more, NEW u, Dealt(n, each, more, u)
  PROVE  \E id \in 0..(n - 1) : \A j \in 0..(n - 1) : Has(j, each, more, u) <=> j = id
<1> DEFINE K(j) == j * each + Least(j, more)
           H(j) == K(j) <= u /\ u < K(j) + TasksOf(j, each, more)
<1> USE DEF Dealt
<1>1. \A j \in Nat : j * each \in Int /\ j * each >= 0
  BY Z3
<1>2. \A j \in Nat : K(j) \in Int
  BY <1>1 DEF Least
<1>3. ASSUME NEW i \in 0..(n - 1), NEW j \in 0..(n - 1), i < j
      PROVE  K(i) + TasksOf(i, each, more) <= K(j)
  <2>1. (i + 1) * each <= j * each /\ (i + 1) * each = i * each + each
    <3>1. i + 1 <= j
      BY <1>3
    <3>2. CASE each = 0
      BY <3>2, Z3
    <3>3. CASE each # 0
      <4>1. each \in Nat \ {0}
        BY <3>3
      <4> QED
        BY <3>1, <4>1, Multiples
    <3> QED
      BY <3>2, <3>3
  <2>2. i * each \in Int /\ j * each \in Int
    BY <1>1
  <2> DEFINE I == i * each
             J == j * each
  <2>3. I + each <= J /\ I \in Int /\ J \in Int
    BY <2>1, <2>2
  <2> HIDE DEF I, J
  <2>4. I + Least(i, more) + TasksOf(i, each, more) <= J + Least(j, more)
    BY <1>3, <2>3 DEF Least, TasksOf
  <2>5. Least(i, more) \in Int /\ Least(j, more) \in Int /\ TasksOf(i, each, more) \in Int
    BY DEF Least, TasksOf
  <2> QED
    BY <2>3, <2>4, <2>5 DEF I, J
<1>4. ASSUME NEW i \in 0..(n - 1), NEW j \in 0..(n - 1), H(i), H(j)
      PROVE  j = i
  <2>1. K(i) \in Int /\ K(j) \in Int /\ TasksOf(i, each, more) \in Int /\ TasksOf(j, each, more) \in Int
    BY <1>2 DEF TasksOf
  <2>2. i < j => K(i) + TasksOf(i, each, more) <= K(j)
    BY <1>3
  <2>3. j < i => K(j) + TasksOf(j, each, more) <= K(i)
    BY <1>3
  <2>4. K(i) <= u /\ u < K(i) + TasksOf(i, each, more) /\ K(j) <= u /\ u < K(j) + TasksOf(j, each, more)
    BY <1>4
  <2> HIDE DEF K
  <2> QED
    BY <2>1, <2>2, <2>3, <2>4
<1>5. \E i \in 0..(n - 1) : H(i)
  <2>1. CASE u < more * (each + 1)
    <3> DEFINE b == each + 1
               i == u \div b
               r == u % b
    <3>1. b \in Nat \ {0}
      OBVIOUS
    <3>2. i \in Nat /\ r \in 0..(b - 1) /\ b * i + r = u
      BY <3>1, Divided
    <3> HIDE DEF i, r
    <3>3. b * i = i * b /\ i * b = i * each + i /\ i * b \in Int
      BY <3>1, <3>2, Z3
    <3>4. i * b < more * b => i < more
      BY <3>1, <3>2, Multiples
    <3>5. more * b \in Int
      BY <3>1, Z3
    <3>6. i < more
      BY <2>1, <3>1, <3>2, <3>3, <3>4, <3>5
    <3>7. K(i) = i * b /\ TasksOf(i, each, more) = b
      BY <3>2, <3>3, <3>6 DEF Least, TasksOf
    <3>8. H(i)
      BY <3>1, <3>2, <3>3, <3>7
    <3> HIDE DEF H
    <3> QED
      BY <3>2, <3>6, <3>8
  <2>2. CASE u >= more * (each + 1)
    <3> DEFINE v == u - more
               i == v \div each
               r == v % each
    <3>1. more * (each + 1) = more * each + more /\ more * each \in Int /\ more * each >= 0
      BY Z3
    <3>2. v \in Nat /\ v >= more * each /\ v < n * each /\ n * each \in Int
      BY <1>1, <2>2, <3>1
    <3>3. each \in Nat \ {0}
      <4>1. each = 0 => n * each = 0
        BY Z3
      <4> HIDE DEF v
      <4> QED
        BY <3>2, <4>1
    <3> HIDE DEF v
    <3>4. i \in Nat /\ r \in 0..(each - 1) /\ each * i + r = v
      BY <3>2, <3>3, Divided
    <3> HIDE DEF i, r
    <3>5. each * i = i * each /\ i * each \in Int /\ (i + 1) * each = i * each + each
      BY <3>3, <3>4, Z3
    <3>6. i * each < n * each => i < n
      BY <3>3, <3>4, Multiples
    <3>7. more * each < (i + 1) * each => more < i + 1
      BY <3>3, <3>4, Multiples
    <3>8. i < n /\ more <= i
      BY <3>1, <3>2, <3>3, <3>4, <3>5, <3>6, <3>7
    <3>9. Least(i, more) = more /\ TasksOf(i, each, more) = each
      BY <3>4, <3>8 DEF Least, TasksOf
    <3>10. i * each <= v /\ v < i * each + each
      BY <3>3, <3>4, <3>5
    <3>11. K(i) <= u /\ u < K(i) + each
      BY <3>2, <3>3, <3>5, <3>9, <3>10 DEF v
    <3>12. H(i)
      BY <3>9, <3>11
    <3> HIDE DEF H
    <3> QED
      BY <3>4, <3>8, <3>12
  <2>3. more * (each + 1) \in Int
    BY Z3
  <2> HIDE DEF H
  <2> QED
    BY <2>1, <2>2, <2>3
<1>6. \E i \in 0..(n - 1) : \A j \in 0..(n - 1) : H(j) <=> j = i
  <2> HIDE DEF H
  <2> QED
    BY <1>4, <1>5
<1> QED
  BY <1>6, Zenon DEF Has, FirstTask

\* The number of a task is that of its indexes divided by the chunk.
LEMMA TaskOfIndex ==
  ASSUME NEW c \in Nat \ {0}, NEW q \in Nat
  PROVE  /\ q \div c \in Nat
         /\ \A x \in Int : x * c \in Int /\ (x * c <= q <=> x <= q \div c)
<1> DEFINE u == q \div c
           r == q % c
<1>1. u \in Nat /\ r \in 0..(c - 1) /\ c * u + r = q
  BY Divided
<1> HIDE DEF u, r
<1>2. c * u = u * c /\ (u + 1) * c = u * c + c /\ u * c \in Int
  BY <1>1, Z3
<1>3. ASSUME NEW x \in Int
      PROVE  x * c \in Int /\ (x * c <= q <=> x <= u)
  <2>1. /\ x * c \in Int
        /\ x <= u => x * c <= u * c
        /\ x * c < (u + 1) * c => x < u + 1
    BY <1>1, Multiples
  <2> QED
    BY <1>1, <1>2, <2>1
<1> QED
  BY <1>1, <1>3 DEF u

\* numtasks is the number of indexes.
LEMMA IndexCount ==
  ASSUME NEW l \in Loops
  PROVE  /\ NumTasks(l) \in Int
         /\ \A q \in Nat : Nth(l, q) < l.stop => q < NumTasks(l)
<1> DEFINE num == NumTasks(l)
<1>1. l.start \in Int /\ l.stop \in Int /\ l.step \in Nat \ {0}
  BY LoopsAssumption
<1>2. num \in Int /\ l.stop - l.start <= num * l.step
  <2>1. l.stop - l.start \in Int
    BY <1>1
  <2> QED
    BY <1>1, <2>1, RoundedUp DEF NumTasks
<1> HIDE DEF num
<1>3. ASSUME NEW q \in Nat, Nth(l, q) < l.stop
      PROVE  q < num
  <2>1. /\ q * l.step \in Int /\ num * l.step \in Int
        /\ q * l.step < num * l.step => q < num
    BY <1>1, <1>2, Multiples
  <2> QED
    BY <1>1, <1>2, <1>3, <2>1 DEF Nth
<1> QED
  BY <1>2, <1>3 DEF num

\* If there is no remainder, the last worker may take one task more.
HasOrLeft(j, n, each, more, u) ==
  IF j = n - 1 THEN FirstTask(j, each, more) <= u ELSE Has(j, each, more, u)

DealtOrLeft(n, each, more, u) == /\ n \in Nat \ {0} /\ each \in Nat \ {0} /\ more = 0
                                 /\ u \in Nat /\ u <= n * each

LEMMA LastTakesMore ==
  ASSUME NEW n, NEW each, NEW more, NEW u, DealtOrLeft(n, each, more, u)
  PROVE  \E id \in 0..(n - 1) : \A j \in 0..(n - 1) :
           HasOrLeft(j, n, each, more, u) <=> j = id
<1> USE DEF HasOrLeft, DealtOrLeft
<1>1. /\ n * each \in Int /\ (n - 1) * each = n * each - each
  BY Multiples
<1>2. \A j \in 0..(n - 1) : FirstTask(j, each, more) = j * each /\ TasksOf(j, each, more) = each
  <2> SUFFICES ASSUME NEW j \in 0..(n - 1)
               PROVE  FirstTask(j, each, more) = j * each /\ TasksOf(j, each, more) = each
    OBVIOUS
  <2>1. Least(j, more) = 0 /\ ~(j < more)
    BY DEF Least
  <2>2. j * each \in Int
    BY Multiples
  <2> QED
    BY <2>1, <2>2 DEF FirstTask, TasksOf
<1>3. CASE u < n * each
  <2>1. Dealt(n, each, more, u)
    BY <1>1, <1>3 DEF Dealt
  <2>2. \E id \in 0..(n - 1) : \A j \in 0..(n - 1) : Has(j, each, more, u) <=> j = id
    BY <2>1, Tiling
  <2>3. Has(n - 1, each, more, u) <=> FirstTask(n - 1, each, more) <= u
    <3>1. FirstTask(n - 1, each, more) = (n - 1) * each /\ TasksOf(n - 1, each, more) = each
      BY <1>2
    <3> QED
      BY <1>1, <1>3, <3>1 DEF Has
  <2> QED
    BY <2>2, <2>3
<1>4. CASE u = n * each
  <2>1. FirstTask(n - 1, each, more) <= u
    BY <1>1, <1>2, <1>4
  <2>2. \A j \in 0..(n - 1) : ~(j = n - 1) => ~Has(j, each, more, u)
    <3> SUFFICES ASSUME NEW j \in 0..(n - 1), ~(j = n - 1)
                 PROVE  ~Has(j, each, more, u)
      OBVIOUS
    <3>1. j * each \in Int /\ (j + 1) * each <= n * each /\ (j + 1) * each = j * each + each
      BY Multiples
    <3>2. FirstTask(j, each, more) = j * each /\ TasksOf(j, each, more) = each
      BY <1>2
    <3> QED
      BY <1>1, <1>4, <3>1, <3>2 DEF Has
  <2>3. n - 1 \in 0..(n - 1)
    OBVIOUS
  <2> QED
    BY <2>1, <2>2, <2>3
<1> QED
  BY <1>1, <1>3, <1>4

\* The ranges in a table are ranges of the loop that have each index once.
TableTiles(l, tab) ==
  LET nw == Least(tab.total, l.nw)
      has(id, i) == tab.table[id].start <= i /\ i < tab.table[id].end
  IN  /\ \A id \in 0..(nw - 1) : InLoop(l, tab.table[id].start, tab.table[id].end)
      /\ \A i \in Calls!Iterations(l) :
           \E id \in 0..(nw - 1) : \A j \in 0..(nw - 1) : has(j, i) <=> j = id

LEMMA SharesTile ==
  ASSUME NEW l \in Loops
  PROVE  TableTiles(l, InitShares(l))
<1> DEFINE tab == InitShares(l)
           num == NumTasks(l)
           share == num \div l.nw
           r == num % l.nw
           k(i) == i * share + Least(i, r)
           m(i) == TasksOf(i, share, r)
           cut(i) == Piece(l, k(i), m(i))
           has(id, i) == tab.table[id].start <= i /\ i < tab.table[id].end
<1>1. /\ l.start \in Int /\ l.stop \in Int /\ l.step \in Nat \ {0} /\ l.start < l.stop
      /\ l.nw \in Nat \ {0}
  BY LoopsAssumption
<1>2. num \in Int
  BY IndexCount
<1>3. \A q \in Nat : Nth(l, q) < l.stop => q < num
  BY IndexCount
<1>4. num \in Nat \ {0}
  <2>1. Nth(l, 0) < l.stop
    BY <1>1, Z3 DEF Nth
  <2>2. 0 < num
    BY <1>3, <2>1
  <2> HIDE DEF num
  <2> QED
    BY <1>2, <2>2
<1>5. share \in Nat /\ r \in 0..(l.nw - 1) /\ num = l.nw * share + r
  <2> HIDE DEF num
  <2>1. /\ num \div l.nw \in Nat /\ num % l.nw \in 0..(l.nw - 1)
        /\ l.nw * (num \div l.nw) + (num % l.nw) = num
    BY <1>1, <1>4, Divided
  <2> QED
    BY <2>1
<1>6. Least(tab.total, l.nw) = l.nw
  BY <1>1 DEF InitShares, Least
<1> HIDE DEF num, share, r
<1>7. ASSUME NEW i \in 0..(l.nw - 1)
      PROVE  /\ k(i) \in Nat /\ m(i) \in Nat
             /\ tab.table[i].start = cut(i).start /\ tab.table[i].end = cut(i).end
  <2>1. i * share \in Int /\ i * share >= 0
    BY <1>5, Z3
  <2>2. k(i) \in Nat /\ m(i) \in Nat
    BY <1>5, <2>1 DEF Least, TasksOf
  <2>3. Share(l, i, share, r, 1) = Piece(l, k(i) * 1, m(i) * 1)
    BY DEF Share
  <2>4. tab.table[i] = DataPair(1, Share(l, i, share, r, 1).start, Share(l, i, share, r, 1).end)
    BY DEF InitShares, num, share, r
  <2> HIDE DEF k, m
  <2>5. k(i) * 1 = k(i) /\ m(i) * 1 = m(i)
    BY <2>2
  <2> QED
    BY <2>2, <2>3, <2>4, <2>5 DEF DataPair
<1> HIDE DEF k, m, tab, has
<1>8. \A id \in 0..(l.nw - 1) : InLoop(l, tab.table[id].start, tab.table[id].end)
  BY <1>7, PieceCovers
<1>9. ASSUME NEW q \in Nat, q < num
      PROVE  \E id \in 0..(l.nw - 1) : \A j \in 0..(l.nw - 1) :
               Has(j, share, r, q) <=> j = id
  <2>1. Dealt(l.nw, share, r, q)
    BY <1>1, <1>5, <1>9 DEF Dealt
  <2> QED
    BY <2>1, Tiling
<1>10. ASSUME NEW i \in Calls!Iterations(l)
       PROVE  \E id \in 0..(l.nw - 1) : \A j \in 0..(l.nw - 1) : has(j, i) <=> j = id
  <2>1. PICK q \in Nat : i = Nth(l, q) /\ i < l.stop
    BY NthIndex
  <2>2. q < num
    BY <1>3, <2>1
  <2>3. \A j \in 0..(l.nw - 1) : has(j, i) <=> Has(j, share, r, q)
    BY <1>7, <2>1, PieceCovers DEF has, Has, FirstTask, k, m
  <2> QED
    BY <1>9, <2>2, <2>3
<1> QED
  BY <1>6, <1>8, <1>10 DEF TableTiles, tab, has

LEMMA DataTile ==
  ASSUME NEW l \in Loops, l.chunk > 0
  PROVE  TableTiles(l, InitData(l))
<1> DEFINE c == l.chunk
           total == TotalTasks(l, l.chunk)
           few == total < l.nw
           ntxw == IF few THEN 1 ELSE total \div l.nw
           r == IF few THEN 0 ELSE total % l.nw
           more == IF r > 1 THEN r ELSE 0
           tab == InitData(l)
           nw == Least(tab.total, l.nw)
           k(i) == FirstTask(i, ntxw, more)
           m(i) == TasksOf(i, ntxw, more)
           cut(i) == Piece(l, k(i) * c, m(i) * c)
           last(i) == r = 1 /\ i = l.nw - 1
           has(id, i) == tab.table[id].start <= i /\ i < tab.table[id].end
           takes(j, u) == IF last(j) THEN k(j) <= u ELSE Has(j, ntxw, more, u)
<1>1. /\ \A i \in 0..(l.nw - 1) : i < total =>
           /\ tab.table[i].start = cut(i).start
           /\ tab.table[i].end = IF last(i) THEN l.stop ELSE cut(i).end
      /\ tab.total = IF r = 1 /\ ntxw = 1 THEN total - 1 ELSE total
  <2> DEFINE Line(i) == IF last(i)
                        THEN DataPair(IF ntxw > 1 THEN WithTheLeftOver(ntxw) ELSE 1,
                                      Share(l, i, ntxw, more, c).start, l.stop)
                        ELSE DataPair(TasksOf(i, ntxw, more), Share(l, i, ntxw, more, c).start,
                                      Share(l, i, ntxw, more, c).end)
  <2>1. /\ tab.table = [i \in 0..(l.nw - 1) |-> IF i < total THEN Line(i) ELSE Kept(i)]
        /\ tab.total = IF r = 1 /\ ntxw = 1 THEN total - 1 ELSE total
    BY DEF InitData
  <2>2. \A i : Share(l, i, ntxw, more, c) = cut(i)
    BY DEF Share, FirstTask
  <2> HIDE DEF total, few, ntxw, r, more, tab, k, m, cut
  <2>3. \A i : /\ Line(i).start = cut(i).start
               /\ Line(i).end = IF last(i) THEN l.stop ELSE cut(i).end
    BY <2>2 DEF DataPair
  <2> HIDE DEF Line, last
  <2> QED
    BY <2>1, <2>3
<1>2. c \in Nat \ {0} /\ l.step \in Nat \ {0} /\ l.nw \in Nat \ {0} /\ l.stop \in Int
  BY LoopsAssumption
<1>3. total \in Nat \ {0}
  BY <1>2, TasksOfLoop
<1> HIDE DEF total, tab, takes, has
<1>4. ~few => /\ ntxw \in Nat \ {0} /\ r \in 0..(l.nw - 1) /\ l.nw * ntxw + r = total
  <2> SUFFICES ASSUME ~few
               PROVE  ntxw \in Nat \ {0} /\ r \in 0..(l.nw - 1) /\ l.nw * ntxw + r = total
    OBVIOUS
  <2>1. ntxw = total \div l.nw /\ r = total % l.nw /\ l.nw <= total
    BY <1>2, <1>3
  <2> HIDE DEF ntxw, r
  <2>2. /\ total \div l.nw \in Nat /\ total % l.nw \in 0..(l.nw - 1)
        /\ l.nw * (total \div l.nw) + (total % l.nw) = total
        /\ total \div l.nw >= 1
    BY <1>2, <1>3, <2>1, Divided
  <2> QED
    BY <2>1, <2>2
<1>5. few => ntxw = 1 /\ r = 0 /\ more = 0
  OBVIOUS
<1>6. more \in Nat /\ (~few => more \in 0..(l.nw - 1)) /\ ntxw \in Nat \ {0}
  <2>1. r \in Nat
    BY <1>2, <1>4, <1>5
  <2> HIDE DEF r, few, ntxw
  <2> QED
    BY <1>2, <1>4, <1>5, <2>1
<1>7. nw \in Nat \ {0} /\ nw = IF few THEN total ELSE l.nw
  <2>1. CASE few
    BY <1>1, <1>2, <1>3, <1>5, <2>1 DEF Least
  <2>2. CASE ~few
    <3> HIDE DEF r, ntxw
    <3>1. l.nw <= total
      BY <1>2, <1>3, <2>2
    <3>2. r = 1 /\ ntxw = 1 => total = l.nw + 1
      BY <1>2, <1>3, <1>4, <2>2
    <3>3. tab.total \in Nat /\ l.nw <= tab.total
      BY <1>1, <1>2, <1>3, <3>1, <3>2
    <3> QED
      BY <1>2, <2>2, <3>3 DEF Least
  <2> QED
    BY <2>1, <2>2
<1>8. \A i \in 0..(nw - 1) : i \in 0..(l.nw - 1) /\ i < total
  BY <1>2, <1>3, <1>7
<1> HIDE DEF few, ntxw, r, more, nw
<1>9. ASSUME NEW i \in 0..(nw - 1)
      PROVE  /\ k(i) \in Nat /\ m(i) \in Nat /\ k(i) * c \in Nat /\ m(i) * c \in Nat
             /\ tab.table[i].start = cut(i).start
             /\ tab.table[i].end = IF last(i) THEN l.stop ELSE cut(i).end
  <2>1. i * ntxw \in Int /\ i * ntxw >= 0
    BY <1>6, <1>7, Z3
  <2>2. k(i) \in Nat /\ m(i) \in Nat
    BY <1>6, <1>7, <2>1 DEF FirstTask, Least, TasksOf
  <2> HIDE DEF k, m
  <2>3. k(i) * c \in Nat /\ m(i) * c \in Nat
    BY <1>2, <2>2, Z3
  <2> QED
    BY <1>1, <1>8, <2>2, <2>3
<1> HIDE DEF k, m, c
<1>10. \A id \in 0..(nw - 1) : InLoop(l, tab.table[id].start, tab.table[id].end)
  BY <1>9, PieceCovers
<1>11. ASSUME NEW u \in Nat, u < total
       PROVE  \E id \in 0..(nw - 1) : \A j \in 0..(nw - 1) : takes(j, u) <=> j = id
  <2>1. CASE few
    <3>1. Dealt(total, ntxw, more, u)
      BY <1>3, <1>5, <1>11, <2>1 DEF Dealt
    <3>2. \E id \in 0..(total - 1) : \A j \in 0..(total - 1) : Has(j, ntxw, more, u) <=> j = id
      BY <3>1, Tiling
    <3>3. \A j : takes(j, u) <=> Has(j, ntxw, more, u)
      BY <1>5, <2>1 DEF takes
    <3> QED
      BY <1>7, <2>1, <3>2, <3>3
  <2>2. CASE ~few /\ ~(r = 1)
    <3>1. more = r
      BY <1>4, <2>2 DEF more
    <3>2. Dealt(l.nw, ntxw, more, u)
      BY <1>2, <1>4, <1>11, <2>2, <3>1 DEF Dealt
    <3>3. \E id \in 0..(l.nw - 1) : \A j \in 0..(l.nw - 1) : Has(j, ntxw, more, u) <=> j = id
      BY <3>2, Tiling
    <3>4. \A j : takes(j, u) <=> Has(j, ntxw, more, u)
      BY <2>2 DEF takes
    <3> QED
      BY <1>7, <2>2, <3>3, <3>4
  <2>3. CASE ~few /\ r = 1
    <3>1. more = 0 /\ l.nw * ntxw \in Int
      BY <1>2, <1>6, <2>3, Multiples DEF more
    <3>2. DealtOrLeft(l.nw, ntxw, more, u)
      <4> DEFINE R == r
      <4>1. R = 1 /\ l.nw * ntxw + R = total
        BY <1>4, <2>3
      <4> HIDE DEF R
      <4>2. u <= l.nw * ntxw
        BY <1>3, <1>11, <3>1, <4>1
      <4> QED
        BY <1>2, <1>6, <3>1, <4>2 DEF DealtOrLeft
    <3>3. \E id \in 0..(l.nw - 1) : \A j \in 0..(l.nw - 1) :
            HasOrLeft(j, l.nw, ntxw, more, u) <=> j = id
      BY <3>2, LastTakesMore
    <3>4. \A j : takes(j, u) <=> HasOrLeft(j, l.nw, ntxw, more, u)
      BY <2>3, Zenon DEF takes, k, HasOrLeft
    <3> QED
      BY <1>7, <2>3, <3>3, <3>4
  <2> QED
    BY <2>1, <2>2, <2>3
<1>12. ASSUME NEW i \in Calls!Iterations(l)
       PROVE  \E id \in 0..(nw - 1) : \A j \in 0..(nw - 1) : has(j, i) <=> j = id
  <2>1. PICK q \in Nat : i = Nth(l, q) /\ i < l.stop
    BY NthIndex
  <2> DEFINE u == q \div c
  <2>2. u \in Nat /\ \A x \in Int : x * c \in Int /\ (x * c <= q <=> x <= u)
    BY <1>2, TaskOfIndex
  <2> HIDE DEF u
  <2>3. u < total
    <3>1. q < NumTasks(l) /\ NumTasks(l) \in Int
      BY <2>1, IndexCount
    <3>2. NumTasks(l) <= total * c
      BY <1>2, <3>1, RoundedUp DEF total, c, TotalTasks
    <3>3. total * c \in Int /\ (total * c <= q <=> total <= u)
      BY <1>3, <2>2
    <3> QED
      BY <1>3, <2>2, <3>1, <3>2, <3>3
  <2>4. ASSUME NEW j \in 0..(nw - 1)
        PROVE  has(j, i) <=> takes(j, u)
    <3>1. /\ cut(j).start <= i <=> k(j) * c <= q
          /\ cut(j).start <= i /\ i < cut(j).end <=> k(j) * c <= q /\ q < k(j) * c + m(j) * c
      BY <1>9, <2>1, PieceCovers
    <3>2. k(j) * c <= q <=> k(j) <= u
      BY <1>9, <2>2
    <3>3. q < k(j) * c + m(j) * c <=> u < k(j) + m(j)
      <4>1. (k(j) + m(j)) * c = k(j) * c + m(j) * c
        BY <1>2, <1>9, Z3
      <4>2. k(j) + m(j) \in Int /\ k(j) * c + m(j) * c \in Int
        BY <1>9
      <4>3. (k(j) + m(j)) * c <= q <=> k(j) + m(j) <= u
        BY <2>2, <4>2
      <4> DEFINE A == k(j) + m(j)
                 Z == k(j) * c + m(j) * c
      <4>4. A \in Int /\ Z \in Int /\ (Z <= q <=> A <= u)
        BY <4>1, <4>2, <4>3
      <4> HIDE DEF A, Z
      <4>5. q < Z <=> u < A
        BY <2>2, <4>4
      <4> QED
        BY <4>5 DEF A, Z
    <3>4. Has(j, ntxw, more, u) <=> k(j) <= u /\ u < k(j) + m(j)
      BY Zenon DEF Has, k, m
    <3>5. has(j, i) <=> cut(j).start <= i /\ i < (IF last(j) THEN l.stop ELSE cut(j).end)
      BY <1>9 DEF has
    <3> HIDE DEF cut, last
    <3> QED
      BY <2>1, <3>1, <3>2, <3>3, <3>4, <3>5 DEF takes
  <2> QED
    BY <1>11, <2>2, <2>3, <2>4
<1> QED
  BY <1>10, <1>12 DEF TableTiles, tab, nw, has

LEMMA TablesTile ==
  ASSUME NEW l \in Loops, l.chunk >= 0
  PROVE  TableTiles(l, Filled(l))
<1>1. l.chunk \in Int
  BY LoopsAssumption
<1>2. l.chunk > 0 \/ (~(l.chunk > 0) /\ l.chunk = 0)
  BY <1>1
<1> QED
  BY <1>2, DataTile, SharesTile DEF Filled

-----------------------------------------------------------------------------
(* What has been run and what has still to be                              *)

\* The body may be run over ranges alone: a static loop with a grain is left out.
NoGrain == \A l \in Loops : l.chunk >= 0

Iter == Calls!Iterations(loop)

InRange(i, id) == data[id].start <= i /\ i < data[id].end
InClaim(i, w) == wpc[w] = "count" /\ my[w].old <= i /\ i < my[w].end

\* An index is in one range, or one worker has claimed it, or the body has run for it.
ToClaim(i) == /\ times[i] = 0
              /\ \A w \in LoopWorkers : ~InClaim(i, w)
              /\ \E id \in 0..(sched.nw - 1) :
                   \A j \in 0..(sched.nw - 1) : InRange(i, j) <=> j = id
ToRun(i) == /\ times[i] = 0
            /\ \A id \in 0..(sched.nw - 1) : ~InRange(i, id)
            /\ \E w \in LoopWorkers : \A u \in LoopWorkers : InClaim(i, u) <=> u = w
HasRun(i) == /\ times[i] = 1
             /\ \A id \in 0..(sched.nw - 1) : ~InRange(i, id)
             /\ \A w \in LoopWorkers : ~InClaim(i, w)

PlaceInv == mpc \in Started => \A i \in Iter : ToClaim(i) \/ ToRun(i) \/ HasRun(i)

TimesInv == /\ times \in [Indices -> {0, 1}]
            /\ \A i \in Indices : times[i] = 1 => i \in Iter
            /\ mpc = "alone" => \A i \in Indices : times[i] = 0
            /\ mpc = "back" => \A i \in Iter : times[i] = 1

\* The ranges of the workers started are ranges of the loop.
RangeInv == mpc \in Started =>
              \A id \in 0..(sched.nw - 1) : InLoop(loop, data[id].start, data[id].end)

\* Lines that no worker of the team owns have no indexes; they are left over from loops
\* of one worker, and from before the first loop.
Exhausted(id) == data[id].start >= data[id].end

Owned == IF mpc = "setup" THEN sched.nw ELSE IF team = 0 THEN 1 ELSE team - 1
SpareInv == \A id \in DOMAIN data : id >= Owned => Exhausted(id)

\* A worker that has claimed nothing finds nothing more in the range.
ClaimedInv(w) == wpc[w] = "count" => /\ InLoop(loop, my[w].old, my[w].end)
                                     /\ my[w].old >= my[w].end => Exhausted(my[w].id)

\* A worker leaves its own range when that is exhausted, and the loop after that.
Gone(w) == \/ wpc[w] \in {"none", "scan", "victim", "steal", "barrier"}
           \/ wpc[w] \in Busy /\ my[w].id # w
           \/ Ready(w) /\ (IsCalled(w) \/ mpc = "wait")
GoneInv(w) == w < sched.nw /\ Gone(w) => Exhausted(w)

WorkInv == /\ PlaceInv /\ TimesInv /\ RangeInv /\ SpareInv
           /\ \A w \in LoopWorkers : ClaimedInv(w) /\ GoneInv(w)

LEMMA WorkInitInv == LoopInit => WorkInv
<1> SUFFICES ASSUME LoopInit
             PROVE  WorkInv
  OBVIOUS
<1>1. /\ mpc = "user" /\ times = [i \in Indices |-> 0]
      /\ data = [w \in LoopWorkers |-> DataPair(0, 0, 0)]
      /\ \A w \in LoopWorkers : wpc[w] = "idle"
  BY DEF LoopInit
<1>2. PlaceInv /\ RangeInv
  BY <1>1 DEF PlaceInv, RangeInv, Started
<1>3. TimesInv
  BY <1>1 DEF TimesInv
<1>4. SpareInv
  BY <1>1 DEF SpareInv, Exhausted, DataPair
<1>5. \A w \in LoopWorkers : ClaimedInv(w) /\ GoneInv(w)
  BY <1>1 DEF ClaimedInv, GoneInv, Gone, IsCalled, Busy
<1> QED
  BY <1>2, <1>3, <1>4, <1>5 DEF WorkInv

\* As long as no range, no claim and no run of the body changes, everything is where
\* it was.
LEMMA WorkStays ==
  ASSUME WorkInv, UNCHANGED <<loop, times, data>>, sched'.nw = sched.nw, Owned' = Owned,
         mpc' \in Started => mpc \in Started,
         mpc' \notin {"alone", "back"} \/ mpc' = mpc,
         \A w \in LoopWorkers : /\ wpc'[w] = "count" <=> wpc[w] = "count"
                                /\ wpc[w] = "count" => my'[w] = my[w],
         \A w \in LoopWorkers : GoneInv(w)'
  PROVE  WorkInv'
<1>1. Iter' = Iter
  BY DEF Iter, Calls!Iterations
<1>2. \A i, id : InRange(i, id)' <=> InRange(i, id)
  BY DEF InRange
<1>3. \A i : \A w \in LoopWorkers : InClaim(i, w)' <=> InClaim(i, w)
  BY DEF InClaim
<1>4. PlaceInv'
  <2>1. \A i : /\ ToClaim(i) => ToClaim(i)'
               /\ ToRun(i) => ToRun(i)'
               /\ HasRun(i) => HasRun(i)'
    BY <1>2, <1>3 DEF ToClaim, ToRun, HasRun
  <2> QED
    BY <1>1, <2>1 DEF WorkInv, PlaceInv
<1>5. TimesInv'
  BY <1>1 DEF WorkInv, TimesInv
<1>6. RangeInv'
  BY DEF WorkInv, RangeInv, InLoop, Nth
<1>7. SpareInv'
  BY DEF WorkInv, SpareInv, Exhausted
<1>8. \A w \in LoopWorkers : ClaimedInv(w)'
  BY DEF WorkInv, ClaimedInv, InLoop, Nth, Exhausted
<1> QED
  BY <1>4, <1>5, <1>6, <1>7, <1>8 DEF WorkInv

\* A worker that goes on: it may find its range exhausted, and leave it for good.
LEMMA WorkerGoesOn ==
  ASSUME LoopInv, WorkInv, NEW w \in LoopWorkers,
         UNCHANGED <<loop, times, data, mpc, woken, team>>, sched'.nw = sched.nw,
         \A u \in LoopWorkers :
           u # w => wpc'[u] = wpc[u] /\ my'[u] = my[u] /\ inbox'[u] = inbox[u]
                    /\ entered'[u] = entered[u],
         entered'[Main] = entered[Main],
         wpc[w] # "count", wpc'[w] # "count",
         w < sched.nw /\ Gone(w)' => Gone(w) \/ Exhausted(w)
  PROVE  WorkInv'
<1>1. \A u \in LoopWorkers : u # w => (Gone(u)' <=> Gone(u))
  BY DEF Gone, Ready, LatestRound, IsCalled
<1>2. \A u \in LoopWorkers : GoneInv(u)'
  BY <1>1 DEF WorkInv, GoneInv, Exhausted
<1>3. Owned' = Owned
  BY DEF Owned
<1> QED
  BY <1>2, <1>3, WorkStays

\* A worker that finds no task in its own range has exhausted it.
LEMMA NoTaskLeft ==
  ASSUME NoGrain, LoopInv, NEW w \in LoopWorkers, wpc[w] \in Busy, ~(data[w].ntask > 0)
  PROVE  Exhausted(w)
<1>1. mpc \in Started /\ w \in 0..(sched.nw - 1)
  BY BusyIsPending DEF Started
<1>2. loop.chunk >= 0 /\ loop.step \in Nat \ {0}
  BY LoopsAssumption DEF NoGrain, LoopInv, LoopTypes
<1>3. w \in DOMAIN data /\ data[w] \in Lines /\ sched.chunk \in Nat \ {0}
  BY <1>1, <1>2 DEF LoopInv, LoopTypes, TableInv
<1>4. Unclaimed(w) \in Nat /\ (Unclaimed(w) = 0 <=> data[w].start >= data[w].end)
  BY <1>2, <1>3, ChunksOfLines DEF Unclaimed
<1>5. Unclaimed(w) > 0 => data[w].ntask = Unclaimed(w) + Cardinality(Uncounting(w))
  BY <1>1, <1>2 DEF LoopInv, TaskInv
<1>6. Cardinality(Uncounting(w)) \in Nat
  BY UncountingFinite
<1> QED
  BY <1>3, <1>4, <1>5, <1>6 DEF Exhausted, Lines

\* The steps of a worker that claim nothing and run nothing
LEMMA LooksWork ==
  ASSUME NoGrain, LoopInv, WorkInv, NEW w \in LoopWorkers,
         \/ Awake(w) \/ LookForTask(w) \/ LoadStart(w) \/ LookElsewhere(w) \/ Scan(w)
         \/ LookAtVictim(w) \/ StealFrom(w) \/ (Claim(w) /\ ~StartIsUnchanged(w))
  PROVE  WorkInv'
<1> DEFINE Others == \A u \in LoopWorkers :
                       u # w => wpc'[u] = wpc[u] /\ my'[u] = my[u] /\ inbox'[u] = inbox[u]
<1>1. /\ my \in [LoopWorkers -> Locals] /\ my[w] \in Locals
      /\ wpc \in [LoopWorkers -> Busy \cup Resting]
      /\ inbox \in [LoopWorkers -> Nat]
      /\ sched \in [chunk : Int, nw : 1..MaxWorkers, static : BOOLEAN, maxid : Int]
  BY DEF LoopInv, LoopTypes
<1>2. /\ UNCHANGED <<loop, times, data, mpc, woken, barVars>>
      /\ sched'.nw = sched.nw
  BY <1>1 DEF Awake, LookForTask, LoadStart, LookElsewhere, Scan, LookAtVictim, StealFrom,
            Claim, caller
<1>3. Others
  BY <1>1 DEF Awake, LookForTask, LoadStart, LookElsewhere, Scan, LookAtVictim, StealFrom,
            Claim, Proceed
<1>4. /\ wpc[w] # "count"
      /\ wpc'[w] # "count"
      /\ w < sched.nw /\ Gone(w)' => Gone(w) \/ Exhausted(w)
  <2>1. CASE Awake(w)
    <3>1. wpc[w] = "idle" /\ wpc'[w] = "look" /\ my'[w].id = w
      BY <1>1, <2>1 DEF Awake, Proceed, Locals
    <3> QED
      BY <3>1 DEF Gone, Ready, Resting
  <2>2. CASE LookForTask(w)
    <3>1. /\ wpc[w] = "look" /\ my'[w] = my[w]
          /\ wpc'[w] = IF data[my[w].id].ntask > 0 THEN "load" ELSE "none"
      BY <1>1, <2>2 DEF LookForTask, Proceed
    <3>2. my[w].id = w /\ ~(data[w].ntask > 0) => Exhausted(w)
      BY <3>1, NoTaskLeft DEF Busy
    <3> QED
      BY <3>1, <3>2 DEF Gone, Ready, Resting, Busy
  <2>3. CASE LoadStart(w) \/ (Claim(w) /\ ~StartIsUnchanged(w))
    <3>1. wpc[w] \in {"load", "claim"} /\ wpc'[w] \in {"claim", "look"} /\ my'[w].id = my[w].id
      BY <1>1, <2>3 DEF LoadStart, Claim, Proceed, Locals
    <3> QED
      BY <3>1 DEF Gone, Ready, Resting, Busy
  <2>4. CASE LookElsewhere(w) \/ Scan(w) \/ LookAtVictim(w) \/ StealFrom(w)
    <3>1. /\ wpc[w] \in {"none", "scan", "victim", "steal"}
          /\ wpc'[w] \in {"barrier", "scan", "victim", "steal", "look"}
      BY <1>1, <2>4 DEF LookElsewhere, Scan, LookAtVictim, StealFrom, Proceed
    <3> QED
      BY <3>1 DEF Gone
  <2> QED
    BY <2>1, <2>2, <2>3, <2>4
<1>5. UNCHANGED <<team, entered>>
  BY <1>2 DEF barVars, barrier, rounds
<1> QED
  BY <1>2, <1>3, <1>4, <1>5, WorkerGoesOn

LEMMA RoundsType ==
  ASSUME LoopInv
  PROVE  entered \in [BarThreads -> Nat]
<1>1. CASE NoTeam
  BY <1>1 DEF NoTeam, BarStart
<1>2. CASE \E k \in 3..(MaxWorkers + 1) : TeamOf(k)
  BY <1>2 DEF TeamOf, PartyInv, BarTypes
<1> QED
  BY <1>1, <1>2 DEF LoopInv, TeamInv

\* A worker that enters the barrier, and one that waits there
LEMMA WorkerAtBarrierWork ==
  ASSUME LoopInv, WorkInv, NEW w \in LoopWorkers, WorkerArrives(w) \/ WorkerWaits(w)
  PROVE  WorkInv'
<1>1. /\ wpc \in [LoopWorkers -> Busy \cup Resting] /\ Main \notin LoopWorkers
      /\ LoopWorkers \subseteq BarThreads /\ Main \in BarThreads
      /\ entered \in [BarThreads -> Nat]
  BY LoopThreads, RoundsType DEF LoopInv, LoopTypes
<1>2. UNCHANGED <<loop, times, data, mpc, woken, sched, inbox, my>>
  BY DEF WorkerArrives, WorkerWaits, caller
<1>3. \A u \in LoopWorkers : u # w => wpc'[u] = wpc[u] /\ entered'[u] = entered[u]
  BY <1>1 DEF WorkerArrives, WorkerWaits, Proceed, FlipFlag, BarStep, Arrive, ResetCounter,
            SpinEnds, Leave, rounds
<1>4. team' = team /\ entered'[Main] = entered[Main]
  BY <1>1 DEF WorkerArrives, WorkerWaits, FlipFlag, BarStep, Arrive, ResetCounter,
            SpinEnds, Leave, rounds
<1>5. wpc[w] # "count" /\ wpc'[w] # "count"
  BY <1>1 DEF WorkerArrives, WorkerWaits, Proceed
<1>6. Gone(w)' => Gone(w)
  <2>1. CASE WorkerArrives(w)
    BY <2>1 DEF WorkerArrives, Gone
  <2>2. CASE WorkerWaits(w)
    <3>1. wpc[w] = "wait" /\ wpc'[w] \in Resting /\ entered' = entered
      BY <1>1, <2>2 DEF WorkerWaits, Proceed, Resting, BarStep, Arrive, ResetCounter,
                       SpinEnds, Leave, rounds
    <3> QED
      BY <1>2, <3>1 DEF Gone, Ready, Resting, Busy, LatestRound, IsCalled
  <2> QED
    BY <2>1, <2>2
<1> QED
  BY <1>2, <1>3, <1>4, <1>5, <1>6, WorkerGoesOn

\* The steps of the caller that touch no range
LEMMA CallerWorks ==
  ASSUME LoopInv, WorkInv,
         ReturnAlone \/ SetupBarrier \/ SendWakeUp \/ MainArrives \/ MainWaits
  PROVE  WorkInv'
<1>1. /\ sched.nw \in 1..MaxWorkers /\ inbox \in [LoopWorkers -> Nat]
      /\ LoopWorkers \subseteq Nat /\ entered \in [BarThreads -> Nat]
      /\ LoopWorkers \subseteq BarThreads /\ Main \in BarThreads /\ Main \notin LoopWorkers
  BY LoopThreads, RoundsType DEF LoopInv, LoopTypes
<1>2. UNCHANGED <<loop, times, data, sched, wpc, my>>
  BY DEF ReturnAlone, SetupBarrier, SendWakeUp, MainArrives, MainWaits, mine
<1>3. /\ mpc' \in Started => mpc \in Started
      /\ mpc' \notin {"alone", "back"}
  BY DEF ReturnAlone, SetupBarrier, SendWakeUp, MainArrives, MainWaits, Started
<1>4. Owned' = Owned
  <2>1. CASE SetupBarrier
    <3>1. mpc = "setup" /\ mpc' = "wake" /\ team' = sched.nw + 1
      BY <2>1 DEF SetupBarrier, BarrierSetup, TeamSize, barrier
    <3> QED
      BY <1>1, <1>2, <3>1 DEF Owned
  <2>2. CASE ReturnAlone \/ SendWakeUp \/ MainArrives \/ MainWaits
    <3>1. mpc # "setup" /\ mpc' # "setup" /\ team' = team
      BY <2>2 DEF ReturnAlone, SendWakeUp, MainArrives, MainWaits, FlipFlag, BarStep, Arrive,
                  ResetCounter, SpinEnds, Leave, barVars, barrier
    <3> QED
      BY <3>1 DEF Owned
  <2> QED
    BY <2>1, <2>2
<1>5. ASSUME NEW w \in LoopWorkers, w < sched.nw, Ready(w)', IsCalled(w)' \/ mpc' = "wait"
      PROVE  Ready(w) /\ (IsCalled(w) \/ mpc = "wait")
  <2>1. ~ReturnAlone /\ ~SetupBarrier
    <3>1. SetupBarrier => mpc' = "wake" /\ woken' = 0
      BY DEF SetupBarrier
    <3>2. ~(w < 0)
      BY <1>1
    <3> QED
      BY <1>5, <3>1, <3>2 DEF ReturnAlone, IsCalled
  <2>2. CASE SendWakeUp
    <3>1. /\ mpc = "wake" /\ woken \in 0..(sched.nw - 1) /\ woken' = woken + 1
          /\ mpc' \in {"wake", "arrive"}
          /\ mpc' = "arrive" => woken + 1 = sched.nw
          /\ entered' = entered
      BY <2>2 DEF SendWakeUp, LoopInv, TableInv, barVars, rounds
    <3>2. w # woken /\ inbox[w] = 0
      <4>1. inbox' = [inbox EXCEPT ![woken] = @ + 1]
        BY <2>2 DEF SendWakeUp
      <4>2. inbox'[w] = 0
        BY <1>5 DEF Ready
      <4> QED
        BY <1>1, <4>1, <4>2
    <3>3. IsCalled(w)' /\ IsCalled(w)
      BY <1>1, <1>5, <3>1, <3>2 DEF IsCalled
    <3> QED
      BY <1>2, <1>5, <3>1, <3>2, <3>3 DEF Ready, LatestRound
  <2>3. CASE MainArrives
    <3>1. /\ mpc = "arrive" /\ mpc' = "wait" /\ inbox' = inbox
          /\ entered' = [entered EXCEPT ![Main] = @ + 1]
      BY <2>3 DEF MainArrives, FlipFlag
    <3>2. /\ entered'[w] = entered[w] /\ entered'[Main] = entered[Main] + 1
          /\ entered[Main] \in Nat
      BY <1>1, <3>1
    <3> QED
      BY <1>2, <1>5, <3>1, <3>2 DEF Ready, LatestRound, IsCalled
  <2>4. CASE MainWaits
    <3>1. /\ mpc = "wait" /\ mpc' \in {"user", "wait"} /\ inbox' = inbox /\ entered' = entered
      BY <2>4 DEF MainWaits, BarStep, Arrive, ResetCounter, SpinEnds, Leave, rounds
    <3> QED
      BY <1>2, <1>5, <3>1 DEF Ready, LatestRound, IsCalled
  <2> QED
    BY <2>1, <2>2, <2>3, <2>4
<1>6. \A w \in LoopWorkers : GoneInv(w)'
  BY <1>2, <1>5 DEF WorkInv, GoneInv, Gone, Exhausted
<1> QED
  BY <1>2, <1>3, <1>4, <1>6, WorkStays

\* A loop of one worker is run by the caller.
LEMMA RunAloneWork ==
  ASSUME NoGrain, LoopInv, WorkInv, RunAlone
  PROVE  /\ times' = [i \in Indices |-> IF i \in Iter THEN 1 ELSE 0]
         /\ WorkInv'
<1>1. loop \in Loops /\ loop.start \in Int /\ loop.stop \in Int /\ loop.chunk >= 0
      /\ loop.step \in Nat \ {0} /\ loop.chunk \in Int /\ Indices \subseteq Int
  BY LoopsAssumption DEF NoGrain, LoopInv, LoopTypes
<1>2. /\ mpc = "alone" /\ mpc' = "back" /\ Run(loop.start, loop.stop)
      /\ UNCHANGED <<loop, sched, data, wpc, my, inbox, team, entered>>
  BY DEF RunAlone, mine, barVars, barrier, rounds
<1>3. Body(loop.start, loop.stop) = Iter
  <2>1. Body(loop.start, loop.stop) = Strided(loop, loop.start, loop.stop)
    BY <1>1 DEF Body
  <2> QED
    BY <2>1, Zenon DEF Strided, Iter, Calls!Iterations
<1>4. \A i \in Indices : times[i] = 0
  BY <1>2 DEF WorkInv, TimesInv
<1>5. times' = [i \in Indices |-> IF i \in Iter THEN 1 ELSE 0]
  BY <1>2, <1>3, <1>4 DEF Run
<1>6. Iter' = Iter /\ Iter \subseteq Indices
  BY <1>2 DEF Iter, Calls!Iterations
<1>7. TimesInv'
  BY <1>2, <1>5, <1>6 DEF TimesInv
<1>8. PlaceInv' /\ RangeInv'
  BY <1>2 DEF PlaceInv, RangeInv, Started
<1>9. SpareInv'
  BY <1>2 DEF WorkInv, SpareInv, Owned, Exhausted
<1>10. \A w \in LoopWorkers : wpc[w] \in Resting
  BY <1>2, NobodyBusy DEF LoopInv
<1>11. \A w \in LoopWorkers : ClaimedInv(w)' /\ GoneInv(w)'
  BY <1>2, <1>10 DEF ClaimedInv, GoneInv, Gone, IsCalled, Resting, Busy
<1> QED
  BY <1>5, <1>7, <1>8, <1>9, <1>11 DEF WorkInv

\* A loop is called: its indexes are in the ranges of its workers, each in one of them.
LEMMA SetLoopWork ==
  ASSUME NoGrain, LoopInv, WorkInv, ~TeamMayChange, NEW l \in Loops, SetLoop(l)
  PROVE  WorkInv'
<1> DEFINE tab == Filled(l)
           nw == Least(tab.total, l.nw)
<1>1. /\ mpc = "user" /\ loop' = l /\ data' = tab.table
      /\ sched' = [chunk |-> tab.chunk, nw |-> nw, static |-> l.chunk <= 0,
                   maxid |-> IF l.chunk < 0 THEN sched.maxid ELSE -1]
      /\ mpc' = IF nw = 1 THEN "alone" ELSE "setup"
      /\ nw = 1 \/ team \in {0, nw + 1}
      /\ times' = [i \in Indices |-> 0]
      /\ UNCHANGED <<woken, inbox, wpc, my, team>>
  BY DEF SetLoop, mine, barVars, barrier
<1>2. TableOK(l, tab) /\ TableTiles(l, tab) /\ l.chunk >= 0
  BY Tables, TablesTile DEF LoopInv, NoGrain
<1> HIDE DEF tab
<1>3. sched'.nw = nw
  BY <1>1
<1>4. /\ nw \in 1..MaxWorkers /\ MaxWorkers \in Nat /\ DOMAIN tab.table \subseteq Nat
      /\ \A id \in DOMAIN tab.table : id >= nw => tab.table[id] = Kept(id)
  BY <1>2, LoopThreads DEF TableOK
<1>5. /\ \A id \in 0..(nw - 1) : InLoop(l, tab.table[id].start, tab.table[id].end)
      /\ \A i \in Calls!Iterations(l) :
           \E id \in 0..(nw - 1) : \A j \in 0..(nw - 1) :
             tab.table[j].start <= i /\ i < tab.table[j].end <=> j = id
  BY <1>2 DEF TableTiles
<1> HIDE DEF nw
<1>6. \A w \in LoopWorkers : wpc[w] \in Resting
  BY <1>1, NobodyBusy DEF LoopInv
<1>7. \A i : \A w \in LoopWorkers : ~InClaim(i, w)'
  BY <1>1, <1>6 DEF InClaim, Resting
<1>8. PlaceInv'
  <2>1. Iter' = Calls!Iterations(l)
    BY <1>1 DEF Iter, Calls!Iterations
  <2>2. ASSUME NEW i \in Calls!Iterations(l)
        PROVE  ToClaim(i)'
    <3>1. times'[i] = 0
      BY <1>1 DEF Calls!Iterations
    <3>2. \A j : InRange(i, j)' <=> tab.table[j].start <= i /\ i < tab.table[j].end
      BY <1>1 DEF InRange
    <3>3. \E id \in 0..(nw - 1) : \A j \in 0..(nw - 1) : InRange(i, j)' <=> j = id
      BY <1>5, <3>2
    <3> QED
      BY <1>3, <1>7, <3>1, <3>3 DEF ToClaim
  <2> QED
    BY <2>1, <2>2 DEF PlaceInv
<1>9. TimesInv'
  BY <1>1 DEF TimesInv
<1>10. RangeInv'
  BY <1>1, <1>3, <1>5 DEF RangeInv, InLoop, Nth
<1>11. SpareInv'
  <2>1. team \in Nat /\ team # 1
    <3>1. NoTeam => team = 0
      BY DEF NoTeam, BarStart
    <3>2. \A k \in 3..(MaxWorkers + 1) : TeamOf(k) => team \in Nat /\ team # 1
      BY DEF TeamOf
    <3> QED
      BY <3>1, <3>2 DEF LoopInv, TeamInv
  <2>2. Owned \in Nat /\ Owned' \in Nat /\ Owned' >= Owned /\ Owned' >= nw
    BY <1>1, <1>3, <1>4, <2>1 DEF Owned
  <2>3. ASSUME NEW id \in DOMAIN data', id >= Owned'
        PROVE  Exhausted(id)'
    <3>1. id \in Nat /\ id >= Owned /\ id >= nw
      BY <1>1, <1>4, <2>2, <2>3
    <3>2. data'[id] = Kept(id)
      BY <1>1, <1>4, <2>3, <3>1
    <3>3. id \in DOMAIN data => Exhausted(id)
      BY <3>1 DEF WorkInv, SpareInv
    <3> QED
      BY <3>2, <3>3 DEF Exhausted, Kept, DataPair
  <2> QED
    BY <2>3 DEF SpareInv
<1>12. \A w \in LoopWorkers : ClaimedInv(w)' /\ GoneInv(w)'
  BY <1>1, <1>6 DEF ClaimedInv, GoneInv, Gone, IsCalled, Resting, Busy
<1> QED
  BY <1>8, <1>9, <1>10, <1>11, <1>12 DEF WorkInv

\* A chunk of a range and what is left of it have the indexes of the range.
LEMMA SplitRange ==
  ASSUME NEW l \in Loops, NEW a \in Int, NEW e \in Int, a < e, InLoop(l, a, e),
         NEW c \in Nat \ {0}
  PROVE  LET b == Least(a + ((c - 1) * l.step + 1), e)
             n == b - 1 + l.step
         IN  /\ b \in Int /\ n \in Int /\ a < b /\ b <= n
             /\ InLoop(l, a, b) /\ InLoop(l, n, e)
             /\ \A i \in Calls!Iterations(l) :
                  a <= i /\ i < e <=> (a <= i /\ i < b) \/ (n <= i /\ i < e)
<1> DEFINE s == l.step
           x == (c - 1) * s
           b == Least(a + (x + 1), e)
           n == b - 1 + s
<1>1. l.start \in Int /\ l.stop \in Int /\ s \in Nat \ {0} /\ Indices \subseteq Int
  BY LoopsAssumption
<1>2. PICK k \in Nat : a = Nth(l, k)
  BY DEF InLoop
<1>3. e <= l.stop
  BY DEF InLoop
<1>4. x \in Int /\ k * s \in Int /\ c * s \in Int /\ x = c * s - s /\ (k + c) * s = k * s + c * s
  BY <1>1, Z3
<1>5. x >= 0
  <2>1. 0 <= c - 1 => 0 * s <= (c - 1) * s
    <3>1. c - 1 \in Int
      OBVIOUS
    <3> QED
      BY <1>1, <3>1, Multiples
  <2>2. 0 * s = 0
    BY <1>1, Z3
  <2> QED
    BY <2>1, <2>2
<1> HIDE DEF x
<1>6. /\ b \in Int /\ n \in Int /\ a < b /\ b <= e /\ b <= n
      /\ b = a + (x + 1) \/ b = e
  BY <1>1, <1>4, <1>5 DEF Least
<1> HIDE DEF b
<1>7. InLoop(l, a, b)
  <2>1. b <= l.stop
    BY <1>1, <1>3, <1>6
  <2> QED
    BY <1>2, <2>1 DEF InLoop
<1>8. n < e => b = a + (x + 1) /\ n = Nth(l, k + c)
  <2>1. n < e => b = a + (x + 1)
    BY <1>1, <1>6
  <2>2. b = a + (x + 1) => n = Nth(l, k + c)
    BY <1>1, <1>2, <1>4 DEF Nth
  <2> QED
    BY <2>1, <2>2
<1>9. InLoop(l, n, e)
  <2>1. k + c \in Nat
    OBVIOUS
  <2> QED
    BY <1>3, <1>8, <2>1 DEF InLoop
<1>10. ASSUME NEW i \in Calls!Iterations(l), b <= i, i < n, i < e
       PROVE  FALSE
  <2>1. i \in Int
    BY <1>1 DEF Calls!Iterations
  <2>2. PICK q \in Nat : i = Nth(l, q)
    <3>1. Calls!Iterations(l) =
            {j \in Indices : \E q \in Nat : j = Nth(l, q) /\ j < l.stop}
      BY NthIndex
    <3> QED
      BY <3>1
  <2>3. b = a + (x + 1)
    BY <1>6, <1>10, <2>1
  <2>4. q * s \in Int /\ (k + c - 1) * s = k * s + x
    <3>1. q * s \in Int
      BY <1>1, Z3
    <3>2. (k + c - 1) * s = (k + c) * s - s
      BY <1>1, Z3
    <3> QED
      BY <1>1, <1>4, <3>1, <3>2
  <2>5. (k + c - 1) * s < q * s /\ q * s < (k + c) * s
    BY <1>1, <1>2, <1>4, <1>6, <1>10, <2>1, <2>2, <2>3, <2>4 DEF Nth
  <2>6. k + c - 1 \in Int /\ k + c \in Int /\ q \in Int
    OBVIOUS
  <2>7. k + c - 1 < q /\ q < k + c
    BY <1>1, <2>5, <2>6, Multiples
  <2> QED
    BY <2>6, <2>7
<1>11. ASSUME NEW i \in Calls!Iterations(l)
       PROVE  a <= i /\ i < e <=> (a <= i /\ i < b) \/ (n <= i /\ i < e)
  <2>1. i \in Int
    BY <1>1 DEF Calls!Iterations
  <2>2. ~(b <= i /\ i < n /\ i < e)
    BY <1>10
  <2> QED
    BY <1>6, <2>1, <2>2
<1> QED
  BY <1>6, <1>7, <1>9, <1>11 DEF b, x

\* What a successful claim does to the range it is for
LEMMA ClaimMoves ==
  ASSUME NoGrain, LoopInv, WorkInv, NEW w \in LoopWorkers, Claim(w), StartIsUnchanged(w),
         NEW id \in {my[w].id}
  PROVE  /\ mpc \in Started /\ mpc # "setup" /\ id \in DOMAIN data
         /\ data' = [data EXCEPT ![id].start = my[w].end - 1 + loop.step]
         /\ InLoop(loop, my[w].old, my[w].end)
         /\ my[w].old >= my[w].end => Exhausted(id)
         /\ Exhausted(id) => Exhausted(id)'
         /\ id < sched.nw => InLoop(loop, data'[id].start, data'[id].end)
         /\ \A i \in Iter : /\ InRange(i, id) <=> InClaim(i, w)' \/ InRange(i, id)'
                            /\ ~(InClaim(i, w)' /\ InRange(i, id)')
<1> DEFINE a == my[w].old
           b == my[w].end
           e == data[id].end
           n == b - 1 + loop.step
<1>1. /\ wpc[w] = "claim" /\ wpc' = [wpc EXCEPT ![w] = "count"] /\ my' = my
      /\ data' = [data EXCEPT ![id].start = n] /\ data[id].start = a /\ id = my[w].id
      /\ UNCHANGED <<loop, sched, mpc, team>>
  BY DEF Claim, StartIsUnchanged, Proceed, caller, barVars, barrier
<1>2. /\ mpc \in {"wake", "arrive", "wait"} /\ mpc \in Started
      /\ \E k \in 3..(MaxWorkers + 1) : TeamOf(k)
  BY <1>1, BusyIsPending DEF Busy, Started
<1>3. loop \in Loops /\ loop.chunk >= 0 /\ loop.step \in Nat \ {0} /\ Indices \subseteq Int
  BY LoopsAssumption DEF NoGrain, LoopInv, LoopTypes
<1>4. /\ id \in DOMAIN data /\ data \in [DOMAIN data -> Lines] /\ DOMAIN data \subseteq Nat
      /\ my[w] \in Locals /\ wpc \in [LoopWorkers -> Busy \cup Resting]
      /\ b = Least(a + ((sched.chunk - 1) * loop.step + 1), e)
  BY <1>1 DEF LoopInv, LoopTypes, LocalInv, Busy
<1>5. sched.chunk \in Nat \ {0} /\ sched.nw \in Nat
  BY <1>2, <1>3, LoopThreads DEF LoopInv, LoopTypes, TableInv
<1>6. a \in Int /\ b \in Int /\ e \in Int
  BY <1>4 DEF Locals, Lines
<1>7. data'[id].start = n /\ data'[id].end = e
  BY <1>1, <1>4 DEF Lines
<1>8. Owned = sched.nw
  BY <1>2, <1>5 DEF Owned, TeamOf
<1>9. id >= sched.nw => Exhausted(id)
  BY <1>4, <1>8 DEF WorkInv, SpareInv
<1>10. \A i : /\ InRange(i, id) <=> a <= i /\ i < e
              /\ InRange(i, id)' <=> n <= i /\ i < e
              /\ InClaim(i, w)' <=> a <= i /\ i < b
  BY <1>1, <1>4, <1>7 DEF InRange, InClaim
<1>11. CASE Exhausted(id)
  <2>1. a >= e
    BY <1>1, <1>11 DEF Exhausted
  <2>2. (sched.chunk - 1) * loop.step \in Int /\ (sched.chunk - 1) * loop.step >= 0
    <3>1. sched.chunk - 1 \in Int /\ sched.chunk - 1 >= 0
      BY <1>5
    <3>2. 0 * loop.step = 0
      BY <1>3, Z3
    <3> QED
      BY <1>3, <3>1, <3>2, Multiples
  <2>3. b = e
    BY <1>4, <1>6, <2>1, <2>2 DEF Least
  <2>4. n >= e /\ n \in Int
    BY <1>3, <1>6, <2>3
  <2>5. Exhausted(id)'
    BY <1>1, <1>7, <2>4 DEF Exhausted
  <2>6. InLoop(loop, a, b) /\ InLoop(loop, n, e)
    BY <1>6, <2>1, <2>3, <2>4 DEF InLoop
  <2>7. \A i \in Iter : ~InRange(i, id) /\ ~InRange(i, id)' /\ ~InClaim(i, w)'
    <3>1. \A i \in Iter : i \in Int
      BY <1>3 DEF Iter, Calls!Iterations
    <3> QED
      BY <1>6, <1>10, <2>1, <2>3, <2>4, <3>1
  <2> QED
    BY <1>1, <1>2, <1>4, <1>7, <1>11, <2>5, <2>6, <2>7
<1>12. CASE ~Exhausted(id)
  <2>1. a < e /\ id \in 0..(sched.nw - 1)
    BY <1>1, <1>4, <1>5, <1>6, <1>9, <1>12 DEF Exhausted
  <2>2. InLoop(loop, a, e)
    BY <1>1, <1>2, <2>1 DEF WorkInv, RangeInv
  <2>3. /\ n \in Int /\ a < b /\ b <= n
        /\ InLoop(loop, a, b) /\ InLoop(loop, n, e)
        /\ \A i \in Calls!Iterations(loop) :
             a <= i /\ i < e <=> (a <= i /\ i < b) \/ (n <= i /\ i < e)
    BY <1>3, <1>4, <1>5, <1>6, <2>1, <2>2, SplitRange
  <2>4. \A i \in Iter : /\ InRange(i, id) <=> InClaim(i, w)' \/ InRange(i, id)'
                        /\ ~(InClaim(i, w)' /\ InRange(i, id)')
    <3>1. \A i \in Iter : i \in Int
      BY <1>3 DEF Iter, Calls!Iterations
    <3>2. \A i \in Int : ~((a <= i /\ i < b) /\ (n <= i /\ i < e))
      BY <1>6, <2>3
    <3> QED
      BY <1>10, <2>3, <3>1, <3>2 DEF Iter
  <2>5. ~(a >= b)
    BY <1>6, <2>3
  <2> QED
    BY <1>1, <1>2, <1>4, <1>7, <1>12, <2>3, <2>4, <2>5
<1> QED
  BY <1>11, <1>12

\* A claim takes its indexes out of a range, and nobody else has them.
LEMMA ClaimWork ==
  ASSUME NoGrain, LoopInv, WorkInv, NEW w \in LoopWorkers, Claim(w), StartIsUnchanged(w)
  PROVE  WorkInv'
<1>0. PICK id \in {my[w].id} : TRUE
  OBVIOUS
<1>1. /\ wpc[w] = "claim" /\ wpc' = [wpc EXCEPT ![w] = "count"] /\ my' = my /\ id = my[w].id
      /\ UNCHANGED <<loop, times, sched, mpc, woken, inbox, team, entered>>
  BY <1>0 DEF Claim, StartIsUnchanged, Proceed, caller, barVars, barrier, rounds
<1>2. /\ mpc \in Started /\ mpc # "setup" /\ id \in DOMAIN data
      /\ data' = [data EXCEPT ![id].start = my[w].end - 1 + loop.step]
      /\ InLoop(loop, my[w].old, my[w].end)
      /\ my[w].old >= my[w].end => Exhausted(id)
      /\ Exhausted(id) => Exhausted(id)'
      /\ id < sched.nw => InLoop(loop, data'[id].start, data'[id].end)
      /\ \A i \in Iter : /\ InRange(i, id) <=> InClaim(i, w)' \/ InRange(i, id)'
                         /\ ~(InClaim(i, w)' /\ InRange(i, id)')
  BY <1>0, ClaimMoves
<1>3. wpc \in [LoopWorkers -> Busy \cup Resting] /\ DOMAIN data \subseteq Nat
      /\ sched.nw \in Nat
  BY LoopThreads DEF LoopInv, LoopTypes
<1>4. DOMAIN data' = DOMAIN data /\ \A j \in DOMAIN data : j # id => data'[j] = data[j]
  BY <1>2
<1>5. \A j \in DOMAIN data : Exhausted(j) => Exhausted(j)'
  BY <1>2, <1>4 DEF Exhausted
<1>6. \A i : ~InClaim(i, w)
  BY <1>1 DEF InClaim
<1>7. \A i : \A u \in LoopWorkers : u # w => (InClaim(i, u)' <=> InClaim(i, u))
  BY <1>1, <1>3 DEF InClaim
<1>8. 0..(sched.nw - 1) \subseteq DOMAIN data
  BY DEF LoopInv, TableInv
<1>9. \A i : \A j \in 0..(sched.nw - 1) : j # id => (InRange(i, j)' <=> InRange(i, j))
  BY <1>4, <1>8 DEF InRange
<1>10. Iter' = Iter
  BY <1>1 DEF Iter, Calls!Iterations
<1>11. id \notin 0..(sched.nw - 1) => \A i \in Iter : ~InRange(i, id)
  <2>1. Owned = sched.nw
    <3>1. \E k \in 3..(MaxWorkers + 1) : TeamOf(k)
      BY <1>1, BusyIsPending DEF Busy
    <3> QED
      BY <1>2, <1>3, <3>1 DEF Owned, TeamOf
  <2>2. id \notin 0..(sched.nw - 1) => id >= Owned
    BY <1>2, <1>3, <2>1
  <2>3. id >= Owned => Exhausted(id)
    BY <1>2 DEF WorkInv, SpareInv
  <2>4. \A i \in Iter : i \in Int
    BY LoopsAssumption DEF Iter, Calls!Iterations
  <2>5. data[id].start \in Int /\ data[id].end \in Int
    BY <1>2 DEF LoopInv, LoopTypes, Lines
  <2> QED
    BY <2>2, <2>3, <2>4, <2>5 DEF Exhausted, InRange
<1>12. PlaceInv'
  <2>1. ASSUME NEW i \in Iter
        PROVE  ToClaim(i)' \/ ToRun(i)' \/ HasRun(i)'
    <3>1. ToClaim(i) \/ ToRun(i) \/ HasRun(i)
      BY <1>2 DEF WorkInv, PlaceInv
    <3>2. /\ InRange(i, id) <=> InClaim(i, w)' \/ InRange(i, id)'
          /\ ~(InClaim(i, w)' /\ InRange(i, id)')
      BY <1>2
    <3>3. ~InRange(i, id) => ~InClaim(i, w)' /\ ~InRange(i, id)'
      BY <3>2
    <3>4. CASE ToClaim(i)
      <4>1. /\ times'[i] = 0
            /\ \A u \in LoopWorkers : ~InClaim(i, u)
        BY <1>1, <3>4 DEF ToClaim
      <4>2. PICK k \in 0..(sched.nw - 1) : \A j \in 0..(sched.nw - 1) : InRange(i, j) <=> j = k
        BY <3>4 DEF ToClaim
      <4>3. CASE InClaim(i, w)'
        <5>1. id \in 0..(sched.nw - 1) /\ k = id
          BY <1>11, <3>2, <4>2, <4>3
        <5>2. \A j \in 0..(sched.nw - 1) : ~InRange(i, j)'
          BY <1>9, <3>2, <4>2, <4>3, <5>1
        <5>3. \A u \in LoopWorkers : InClaim(i, u)' <=> u = w
          BY <1>7, <4>1, <4>3
        <5> QED
          BY <1>1, <4>1, <5>2, <5>3 DEF ToRun
      <4>4. CASE ~InClaim(i, w)'
        <5>1. \A u \in LoopWorkers : ~InClaim(i, u)'
          BY <1>7, <4>1, <4>4
        <5>2. InRange(i, id)' <=> InRange(i, id)
          BY <3>2, <4>4
        <5>3. \A j \in 0..(sched.nw - 1) : InRange(i, j)' <=> j = k
          BY <1>9, <4>2, <5>2
        <5> QED
          BY <1>1, <4>1, <5>1, <5>3 DEF ToClaim
      <4> QED
        BY <4>3, <4>4
    <3>5. CASE ToRun(i) \/ HasRun(i)
      <4>1. \A j \in 0..(sched.nw - 1) : ~InRange(i, j)
        BY <3>5 DEF ToRun, HasRun
      <4>2. ~InClaim(i, w)' /\ ~InRange(i, id)'
        BY <1>11, <3>3, <4>1
      <4>3. \A j \in 0..(sched.nw - 1) : ~InRange(i, j)'
        BY <1>9, <4>1, <4>2
      <4>4. \A u \in LoopWorkers : InClaim(i, u)' <=> InClaim(i, u)
        BY <1>6, <1>7, <4>2
      <4> QED
        BY <1>1, <3>5, <4>3, <4>4 DEF ToRun, HasRun
    <3> QED
      BY <3>1, <3>4, <3>5
  <2> QED
    BY <1>10, <2>1 DEF PlaceInv
<1>13. TimesInv'
  BY <1>1, <1>10 DEF WorkInv, TimesInv
<1>14. RangeInv'
  <2>1. ASSUME NEW j \in 0..(sched.nw - 1)
        PROVE  InLoop(loop, data'[j].start, data'[j].end)
    <3>1. CASE j = id
      <4>1. id < sched.nw
        BY <1>3, <3>1
      <4> QED
        BY <1>2, <3>1, <4>1
    <3>2. CASE j # id
      BY <1>2, <1>4, <1>8, <3>2 DEF WorkInv, RangeInv
    <3> QED
      BY <3>1, <3>2
  <2> QED
    BY <1>1, <2>1 DEF RangeInv, InLoop, Nth
<1>15. SpareInv'
  BY <1>1, <1>4, <1>5 DEF WorkInv, SpareInv, Owned
<1>16. ASSUME NEW u \in LoopWorkers
       PROVE  ClaimedInv(u)' /\ GoneInv(u)'
  <2>1. wpc'[u] = "count" => my[u].id \in DOMAIN data
    BY <1>1, <1>2, <1>3 DEF LoopInv, LocalInv, Busy
  <2>2. ClaimedInv(u)'
    <3>1. CASE u = w
      BY <1>1, <1>2, <3>1 DEF ClaimedInv, InLoop, Nth, Exhausted
    <3>2. CASE u # w
      <4>1. wpc'[u] = wpc[u]
        BY <1>1, <3>2
      <4>2. \A j \in DOMAIN data : Exhausted(j) => data'[j].start >= data'[j].end
        BY <1>5 DEF Exhausted
      <4>3. wpc[u] = "count" =>
              /\ InLoop(loop, my[u].old, my[u].end)
              /\ my[u].old >= my[u].end => data'[my[u].id].start >= data'[my[u].id].end
        BY <2>1, <4>1, <4>2 DEF WorkInv, ClaimedInv
      <4> QED
        BY <1>1, <4>1, <4>3 DEF ClaimedInv, InLoop, Nth, Exhausted
    <3> QED
      BY <3>1, <3>2
  <2>3. Gone(u)' => Gone(u)
    <3>1. wpc'[u] = wpc[u] \/ (wpc[u] = "claim" /\ wpc'[u] = "count")
      BY <1>1, <1>3
    <3> QED
      BY <1>1, <3>1 DEF Gone, Ready, LatestRound, IsCalled, Busy, Resting
  <2>4. u < sched.nw => u \in DOMAIN data
    BY <1>3, <1>8, LoopThreads
  <2> QED
    BY <1>1, <1>5, <2>2, <2>3, <2>4 DEF WorkInv, GoneInv
<1> QED
  BY <1>12, <1>13, <1>14, <1>15, <1>16 DEF WorkInv

\* The body runs for the indexes claimed, which it had not run for.
LEMMA RunsTheClaim ==
  ASSUME NoGrain, LoopInv, WorkInv, NEW w \in LoopWorkers, CountAndRun(w)
  PROVE  /\ mpc \in Started
         /\ \A i \in Iter : InClaim(i, w) => ToRun(i) /\ \A u \in LoopWorkers : InClaim(i, u) => u = w
         /\ times' = [i \in Indices |-> IF i \in Iter /\ InClaim(i, w) THEN 1 ELSE times[i]]
<1> DEFINE a == my[w].old
           b == my[w].end
           claimed == {i \in Iter : InClaim(i, w)}
<1>1. /\ wpc[w] = "count"
      /\ IF a < b THEN Run(a, b) ELSE UNCHANGED times
  BY DEF CountAndRun
<1>2. mpc \in Started
  BY <1>1, BusyIsPending DEF Busy, Started
<1>3. loop \in Loops /\ loop.chunk >= 0 /\ loop.chunk \in Int /\ Indices \subseteq Int
  BY LoopsAssumption DEF NoGrain, LoopInv, LoopTypes
<1>4. a \in Int /\ b \in Int /\ InLoop(loop, a, b)
  BY <1>1 DEF LoopInv, LoopTypes, Locals, WorkInv, ClaimedInv
<1>5. \A i : InClaim(i, w) <=> a <= i /\ i < b
  BY <1>1 DEF InClaim
<1>6. Body(a, b) = claimed
  <2>1. Body(a, b) = Strided(loop, a, b)
    BY <1>3 DEF Body
  <2>2. Strided(loop, a, b) = {i \in Iter : a <= i /\ i < b}
    BY <1>3, <1>4, BodyOfRange DEF Iter
  <2> QED
    BY <1>5, <2>1, <2>2, Zenon
<1>7. ASSUME NEW i \in Iter, InClaim(i, w)
      PROVE  ToRun(i) /\ \A u \in LoopWorkers : InClaim(i, u) => u = w
  <2>1. ToClaim(i) \/ ToRun(i) \/ HasRun(i)
    BY <1>2 DEF WorkInv, PlaceInv
  <2>2. ToRun(i)
    BY <1>7, <2>1 DEF ToClaim, HasRun
  <2> QED
    BY <1>7, <2>2 DEF ToRun
<1>8. Iter \subseteq Indices /\ times \in [Indices -> {0, 1}]
  BY DEF Iter, Calls!Iterations, WorkInv, TimesInv
<1>9. \A i \in claimed : times[i] = 0
  BY <1>7 DEF ToRun
<1>10. CASE a < b
  <2>1. times' = [i \in Indices |-> times[i] + (IF i \in claimed THEN 1 ELSE 0)]
    BY <1>1, <1>6, <1>10 DEF Run
  <2>2. \A i \in Indices : times[i] + (IF i \in claimed THEN 1 ELSE 0)
                             = IF i \in claimed THEN 1 ELSE times[i]
    BY <1>8, <1>9
  <2>3. times' = [i \in Indices |-> IF i \in claimed THEN 1 ELSE times[i]]
    BY <2>1, <2>2
  <2> QED
    BY <1>2, <1>7, <2>3
<1>11. CASE ~(a < b)
  <2>1. \A i \in Iter : ~InClaim(i, w)
    <3>1. \A i \in Iter : i \in Int
      BY <1>3, <1>8
    <3> QED
      BY <1>4, <1>5, <1>11, <3>1
  <2>2. times' = times
    BY <1>1, <1>11
  <2>3. times = [i \in Indices |-> IF i \in Iter /\ InClaim(i, w) THEN 1 ELSE times[i]]
    BY <1>8, <2>1
  <2> QED
    BY <1>2, <1>7, <2>2, <2>3
<1> QED
  BY <1>10, <1>11

LEMMA CountAndRunWork ==
  ASSUME NoGrain, LoopInv, WorkInv, NEW w \in LoopWorkers, CountAndRun(w)
  PROVE  WorkInv'
<1> DEFINE some == my[w].old < my[w].end
<1>1. /\ wpc[w] = "count" /\ wpc' = [wpc EXCEPT ![w] = IF some THEN "look" ELSE "none"]
      /\ data' = [data EXCEPT ![my[w].id].ntask = @ - 1]
      /\ my' = [my EXCEPT ![w].id = IF some THEN w ELSE my[w].id]
      /\ UNCHANGED <<loop, sched, mpc, woken, inbox, team, entered>>
  BY DEF CountAndRun, Proceed, caller, barVars, barrier, rounds
<1>2. /\ mpc \in Started
      /\ \A i \in Iter : InClaim(i, w) => ToRun(i) /\ \A u \in LoopWorkers : InClaim(i, u) => u = w
      /\ times' = [i \in Indices |-> IF i \in Iter /\ InClaim(i, w) THEN 1 ELSE times[i]]
  BY RunsTheClaim
<1>3. /\ my \in [LoopWorkers -> Locals] /\ wpc \in [LoopWorkers -> Busy \cup Resting]
      /\ data \in [DOMAIN data -> Lines] /\ sched.nw \in Nat
      /\ Iter \subseteq Indices /\ times \in [Indices -> {0, 1}]
  BY LoopThreads DEF LoopInv, LoopTypes, WorkInv, TimesInv, Iter, Calls!Iterations
<1>4. /\ DOMAIN data' = DOMAIN data
      /\ \A j \in DOMAIN data : data'[j].start = data[j].start /\ data'[j].end = data[j].end
  BY <1>1, <1>3 DEF Lines
<1>5. /\ \A j \in DOMAIN data : Exhausted(j)' <=> Exhausted(j)
      /\ \A i : \A j \in DOMAIN data : InRange(i, j)' <=> InRange(i, j)
  BY <1>4 DEF Exhausted, InRange
<1>6. /\ \A i : ~InClaim(i, w)'
      /\ \A i : \A u \in LoopWorkers : u # w => (InClaim(i, u)' <=> InClaim(i, u))
  BY <1>1, <1>3 DEF InClaim
<1>7. 0..(sched.nw - 1) \subseteq DOMAIN data
  BY DEF LoopInv, TableInv
<1>8. Iter' = Iter
  BY <1>1 DEF Iter, Calls!Iterations
<1>9. PlaceInv'
  <2>1. ASSUME NEW i \in Iter
        PROVE  ToClaim(i)' \/ ToRun(i)' \/ HasRun(i)'
    <3>1. ToClaim(i) \/ ToRun(i) \/ HasRun(i)
      BY <1>2 DEF WorkInv, PlaceInv
    <3>2. \A j \in 0..(sched.nw - 1) : InRange(i, j)' <=> InRange(i, j)
      BY <1>5, <1>7
    <3>3. CASE InClaim(i, w)
      <4>1. times'[i] = 1
        BY <1>2, <1>3, <3>3
      <4>2. \A j \in 0..(sched.nw - 1) : ~InRange(i, j)'
        BY <1>2, <3>2, <3>3 DEF ToRun
      <4>3. \A u \in LoopWorkers : ~InClaim(i, u)'
        BY <1>2, <1>6, <3>3
      <4> QED
        BY <1>1, <4>1, <4>2, <4>3 DEF HasRun
    <3>4. CASE ~InClaim(i, w)
      <4>1. times'[i] = times[i]
        BY <1>2, <1>3, <3>4
      <4>2. \A u \in LoopWorkers : InClaim(i, u)' <=> InClaim(i, u)
        BY <1>6, <3>4
      <4> QED
        BY <1>1, <3>1, <3>2, <4>1, <4>2 DEF ToClaim, ToRun, HasRun
    <3> QED
      BY <3>3, <3>4
  <2> QED
    BY <1>8, <2>1 DEF PlaceInv
<1>10. TimesInv'
  <2>1. times' \in [Indices -> {0, 1}] /\ \A i \in Indices : times'[i] = 1 => i \in Iter
    BY <1>2, <1>3 DEF WorkInv, TimesInv
  <2>2. mpc' \notin {"alone", "back"}
    BY <1>1, <1>2 DEF Started
  <2> QED
    BY <1>8, <2>1, <2>2 DEF TimesInv
<1>11. RangeInv'
  BY <1>1, <1>2, <1>4, <1>7 DEF WorkInv, RangeInv, InLoop, Nth
<1>12. SpareInv'
  BY <1>1, <1>4, <1>5 DEF WorkInv, SpareInv, Owned
<1>13. ASSUME NEW u \in LoopWorkers
       PROVE  ClaimedInv(u)'
  <2>1. CASE u = w
    BY <1>1, <1>3, <2>1 DEF ClaimedInv
  <2>2. CASE u # w
    <3>1. wpc'[u] = wpc[u] /\ my'[u] = my[u]
      BY <1>1, <1>3, <2>2
    <3>2. wpc[u] = "count" => my[u].id \in DOMAIN data
      BY DEF LoopInv, LocalInv, Busy
    <3>3. wpc[u] = "count" =>
            /\ InLoop(loop, my[u].old, my[u].end)
            /\ my[u].old >= my[u].end => data'[my[u].id].start >= data'[my[u].id].end
      BY <1>4, <3>2 DEF WorkInv, ClaimedInv, Exhausted
    <3> QED
      BY <1>1, <3>1, <3>3 DEF ClaimedInv, InLoop, Nth, Exhausted
  <2> QED
    BY <2>1, <2>2
<1>14. ASSUME NEW u \in LoopWorkers, u < sched.nw, Gone(u)'
       PROVE  Exhausted(u)'
  <2>1. u \in DOMAIN data
    BY <1>3, <1>7, <1>14, LoopThreads
  <2>2. CASE u = w
    <3>1. wpc'[w] = (IF some THEN "look" ELSE "none") /\ my'[w].id = IF some THEN w ELSE my[w].id
      BY <1>1, <1>3 DEF Locals
    <3>2. ~some
      BY <1>14, <2>2, <3>1 DEF Gone, Ready, Resting
    <3>3. my[w].id # w => Exhausted(w)
      BY <1>1, <1>14, <2>2 DEF WorkInv, GoneInv, Gone, Busy
    <3>4. my[w].id = w => Exhausted(w)
      <4>1. my[w].old \in Int /\ my[w].end \in Int
        BY <1>3 DEF Locals
      <4> QED
        BY <1>1, <3>2, <4>1 DEF WorkInv, ClaimedInv
    <3> QED
      BY <1>5, <2>1, <2>2, <3>3, <3>4
  <2>3. CASE u # w
    <3>1. wpc'[u] = wpc[u] /\ my'[u] = my[u]
      BY <1>1, <1>3, <2>3
    <3>2. Gone(u)
      BY <1>1, <1>14, <3>1 DEF Gone, Ready, LatestRound, IsCalled
    <3> QED
      BY <1>5, <1>14, <2>1, <3>2 DEF WorkInv, GoneInv
  <2> QED
    BY <2>2, <2>3
<1>15. \A u \in LoopWorkers : GoneInv(u)'
  BY <1>1, <1>14 DEF GoneInv
<1> QED
  BY <1>9, <1>10, <1>11, <1>12, <1>13, <1>15 DEF WorkInv

LEMMA WorkNextInv ==
  ASSUME NoGrain, ~TeamMayChange, LoopInv, WorkInv, [LoopNext]_loopVars
  PROVE  WorkInv'
<1>1. CASE UNCHANGED loopVars
  <2>1. UNCHANGED <<loop, times, sched, data, mpc, woken, inbox, wpc, my, team, entered>>
    BY <1>1 DEF loopVars, barVars, barrier, rounds
  <2>2. \A w \in LoopWorkers : GoneInv(w)'
    BY <2>1 DEF WorkInv, GoneInv, Gone, Ready, LatestRound, IsCalled, Exhausted
  <2>3. Owned' = Owned
    BY <2>1 DEF Owned
  <2> QED
    BY <2>1, <2>2, <2>3, WorkStays
<1>2. CASE MainStep
  BY <1>2, SetLoopWork, RunAloneWork, CallerWorks DEF MainStep
<1>3. ASSUME NEW w \in LoopWorkers, WorkerStep(w)
      PROVE  WorkInv'
  BY <1>3, LooksWork, ClaimWork, CountAndRunWork, WorkerAtBarrierWork DEF WorkerStep
<1> QED
  BY <1>1, <1>2, <1>3 DEF LoopNext

NobodyWorks == mpc = "user" => \A w \in LoopWorkers : wpc[w] \in Resting /\ inbox[w] = 0

LEMMA IdleBetweenLoops == LoopInv => NobodyWorks
BY NobodyBusy DEF LoopInv, NobodyWorks

\* When the caller leaves the barrier, every worker has gone away from an exhausted
\* range: nothing is left of the loop.
LEMMA AllHasRun ==
  ASSUME LoopInv, WorkInv, MainWaits, mpc' = "user"
  PROVE  \A i \in Iter : times[i] = 1
<1>1. mpc = "wait" /\ UNCHANGED <<wpc, inbox>>
  BY DEF MainWaits, mine
<1>2. \A w \in LoopWorkers : wpc[w] \in Resting /\ inbox[w] = 0
  <2>1. LoopInv'
    BY MainWaitsInv
  <2>2. NobodyWorks'
    BY <2>1, IdleBetweenLoops, PTL
  <2> QED
    BY <1>1, <2>2 DEF NobodyWorks
<1>3. PICK k \in 3..(MaxWorkers + 1) : TeamOf(k)
  BY <1>1 DEF LoopInv, TeamInv, NoTeam
<1>4. sched.nw \in Nat /\ sched.nw + 1 = k
  BY <1>1, <1>3, LoopThreads DEF TeamOf, Started, LoopInv, LoopTypes
<1>5. ASSUME NEW w \in 0..(sched.nw - 1)
      PROVE  Exhausted(w)
  <2>1. w \in LoopWorkers /\ w \in 0..(k - 2) /\ w < sched.nw
    BY <1>4, TeamIsAParty
  <2>2. Ready(w)
    BY <1>2, <1>3, <2>1 DEF TeamOf, Pending, Resting, Busy
  <2> QED
    BY <1>1, <2>1, <2>2 DEF WorkInv, GoneInv, Gone
<1>6. ASSUME NEW i \in Iter
      PROVE  times[i] = 1
  <2>1. ToClaim(i) \/ ToRun(i) \/ HasRun(i)
    BY <1>1 DEF WorkInv, PlaceInv, Started
  <2>2. \A w \in LoopWorkers : ~InClaim(i, w)
    BY <1>2 DEF InClaim, Resting
  <2>3. \A j \in 0..(sched.nw - 1) : ~InRange(i, j)
    <3>1. i \in Int
      BY LoopsAssumption DEF Iter, Calls!Iterations
    <3>2. \A j \in 0..(sched.nw - 1) : data[j].start \in Int /\ data[j].end \in Int
      BY DEF LoopInv, LoopTypes, TableInv, Lines
    <3> QED
      BY <1>5, <3>1, <3>2 DEF Exhausted, InRange
  <2> QED
    BY <2>1, <2>2, <2>3 DEF ToClaim, ToRun, HasRun
<1> QED
  BY <1>6

\* Running the body is a step of LoopCalls, or none if there is nothing to run.
LEMMA RunIsRunBody ==
  ASSUME mpc # "user", mpc' # "user", loop' = loop, times' \in [Indices -> {0, 1}],
         \A i \in Indices : times'[i] # times[i] => times[i] = 0 /\ i \in Iter
  PROVE  [Calls!LcNext]_(Calls!callVars)
<1>1. (mpc # "user")' = (mpc # "user")
  OBVIOUS
<1>2. times' # times => Calls!RunBody
  BY <1>1 DEF Calls!RunBody, Iter
<1> QED
  BY <1>1, <1>2 DEF Calls!LcNext, Calls!callVars

LEMMA LoopStep ==
  ASSUME NoGrain, ~TeamMayChange, LoopInv, WorkInv, [LoopNext]_loopVars
  PROVE  [Calls!LcNext]_(Calls!callVars)
<1>1. WorkInv'
  BY WorkNextInv
<1>2. times' \in [Indices -> {0, 1}]
  BY <1>1 DEF WorkInv, TimesInv
<1>3. Iter \subseteq Indices /\ times \in [Indices -> {0, 1}]
  BY DEF Iter, Calls!Iterations, WorkInv, TimesInv
<1>4. ASSUME UNCHANGED <<loop, times>>, mpc' = "user" <=> mpc = "user"
      PROVE  [Calls!LcNext]_(Calls!callVars)
  BY <1>4 DEF Calls!callVars
<1>5. ASSUME NEW l \in Loops, SetLoop(l)
      PROVE  Calls!Call(l)
  BY <1>5 DEF SetLoop, Calls!Call
<1>6. CASE RunAlone
  <2>1. mpc # "user" /\ mpc' # "user" /\ loop' = loop
    BY <1>6 DEF RunAlone
  <2>2. times' = [i \in Indices |-> IF i \in Iter THEN 1 ELSE 0]
    BY <1>6, RunAloneWork
  <2>3. \A i \in Indices : times[i] = 0
    BY <1>6 DEF RunAlone, WorkInv, TimesInv
  <2>4. \A i \in Indices : times'[i] # times[i] => times[i] = 0 /\ i \in Iter
    BY <2>2, <2>3
  <2> QED
    BY <1>2, <2>1, <2>4, RunIsRunBody
<1>7. ASSUME loop' = loop, times' = times, mpc # "user", mpc' = "user",
             \A i \in Iter : times[i] = 1
      PROVE  Calls!Return
  BY <1>7 DEF Calls!Return, Iter
<1>8. CASE ReturnAlone
  <2>1. \A i \in Iter : times[i] = 1
    BY <1>8 DEF ReturnAlone, WorkInv, TimesInv
  <2> QED
    BY <1>7, <1>8, <2>1 DEF ReturnAlone, Calls!LcNext
<1>9. CASE MainWaits
  <2>1. UNCHANGED <<loop, times>> /\ mpc = "wait" /\ mpc' \in {"user", "wait"}
    BY <1>9 DEF MainWaits
  <2>2. CASE mpc' = "user"
    BY <1>7, <1>9, <2>1, <2>2, AllHasRun DEF Calls!LcNext
  <2> QED
    BY <1>4, <2>1, <2>2
<1>10. CASE SetupBarrier \/ SendWakeUp \/ MainArrives
  BY <1>4, <1>10 DEF SetupBarrier, SendWakeUp, MainArrives
<1>11. ASSUME NEW w \in LoopWorkers, CountAndRun(w)
       PROVE  [Calls!LcNext]_(Calls!callVars)
  <2>1. /\ mpc \in Started
        /\ \A i \in Iter : InClaim(i, w) => ToRun(i) /\ \A u \in LoopWorkers : InClaim(i, u) => u = w
        /\ times' = [i \in Indices |-> IF i \in Iter /\ InClaim(i, w) THEN 1 ELSE times[i]]
    BY <1>11, RunsTheClaim
  <2>2. \A i \in Indices : times'[i] # times[i] => times[i] = 0 /\ i \in Iter
    BY <2>1 DEF ToRun
  <2>3. mpc # "user" /\ mpc' = mpc /\ loop' = loop
    BY <1>11, <2>1 DEF CountAndRun, caller, Started
  <2> QED
    BY <1>2, <2>2, <2>3, RunIsRunBody
<1>12. ASSUME NEW w \in LoopWorkers, WorkerStep(w), ~CountAndRun(w)
       PROVE  [Calls!LcNext]_(Calls!callVars)
  <2>1. UNCHANGED <<loop, times, mpc>>
    BY <1>12 DEF WorkerStep, Awake, LookForTask, LoadStart, Claim, LookElsewhere, Scan,
                 LookAtVictim, StealFrom, WorkerArrives, WorkerWaits, caller
  <2> QED
    BY <1>4, <2>1
<1>13. CASE UNCHANGED loopVars
  BY <1>4, <1>13 DEF loopVars
<1> QED
  BY <1>5, <1>6, <1>8, <1>9, <1>10, <1>11, <1>12, <1>13
     DEF LoopNext, MainStep, Calls!LcNext

\* parallel_for() with several workers, for any number of them and any loops without a
\* grain, as long as all that start workers start the same number: the body is run
\* exactly once for each index of the loop, however the workers claim and steal, and the
\* call returns when all have been run (nextTaskConcurrent, wait_freezing).
THEOREM LoopsRunOnce == ~TeamMayChange /\ NoGrain => (LoopSpec => ImplementsLoop)
<1> SUFFICES ASSUME ~TeamMayChange, NoGrain
             PROVE  LoopSpec => ImplementsLoop
  OBVIOUS
<1>1. LoopInit => LoopInv /\ WorkInv
  BY LoopInitInv, WorkInitInv
<1>2. LoopInv /\ WorkInv /\ [LoopNext]_loopVars => LoopInv' /\ WorkInv'
  BY LoopNextInv, WorkNextInv
<1>3. LoopInit => Calls!LcInit
  BY DEF LoopInit, Calls!LcInit
<1>4. LoopInv /\ WorkInv /\ [LoopNext]_loopVars => [Calls!LcNext]_(Calls!callVars)
  BY LoopStep
<1> QED
  BY <1>1, <1>2, <1>3, <1>4, PTL DEF LoopSpec, ImplementsLoop, Calls!LcSpec
=============================================================================
