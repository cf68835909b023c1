------------------------------ MODULE SpscRing ------------------------------
(***************************************************************************)
(* SWSR_Ptr_Buffer of ff/buffer.hpp: a ring of cells shared by one thread  *)
(* that pushes and one that pops, without locks and without a shared       *)
(* counter.  A cell that holds NULL is free for the producer and empty for *)
(* the consumer, pwrite is the producer's alone and pread the consumer's   *)
(* alone.  Every read or write of a cell and every change of an index is a *)
(* step, so the two threads meet between any two of them; with a single    *)
(* cell, or a full ring, both work on the same cell.                       *)
(*                                                                         *)
(* push() is multipush() of one value: it looks at the last cell it needs, *)
(* writes its cells from the last to the first and then moves pwrite.  A   *)
(* push() or pop() that returns false changes nothing and is a stutter.    *)
(* The histories contents and delivered are what a client knows: a batch   *)
(* is in the channel once all of it is written, and a value has left it    *)
(* once its cell is free again.                                            *)
(***************************************************************************)
EXTENDS Naturals, Sequences

CONSTANTS Values,               \* the pointers that are pushed
          NULL,                 \* a free cell
          Sizes,                \* the sizes the buffer may be created with
          LineEnd,              \* the start index of reset(true)
          Batches,              \* what is pushed at once
          MaxPush               \* bound: values pushed in a behaviour

ASSUME RingAssumption ==
  /\ NULL \notin Values
  /\ Sizes \subseteq Nat \ {0}
  /\ LineEnd \in Nat
  /\ Batches \subseteq Seq(Values) \ {<<>>}
  /\ MaxPush \in Nat

VARIABLES size,                 \* the number of cells, constant
          buf,                  \* the cells
          pread,                \* the cell to pop from
          pwrite,               \* the cell to push into
          ppc,                  \* where the producer is
          batch,                \* what it is pushing
          left,                 \* how many of them are not written yet
          cpc,                  \* where the consumer is
          popped,                 \* the value it has read
          contents,             \* history: the values inside, oldest first
          delivered             \* history: the values popped, in order

ring == <<size, buf, pread, pwrite>>
producer == <<ppc, batch, left>>
consumer == <<cpc, popped>>
ringVars == <<ring, producer, consumer, contents, delivered>>

\* The index n cells after i, which is less than one turn away
Ahead(i, n) == IF i + n >= size THEN i + n - size ELSE i + n

\* The constructor, init() and its reset(startatlineend): a line end outside
\* the buffer is no place to start.
RingInit == /\ size \in Sizes
            /\ buf = [i \in 0..size-1 |-> NULL]
            /\ pwrite \in {0, LineEnd} \cap 0..size-1
            /\ pread = pwrite
            /\ ppc = "outside" /\ batch = <<>> /\ left = 0
            /\ cpc = "outside" /\ popped = NULL
            /\ contents = <<>> /\ delivered = <<>>

-----------------------------------------------------------------------------
(* push() and multipush()                                                  *)

\* Mutant: look at the next cell instead of the last one.
RoomForOne(n) == buf[pwrite] = NULL

\* available() for push(), and the test of buf[last] in multipush()
Room(n) == buf[Ahead(pwrite, n - 1)] = NULL

\* multipush() refuses as many values as there are cells; push() takes one
\* even if there is a single cell.
Look(b) ==
  /\ ppc = "outside"
  /\ Len(delivered) + Len(contents) + Len(b) <= MaxPush
  /\ Len(b) = 1 \/ Len(b) < size
  /\ Room(Len(b))
  /\ ppc' = "write" /\ batch' = b /\ left' = Len(b)
  /\ UNCHANGED <<ring, consumer, contents, delivered>>

\* Mutant: write the batch from its first value to its last.
WrittenForwards == Len(batch) - left + 1

\* The next value to be written: the loops of multipush() count downwards.
Written == left

WriteCell ==
  /\ ppc = "write"
  /\ buf' = [buf EXCEPT ![Ahead(pwrite, Written - 1)] = batch[Written]]
  /\ left' = left - 1
  /\ IF left = 1 THEN ppc' = "advance" /\ contents' = contents \o batch
                 ELSE UNCHANGED <<ppc, contents>>
  /\ UNCHANGED <<size, pread, pwrite, batch, consumer, delivered>>

MoveWrite ==
  /\ ppc = "advance"
  /\ pwrite' = Ahead(pwrite, Len(batch))
  /\ ppc' = "outside" /\ batch' = <<>>
  /\ UNCHANGED <<size, buf, pread, left, consumer, contents, delivered>>

-----------------------------------------------------------------------------
(* pop(), or top() and inc()                                               *)

Empty == buf[pread] = NULL

ReadCell ==
  /\ cpc = "outside"
  /\ ~Empty
  /\ popped' = buf[pread]
  /\ cpc' = "clear"
  /\ UNCHANGED <<ring, producer, contents, delivered>>

\* inc() frees the cell before it moves pread.
ClearCell ==
  /\ cpc = "clear"
  /\ buf' = [buf EXCEPT ![pread] = NULL]
  /\ contents' = Tail(contents)
  /\ delivered' = Append(delivered, popped)
  /\ cpc' = "advance"
  /\ UNCHANGED <<size, pread, pwrite, producer, popped>>

MoveRead ==
  /\ cpc = "advance"
  /\ pread' = Ahead(pread, 1)
  /\ cpc' = "outside" /\ popped' = NULL
  /\ UNCHANGED <<size, buf, pwrite, producer, contents, delivered>>

-----------------------------------------------------------------------------
\* reset() of a buffer nobody works on, as the pool of the unbounded buffer
\* calls it once the consumer has emptied it and the producer has left it
Reset ==
  /\ ppc = "outside" /\ cpc = "outside" /\ contents = <<>>
  /\ buf' = [i \in 0..size-1 |-> NULL]
  /\ pread' = 0 /\ pwrite' = 0
  /\ UNCHANGED <<size, producer, consumer, contents, delivered>>

Producer == (\E b \in Batches : Look(b)) \/ WriteCell \/ MoveWrite
Consumer == ReadCell \/ ClearCell \/ MoveRead

RingNext == Producer \/ Consumer \/ Reset

RingSpec == RingInit /\ [][RingNext]_ringVars

-----------------------------------------------------------------------------
(* Properties                                                              *)

TypeOK ==
  /\ size \in Sizes
  /\ buf \in [0..size-1 -> Values \cup {NULL}]
  /\ pread \in 0..size-1 /\ pwrite \in 0..size-1
  /\ ppc \in {"outside", "write", "advance"}
  /\ batch \in Seq(Values)
  /\ left \in 0..Len(batch)
  /\ cpc \in {"outside", "clear", "advance"}
  /\ popped \in Values \cup {NULL}
  /\ contents \in Seq(Values) /\ delivered \in Seq(Values)

\* The answers of the two threads are right at the moment they look: a push is
\* refused only when its values do not fit, a pop only when nothing is inside,
\* although each thread sees neither the index of the other nor a counter, and
\* the other may be anywhere inside its operation.
HonestAnswers ==
  /\ ppc = "outside" =>
       \A n \in 1..size : Room(n) <=> Len(contents) + n <= size
  /\ cpc = "outside" => (Empty <=> contents = <<>>)

\* The ring implements the channel: values leave in the order of their
\* insertion, each exactly once, no cell is overwritten before it is read, and
\* a batch appears as a whole.
Channel == INSTANCE SpscChannel
ImplementsChannel == Channel!SpscSpec
=============================================================================
