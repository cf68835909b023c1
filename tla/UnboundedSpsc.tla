--------------------------- MODULE UnboundedSpsc ----------------------------
(***************************************************************************)
(* uSWSR_Ptr_Buffer and BufferPool of ff/ubuffer.hpp, the queue between    *)
(* any two threads of FastFlow: a list of rings, the producer in the last  *)
(* (buf_w) and the consumer in the first (buf_r).  The rings in between    *)
(* wait in a DynQueue (inuse); a ring the consumer has emptied goes to a   *)
(* cache (bufcache) from which the producer takes its next one.            *)
(*                                                                         *)
(* The operations of a ring are atomic here: SpscRing shows that each of   *)
(* them takes effect in one step.  Everything between them is not: the     *)
(* looks of pop(), the accesses to inuse, and the change of buf_w and      *)
(* buf_r are steps of their own.  in_use_buffers is left out: length(),    *)
(* its only reader, is documented as a rough estimation.                   *)
(***************************************************************************)
EXTENDS DynQueue

CONSTANTS Buffers,              \* the addresses malloc may return for rings
          NoBuffer,             \* the NULL pointer
          Sizes,                \* the sizes the rings may be created with
          FixedSizes,           \* the values of fixedsize
          PoolSize,             \* the capacity of bufcache
          MaxPush               \* bound: calls of push() that succeed

ASSUME UnboundedAssumption ==
  /\ NoBuffer \notin Buffers /\ NoNode \notin Nodes
  /\ Buffers # {} /\ Nodes # {}
  /\ Sizes \subseteq Nat \ {0} /\ FixedSizes \subseteq BOOLEAN
  /\ CacheSize \in Nat /\ PoolSize \in Nat /\ MaxPush \in Nat

VARIABLES size, fixedsize,      \* the parameters of the constructor, constant
          ring,                 \* the values in each ring
          allocated,            \* the rings that are not freed
          bufcache,             \* the rings waiting to be used again
          buf_w, buf_r,         \* the rings of the producer and the consumer
          ppc, t, n,            \* the producer: where it is, its new ring and node
          cpc, tmp, old, seen,  \* the consumer: where it is, the next ring, the old
                                \* dummy node, and (history) how many values were
                                \* inside when pop() looked first
          contents,             \* history: the values inside, oldest first
          delivered             \* history: the values popped, in order

parameters == <<size, fixedsize>>
pool == <<allocated, bufcache>>
producer == <<ppc, t, n>>
consumer == <<cpc, tmp, old, seen>>
history == <<contents, delivered>>
vars == <<dynqueue, parameters, ring, pool, buf_w, buf_r, producer, consumer, history>>

\* The constructor and init()
Init == /\ DynInit(NoBuffer)
        /\ size \in Sizes /\ fixedsize \in FixedSizes
        /\ ring = [b \in Buffers |-> <<>>]
        /\ buf_r = Malloc(Buffers, {}) /\ buf_w = buf_r
        /\ allocated = {buf_r} /\ bufcache = <<>>
        /\ ppc = "outside" /\ t = NoBuffer /\ n = NoNode
        /\ cpc = "outside" /\ tmp = NoBuffer /\ old = NoNode /\ seen = 0
        /\ contents = <<>> /\ delivered = <<>>

-----------------------------------------------------------------------------
(* push()                                                                  *)

Full(b) == Len(ring[b]) = size

\* The producer's ring has room.
FindRoom ==
  /\ ppc = "outside"
  /\ Len(delivered) + Len(contents) < MaxPush
  /\ ~Full(buf_w)
  /\ ppc' = "put"
  /\ UNCHANGED <<dynqueue, parameters, ring, pool, buf_w, buf_r, t, n, consumer, history>>

\* It is full, and the buffer is unbounded (else push() returns false):
\* next_w() takes a ring from the cache or makes one.
NewRing(b) ==
  /\ ppc = "outside"
  /\ Len(delivered) + Len(contents) < MaxPush
  /\ Full(buf_w) /\ ~fixedsize
  /\ IF bufcache # <<>>
     THEN b = Head(bufcache) /\ bufcache' = Tail(bufcache) /\ UNCHANGED allocated
     ELSE /\ allocated # Buffers
          /\ b = Malloc(Buffers, allocated) /\ allocated' = allocated \cup {b} /\ UNCHANGED bufcache
  /\ t' = b
  /\ ppc' = "fill"
  /\ UNCHANGED <<dynqueue, parameters, ring, buf_w, buf_r, n, consumer, history>>

\* inuse.push(t), in three steps
InusePush ==
  /\ \/ /\ ppc = "fill" /\ ppc' = "link"
        /\ \E m \in Nodes : FillNode(m, t) /\ n' = m
     \/ ppc = "link" /\ ppc' = "tail" /\ LinkNode(n) /\ n' = n
     \/ ppc = "tail" /\ ppc' = "turn" /\ MoveTail(n) /\ n' = NoNode
  /\ UNCHANGED <<parameters, ring, pool, buf_w, buf_r, t, consumer, history>>

\* buf_w = t
TurnToNewRing ==
  /\ ppc = "turn"
  /\ buf_w' = t /\ t' = NoBuffer
  /\ ppc' = "put"
  /\ UNCHANGED <<dynqueue, parameters, ring, pool, buf_r, n, consumer, history>>

\* The next pointer the producer pushes: each one is another.
Data == Len(delivered) + Len(contents) + 1

\* buf_w->push(data)
Put ==
  /\ ppc = "put"
  /\ ring' = [ring EXCEPT ![buf_w] = Append(@, Data)]
  /\ contents' = Append(contents, Data)
  /\ ppc' = "outside"
  /\ UNCHANGED <<dynqueue, parameters, pool, buf_w, buf_r, t, n, consumer, delivered>>

-----------------------------------------------------------------------------
(* pop()                                                                   *)

Empty(b) == ring[b] = <<>>

\* if (buf_r->empty())
LookFirst ==
  /\ cpc = "outside"
  /\ cpc' = IF Empty(buf_r) THEN "compare" ELSE "take"
  /\ seen' = Len(contents)
  /\ UNCHANGED <<dynqueue, parameters, ring, pool, buf_w, buf_r, producer, tmp, old, history>>

\* if (buf_r == buf_w) return false
Compare ==
  /\ cpc = "compare"
  /\ cpc' = IF buf_r = buf_w THEN "outside" ELSE "again"
  /\ UNCHANGED <<dynqueue, parameters, ring, pool, buf_w, buf_r, producer, tmp, old, seen, history>>

\* Mutant: without the second look, the ring is given up as it was seen first.
GivenUp == TRUE

\* The second look: the producer may have filled the ring before it left it.
StillEmpty == Empty(buf_r)

LookAgain ==
  /\ cpc = "again"
  /\ cpc' = IF StillEmpty THEN "next" ELSE "take"
  /\ UNCHANGED <<dynqueue, parameters, ring, pool, buf_w, buf_r, producer, tmp, old, seen, history>>

\* tmp = pool.next_r(), that is inuse.pop(), in three steps: the data, head, and
\* the old node, which goes back to the producer
InusePop ==
  /\ \/ /\ cpc = "next"
        /\ IF Linked THEN tmp' = FirstItem /\ cpc' = "head" ELSE tmp' = NoBuffer /\ cpc' = "take"
        /\ UNCHANGED <<dynqueue, old>>
     \/ cpc = "head" /\ cpc' = "recycle" /\ MoveHead /\ old' = head /\ UNCHANGED tmp
     \/ cpc = "recycle" /\ cpc' = "reset" /\ RecycleNode(old) /\ old' = NoNode /\ UNCHANGED tmp
  /\ UNCHANGED <<parameters, ring, pool, buf_w, buf_r, producer, seen, history>>

\* pool.release(buf_r): first its reset() ...
ResetRing ==
  /\ cpc = "reset"
  /\ ring' = [ring EXCEPT ![buf_r] = <<>>]
  /\ cpc' = "release"
  /\ UNCHANGED <<dynqueue, parameters, pool, buf_w, buf_r, producer, tmp, old, seen, history>>

\* ... then bufcache.push(buf), or free(buf) when the cache is full.
Released(b) ==
  IF Len(bufcache) < PoolSize
  THEN bufcache' = Append(bufcache, b) /\ UNCHANGED allocated
  ELSE allocated' = allocated \ {b} /\ UNCHANGED bufcache

ReleaseRing ==
  /\ cpc = "release"
  /\ Released(buf_r)
  /\ cpc' = "turn"
  /\ UNCHANGED <<dynqueue, parameters, ring, buf_w, buf_r, producer, tmp, old, seen, history>>

\* buf_r = tmp
TurnToNextRing ==
  /\ cpc = "turn"
  /\ buf_r' = tmp /\ tmp' = NoBuffer
  /\ cpc' = "take"
  /\ UNCHANGED <<dynqueue, parameters, ring, pool, buf_w, producer, old, seen, history>>

\* return buf_r->pop(data), which is false if the ring is (still) empty
Take ==
  /\ cpc = "take"
  /\ cpc' = "outside"
  /\ IF Empty(buf_r)
     THEN UNCHANGED <<ring, history>>
     ELSE /\ delivered' = Append(delivered, Head(ring[buf_r]))
          /\ contents' = Tail(contents)
          /\ ring' = [ring EXCEPT ![buf_r] = Tail(@)]
  /\ UNCHANGED <<dynqueue, parameters, pool, buf_w, buf_r, producer, tmp, old, seen>>

-----------------------------------------------------------------------------
\* reset() of a queue that nobody works on, as farm and graph call it between
\* two runs, when all that was pushed has been popped: the producer goes back to
\* the ring of the consumer, and the one in inuse, if any, is released.
Reset ==
  /\ ppc = "outside" /\ cpc = "outside" /\ contents = <<>>
  /\ ring' = [ring EXCEPT ![buf_r] = <<>>, ![buf_w] = <<>>]
  /\ buf_w' = buf_r
  /\ IF Linked THEN Released(FirstItem) /\ PopNode ELSE UNCHANGED <<pool, dynqueue>>
  /\ UNCHANGED <<parameters, buf_r, producer, consumer, history>>

Producer == \/ FindRoom
            \/ \E b \in Buffers : NewRing(b)
            \/ InusePush
            \/ TurnToNewRing
            \/ Put

Consumer == \/ LookFirst \/ Compare \/ LookAgain
            \/ InusePop
            \/ ResetRing \/ ReleaseRing \/ TurnToNextRing
            \/ Take

Next == Producer \/ Consumer \/ Reset

Spec == Init /\ [][Next]_vars

\* Both threads run on; the consumer calls pop() again and again.
FairSpec == Spec /\ WF_vars(Producer) /\ WF_vars(Consumer)

-----------------------------------------------------------------------------
(* Properties                                                              *)

\* The unbounded queue implements the channel: the chain of rings keeps the
\* order, and no value is left behind in a ring the consumer has given up.
Channel == INSTANCE FifoChannel WITH Values <- 1..MaxPush
ImplementsChannel == Channel!ChSpec

\* Nothing is written where the other thread, or malloc, may already have put it
\* to other use: a ring that waits in the cache or is freed is neither read nor
\* written, it is empty, and the node the producer links to is a live one although
\* the consumer recycles nodes while tail still points to them.
RecycledIsUnused ==
  /\ buf_w \in allocated /\ \A k \in 1..Len(bufcache) : bufcache[k] # buf_w
  /\ cpc # "turn" =>
       buf_r \in allocated /\ \A k \in 1..Len(bufcache) : bufcache[k] # buf_r
  /\ \A k \in 1..Len(bufcache) : bufcache[k] \in allocated /\ Empty(bufcache[k])
  /\ t # NoBuffer => t \in allocated /\ Empty(t)
  /\ ppc = "link" => Usable(tail) /\ Usable(n)
  /\ Usable(head)

\* pop() returns false only if the queue was empty at some moment of the call:
\* when it looked first, if it gives up because both threads are in the same
\* ring, or right now, if the ring it turned to is empty.
HonestEmpty ==
  /\ cpc = "compare" /\ buf_r = buf_w => seen = 0
  /\ cpc = "take" /\ Empty(buf_r) => contents = <<>>

\* Every pushed value is popped: the consumer never stays behind in a ring that
\* gets no more values.
EveryValueIsPopped ==
  \A k \in 1..MaxPush : Len(contents) + Len(delivered) >= k ~> Len(delivered) >= k
=============================================================================
