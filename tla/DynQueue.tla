------------------------------ MODULE DynQueue ------------------------------
(***************************************************************************)
(* dynqueue of ff/dynqueue.hpp: an unbounded single-producer               *)
(* single-consumer list with a dummy node, whose consumer gives the nodes  *)
(* it has passed back to the producer through a bounded cache.  This       *)
(* module has the single accesses of push() and pop(); the program         *)
(* counters are those of its client, UnboundedSpsc.                        *)
(***************************************************************************)
EXTENDS Naturals, Sequences

CONSTANTS Nodes,                \* the addresses malloc may return
          NoNode,               \* the NULL pointer
          CacheSize             \* the capacity of the cache

VARIABLES head,                 \* the dummy node
          tail,                 \* the node to link the next one to
          next,                 \* of each node
          item,                 \* of each node: its data
          mallocated,           \* the nodes that are not freed
          cache                 \* the nodes waiting to be used again

dynqueue == <<head, tail, next, item, mallocated, cache>>

\* malloc returns an address that is not in use; reusing one as soon as it is free
\* is what a stale pointer would suffer from most.  It never fails: the code uses
\* its result unchecked, so no step is left when all addresses are in use.
Malloc(addresses, used) == CHOOSE a \in addresses \ used : TRUE

\* One node, the dummy, and an empty cache
DynInit(nothing) ==
  /\ head = Malloc(Nodes, {}) /\ tail = head
  /\ next = [n \in Nodes |-> NoNode]
  /\ item = [n \in Nodes |-> nothing]
  /\ mallocated = {head}
  /\ cache = <<>>

\* allocnode() returns n: from the cache, or a new one if the cache is empty.
AllocNode(n) ==
  IF cache # <<>>
  THEN n = Head(cache) /\ cache' = Tail(cache) /\ UNCHANGED mallocated
  ELSE /\ mallocated # Nodes
       /\ n = Malloc(Nodes, mallocated) /\ mallocated' = mallocated \cup {n} /\ UNCHANGED cache

\* push(): the new node is nobody else's until tail->next = n shows it.
FillNode(n, x) ==
  /\ AllocNode(n)
  /\ item' = [item EXCEPT ![n] = x]
  /\ next' = [next EXCEPT ![n] = NoNode]
  /\ UNCHANGED <<head, tail>>

LinkNode(n) ==
  /\ next' = [next EXCEPT ![tail] = n]
  /\ UNCHANGED <<head, tail, item, mallocated, cache>>

MoveTail(n) ==
  /\ tail' = n
  /\ UNCHANGED <<head, next, item, mallocated, cache>>

\* pop(): the first node is the dummy's successor and becomes the dummy.
Linked == next[head] # NoNode

\* Mutant: the data of the dummy itself.
DummyItem == item[head]

FirstItem == item[next[head]]

MoveHead ==
  /\ head' = next[head]
  /\ UNCHANGED <<tail, next, item, mallocated, cache>>

\* The old dummy goes to the cache, or is freed if the cache is full.
Recycled(n) ==
  IF Len(cache) < CacheSize
  THEN cache' = Append(cache, n) /\ UNCHANGED mallocated
  ELSE mallocated' = mallocated \ {n} /\ UNCHANGED cache

RecycleNode(n) == Recycled(n) /\ UNCHANGED <<head, tail, next, item>>

\* All of pop(), when nobody else is at work
PopNode == head' = next[head] /\ Recycled(head) /\ UNCHANGED <<tail, next, item>>

\* The nodes the producer may write to: not freed, and not waiting for reuse
Usable(n) == n \in mallocated /\ \A k \in 1..Len(cache) : cache[k] # n
=============================================================================
