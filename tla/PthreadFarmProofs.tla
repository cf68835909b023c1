------------------------- MODULE PthreadFarmProofs -------------------------
(***************************************************************************)
(* Theorems about farm.cpp, for any number of workers and photos.          *)
(***************************************************************************)
EXTENDS PthreadFarm, DataProofs

\* The number of workers is a number.
LEMMA WorkerCount == number_of_workers \in Nat
BY FarmAssumption, FS_CardinalityType DEF number_of_workers

\* The farm's variables have the types of the code.
THEOREM TypeCorrect == Spec => []TypeOK
<1> USE FarmAssumption, WorkerCount
    DEF Items, Photos, WorkerPC, Goto, Popped, emitterVars, counterVars,
        collectorVars
<1>1. Init => TypeOK
  <2> SUFFICES ASSUME Init PROVE TypeOK
    OBVIOUS
  <2> USE DEF Init
  <2>1. original_photos \in Seq(Items) /\ marked_photos \in Seq(Items)
    OBVIOUS
  <2>2. emitted \in 0..NPhotos /\ eos_sent \in 0..number_of_workers
    OBVIOUS
  <2>3. pc \in [Workers -> WorkerPC] /\ q \in [Workers -> Items]
    OBVIOUS
  <2>4. register \in [Workers -> Nat] /\ times \in [Photos -> Nat]
    OBVIOUS
  <2>5. count \in 0..number_of_workers /\ total_parallel \subseteq Photos
    OBVIOUS
  <2>6. QED
    BY <2>1, <2>2, <2>3, <2>4, <2>5 DEF TypeOK
<1>2. TypeOK /\ [Next]_vars => TypeOK'
  <2> SUFFICES ASSUME TypeOK, [Next]_vars PROVE TypeOK'
    OBVIOUS
  <2> USE DEF TypeOK
  <2>1. CASE EmitPhoto
    BY <2>1 DEF EmitPhoto
  <2>2. CASE EmitEOS
    BY <2>2 DEF EmitEOS, EOSToSend
  <2>3. ASSUME NEW w \in Workers, WorkerPop(w) PROVE TypeOK'
    BY <2>3 DEF WorkerPop
  <2>4. ASSUME NEW w \in Workers, LoadCounter(w) PROVE TypeOK'
    BY <2>4 DEF LoadCounter
  <2>5. ASSUME NEW w \in Workers, StoreCounter(w) PROVE TypeOK'
    <3>1. pc' \in [Workers -> WorkerPC]
      BY <2>5 DEF StoreCounter
    <3>2. counter_worker' \in Nat /\ increments' \in Nat
      BY <2>5 DEF StoreCounter
    <3>3. QED
      BY <2>5, <3>1, <3>2 DEF StoreCounter
  <2>6. ASSUME NEW w \in Workers, Mark(w) PROVE TypeOK'
    <3>1. pc' \in [Workers -> WorkerPC]
      BY <2>6 DEF Mark
    <3>2. times' \in [Photos -> Nat]
      <4>1. times' = [times EXCEPT ![q[w]] = @ + 1]
        BY <2>6 DEF Mark
      <4>2. times \in [Photos -> Nat]
        OBVIOUS
      <4>3. QED
        <5> HIDE FarmAssumption DEF Photos, TypeOK
        <5>1. CASE q[w] \in Photos
          BY <4>1, <4>2, <5>1
        <5>2. CASE q[w] \notin Photos
          BY <4>1, <4>2, <5>2
        <5>3. QED
          BY <5>1, <5>2
    <3>3. QED
      BY <2>6, <3>1, <3>2 DEF Mark
  <2>7. ASSUME NEW w \in Workers, PushMarked(w) PROVE TypeOK'
    BY <2>7 DEF PushMarked
  <2>8. ASSUME NEW w \in Workers, TestCounter(w) PROVE TypeOK'
    BY <2>8 DEF TestCounter
  <2>9. ASSUME NEW w \in Workers, Sample(w) PROVE TypeOK'
    BY <2>9 DEF Sample
  <2>10. ASSUME NEW w \in Workers, PassOnEOS(w) PROVE TypeOK'
    <3>1. EOS \in Items
      BY DEF Items
    <3>2. marked_photos' \in Seq(Items) /\ pc' \in [Workers -> WorkerPC]
      BY <2>10, <3>1 DEF PassOnEOS
    <3>3. QED
      BY <2>10, <3>2 DEF PassOnEOS
  <2>11. CASE Collect
    <3>1. marked_photos' \in Seq(Items)
      BY <2>11 DEF Collect
    <3>2. Photos_Done' \in Seq(Photos) /\ count' \in 0..number_of_workers
      <4>1. Head(marked_photos) \in Items
        BY <2>11 DEF Collect
      <4>2. CASE Head(marked_photos) = EOS
        BY <2>11, <4>2 DEF Collect
      <4>3. CASE Head(marked_photos) # EOS
        <5>1. Head(marked_photos) \in Photos
          BY <4>1, <4>3
        <5>2. Photos_Done' = Append(Photos_Done, Head(marked_photos))
          BY <2>11, <4>3 DEF Collect
        <5>3. count' = count
          BY <2>11, <4>3 DEF Collect
        <5>4. QED
          BY <5>1, <5>2, <5>3
      <4>4. QED
        BY <4>2, <4>3
    <3>3. total_parallel' \subseteq Photos
      BY <2>11 DEF Collect
    <3>4. QED
      BY <2>11, <3>1, <3>2, <3>3 DEF Collect
  <2>12. CASE Join
    BY <2>12 DEF Join
  <2>13. CASE UNCHANGED vars
    BY <2>13 DEF vars
  <2>14. QED
    BY <2>1, <2>2, <2>3, <2>4, <2>5, <2>6, <2>7, <2>8, <2>9, <2>10, <2>11, <2>12,
       <2>13 DEF Next, Emitter, Worker, Terminated
<1>3. QED
  BY <1>1, <1>2, PTL DEF Spec

-----------------------------------------------------------------------------
(* The inductive invariant behind EOSConserved and NothingLeftBehind.      *)

\* Every photo is still with the emitter, in a queue, with a worker or stored.
NoneLost ==
  \A p \in Photos : \/ p > emitted
                    \/ IsIn(p, original_photos)
                    \/ \E w \in Workers : Holds(w, p)
                    \/ IsIn(p, marked_photos)
                    \/ IsIn(p, Photos_Done)

\* The emitter's EOS follow all the photos, so original_photos holds no photo
\* behind an EOS, and none at all once a worker has taken an EOS.
EOSFollowPhotos ==
  /\ eos_sent > 0 => emitted = NPhotos
  /\ IsIn(EOS, original_photos) => eos_sent > 0
  /\ \A i, j \in DOMAIN original_photos :
       i < j /\ original_photos[i] = EOS => original_photos[j] = EOS
  /\ TookEOS # {} =>
       /\ eos_sent > 0
       /\ \A i \in DOMAIN original_photos : original_photos[i] = EOS

\* The worker that returns last pushes the last element of marked_photos.
LastIsEOS ==
  Returned = Workers /\ marked_photos # <<>>
    => marked_photos[Len(marked_photos)] = EOS

\* A worker that holds an element between the two queues holds a photo.
HeldIsPhoto ==
  \A w \in Workers : pc[w] \in {"load", "store", "mark", "push"} => q[w] \in Photos

FarmInv == NoneLost /\ EOSFollowPhotos /\ LastIsEOS /\ HeldIsPhoto /\ EOSConserved

Between(w) == pc[w] \in {"load", "store", "mark", "push"}

Inner(w) == LoadCounter(w) \/ StoreCounter(w) \/ Mark(w) \/ TestCounter(w) \/ Sample(w)

\* The steps of a worker that touch no queue keep everything FarmInv is about.
LEMMA InnerSteps ==
  ASSUME TypeOK, NEW w \in Workers, Inner(w)
  PROVE  /\ UNCHANGED <<original_photos, marked_photos, emitted, eos_sent, q,
                        Photos_Done, count>>
         /\ TookEOS' = TookEOS /\ Returned' = Returned
         /\ \A v \in Workers : Between(v)' <=> Between(v)
<1>1. UNCHANGED <<original_photos, marked_photos, emitted, eos_sent, q,
                  Photos_Done, count>>
  BY DEF Inner, LoadCounter, StoreCounter, Mark, TestCounter, Sample,
         emitterVars, collectorVars
<1>2. PICK a \in WorkerPC :
        /\ pc' = [pc EXCEPT ![w] = a]
        /\ pc[w] \notin {"eos", "returned"} /\ a \notin {"eos", "returned"}
        /\ a \in {"load", "store", "mark", "push"} <=> Between(w)
  BY DEF Inner, LoadCounter, StoreCounter, Mark, TestCounter, Sample, Goto,
         Between, WorkerPC
<1>3. pc \in [Workers -> WorkerPC]
  BY DEF TypeOK
<1>4. QED
  BY <1>1, <1>2, <1>3 DEF TookEOS, Returned, Between

\* What a worker's pop() does, in the terms of FarmInv.
LEMMA PopStep ==
  ASSUME TypeOK, NEW w \in Workers, WorkerPop(w)
  PROVE  /\ original_photos # <<>>
         /\ Head(original_photos) \in Items
         /\ original_photos' = Tail(original_photos)
         /\ q' = [q EXCEPT ![w] = Head(original_photos)]
         /\ UNCHANGED <<marked_photos, emitted, eos_sent, Photos_Done, count>>
         /\ Returned' = Returned
         /\ TookEOS' = TookEOS \cup
                        (IF Head(original_photos) = EOS THEN {w} ELSE {})
         /\ w \notin TookEOS
         /\ \A v \in Workers :
              Between(v)' <=> Between(v) \/ (v = w /\ Head(original_photos) # EOS)
         /\ ~Between(w)
<1>1. pc \in [Workers -> WorkerPC]
  BY DEF TypeOK
<1>2. /\ original_photos # <<>>
      /\ original_photos' = Tail(original_photos)
      /\ q' = [q EXCEPT ![w] = Head(original_photos)]
      /\ UNCHANGED <<marked_photos, emitted, eos_sent, Photos_Done, count>>
      /\ pc[w] = "pop"
      /\ pc' = [pc EXCEPT ![w] = IF Head(original_photos) # EOS THEN "load" ELSE "eos"]
  BY DEF WorkerPop, Popped, emitterVars, collectorVars, Goto
<1>3. Head(original_photos) \in Items
  BY <1>2 DEF TypeOK
<1>4. QED
  BY <1>1, <1>2, <1>3 DEF TookEOS, Returned, Between

\* What pushing a marked photo does, in the terms of FarmInv.
LEMMA PushStep ==
  ASSUME TypeOK, NEW w \in Workers, PushMarked(w)
  PROVE  /\ marked_photos' = Append(marked_photos, q[w])
         /\ UNCHANGED <<original_photos, emitted, eos_sent, q, Photos_Done, count>>
         /\ Returned' = Returned /\ TookEOS' = TookEOS
         /\ w \notin Returned /\ Between(w)
         /\ \A v \in Workers : Between(v)' <=> Between(v) /\ v # w
<1>1. pc \in [Workers -> WorkerPC]
  BY DEF TypeOK
<1>2. /\ marked_photos' = Append(marked_photos, q[w])
      /\ UNCHANGED <<original_photos, emitted, eos_sent, q, Photos_Done, count>>
      /\ pc[w] = "push"
      /\ pc' = [pc EXCEPT ![w] = "test"]
  BY DEF PushMarked, emitterVars, collectorVars, Goto
<1>3. QED
  BY <1>1, <1>2 DEF TookEOS, Returned, Between

\* What passing on the EOS does, in the terms of FarmInv.
LEMMA EOSStep ==
  ASSUME TypeOK, NEW w \in Workers, PassOnEOS(w)
  PROVE  /\ marked_photos' = Append(marked_photos, EOS)
         /\ UNCHANGED <<original_photos, emitted, eos_sent, q, Photos_Done, count>>
         /\ Returned' = Returned \cup {w} /\ w \notin Returned
         /\ TookEOS' = TookEOS
         /\ \A v \in Workers : Between(v)' <=> Between(v)
<1>1. pc \in [Workers -> WorkerPC]
  BY DEF TypeOK
<1>2. /\ marked_photos' = Append(marked_photos, EOS)
      /\ UNCHANGED <<original_photos, emitted, eos_sent, q, Photos_Done, count>>
      /\ pc[w] = "eos"
      /\ pc' = [pc EXCEPT ![w] = "returned"]
  BY DEF PassOnEOS, emitterVars, collectorVars, Goto
<1>3. QED
  BY <1>1, <1>2 DEF TookEOS, Returned, Between

\* The emitter and the collector do not touch the workers.
LEMMA OtherSteps ==
  ASSUME EmitPhoto \/ EmitEOS \/ Collect \/ Join \/ UNCHANGED vars
  PROVE  /\ q' = q /\ Returned' = Returned /\ TookEOS' = TookEOS
         /\ \A v \in Workers : Between(v)' <=> Between(v)
BY DEF EmitPhoto, EmitEOS, Collect, Join, vars, Returned, TookEOS, Between

-----------------------------------------------------------------------------
(* Each part of FarmInv is preserved.                                      *)

\* Next, flattened
LEMMA NextCases ==
  ASSUME [Next]_vars
  PROVE  \/ EmitPhoto \/ EmitEOS \/ Collect \/ Join \/ UNCHANGED vars
         \/ \E w \in Workers : Inner(w) \/ WorkerPop(w) \/ PushMarked(w) \/ PassOnEOS(w)
BY DEF Next, Emitter, Worker, Terminated, Inner

\* A worker that marks or pushes holds a photo.
LEMMA HeldStep == TypeOK /\ HeldIsPhoto /\ [Next]_vars => HeldIsPhoto'
<1> SUFFICES ASSUME TypeOK, HeldIsPhoto, [Next]_vars
             PROVE  \A v \in Workers : Between(v)' => q'[v] \in Photos
  BY DEF HeldIsPhoto, Between
<1>0. \A v \in Workers : Between(v) => q[v] \in Photos
  BY DEF HeldIsPhoto, Between
<1>1. CASE EmitPhoto \/ EmitEOS \/ Collect \/ Join \/ UNCHANGED vars
  BY <1>0, <1>1, OtherSteps
<1>2. ASSUME NEW w \in Workers, Inner(w)
      PROVE  \A v \in Workers : Between(v)' => q'[v] \in Photos
  BY <1>0, <1>2, InnerSteps
<1>3. ASSUME NEW w \in Workers, WorkerPop(w)
      PROVE  \A v \in Workers : Between(v)' => q'[v] \in Photos
  <2>1. q \in [Workers -> Items]
    BY DEF TypeOK
  <2>2. QED
    BY <1>0, <1>3, <2>1, PopStep DEF Items
<1>4. ASSUME NEW w \in Workers, PushMarked(w)
      PROVE  \A v \in Workers : Between(v)' => q'[v] \in Photos
  BY <1>0, <1>4, PushStep
<1>5. ASSUME NEW w \in Workers, PassOnEOS(w)
      PROVE  \A v \in Workers : Between(v)' => q'[v] \in Photos
  BY <1>0, <1>5, EOSStep
<1>6. QED
  BY <1>1, <1>2, <1>3, <1>4, <1>5, NextCases

\* A step moves photos and loses none.
LEMMA NoneLostStep == TypeOK /\ NoneLost /\ [Next]_vars => NoneLost'
<1> DEFINE Safe(p) == \/ p > emitted
                      \/ IsIn(p, original_photos)
                      \/ \E w \in Workers : q[w] = p /\ Between(w)
                      \/ IsIn(p, marked_photos)
                      \/ IsIn(p, Photos_Done)
<1> SUFFICES ASSUME TypeOK, NoneLost, [Next]_vars, NEW p \in Photos, Safe(p)
             PROVE  Safe(p)'
  BY DEF NoneLost, Holds, Between
<1>s. /\ original_photos \in Seq(Items) /\ marked_photos \in Seq(Items)
      /\ q \in [Workers -> Items] /\ Photos_Done \in Seq(Photos)
      /\ emitted \in 0..NPhotos /\ p \in Items /\ p # EOS /\ p \in Nat
      /\ EOS \in Items
  BY FarmAssumption DEF TypeOK, Items, Photos
<1>1. CASE EmitPhoto
  <2>1. /\ original_photos' = Append(original_photos, emitted + 1)
        /\ emitted' = emitted + 1 /\ emitted + 1 \in Items
        /\ UNCHANGED <<marked_photos, Photos_Done>>
    BY <1>1, <1>s, FarmAssumption DEF EmitPhoto, collectorVars, Items, Photos
  <2>2. p > emitted => p > emitted' \/ p = emitted + 1
    BY <1>s, <2>1
  <2>3. IsIn(p, original_photos') <=> p = emitted + 1 \/ IsIn(p, original_photos)
    BY <1>s, <2>1, IsInAppend
  <2>4. QED
    BY <1>1, <2>1, <2>2, <2>3, OtherSteps
<1>2. CASE EmitEOS
  <2>1. /\ original_photos' = Append(original_photos, EOS)
        /\ UNCHANGED <<emitted, marked_photos, Photos_Done>>
    BY <1>2 DEF EmitEOS, collectorVars
  <2>2. IsIn(p, original_photos) => IsIn(p, original_photos')
    BY <1>s, <2>1, IsInAppend
  <2>3. QED
    BY <1>2, <2>1, <2>2, OtherSteps
<1>3. CASE Collect
  <2>1. /\ marked_photos # <<>>
        /\ marked_photos' = Tail(marked_photos)
        /\ UNCHANGED <<emitted, original_photos>>
    BY <1>3 DEF Collect, Popped, emitterVars
  <2>2. IsIn(p, marked_photos) => p = Head(marked_photos) \/ IsIn(p, marked_photos')
    BY <1>s, <2>1, IsInTail
  <2>3. p = Head(marked_photos) => IsIn(p, Photos_Done')
    <3> SUFFICES ASSUME p = Head(marked_photos) PROVE IsIn(p, Photos_Done')
      OBVIOUS
    <3>1. Head(marked_photos) # EOS
      BY <1>s
    <3>2. Photos_Done' = Append(Photos_Done, p)
      BY <1>3, <3>1 DEF Collect
    <3>3. QED
      BY <1>s, <3>2, IsInAppend
  <2>4. IsIn(p, Photos_Done) => IsIn(p, Photos_Done')
    <3>1. CASE Head(marked_photos) = EOS
      BY <1>3, <3>1 DEF Collect
    <3>2. CASE Head(marked_photos) # EOS
      <4>1. Head(marked_photos) \in Photos
        BY <1>s, <2>1, <3>2 DEF Items
      <4>2. Photos_Done' = Append(Photos_Done, Head(marked_photos))
        BY <1>3, <3>2 DEF Collect
      <4>3. QED
        BY <1>s, <4>1, <4>2, IsInAppend
    <3>3. QED
      BY <3>1, <3>2
  <2>5. QED
    BY <1>3, <2>1, <2>2, <2>3, <2>4, OtherSteps
<1>4. CASE Join \/ UNCHANGED vars
  <2>1. UNCHANGED <<original_photos, marked_photos, emitted, Photos_Done>>
    BY <1>4 DEF Join, vars, emitterVars, collectorVars
  <2>2. QED
    BY <1>4, <2>1, OtherSteps
<1>5. ASSUME NEW w \in Workers, Inner(w) PROVE Safe(p)'
  BY <1>5, InnerSteps
<1>6. ASSUME NEW w \in Workers, WorkerPop(w) PROVE Safe(p)'
  <2>1. /\ original_photos # <<>>
        /\ original_photos' = Tail(original_photos)
        /\ q' = [q EXCEPT ![w] = Head(original_photos)]
        /\ UNCHANGED <<marked_photos, emitted, Photos_Done>>
        /\ ~Between(w)
        /\ \A v \in Workers :
              Between(v)' <=> Between(v) \/ (v = w /\ Head(original_photos) # EOS)
    BY <1>6, PopStep
  <2>2. IsIn(p, original_photos) => p = Head(original_photos) \/ IsIn(p, original_photos')
    BY <1>s, <2>1, IsInTail
  <2>3. p = Head(original_photos) => q'[w] = p /\ Between(w)'
    BY <1>s, <2>1
  <2>4. \A v \in Workers : q[v] = p /\ Between(v) => q'[v] = p /\ Between(v)'
    BY <1>s, <2>1
  <2>5. QED
    BY <2>1, <2>2, <2>3, <2>4
<1>7. ASSUME NEW w \in Workers, PushMarked(w) PROVE Safe(p)'
  <2>1. /\ marked_photos' = Append(marked_photos, q[w])
        /\ UNCHANGED <<original_photos, emitted, q, Photos_Done>>
        /\ \A v \in Workers : Between(v)' <=> Between(v) /\ v # w
    BY <1>7, PushStep
  <2>2. IsIn(p, marked_photos') <=> p = q[w] \/ IsIn(p, marked_photos)
    <3>1. q[w] \in Items
      BY <1>s
    <3>2. QED
      BY <1>s, <2>1, <3>1, IsInAppend
  <2>3. QED
    BY <2>1, <2>2
<1>8. ASSUME NEW w \in Workers, PassOnEOS(w) PROVE Safe(p)'
  <2>1. /\ marked_photos' = Append(marked_photos, EOS)
        /\ UNCHANGED <<original_photos, emitted, q, Photos_Done>>
        /\ \A v \in Workers : Between(v)' <=> Between(v)
    BY <1>8, EOSStep
  <2>2. IsIn(p, marked_photos) => IsIn(p, marked_photos')
    BY <1>s, <2>1, IsInAppend
  <2>3. QED
    BY <2>1, <2>2
<1>9. QED
  BY <1>1, <1>2, <1>3, <1>4, <1>5, <1>6, <1>7, <1>8, NextCases

\* The EOS of the emitter stay behind its photos.
LEMMA EOSFollowStep == TypeOK /\ EOSFollowPhotos /\ [Next]_vars => EOSFollowPhotos'
<1> SUFFICES ASSUME TypeOK, EOSFollowPhotos, [Next]_vars PROVE EOSFollowPhotos'
  OBVIOUS
<1> DEFINE Sorted(s) == \A i, j \in DOMAIN s : i < j /\ s[i] = EOS => s[j] = EOS
           OnlyEOS(s) == \A i \in DOMAIN s : s[i] = EOS
<1>s. /\ original_photos \in Seq(Items) /\ EOS \in Items
      /\ emitted \in 0..NPhotos /\ NPhotos \in Nat
      /\ eos_sent \in Nat
  BY FarmAssumption, WorkerCount DEF TypeOK, Items
<1> DEFINE Order == /\ eos_sent > 0 => emitted = NPhotos
                    /\ IsIn(EOS, original_photos) => eos_sent > 0
                    /\ Sorted(original_photos)
                    /\ TookEOS # {} => eos_sent > 0 /\ OnlyEOS(original_photos)
<1>i. Order
  BY DEF EOSFollowPhotos
<1> SUFFICES Order'
  BY DEF EOSFollowPhotos
<1>1. CASE EmitPhoto
  <2>1. emitted < NPhotos /\ eos_sent = 0 /\ TookEOS = {}
    BY <1>1, <1>s, <1>i DEF EmitPhoto
  <2>2. /\ original_photos' = Append(original_photos, emitted + 1)
        /\ eos_sent' = eos_sent /\ emitted + 1 \in Items /\ emitted + 1 # EOS
    BY <1>1, <1>s, <2>1, FarmAssumption DEF EmitPhoto, Items, Photos
  <2>3. ~IsIn(EOS, original_photos)
    BY <1>s, <1>i, <2>1
  <2>4. ~IsIn(EOS, original_photos')
    BY <1>s, <2>2, <2>3, IsInAppend
  <2>5. Sorted(original_photos')
    BY <2>4 DEF IsIn, Places
  <2>6. QED
    BY <1>1, <2>1, <2>2, <2>4, <2>5, OtherSteps
<1>2. CASE EmitEOS
  <2>1. /\ original_photos' = Append(original_photos, EOS)
        /\ eos_sent' = eos_sent + 1 /\ emitted = NPhotos /\ emitted' = emitted
    BY <1>2 DEF EmitEOS, EOSToSend
  <2>2. \A j \in DOMAIN original_photos' :
          \/ j \in DOMAIN original_photos /\ original_photos'[j] = original_photos[j]
          \/ j = Len(original_photos) + 1 /\ original_photos'[j] = EOS
    BY <1>s, <2>1
  <2>3. Sorted(original_photos')
    BY <1>s, <1>i, <2>2
  <2>4. TookEOS # {} => OnlyEOS(original_photos')
    BY <1>i, <2>2
  <2>5. QED
    BY <1>2, <1>s, <2>1, <2>3, <2>4, OtherSteps
<1>3. CASE Collect \/ Join \/ UNCHANGED vars
  <2>1. UNCHANGED <<original_photos, emitted, eos_sent>>
    BY <1>3 DEF Collect, Join, vars, emitterVars
  <2>2. QED
    BY <1>3, <1>i, <2>1, OtherSteps
<1>4. ASSUME NEW w \in Workers, WorkerPop(w) PROVE Order'
  <2>1. /\ original_photos # <<>>
        /\ original_photos' = Tail(original_photos)
        /\ UNCHANGED <<emitted, eos_sent>>
        /\ TookEOS' = TookEOS \cup (IF Head(original_photos) = EOS THEN {w} ELSE {})
    BY <1>4, PopStep, FarmAssumption, WorkerCount DEF TypeOK
  <2>2. \A i \in DOMAIN original_photos' :
          /\ i + 1 \in DOMAIN original_photos /\ 1 \in DOMAIN original_photos
          /\ 1 < i + 1
          /\ original_photos'[i] = original_photos[i + 1]
    BY <1>s, <2>1
  <2>3. IsIn(EOS, original_photos') => IsIn(EOS, original_photos)
    BY <1>s, <2>1, IsInTail
  <2>4. Sorted(original_photos')
    <3> SUFFICES ASSUME NEW i \in DOMAIN original_photos',
                        NEW j \in DOMAIN original_photos',
                        i < j, original_photos'[i] = EOS
                 PROVE  original_photos'[j] = EOS
      OBVIOUS
    <3>1. i \in Nat /\ j \in Nat
      BY <1>s, <2>1
    <3>2. i + 1 < j + 1
      BY <3>1
    <3>3. QED
      BY <1>i, <2>2, <3>2
  <2>5. Head(original_photos) = EOS => OnlyEOS(original_photos') /\ eos_sent > 0
    <3> SUFFICES ASSUME Head(original_photos) = EOS
                 PROVE  OnlyEOS(original_photos') /\ eos_sent > 0
      OBVIOUS
    <3>1. original_photos[1] = EOS /\ 1 \in DOMAIN original_photos
      BY <1>s, <2>1
    <3>2. OnlyEOS(original_photos')
      BY <1>i, <2>2, <3>1
    <3>3. IsIn(EOS, original_photos)
      BY <3>1 DEF IsIn, Places
    <3>4. QED
      BY <1>i, <3>2, <3>3
  <2>6. OnlyEOS(original_photos) => OnlyEOS(original_photos')
    BY <2>2
  <2>7. QED
    BY <1>i, <2>1, <2>3, <2>4, <2>5, <2>6
<1>5. ASSUME NEW w \in Workers, Inner(w) \/ PushMarked(w) \/ PassOnEOS(w)
      PROVE  Order'
  <2>1. UNCHANGED <<original_photos, emitted, eos_sent>> /\ TookEOS' = TookEOS
    BY <1>5, InnerSteps, PushStep, EOSStep
  <2>2. QED
    BY <1>i, <2>1
<1>6. QED
  BY <1>1, <1>2, <1>3, <1>4, <1>5, NextCases

\* The last EOS of the collector's queue stays behind the photos.
LEMMA LastStep == TypeOK /\ LastIsEOS /\ [Next]_vars => LastIsEOS'
<1> SUFFICES ASSUME TypeOK, LastIsEOS, [Next]_vars,
                    Returned' = Workers, marked_photos' # <<>>
             PROVE  marked_photos'[Len(marked_photos')] = EOS
  BY DEF LastIsEOS
<1>s. marked_photos \in Seq(Items) /\ EOS \in Items
  BY DEF TypeOK, Items
<1>1. CASE EmitPhoto \/ EmitEOS \/ Join \/ UNCHANGED vars
  <2>1. marked_photos' = marked_photos
    BY <1>1 DEF EmitPhoto, EmitEOS, Join, vars
  <2>2. QED
    BY <1>1, <2>1, OtherSteps DEF LastIsEOS
<1>2. CASE Collect
  <2>1. marked_photos # <<>> /\ marked_photos' = Tail(marked_photos)
    BY <1>2 DEF Collect, Popped
  <2>2. marked_photos[Len(marked_photos)] = EOS
    BY <1>2, <2>1, OtherSteps DEF LastIsEOS
  <2>3. QED
    BY <1>s, <2>1, <2>2
<1>3. ASSUME NEW w \in Workers, Inner(w) \/ WorkerPop(w)
      PROVE  marked_photos'[Len(marked_photos')] = EOS
  BY <1>3, InnerSteps, PopStep DEF LastIsEOS
<1>4. ASSUME NEW w \in Workers, PushMarked(w)
      PROVE  marked_photos'[Len(marked_photos')] = EOS
  BY <1>4, PushStep
<1>5. ASSUME NEW w \in Workers, PassOnEOS(w)
      PROVE  marked_photos'[Len(marked_photos')] = EOS
  BY <1>5, <1>s, EOSStep
<1>6. QED
  BY <1>1, <1>2, <1>3, <1>4, <1>5, NextCases

\* Sets of workers can be counted.
LEMMA WorkerSetsFinite ==
  /\ IsFiniteSet(TookEOS) /\ Cardinality(TookEOS) \in Nat
  /\ IsFiniteSet(Returned) /\ Cardinality(Returned) \in Nat
BY FarmAssumption, FS_Subset, FS_CardinalityType DEF TookEOS, Returned

\* A step moves EOS and loses none.
LEMMA ConservedStep ==
  TypeOK /\ HeldIsPhoto /\ EOSConserved /\ [Next]_vars => EOSConserved'
<1> SUFFICES ASSUME TypeOK, HeldIsPhoto, EOSConserved, [Next]_vars
             PROVE  EOSConserved'
  OBVIOUS
<1> DEFINE O == Copies(original_photos, EOS)
           M == Copies(marked_photos, EOS)
           T == Cardinality(TookEOS)
           R == Cardinality(Returned)
<1>s. /\ original_photos \in Seq(Items) /\ marked_photos \in Seq(Items)
      /\ EOS \in Items /\ eos_sent \in Nat /\ count \in Nat
      /\ \A p \in Photos : p # EOS /\ p \in Items
  BY FarmAssumption, WorkerCount DEF TypeOK, Items
<1>n. O \in Nat /\ M \in Nat /\ T \in Nat /\ R \in Nat
  BY <1>s, PlacesFinite, WorkerSetsFinite
<1>i. O + T = eos_sent /\ M + count = R
  BY DEF EOSConserved
<1>g. ASSUME O' + T' = eos_sent', M' + count' = R' PROVE EOSConserved'
  BY <1>g DEF EOSConserved
<1>1. CASE EmitPhoto
  <2>1. /\ original_photos' = Append(original_photos, emitted + 1)
        /\ emitted + 1 \in Photos
        /\ UNCHANGED <<marked_photos, eos_sent, count>>
    BY <1>1, FarmAssumption DEF EmitPhoto, Photos, TypeOK, collectorVars
  <2>2. O' = O
    BY <1>s, <1>n, <2>1, CopiesAppend
  <2>3. QED
    BY <1>1, <1>i, <1>g, <2>1, <2>2, OtherSteps
<1>2. CASE EmitEOS
  <2>1. /\ original_photos' = Append(original_photos, EOS)
        /\ eos_sent' = eos_sent + 1
        /\ UNCHANGED <<marked_photos, count>>
    BY <1>2 DEF EmitEOS, collectorVars
  <2>2. O' = O + 1
    BY <1>s, <2>1, CopiesAppend
  <2>3. T' = T /\ R' = R /\ M' = M
    BY <1>2, <2>1, OtherSteps
  <2>4. O' + T' = eos_sent'
    BY <1>i, <1>n, <2>1, <2>2, <2>3
  <2>5. QED
    BY <1>i, <1>g, <2>1, <2>3, <2>4
<1>3. CASE Collect
  <2>1. /\ marked_photos # <<>>
        /\ marked_photos' = Tail(marked_photos)
        /\ UNCHANGED <<original_photos, eos_sent>>
        /\ count' = count + (IF Head(marked_photos) = EOS THEN 1 ELSE 0)
    BY <1>3, <1>s DEF Collect, Popped, emitterVars
  <2>2. M = M' + (IF Head(marked_photos) = EOS THEN 1 ELSE 0)
    BY <1>s, <2>1, CopiesTail
  <2>3. M' \in Nat
    <3>1. marked_photos' \in Seq(Items)
      BY <1>s, <2>1
    <3>2. QED
      BY <3>1, PlacesFinite
  <2>4. T' = T /\ R' = R /\ O' = O
    BY <1>3, <2>1, OtherSteps
  <2>5. M' + count' = R'
    BY <1>i, <1>n, <1>s, <2>1, <2>2, <2>3, <2>4
  <2>6. QED
    BY <1>i, <1>g, <2>1, <2>4, <2>5
<1>4. CASE Join \/ UNCHANGED vars
  <2>1. UNCHANGED <<original_photos, marked_photos, eos_sent, count>>
    BY <1>4 DEF Join, vars, emitterVars, collectorVars
  <2>2. QED
    BY <1>4, <1>i, <1>g, <2>1, OtherSteps
<1>5. ASSUME NEW w \in Workers, Inner(w) PROVE EOSConserved'
  BY <1>5, <1>i, <1>g, InnerSteps
<1>6. ASSUME NEW w \in Workers, WorkerPop(w) PROVE EOSConserved'
  <2>1. /\ original_photos # <<>>
        /\ original_photos' = Tail(original_photos)
        /\ UNCHANGED <<marked_photos, eos_sent, count>>
        /\ Returned' = Returned
        /\ TookEOS' = TookEOS \cup (IF Head(original_photos) = EOS THEN {w} ELSE {})
        /\ w \notin TookEOS
    BY <1>6, PopStep
  <2>2. O = O' + (IF Head(original_photos) = EOS THEN 1 ELSE 0)
    BY <1>s, <2>1, CopiesTail
  <2>3. T' = T + (IF Head(original_photos) = EOS THEN 1 ELSE 0)
    <3>1. CASE Head(original_photos) = EOS
      BY <2>1, <3>1, WorkerSetsFinite, FS_AddElement
    <3>2. CASE Head(original_photos) # EOS
      BY <1>n, <2>1, <3>2
    <3>3. QED
      BY <3>1, <3>2
  <2>4. O' \in Nat
    <3>1. original_photos' \in Seq(Items)
      BY <1>s, <2>1
    <3>2. QED
      BY <3>1, PlacesFinite
  <2>5. O' + T' = eos_sent'
    BY <1>i, <1>n, <2>1, <2>2, <2>3, <2>4
  <2>6. QED
    BY <1>i, <1>g, <2>1, <2>5
<1>7. ASSUME NEW w \in Workers, PushMarked(w) PROVE EOSConserved'
  <2>1. /\ marked_photos' = Append(marked_photos, q[w])
        /\ UNCHANGED <<original_photos, eos_sent, count>>
        /\ Returned' = Returned /\ TookEOS' = TookEOS /\ Between(w)
    BY <1>7, PushStep
  <2>2. q[w] \in Photos
    BY <2>1 DEF HeldIsPhoto, Between
  <2>3. M' = M
    BY <1>n, <1>s, <2>1, <2>2, CopiesAppend
  <2>4. QED
    BY <1>i, <1>g, <2>1, <2>3
<1>8. ASSUME NEW w \in Workers, PassOnEOS(w) PROVE EOSConserved'
  <2>1. /\ marked_photos' = Append(marked_photos, EOS)
        /\ UNCHANGED <<original_photos, eos_sent, count>>
        /\ Returned' = Returned \cup {w} /\ w \notin Returned
        /\ TookEOS' = TookEOS
    BY <1>8, EOSStep
  <2>2. M' = M + 1
    BY <1>s, <2>1, CopiesAppend
  <2>3. R' = R + 1
    BY <2>1, WorkerSetsFinite, FS_AddElement
  <2>4. M' + count' = R'
    BY <1>i, <1>n, <1>s, <2>1, <2>2, <2>3
  <2>5. QED
    BY <1>i, <1>g, <2>1, <2>4
<1>9. QED
  BY <1>1, <1>2, <1>3, <1>4, <1>5, <1>6, <1>7, <1>8, NextCases

\* All photos are with the emitter.
LEMMA InitFarmInv == Init => FarmInv
<1> SUFFICES ASSUME Init PROVE FarmInv
  OBVIOUS
<1> USE FarmAssumption DEF Init
<1>1. NoneLost
  BY DEF NoneLost, Photos
<1>2. TookEOS = {} /\ Returned = {}
  BY DEF TookEOS, Returned
<1>3. Places(original_photos, EOS) = {} /\ Places(marked_photos, EOS) = {}
  BY DEF Places
<1>4. EOSFollowPhotos
  <2>1. DOMAIN original_photos = {} /\ eos_sent = 0 /\ ~IsIn(EOS, original_photos)
    BY <1>3 DEF IsIn
  <2>2. QED
    BY <1>2, <2>1 DEF EOSFollowPhotos
<1>5. LastIsEOS /\ HeldIsPhoto
  <2>1. marked_photos = <<>> /\ \A w \in Workers : pc[w] = "pop"
    OBVIOUS
  <2>2. QED
    BY <2>1 DEF LastIsEOS, HeldIsPhoto
<1>6. EOSConserved
  <2>1. /\ Cardinality(TookEOS) = 0 /\ Cardinality(Returned) = 0
        /\ Copies(original_photos, EOS) = 0 /\ Copies(marked_photos, EOS) = 0
    BY <1>2, <1>3, FS_EmptySet DEF Copies
  <2>2. eos_sent = 0 /\ count = 0
    OBVIOUS
  <2>3. QED
    BY <2>1, <2>2 DEF EOSConserved
<1>7. QED
  BY <1>1, <1>4, <1>5, <1>6 DEF FarmInv

\* FarmInv holds in every state of farm.cpp.
THEOREM FarmInvariant == Spec => []FarmInv
<1>1. TypeOK /\ FarmInv /\ [Next]_vars => FarmInv'
  <2> SUFFICES ASSUME TypeOK, FarmInv, [Next]_vars PROVE FarmInv'
    OBVIOUS
  <2>1. HeldIsPhoto' /\ NoneLost'
    BY HeldStep, NoneLostStep DEF FarmInv
  <2>2. EOSFollowPhotos' /\ LastIsEOS'
    BY EOSFollowStep, LastStep DEF FarmInv
  <2>3. EOSConserved'
    BY ConservedStep DEF FarmInv
  <2>4. QED
    BY <2>1, <2>2, <2>3 DEF FarmInv
<1>2. QED
  BY <1>1, InitFarmInv, TypeCorrect, PTL DEF Spec

\* The EOS of farm.cpp are conserved: one for each worker, however the workers
\* interleave, so that every worker returns and the collector counts them all.
THEOREM EOSAreConserved == Spec => []EOSConserved
<1>1. FarmInv => EOSConserved
  BY DEF FarmInv
<1>2. QED
  BY <1>1, FarmInvariant, PTL

\* When Collector_Farm returns, every photo is in Photos_Done and both queues are
\* empty, for any number of workers and photos.
THEOREM CollectorLeavesNothing == Spec => []NothingLeftBehind
<1>1. TypeOK /\ FarmInv => NothingLeftBehind
  <2> SUFFICES ASSUME TypeOK, FarmInv, CollectorReturned, Workers # {}
               PROVE  /\ original_photos = <<>> /\ marked_photos = <<>>
                      /\ \A p \in Photos : IsIn(p, Photos_Done)
    BY DEF NothingLeftBehind
  <2> USE DEF FarmInv
  <2>s. /\ original_photos \in Seq(Items) /\ marked_photos \in Seq(Items)
        /\ eos_sent \in 0..number_of_workers /\ EOS \in Items
        /\ Copies(original_photos, EOS) \in Nat /\ Copies(marked_photos, EOS) \in Nat
    BY PlacesFinite DEF TypeOK, Items
  <2>1. Cardinality(Returned) = number_of_workers /\ Copies(marked_photos, EOS) = 0
    <3>1. Copies(marked_photos, EOS) + number_of_workers = Cardinality(Returned)
      BY DEF EOSConserved, CollectorReturned
    <3>2. Cardinality(Returned) <= number_of_workers
      BY FarmAssumption, FS_Subset DEF Returned, number_of_workers
    <3>3. QED
      BY <2>s, <3>1, <3>2, WorkerCount, WorkerSetsFinite
  <2>2. Returned = Workers
    BY <2>1, FarmAssumption, FS_Subset DEF Returned, number_of_workers
  <2>3. TookEOS = Workers
    BY <2>2 DEF Returned, TookEOS
  <2>4. marked_photos = <<>>
    <3> SUFFICES ASSUME marked_photos # <<>> PROVE FALSE
      OBVIOUS
    <3>1. marked_photos[Len(marked_photos)] = EOS
      BY <2>2 DEF LastIsEOS
    <3>2. Len(marked_photos) \in Places(marked_photos, EOS)
      BY <2>s, <3>1 DEF Places
    <3>3. QED
      BY <2>s, <2>1, <3>2, PlacesFinite, FS_EmptySet DEF Copies
  <2>5. original_photos = <<>>
    <3> SUFFICES ASSUME original_photos # <<>> PROVE FALSE
      OBVIOUS
    <3>1. 1 \in Places(original_photos, EOS)
      BY <2>s, <2>3 DEF EOSFollowPhotos, Places
    <3>2. Copies(original_photos, EOS) = 0
      <4>1. Cardinality(TookEOS) = number_of_workers
        BY <2>3 DEF number_of_workers
      <4>2. Copies(original_photos, EOS) + Cardinality(TookEOS) = eos_sent
        BY DEF EOSConserved
      <4>3. QED
        BY <2>s, <4>1, <4>2, WorkerCount
    <3>3. QED
      BY <2>s, <3>1, <3>2, PlacesFinite, FS_EmptySet DEF Copies
  <2>6. ASSUME NEW p \in Photos PROVE IsIn(p, Photos_Done)
    <3>1. emitted = NPhotos
      BY <2>3 DEF EOSFollowPhotos
    <3>2. ~(p > emitted)
      BY <3>1, FarmAssumption DEF Photos
    <3>3. ~IsIn(p, original_photos) /\ ~IsIn(p, marked_photos)
      BY <2>4, <2>5 DEF IsIn, Places
    <3>4. \A w \in Workers : ~Holds(w, p)
      BY <2>2 DEF Returned, Holds
    <3>5. QED
      BY <3>2, <3>3, <3>4 DEF NoneLost
  <2>7. QED
    BY <2>4, <2>5, <2>6
<1>2. QED
  BY <1>1, FarmInvariant, TypeCorrect, PTL

-----------------------------------------------------------------------------
(* Each photo has one owner, and is marked while a worker owns it.         *)

\* The workers that hold the photo, and those of them that have marked it.
Holders(p) == {w \in Workers : q[w] = p /\ Between(w)}
Markers(p) == {w \in Workers : q[w] = p /\ pc[w] = "push"}

WithEmitter(p) == IF p > emitted THEN 1 ELSE 0

\* OneOwner as a number, and what the markings of a photo amount to: it is marked
\* if it is on its way to the collector or there.
OwnedOnce ==
  \A p \in Photos :
    /\ WithEmitter(p) + Copies(original_photos, p) + Cardinality(Holders(p))
         + Copies(marked_photos, p) + Copies(Photos_Done, p) = 1
    /\ times[p] = Cardinality(Markers(p)) + Copies(marked_photos, p)
                    + Copies(Photos_Done, p)

\* Both are sets of workers, and who has marked a photo holds it.
LEMMA HoldersFinite ==
  ASSUME NEW p
  PROVE  /\ IsFiniteSet(Holders(p)) /\ Cardinality(Holders(p)) \in Nat
         /\ IsFiniteSet(Markers(p)) /\ Cardinality(Markers(p)) \in Nat
         /\ Markers(p) \subseteq Holders(p)
<1>1. Holders(p) \subseteq Workers /\ Markers(p) \subseteq Holders(p)
  BY DEF Holders, Markers, Between
<1>2. QED
  BY <1>1, FarmAssumption, FS_Subset, FS_CardinalityType

\* The steps of a worker that move no photo: who holds one still does.
LEMMA InnerHolders ==
  ASSUME TypeOK, NEW w \in Workers, NEW p,
         LoadCounter(w) \/ StoreCounter(w) \/ TestCounter(w) \/ Sample(w) \/ PassOnEOS(w)
  PROVE  Holders(p)' = Holders(p) /\ Markers(p)' = Markers(p) /\ times' = times
<1>1. q' = q /\ times' = times
  BY DEF LoadCounter, StoreCounter, TestCounter, Sample, PassOnEOS
<1>2. PICK a \in WorkerPC :
        /\ pc' = [pc EXCEPT ![w] = a]
        /\ pc[w] # "push" /\ a # "push"
        /\ a \in {"load", "store", "mark", "push"} <=> Between(w)
  BY DEF LoadCounter, StoreCounter, TestCounter, Sample, PassOnEOS, Goto,
         Between, WorkerPC
<1>3. pc \in [Workers -> WorkerPC]
  BY DEF TypeOK
<1>4. \A v \in Workers : (Between(v)' <=> Between(v)) /\ (pc'[v] = "push" <=> pc[v] = "push")
  BY <1>2, <1>3 DEF Between
<1>5. QED
  BY <1>1, <1>4 DEF Holders, Markers

\* Taking a photo makes the worker its holder.
LEMMA PopHolders ==
  ASSUME TypeOK, NEW w \in Workers, WorkerPop(w), NEW p \in Photos
  PROVE  /\ Holders(p)' = Holders(p) \cup (IF Head(original_photos) = p THEN {w} ELSE {})
         /\ w \notin Holders(p)
         /\ Markers(p)' = Markers(p) /\ times' = times
<1>1. /\ pc \in [Workers -> WorkerPC] /\ q \in [Workers -> Items] /\ p # EOS
      /\ Head(original_photos) \in Items
  BY PopStep, FarmAssumption DEF TypeOK
<1>2. /\ pc[w] = "pop"
      /\ q' = [q EXCEPT ![w] = Head(original_photos)]
      /\ pc' = [pc EXCEPT ![w] = IF Head(original_photos) # EOS THEN "load" ELSE "eos"]
      /\ times' = times
  BY DEF WorkerPop, Goto
<1>3. \A v \in Workers \ {w} : q'[v] = q[v] /\ pc'[v] = pc[v]
  BY <1>1, <1>2
<1>4. /\ q'[w] = Head(original_photos) /\ pc'[w] # "push"
      /\ pc'[w] \in {"load", "store", "mark", "push"} <=> Head(original_photos) # EOS
  BY <1>1, <1>2
<1>5. QED
  BY <1>1, <1>2, <1>3, <1>4 DEF Holders, Markers, Between

\* Marking makes the holder a marker.
LEMMA MarkHolders ==
  ASSUME TypeOK, NEW w \in Workers, Mark(w), NEW p \in Photos
  PROVE  /\ Holders(p)' = Holders(p)
         /\ Markers(p)' = Markers(p) \cup (IF q[w] = p THEN {w} ELSE {})
         /\ w \notin Markers(p)
         /\ times'[p] = times[p] + (IF q[w] = p THEN 1 ELSE 0)
<1>1. pc \in [Workers -> WorkerPC] /\ times \in [Photos -> Nat]
  BY DEF TypeOK
<1>2. /\ pc[w] = "mark" /\ q' = q
      /\ pc' = [pc EXCEPT ![w] = "push"]
      /\ times' = [times EXCEPT ![q[w]] = @ + 1]
  BY DEF Mark, Goto
<1>3. /\ \A v \in Workers \ {w} : pc'[v] = pc[v]
      /\ pc'[w] = "push"
  BY <1>1, <1>2
<1>4. times'[p] = times[p] + (IF q[w] = p THEN 1 ELSE 0)
  <2>1. CASE q[w] = p
    BY <1>1, <1>2, <2>1
  <2>2. CASE q[w] # p
    BY <1>1, <1>2, <2>2
  <2>3. QED
    BY <2>1, <2>2
<1>5. QED
  BY <1>2, <1>3, <1>4 DEF Holders, Markers, Between

\* Pushing it ends both.
LEMMA PushHolders ==
  ASSUME TypeOK, NEW w \in Workers, PushMarked(w), NEW p \in Photos
  PROVE  /\ Holders(p)' = Holders(p) \ (IF q[w] = p THEN {w} ELSE {})
         /\ Markers(p)' = Markers(p) \ (IF q[w] = p THEN {w} ELSE {})
         /\ q[w] = p => w \in Holders(p) /\ w \in Markers(p)
         /\ times' = times
<1>1. pc \in [Workers -> WorkerPC]
  BY DEF TypeOK
<1>2. /\ pc[w] = "push" /\ q' = q /\ times' = times
      /\ pc' = [pc EXCEPT ![w] = "test"]
  BY DEF PushMarked, Goto
<1>3. /\ \A v \in Workers \ {w} : pc'[v] = pc[v]
      /\ pc'[w] = "test"
  BY <1>1, <1>2
<1>4. QED
  BY <1>2, <1>3 DEF Holders, Markers, Between

\* OwnedOnce is preserved: every step moves at most one unit of a photo's sum from
\* one term to the next.
LEMMA OwnedStep ==
  TypeOK /\ HeldIsPhoto /\ OwnedOnce /\ [Next]_vars => OwnedOnce'
<1> SUFFICES ASSUME TypeOK, HeldIsPhoto, OwnedOnce, [Next]_vars, NEW p \in Photos
             PROVE  /\ WithEmitter(p)' + Copies(original_photos, p)'
                         + Cardinality(Holders(p))' + Copies(marked_photos, p)'
                         + Copies(Photos_Done, p)' = 1
                    /\ times'[p] = Cardinality(Markers(p))'
                                     + Copies(marked_photos, p)'
                                     + Copies(Photos_Done, p)'
  BY DEF OwnedOnce
<1> DEFINE E == WithEmitter(p)
           O == Copies(original_photos, p)
           H == Cardinality(Holders(p))
           M == Copies(marked_photos, p)
           D == Copies(Photos_Done, p)
           K == Cardinality(Markers(p))
           T == times[p]
           Goal == E' + O' + H' + M' + D' = 1 /\ T' = K' + M' + D'
<1>s. /\ original_photos \in Seq(Items) /\ marked_photos \in Seq(Items)
      /\ Photos_Done \in Seq(Photos) /\ times \in [Photos -> Nat]
      /\ EOS \in Items /\ emitted \in 0..NPhotos /\ NPhotos \in Nat
      /\ p # EOS /\ p \in Items /\ p \in Nat
  BY FarmAssumption DEF TypeOK, Items, Photos
<1>n. E \in Nat /\ O \in Nat /\ H \in Nat /\ M \in Nat /\ D \in Nat
      /\ K \in Nat /\ T \in Nat
  BY <1>s, PlacesFinite, HoldersFinite DEF WithEmitter
<1>i. E + O + H + M + D = 1 /\ T = K + M + D
  BY DEF OwnedOnce
<1>1. CASE EmitPhoto
  <2>1. /\ original_photos' = Append(original_photos, emitted + 1)
        /\ emitted' = emitted + 1 /\ emitted + 1 \in Items
        /\ UNCHANGED <<marked_photos, Photos_Done, pc, q, times>>
    BY <1>1, <1>s DEF EmitPhoto, collectorVars, Items, Photos
  <2>2. O' = O + (IF emitted + 1 = p THEN 1 ELSE 0)
    BY <1>s, <2>1, CopiesAppend
  <2>3. E = E' + (IF emitted + 1 = p THEN 1 ELSE 0) /\ E' \in Nat
    BY <1>s, <2>1 DEF WithEmitter
  <2>4. H' = H /\ K' = K /\ M' = M /\ D' = D /\ T' = T
    BY <2>1 DEF Holders, Markers, Between
  <2>5. E' + O' = E + O
    BY <1>n, <2>2, <2>3
  <2>6. Goal
    BY <1>i, <2>4, <2>5
  <2>7. QED
    BY <2>6
<1>2. CASE EmitEOS
  <2>1. /\ original_photos' = Append(original_photos, EOS)
        /\ UNCHANGED <<emitted, marked_photos, Photos_Done, pc, q, times>>
    BY <1>2 DEF EmitEOS, collectorVars
  <2>2. O' = O
    BY <1>s, <1>n, <2>1, CopiesAppend, SMTT(30)
  <2>3. E' = E /\ H' = H /\ K' = K /\ M' = M /\ D' = D /\ T' = T
    BY <2>1 DEF WithEmitter, Holders, Markers, Between
  <2>4. Goal
    BY <1>i, <2>2, <2>3
  <2>5. QED
    BY <2>4
<1>3. CASE Collect
  <2>1. /\ marked_photos # <<>>
        /\ marked_photos' = Tail(marked_photos)
        /\ Head(marked_photos) \in Items
        /\ UNCHANGED <<emitted, original_photos, pc, q, times>>
    BY <1>3, <1>s DEF Collect, Popped, emitterVars
  <2>2. M = M' + (IF Head(marked_photos) = p THEN 1 ELSE 0) /\ M' \in Nat
    <3>1. Tail(marked_photos) \in Seq(Items)
      BY <1>s, <2>1
    <3>2. QED
      BY <1>s, <2>1, <3>1, CopiesTail, PlacesFinite
  <2>3. D' = D + (IF Head(marked_photos) = p THEN 1 ELSE 0)
    <3>1. CASE Head(marked_photos) = EOS
      BY <1>3, <1>s, <1>n, <3>1 DEF Collect
    <3>2. CASE Head(marked_photos) # EOS
      <4>1. /\ Head(marked_photos) \in Photos
            /\ Photos_Done' = Append(Photos_Done, Head(marked_photos))
        BY <1>3, <2>1, <3>2 DEF Collect, Items
      <4>2. QED
        BY <1>s, <4>1, CopiesAppend
    <3>3. QED
      BY <3>1, <3>2
  <2>4. E' = E /\ O' = O /\ H' = H /\ K' = K /\ T' = T
    BY <2>1 DEF WithEmitter, Holders, Markers, Between
  <2>5. M' + D' = M + D /\ D' \in Nat
    BY <1>n, <2>2, <2>3
  <2>6. E' + O' + H' + M' + D' = 1
    BY <1>i, <1>n, <2>2, <2>4, <2>5
  <2>7. T' = K' + M' + D'
    <3>1. K' + M' + D' = K + (M + D)
      BY <1>n, <2>2, <2>4, <2>5
    <3>2. T' = K + (M + D)
      BY <1>i, <1>n, <2>4
    <3>3. QED
      BY <3>1, <3>2
  <2>8. QED
    BY <2>6, <2>7
<1>4. CASE Join \/ UNCHANGED vars
  <2>1. UNCHANGED <<emitted, original_photos, marked_photos, Photos_Done, pc, q, times>>
    BY <1>4 DEF Join, vars, emitterVars, collectorVars
  <2>2. E' = E /\ O' = O /\ H' = H /\ K' = K /\ M' = M /\ D' = D /\ T' = T
    BY <2>1 DEF WithEmitter, Holders, Markers, Between
  <2>3. Goal
    BY <1>i, <2>2
  <2>4. QED
    BY <2>3
<1>5. ASSUME NEW w \in Workers, Inner(w) PROVE Goal
  <2>1. E' = E /\ O' = O /\ M' = M /\ D' = D
    BY <1>5, InnerSteps DEF WithEmitter
  <2>2. CASE Mark(w)
    <3>1. /\ H' = H
          /\ T' = T + (IF q[w] = p THEN 1 ELSE 0)
      BY <2>2, MarkHolders
    <3>2. K' = K + (IF q[w] = p THEN 1 ELSE 0)
      <4>1. CASE q[w] = p
        <5>1. /\ Markers(p)' = Markers(p) \cup {w}
              /\ w \notin Markers(p)
          BY <2>2, <4>1, MarkHolders
        <5>2. QED
          BY <4>1, <5>1, HoldersFinite, FS_AddElement
      <4>2. CASE q[w] # p
        BY <1>n, <2>2, <4>2, MarkHolders
      <4>3. QED
        BY <4>1, <4>2
    <3>3. T' = K' + M' + D'
      BY <1>i, <1>n, <2>1, <3>1, <3>2
    <3>4. QED
      BY <1>i, <2>1, <3>1, <3>3
  <2>3. CASE ~Mark(w)
    <3>1. H' = H /\ K' = K /\ T' = T
      BY <1>5, <2>3, InnerHolders DEF Inner
    <3>2. QED
      BY <1>i, <2>1, <3>1
  <2>4. QED
    BY <2>2, <2>3
<1>6. ASSUME NEW w \in Workers, WorkerPop(w) PROVE Goal
  <2>1. /\ original_photos # <<>>
        /\ original_photos' = Tail(original_photos)
        /\ UNCHANGED <<emitted, marked_photos, Photos_Done>>
    BY <1>6, PopStep
  <2>2. O = O' + (IF Head(original_photos) = p THEN 1 ELSE 0) /\ O' \in Nat
    <3>1. Tail(original_photos) \in Seq(Items)
      BY <1>s, <2>1
    <3>2. QED
      BY <1>s, <2>1, <3>1, CopiesTail, PlacesFinite
  <2>3. H' = H + (IF Head(original_photos) = p THEN 1 ELSE 0)
    <3>1. CASE Head(original_photos) = p
      <4>1. Holders(p)' = Holders(p) \cup {w} /\ w \notin Holders(p)
        BY <1>6, <3>1, PopHolders
      <4>2. QED
        BY <3>1, <4>1, HoldersFinite, FS_AddElement
    <3>2. CASE Head(original_photos) # p
      <4>1. Holders(p)' = Holders(p)
        BY <1>6, <3>2, PopHolders
      <4>2. QED
        BY <1>n, <3>2, <4>1
    <3>3. QED
      BY <3>1, <3>2
  <2>4. E' = E /\ M' = M /\ D' = D /\ K' = K /\ T' = T
    BY <1>6, <2>1, PopHolders DEF WithEmitter
  <2>5. O' + H' = O + H
    BY <1>n, <2>2, <2>3
  <2>6. E' + O' + H' + M' + D' = 1
    BY <1>i, <1>n, <2>2, <2>3, <2>4, <2>5
  <2>7. QED
    BY <1>i, <2>4, <2>6
<1>7. ASSUME NEW w \in Workers, PushMarked(w) PROVE Goal
  <2>1. /\ marked_photos' = Append(marked_photos, q[w])
        /\ UNCHANGED <<emitted, original_photos, Photos_Done>>
        /\ Between(w)
    BY <1>7, PushStep
  <2>2. q[w] \in Items
    BY <2>1 DEF HeldIsPhoto, Between, Items
  <2>3. M' = M + (IF q[w] = p THEN 1 ELSE 0)
    BY <1>s, <2>1, <2>2, CopiesAppend
  <2>4. /\ H = H' + (IF q[w] = p THEN 1 ELSE 0)
        /\ K = K' + (IF q[w] = p THEN 1 ELSE 0)
        /\ H' \in Nat /\ K' \in Nat
    <3>1. CASE q[w] = p
      <4>1. /\ Holders(p)' = Holders(p) \ {w} /\ w \in Holders(p)
            /\ Markers(p)' = Markers(p) \ {w} /\ w \in Markers(p)
        BY <1>7, <3>1, PushHolders
      <4>2. H' = H - 1 /\ K' = K - 1
        BY <4>1, HoldersFinite, FS_RemoveElement, ZenonT(60)
      <4>3. H # 0 /\ K # 0
        BY <4>1, HoldersFinite, FS_EmptySet
      <4>4. QED
        BY <1>n, <3>1, <4>2, <4>3
    <3>2. CASE q[w] # p
      <4>1. Holders(p)' = Holders(p) /\ Markers(p)' = Markers(p)
        BY <1>7, <3>2, PushHolders, ZenonT(60)
      <4>2. QED
        BY <1>n, <3>2, <4>1
    <3>3. QED
      BY <3>1, <3>2
  <2>5. E' = E /\ O' = O /\ D' = D /\ T' = T
    BY <1>7, <2>1, PushHolders DEF WithEmitter
  <2>6. E' + O' + H' + M' + D' = 1
    BY <1>i, <1>n, <2>3, <2>4, <2>5
  <2>7. T' = K' + M' + D'
    BY <1>i, <1>n, <2>3, <2>4, <2>5
  <2>8. QED
    BY <2>6, <2>7
<1>8. ASSUME NEW w \in Workers, PassOnEOS(w) PROVE Goal
  <2>1. /\ marked_photos' = Append(marked_photos, EOS)
        /\ UNCHANGED <<emitted, original_photos, Photos_Done>>
    BY <1>8, EOSStep
  <2>2. M' = M
    <3>1. M' = M + (IF EOS = p THEN 1 ELSE 0)
      BY <1>s, <2>1, CopiesAppend
    <3>2. QED
      BY <1>s, <1>n, <3>1
  <2>3. E' = E /\ O' = O /\ D' = D /\ H' = H /\ K' = K /\ T' = T
    <3>1. Holders(p)' = Holders(p) /\ Markers(p)' = Markers(p) /\ times' = times
      BY <1>8, InnerHolders
    <3>2. QED
      BY <2>1, <3>1 DEF WithEmitter
  <2>4. QED
    BY <1>i, <2>2, <2>3
<1>9. QED
  BY <1>1, <1>2, <1>3, <1>4, <1>5, <1>6, <1>7, <1>8, NextCases

\* Initially every photo is with the emitter and unmarked.
LEMMA InitOwned == Init => OwnedOnce
<1> SUFFICES ASSUME Init, NEW p \in Photos
             PROVE  /\ WithEmitter(p) + Copies(original_photos, p)
                         + Cardinality(Holders(p)) + Copies(marked_photos, p)
                         + Copies(Photos_Done, p) = 1
                    /\ times[p] = Cardinality(Markers(p)) + Copies(marked_photos, p)
                                    + Copies(Photos_Done, p)
  BY DEF OwnedOnce
<1>1. Holders(p) = {} /\ Markers(p) = {}
  BY DEF Init, Holders, Markers, Between
<1>2. Places(original_photos, p) = {} /\ Places(marked_photos, p) = {}
      /\ Places(Photos_Done, p) = {}
  BY DEF Init, Places
<1>3. WithEmitter(p) = 1 /\ times[p] = 0
  BY FarmAssumption DEF Init, WithEmitter, Photos
<1>4. QED
  BY <1>1, <1>2, <1>3, FS_EmptySet DEF Copies

\* OwnedOnce holds in every state of farm.cpp.
THEOREM OwnedOnceHolds == Spec => []OwnedOnce
<1>1. TypeOK /\ FarmInv /\ OwnedOnce /\ [Next]_vars => OwnedOnce'
  BY OwnedStep DEF FarmInv
<1>2. QED
  BY <1>1, InitOwned, TypeCorrect, FarmInvariant, PTL DEF Spec

\* Every pointer of photos is at one place at a time, however the threads
\* interleave: farm.cpp loses no photo and never lets two threads have one.
THEOREM PhotosHaveOneOwner == Spec => []OneOwner
<1>1. TypeOK /\ OwnedOnce => OneOwner
  <2> SUFFICES ASSUME TypeOK, OwnedOnce, NEW p \in Photos
               PROVE  \E o \in Owners(p) : Owners(p) = {o}
    BY DEF OneOwner
  <2> DEFINE EE == IF p > emitted THEN {<<"emitter", 0>>} ELSE {}
             OO == Places(original_photos, p)
             HH == Holders(p)
             MM == Places(marked_photos, p)
             DD == Places(Photos_Done, p)
  <2>1. /\ IsFiniteSet(OO) /\ IsFiniteSet(HH) /\ IsFiniteSet(MM) /\ IsFiniteSet(DD)
        /\ Cardinality(OO) \in Nat /\ Cardinality(HH) \in Nat
        /\ Cardinality(MM) \in Nat /\ Cardinality(DD) \in Nat
    BY PlacesFinite, HoldersFinite DEF TypeOK, Copies
  <2>2. WithEmitter(p) + Cardinality(OO) + Cardinality(HH) + Cardinality(MM)
          + Cardinality(DD) = 1
    BY DEF OwnedOnce, Copies
  <2>3. Owners(p) = EE \cup {<<"original_photos", i>> : i \in OO}
                      \cup {<<"worker", w>> : w \in HH}
                      \cup {<<"marked_photos", i>> : i \in MM}
                      \cup {<<"Photos_Done", i>> : i \in DD}
    <3>1. {v \in Workers : Holds(v, p)} = HH
      BY DEF Holds, Holders, Between
    <3>2. QED
      BY <3>1 DEF Owners
  <2>4. /\ WithEmitter(p) \in {0, 1}
        /\ WithEmitter(p) = 1 => EE = {<<"emitter", 0>>}
        /\ WithEmitter(p) = 0 => EE = {}
    BY DEF WithEmitter
  <2>5. /\ Cardinality(OO) = 0 => OO = {}
        /\ Cardinality(HH) = 0 => HH = {}
        /\ Cardinality(MM) = 0 => MM = {}
        /\ Cardinality(DD) = 0 => DD = {}
    BY <2>1, FS_EmptySet
  <2>6. /\ Cardinality(OO) = 1 => \E i : OO = {i}
        /\ Cardinality(HH) = 1 => \E i : HH = {i}
        /\ Cardinality(MM) = 1 => \E i : MM = {i}
        /\ Cardinality(DD) = 1 => \E i : DD = {i}
    BY <2>1, FS_Singleton
  <2>7. \/ /\ WithEmitter(p) = 1 /\ Cardinality(OO) = 0 /\ Cardinality(HH) = 0
           /\ Cardinality(MM) = 0 /\ Cardinality(DD) = 0
        \/ /\ WithEmitter(p) = 0 /\ Cardinality(OO) = 1 /\ Cardinality(HH) = 0
           /\ Cardinality(MM) = 0 /\ Cardinality(DD) = 0
        \/ /\ WithEmitter(p) = 0 /\ Cardinality(OO) = 0 /\ Cardinality(HH) = 1
           /\ Cardinality(MM) = 0 /\ Cardinality(DD) = 0
        \/ /\ WithEmitter(p) = 0 /\ Cardinality(OO) = 0 /\ Cardinality(HH) = 0
           /\ Cardinality(MM) = 1 /\ Cardinality(DD) = 0
        \/ /\ WithEmitter(p) = 0 /\ Cardinality(OO) = 0 /\ Cardinality(HH) = 0
           /\ Cardinality(MM) = 0 /\ Cardinality(DD) = 1
    <3> HIDE DEF OO, HH, MM, DD
    <3>1. QED
      BY <2>1, <2>2, <2>4
  <2> HIDE DEF EE, OO, HH, MM, DD
  <2>8. \E o : Owners(p) = {o}
    <3>1. CASE /\ WithEmitter(p) = 1 /\ Cardinality(OO) = 0 /\ Cardinality(HH) = 0
              /\ Cardinality(MM) = 0 /\ Cardinality(DD) = 0
      <4>1. OO = {} /\ HH = {} /\ MM = {} /\ DD = {}
        BY <2>4, <2>5, <3>1
      <4>2. Owners(p) = {<<"emitter", 0>>}
        BY <2>3, <2>4, <3>1, <4>1
      <4>3. QED
        BY <4>2
    <3>2. CASE /\ WithEmitter(p) = 0 /\ Cardinality(OO) = 1 /\ Cardinality(HH) = 0
              /\ Cardinality(MM) = 0 /\ Cardinality(DD) = 0
      <4>1. EE = {} /\ HH = {} /\ MM = {} /\ DD = {}
        BY <2>4, <2>5, <3>2
      <4>2. PICK i : OO = {i}
        BY <2>6, <3>2
      <4>3. Owners(p) = {<<"original_photos", i>>}
        BY <2>3, <4>1, <4>2
      <4>4. QED
        BY <4>3
    <3>3. CASE /\ WithEmitter(p) = 0 /\ Cardinality(OO) = 0 /\ Cardinality(HH) = 1
              /\ Cardinality(MM) = 0 /\ Cardinality(DD) = 0
      <4>1. EE = {} /\ OO = {} /\ MM = {} /\ DD = {}
        BY <2>4, <2>5, <3>3
      <4>2. PICK i : HH = {i}
        BY <2>6, <3>3
      <4>3. Owners(p) = {<<"worker", i>>}
        BY <2>3, <4>1, <4>2
      <4>4. QED
        BY <4>3
    <3>4. CASE /\ WithEmitter(p) = 0 /\ Cardinality(OO) = 0 /\ Cardinality(HH) = 0
              /\ Cardinality(MM) = 1 /\ Cardinality(DD) = 0
      <4>1. EE = {} /\ OO = {} /\ HH = {} /\ DD = {}
        BY <2>4, <2>5, <3>4
      <4>2. PICK i : MM = {i}
        BY <2>6, <3>4
      <4>3. Owners(p) = {<<"marked_photos", i>>}
        BY <2>3, <4>1, <4>2
      <4>4. QED
        BY <4>3
    <3>5. CASE /\ WithEmitter(p) = 0 /\ Cardinality(OO) = 0 /\ Cardinality(HH) = 0
              /\ Cardinality(MM) = 0 /\ Cardinality(DD) = 1
      <4>1. EE = {} /\ OO = {} /\ HH = {} /\ MM = {}
        BY <2>4, <2>5, <3>5
      <4>2. PICK i : DD = {i}
        BY <2>6, <3>5
      <4>3. Owners(p) = {<<"Photos_Done", i>>}
        BY <2>3, <4>1, <4>2
      <4>4. QED
        BY <4>3
    <3>6. QED
      BY <2>7, <3>1, <3>2, <3>3, <3>4, <3>5
  <2>9. QED
    BY <2>8
<1>2. QED
  BY <1>1, TypeCorrect, OwnedOnceHolds, PTL

-----------------------------------------------------------------------------
(* The farm implements MarkedBatch.                                        *)

\* A photo between the two halves of a marking has not been marked yet.
LEMMA MarkIsFirst ==
  ASSUME TypeOK, HeldIsPhoto, OwnedOnce, NEW w \in Workers, Mark(w)
  PROVE  q[w] \in Photos /\ times[q[w]] = 0
<1> DEFINE p == q[w]
<1>1. pc[w] = "mark" /\ p \in Photos
  BY DEF Mark, HeldIsPhoto
<1>2. w \in Holders(p) /\ w \notin Markers(p)
  BY <1>1 DEF Holders, Markers, Between
<1> HIDE DEF p
<1>3. /\ Copies(original_photos, p) \in Nat /\ Copies(marked_photos, p) \in Nat
      /\ Copies(Photos_Done, p) \in Nat /\ WithEmitter(p) \in Nat
  BY PlacesFinite DEF TypeOK, WithEmitter
<1>4. WithEmitter(p) + Copies(original_photos, p) + Cardinality(Holders(p))
         + Copies(marked_photos, p) + Copies(Photos_Done, p) = 1
  BY <1>1 DEF OwnedOnce
<1>5. times[p] = Cardinality(Markers(p)) + Copies(marked_photos, p)
                   + Copies(Photos_Done, p)
  BY <1>1 DEF OwnedOnce
<1>6. Cardinality(Holders(p)) # 0 /\ Cardinality(Holders(p)) \in Nat
  BY <1>2, HoldersFinite, FS_EmptySet
<1>7. /\ Cardinality(Holders(p)) = 1
      /\ Copies(marked_photos, p) = 0 /\ Copies(Photos_Done, p) = 0
  <2> DEFINE E == WithEmitter(p)
             O == Copies(original_photos, p)
             H == Cardinality(Holders(p))
             M == Copies(marked_photos, p)
             D == Copies(Photos_Done, p)
  <2>1. /\ E \in Nat /\ O \in Nat /\ H \in Nat /\ M \in Nat /\ D \in Nat
        /\ H # 0 /\ E + O + H + M + D = 1
    BY <1>3, <1>4, <1>6
  <2> HIDE DEF E, O, H, M, D
  <2>2. H = 1 /\ M = 0 /\ D = 0
    BY <2>1
  <2>3. QED
    BY <2>2 DEF H, M, D
<1>8. Markers(p) = {}
  <2>1. PICK v : Holders(p) = {v}
    BY <1>7, HoldersFinite, FS_Singleton
  <2>2. QED
    BY <1>2, <2>1, HoldersFinite
<1>9. Cardinality(Markers(p)) = 0
  BY <1>8, FS_EmptySet
<1>10. times[p] = 0
  BY <1>5, <1>7, <1>9
<1>11. QED
  BY <1>1, <1>10 DEF p

\* A photo in marked_photos has been marked once and is not stored yet.
LEMMA CollectIsFirst ==
  ASSUME TypeOK, OwnedOnce, marked_photos # <<>>, NEW p \in Photos,
         Head(marked_photos) = p
  PROVE  times[p] = 1 /\ ~IsIn(p, Photos_Done)
<1>1. 1 \in Places(marked_photos, p)
  BY DEF TypeOK, Places
<1>2. /\ Copies(original_photos, p) \in Nat /\ Copies(marked_photos, p) \in Nat
      /\ Copies(Photos_Done, p) \in Nat /\ WithEmitter(p) \in Nat
      /\ IsFiniteSet(Places(marked_photos, p)) /\ IsFiniteSet(Places(Photos_Done, p))
  BY PlacesFinite DEF TypeOK, WithEmitter
<1>3. WithEmitter(p) + Copies(original_photos, p) + Cardinality(Holders(p))
         + Copies(marked_photos, p) + Copies(Photos_Done, p) = 1
  BY DEF OwnedOnce
<1>4. times[p] = Cardinality(Markers(p)) + Copies(marked_photos, p)
                   + Copies(Photos_Done, p)
  BY DEF OwnedOnce
<1>5. Copies(marked_photos, p) # 0
  BY <1>1, <1>2, FS_EmptySet DEF Copies
<1>6. Cardinality(Holders(p)) \in Nat
  BY HoldersFinite
<1>7. /\ Cardinality(Holders(p)) = 0
      /\ Copies(marked_photos, p) = 1 /\ Copies(Photos_Done, p) = 0
  BY <1>2, <1>3, <1>5, <1>6
<1>8. Cardinality(Markers(p)) = 0
  BY <1>7, HoldersFinite, FS_EmptySet
<1>9. Places(Photos_Done, p) = {}
  BY <1>2, <1>7, FS_EmptySet DEF Copies
<1>10. QED
  BY <1>4, <1>7, <1>8, <1>9 DEF IsIn

\* farm.cpp marks every photo exactly once, hands it over once and only when it
\* is marked, and all of them before main() goes on, for any number of photos and
\* of workers but none: with none main() would join at once.
THEOREM FarmImplementsBatch == ASSUME Workers # {} PROVE Spec => ImplementsBatch
<1>1. Init => Batch!BatchInit
  BY DEF Init, Batch!BatchInit
<1>2. TypeOK /\ FarmInv /\ OwnedOnce /\ NothingLeftBehind /\ [Next]_vars
        => [Batch!BatchNext]_(Batch!batchVars)
  <2> SUFFICES ASSUME TypeOK, HeldIsPhoto, OwnedOnce, NothingLeftBehind, [Next]_vars
               PROVE  [Batch!BatchNext]_(Batch!batchVars)
    BY DEF FarmInv
  <2>1. ASSUME UNCHANGED <<times, Photos_Done, main>>
        PROVE  [Batch!BatchNext]_(Batch!batchVars)
    BY <2>1 DEF Batch!batchVars
  <2>2. CASE EmitPhoto \/ EmitEOS \/ UNCHANGED vars
    BY <2>1, <2>2 DEF EmitPhoto, EmitEOS, vars, collectorVars
  <2>3. CASE Collect
    <3>1. marked_photos # <<>> /\ UNCHANGED <<times, main>>
      BY <2>3 DEF Collect
    <3>2. CASE Head(marked_photos) = EOS
      BY <2>1, <2>3, <3>1, <3>2 DEF Collect
    <3>3. CASE Head(marked_photos) # EOS
      <4> DEFINE p == Head(marked_photos)
      <4>1. p \in Photos /\ Photos_Done' = Append(Photos_Done, p)
        BY <2>3, <3>1, <3>3 DEF Collect, TypeOK, Items
      <4>2. times[p] = 1 /\ ~IsIn(p, Photos_Done)
        BY <3>1, <4>1, CollectIsFirst
      <4>3. Batch!HandOver(p)
        BY <3>1, <4>1, <4>2 DEF Batch!HandOver, Batch!IsIn, Batch!Places, IsIn, Places
      <4>4. QED
        BY <4>1, <4>3 DEF Batch!BatchNext
    <3>4. QED
      BY <3>2, <3>3
  <2>4. CASE Join
    <3>1. /\ main = "joining" /\ main' = "joined" /\ CollectorReturned
          /\ UNCHANGED <<times, Photos_Done>>
      BY <2>4 DEF Join, collectorVars
    <3>2. \A p \in Photos : IsIn(p, Photos_Done)
      BY <3>1 DEF NothingLeftBehind
    <3>3. Batch!Finish
      BY <3>1, <3>2 DEF Batch!Finish, Batch!IsIn, Batch!Places, IsIn, Places
    <3>4. QED
      BY <3>3 DEF Batch!BatchNext
  <2>5. ASSUME NEW w \in Workers, Inner(w), ~Mark(w)
        PROVE  [Batch!BatchNext]_(Batch!batchVars)
    BY <2>1, <2>5 DEF Inner, LoadCounter, StoreCounter, TestCounter, Sample,
                      collectorVars
  <2>6. ASSUME NEW w \in Workers, Mark(w)
        PROVE  [Batch!BatchNext]_(Batch!batchVars)
    <3>1. q[w] \in Photos /\ times[q[w]] = 0
      BY <2>6, MarkIsFirst
    <3>2. /\ times' = [times EXCEPT ![q[w]] = @ + 1]
          /\ UNCHANGED <<Photos_Done, main>>
      BY <2>6 DEF Mark, collectorVars
    <3>3. times' = [times EXCEPT ![q[w]] = 1]
      BY <3>1, <3>2
    <3>4. Batch!MarkPhoto(q[w])
      BY <3>1, <3>2, <3>3 DEF Batch!MarkPhoto
    <3>5. QED
      BY <3>1, <3>4 DEF Batch!BatchNext
  <2>7. ASSUME NEW w \in Workers, WorkerPop(w) \/ PushMarked(w) \/ PassOnEOS(w)
        PROVE  [Batch!BatchNext]_(Batch!batchVars)
    BY <2>1, <2>7 DEF WorkerPop, PushMarked, PassOnEOS, collectorVars
  <2>8. QED
    BY <2>2, <2>3, <2>4, <2>5, <2>6, <2>7, NextCases
<1>3. QED
  BY <1>1, <1>2, TypeCorrect, FarmInvariant, OwnedOnceHolds, CollectorLeavesNothing,
     PTL DEF Spec, ImplementsBatch, Batch!BatchSpec

-----------------------------------------------------------------------------
(* The parallel time.                                                      *)

\* At the first EOS, every photo that is not marked is in the hands of a worker
\* that has not returned, and no worker holds two.
LEMMA FewUnmarked ==
  ASSUME TypeOK, FarmInv, OwnedOnce, marked_photos # <<>>, Head(marked_photos) = EOS
  PROVE  Cardinality({p \in Photos : ~(times[p] > 0)}) < number_of_workers
<1> DEFINE U == {p \in Photos : ~(times[p] > 0)}
           T == Workers \ Returned
           f == [p \in U |-> CHOOSE w \in T : q[w] = p]
<1>s. /\ marked_photos \in Seq(Items) /\ original_photos \in Seq(Items)
      /\ emitted \in 0..NPhotos /\ count \in Nat /\ NPhotos \in Nat
      /\ EOS \in Items /\ times \in [Photos -> Nat] /\ Photos_Done \in Seq(Photos)
  BY FarmAssumption, WorkerCount DEF TypeOK, Items
<1>1. Returned # {}
  <2>1. 1 \in Places(marked_photos, EOS)
    BY <1>s DEF Places
  <2>2. Copies(marked_photos, EOS) # 0 /\ Copies(marked_photos, EOS) \in Nat
    BY <1>s, <2>1, PlacesFinite, FS_EmptySet DEF Copies
  <2>3. Copies(marked_photos, EOS) + count = Cardinality(Returned)
    BY DEF FarmInv, EOSConserved
  <2>4. Cardinality(Returned) # 0
    BY <1>s, <2>2, <2>3
  <2>5. QED
    BY <2>4, FS_EmptySet
<1>2. /\ emitted = NPhotos
      /\ \A k \in DOMAIN original_photos : original_photos[k] = EOS
  <2>1. TookEOS # {}
    BY <1>1 DEF Returned, TookEOS
  <2>2. QED
    BY <2>1 DEF FarmInv, EOSFollowPhotos
<1>3. ASSUME NEW p \in U PROVE \E w \in T : q[w] = p
  <2>1. p \in Photos /\ times[p] = 0
    BY <1>s
  <2>2. /\ ~(p > emitted)
        /\ ~IsIn(p, original_photos)
    BY <1>2, <1>s, <2>1, FarmAssumption DEF IsIn, Places, Photos
  <2>3. /\ Copies(marked_photos, p) = 0 /\ Copies(Photos_Done, p) = 0
    <3>1. times[p] = Cardinality(Markers(p)) + Copies(marked_photos, p)
                       + Copies(Photos_Done, p)
      BY <2>1 DEF OwnedOnce
    <3>2. /\ Cardinality(Markers(p)) \in Nat /\ Copies(marked_photos, p) \in Nat
          /\ Copies(Photos_Done, p) \in Nat
      BY <1>s, PlacesFinite, HoldersFinite
    <3>3. QED
      BY <2>1, <3>1, <3>2
  <2>4. ~IsIn(p, marked_photos) /\ ~IsIn(p, Photos_Done)
    BY <1>s, <2>3, PlacesFinite, FS_EmptySet DEF IsIn, Copies
  <2>5. PICK w \in Workers : Holds(w, p)
    BY <2>1, <2>2, <2>4 DEF FarmInv, NoneLost
  <2>6. QED
    BY <2>5 DEF Holds, Returned
<1>4. f \in Injection(U, T)
  <2>1. \A p \in U : f[p] \in T /\ q[f[p]] = p
    BY <1>3
  <2>2. f \in [U -> T]
    BY <2>1
  <2> HIDE DEF f, U, T
  <2>3. \A a, b \in U : f[a] = f[b] => a = b
    BY <2>1
  <2>4. QED
    BY <2>2, <2>3 DEF Injection, IsInjective
<1>5. IsFiniteSet(T) /\ Cardinality(T) < number_of_workers
  <2>1. IsFiniteSet(T) /\ Cardinality(T) <= Cardinality(Workers)
    BY FarmAssumption, FS_Subset
  <2>2. T # Workers
    BY <1>1 DEF Returned
  <2>3. Cardinality(T) # Cardinality(Workers)
    BY <2>2, FarmAssumption, FS_Subset
  <2>4. Cardinality(T) \in Nat
    BY <2>1, FS_CardinalityType
  <2>5. QED
    BY <2>1, <2>3, <2>4, WorkerCount DEF number_of_workers
<1>6. IsFiniteSet(U) /\ Cardinality(U) <= Cardinality(T)
  BY <1>4, <1>5, FS_Injection
<1>7. QED
  BY <1>5, <1>6, WorkerCount, FS_CardinalityType

\* The parallel time of farm.cpp, taken at the first EOS, misses fewer photos than
\* there are workers, whatever their number and however they interleave.
THEOREM ParallelTimeIsClose == Spec => []ParallelTimeMissesFew
<1>1. Init => ParallelTimeMissesFew
  BY DEF Init, ParallelTimeMissesFew
<1>2. TypeOK /\ FarmInv /\ OwnedOnce /\ ParallelTimeMissesFew /\ [Next]_vars
        => ParallelTimeMissesFew'
  <2> SUFFICES ASSUME TypeOK, FarmInv, OwnedOnce, ParallelTimeMissesFew, [Next]_vars,
                      count' > 0
               PROVE  Cardinality(Photos \ total_parallel') < number_of_workers
    BY DEF ParallelTimeMissesFew
  <2>1. count \in Nat
    BY WorkerCount DEF TypeOK
  <2>2. CASE Collect /\ FirstEOS
    <3>1. total_parallel' = {p \in Photos : times[p] > 0}
      BY <2>2 DEF Collect
    <3>2. Photos \ total_parallel' = {p \in Photos : ~(times[p] > 0)}
      BY <3>1
    <3>3. marked_photos # <<>> /\ Head(marked_photos) = EOS
      BY <2>2 DEF Collect, FirstEOS
    <3>4. QED
      BY <3>2, <3>3, FewUnmarked
  <2>3. CASE Collect /\ ~FirstEOS
    <3>1. total_parallel' = total_parallel /\ count > 0
      BY <2>1, <2>3 DEF Collect, FirstEOS
    <3>2. QED
      BY <3>1 DEF ParallelTimeMissesFew
  <2>4. CASE ~Collect
    <3>1. UNCHANGED <<count, total_parallel>>
      <4>1. CASE EmitPhoto \/ EmitEOS \/ Join \/ UNCHANGED vars
        BY <4>1 DEF EmitPhoto, EmitEOS, Join, vars, collectorVars
      <4>2. ASSUME NEW w \in Workers,
                   Inner(w) \/ WorkerPop(w) \/ PushMarked(w) \/ PassOnEOS(w)
            PROVE  UNCHANGED <<count, total_parallel>>
        BY <4>2 DEF Inner, LoadCounter, StoreCounter, Mark, TestCounter, Sample,
                    WorkerPop, PushMarked, PassOnEOS, collectorVars
      <4>3. QED
        BY <2>4, <4>1, <4>2, NextCases
    <3>2. QED
      BY <3>1 DEF ParallelTimeMissesFew
  <2>5. QED
    BY <2>2, <2>3, <2>4
<1>3. QED
  BY <1>1, <1>2, TypeCorrect, FarmInvariant, OwnedOnceHolds, PTL DEF Spec
=============================================================================
