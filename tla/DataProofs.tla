----------------------------- MODULE DataProofs -----------------------------
(***************************************************************************)
(* The facts about the data of the programs that the other proofs rest on: *)
(* what push() and pop() do to the places of a value in a queue and to     *)
(* their number, and that the portions of Partition tile a photo, for      *)
(* every height and every number of workers.                               *)
(***************************************************************************)
EXTENDS Occurrences, Partition, FiniteSetTheorems, WellFoundedInduction, TLAPS

\* How much one thing counts in a sum
One(condition) == IF condition THEN 1 ELSE 0

-----------------------------------------------------------------------------
(* Queues                                                                  *)

\* The places of a value in a sequence are finitely many.
LEMMA PlacesFinite ==
  ASSUME NEW S, NEW s \in Seq(S), NEW x
  PROVE  IsFiniteSet(Places(s, x)) /\ Copies(s, x) \in Nat
<1>1. Places(s, x) \subseteq 1..Len(s) /\ Len(s) \in Nat
  BY DEF Places
<1>2. IsFiniteSet(1..Len(s))
  BY <1>1, FS_Interval
<1>3. IsFiniteSet(Places(s, x))
  BY <1>1, <1>2, FS_Subset
<1>4. QED
  BY <1>3, FS_CardinalityType DEF Copies

\* push(y) adds the new last place to those of y, and leaves the others alone.
LEMMA PlacesAppend ==
  ASSUME NEW S, NEW s \in Seq(S), NEW y \in S, NEW x
  PROVE  /\ Places(Append(s, y), x) =
              Places(s, x) \cup (IF y = x THEN {Len(s) + 1} ELSE {})
         /\ Len(s) + 1 \notin Places(s, x)
BY DEF Places

\* push(y) adds one occurrence of y.
LEMMA CopiesAppend ==
  ASSUME NEW S, NEW s \in Seq(S), NEW y \in S, NEW x
  PROVE  Copies(Append(s, y), x) = Copies(s, x) + (IF y = x THEN 1 ELSE 0)
<1>1. CASE y = x
  <2>1. Places(Append(s, y), x) = Places(s, x) \cup {Len(s) + 1}
    BY <1>1, PlacesAppend
  <2>2. Cardinality(Places(s, x) \cup {Len(s) + 1}) = Cardinality(Places(s, x)) + 1
    BY PlacesAppend, PlacesFinite, FS_AddElement
  <2>3. QED
    BY <1>1, <2>1, <2>2 DEF Copies
<1>2. CASE y # x
  <2>1. Places(Append(s, y), x) = Places(s, x)
    BY <1>2 DEF Places
  <2>2. QED
    BY <1>2, <2>1, PlacesFinite DEF Copies
<1>3. QED
  BY <1>1, <1>2

\* pop() moves every other value one place towards the back.
LEMMA PlacesTail ==
  ASSUME NEW S, NEW s \in Seq(S), s # <<>>, NEW x
  PROVE  Places(Tail(s), x) = {i \in 1..(Len(s) - 1) : i + 1 \in Places(s, x)}
BY DEF Places

\* A value is in the queue after pop() if it was there elsewhere than at the
\* back; it was there before if it is there after.
LEMMA IsInTail ==
  ASSUME NEW S, NEW s \in Seq(S), s # <<>>, NEW x
  PROVE  IsIn(x, s) <=> x = Head(s) \/ IsIn(x, Tail(s))
<1>1. ASSUME IsIn(x, s), x # Head(s) PROVE IsIn(x, Tail(s))
  <2>1. PICK i \in DOMAIN s : s[i] = x
    BY <1>1 DEF IsIn, Places
  <2>2. i # 1 /\ i \in 1..Len(s)
    BY <1>1, <2>1
  <2>3. i - 1 \in DOMAIN Tail(s) /\ Tail(s)[i - 1] = x
    BY <2>1, <2>2
  <2>4. QED
    BY <2>3 DEF IsIn, Places
<1>2. ASSUME IsIn(x, Tail(s)) PROVE IsIn(x, s)
  <2>1. PICK i \in DOMAIN Tail(s) : Tail(s)[i] = x
    BY <1>2 DEF IsIn, Places
  <2>2. i + 1 \in DOMAIN s /\ s[i + 1] = x
    BY <2>1
  <2>3. QED
    BY <2>2 DEF IsIn, Places
<1>3. ASSUME x = Head(s) PROVE IsIn(x, s)
  <2>1. 1 \in DOMAIN s /\ s[1] = x
    BY <1>3
  <2>2. QED
    BY <2>1 DEF IsIn, Places
<1>4. QED
  BY <1>1, <1>2, <1>3

\* push(y) puts y into the queue and leaves the others there.
LEMMA IsInAppend ==
  ASSUME NEW S, NEW s \in Seq(S), NEW y \in S, NEW x
  PROVE  IsIn(x, Append(s, y)) <=> x = y \/ IsIn(x, s)
BY PlacesAppend DEF IsIn

\* pop() removes one occurrence of the value at the back.
LEMMA CopiesTail ==
  ASSUME NEW S, NEW s \in Seq(S), s # <<>>, NEW x
  PROVE  Copies(s, x) = Copies(Tail(s), x) + (IF Head(s) = x THEN 1 ELSE 0)
<1> DEFINE P == Places(s, x)
           R == P \ {1}
           T == Places(Tail(s), x)
           f == [i \in R |-> i - 1]
<1>1. IsFiniteSet(P) /\ IsFiniteSet(R) /\ IsFiniteSet(T)
  <2>1. Tail(s) \in Seq(S)
    OBVIOUS
  <2>2. QED
    BY <2>1, PlacesFinite, FS_RemoveElement
<1>2. f \in Bijection(R, T)
  <2>1. \A i \in R : i \in 2..Len(s) /\ i - 1 \in T
    BY PlacesTail DEF Places
  <2>2. \A j \in T : j \in 1..(Len(s) - 1) /\ j + 1 \in R
    BY PlacesTail DEF Places
  <2>3. f \in [R -> T]
    BY <2>1
  <2>4. \A a, b \in R : f[a] = f[b] => a = b
    BY <2>1
  <2>5. \A j \in T : \E i \in R : f[i] = j
    <3> TAKE j \in T
    <3>1. j + 1 \in R /\ f[j + 1] = j
      BY <2>2
    <3>2. QED
      BY <3>1
  <2>6. QED
    BY <2>3, <2>4, <2>5 DEF Bijection, Injection, Surjection, IsInjective
<1>3. Cardinality(R) = Cardinality(T)
  BY <1>1, <1>2, FS_Bijection DEF ExistsBijection
<1>4. Cardinality(P) = Cardinality(R) + (IF Head(s) = x THEN 1 ELSE 0)
  <2>1. 1 \in P <=> Head(s) = x
    BY DEF Places
  <2>2. Cardinality(P) \in Nat
    BY <1>1, FS_CardinalityType
  <2>3. Cardinality(R) = IF 1 \in P THEN Cardinality(P) - 1 ELSE Cardinality(P)
    BY <1>1, FS_RemoveElement
  <2>4. QED
    BY <2>1, <2>2, <2>3
<1>5. QED
  BY <1>3, <1>4 DEF Copies

\* A value that occurs no times is not there.
LEMMA NoCopies ==
  ASSUME NEW S, NEW s \in Seq(S), NEW x
  PROVE  Copies(s, x) = 0 <=> ~IsIn(x, s)
BY PlacesFinite, FS_EmptySet DEF Copies, IsIn

\* No place and one place
LEMMA FewPlaces ==
  ASSUME NEW S, NEW s \in Seq(S), NEW x
  PROVE  /\ Copies(s, x) = 0 => Places(s, x) = {}
         /\ Copies(s, x) = 1 => \E k : Places(s, x) = {k}
BY PlacesFinite, FS_EmptySet, FS_Singleton DEF Copies

\* Nothing follows x in the queue (x is the EOS in the programs).
EndsAt(x, s) == \A k \in DOMAIN s : s[k] = x => k = Len(s)

\* Nothing follows it after push() either, if it was not there before.
LEMMA EndsAppend ==
  ASSUME NEW S, NEW s \in Seq(S), NEW y \in S, NEW x, ~IsIn(x, s)
  PROVE  EndsAt(x, Append(s, y))
BY DEF EndsAt, IsIn, Places

\* pop() leaves it at the end; if it takes it, nothing is left.
LEMMA EndsTail ==
  ASSUME NEW S, NEW s \in Seq(S), s # <<>>, NEW x, EndsAt(x, s)
  PROVE  /\ EndsAt(x, Tail(s))
         /\ Head(s) = x => Tail(s) = <<>>
<1>1. EndsAt(x, Tail(s))
  <2> SUFFICES ASSUME NEW k \in DOMAIN Tail(s), Tail(s)[k] = x
               PROVE  k = Len(Tail(s))
    BY DEF EndsAt
  <2>1. k + 1 \in DOMAIN s /\ s[k + 1] = x /\ Len(Tail(s)) = Len(s) - 1
    OBVIOUS
  <2>2. k + 1 = Len(s)
    BY <2>1 DEF EndsAt
  <2>3. QED
    BY <2>1, <2>2
<1>2. ASSUME Head(s) = x PROVE Tail(s) = <<>>
  <2>1. 1 \in DOMAIN s /\ s[1] = x
    BY <1>2
  <2>2. Len(s) = 1
    BY <2>1 DEF EndsAt
  <2>3. Tail(s) \in Seq(S) /\ Len(Tail(s)) = 0
    BY <2>2
  <2>4. \A t \in Seq(S) : Len(t) = 0 => t = <<>>
    OBVIOUS
  <2>5. QED
    BY <2>3, <2>4, Zenon
<1>3. QED
  BY <1>1, <1>2

\* Every set of naturals that is not empty has a least element.
LEMMA LeastNatural ==
  ASSUME NEW S, S \subseteq Nat, S # {}
  PROVE  \E k \in S : \A j \in S : k <= j
<1> DEFINE R == OpToRel(<, Nat)
<1>1. IsWellFoundedOn(R, Nat)
  BY NatLessThanWellFounded, Zenon
<1> HIDE DEF R
<1>2. PICK k \in S : \A j \in S : ~(<<j, k>> \in R)
  BY <1>1, WFMin
<1>3. \A j \in S : ~(j < k)
  <2>1. \A j \in Nat : \A m \in Nat : j < m => <<j, m>> \in R
    BY DEF R, OpToRel
  <2>2. QED
    BY <1>2, <2>1
<1>4. QED
  BY <1>3

-----------------------------------------------------------------------------
(* Portions.  Products of two variables are hidden behind names, so that   *)
(* what is left to the solver is linear.                                   *)

\* Integer division with a positive divisor
LEMMA Division ==
  ASSUME NEW h \in Nat, NEW n \in Nat \ {0}
  PROVE  /\ h \div n \in Nat /\ h % n \in 0..(n - 1)
         /\ h = n * (h \div n) + (h % n)
<1> DEFINE d == h \div n
           m == h % n
<1>1. n > 0
  OBVIOUS
<1>2. d \in Nat
  BY <1>1, SMTT(20)
<1>3. m \in 0..(n - 1)
  BY <1>1, SMTT(20)
<1>4. m = h - n * d
  BY <1>1, SMTT(20)
<1> HIDE DEF d, m
<1>5. h = n * d + m
  <2> DEFINE nd == n * d
  <2>1. nd \in Int /\ m = h - nd
    BY <1>2, <1>4
  <2> HIDE DEF nd
  <2>2. h = nd + m
    BY <1>3, <2>1
  <2>3. QED
    BY <2>2 DEF nd
<1>6. QED
  BY <1>2, <1>3, <1>5 DEF d, m

\* A remainder that is reached from below, and one full turn later
LEMMA Remainder ==
  ASSUME NEW n \in Nat \ {0}, NEW v \in 0..(n - 1)
  PROVE  v % n = v /\ (v + n) % n = v
<1>1. v % n = v
  OBVIOUS
<1>2. (v + n) % n = v
  OBVIOUS
<1>3. QED
  BY <1>1, <1>2

\* Products with sums
LEMMA Distribute ==
  ASSUME NEW a \in Nat, NEW b \in Nat, NEW d \in Nat
  PROVE  /\ a * d \in Nat /\ b * d \in Nat
         /\ (a + b) * d = a * d + b * d
         /\ (a + 1) * d = a * d + d
         /\ d * a = a * d
OBVIOUS

\* i times d, as a symbol of which only the cited facts are known
Times(i, d) == i * d

\* Start(), with its product as such a symbol
LEMMA StartUnfolded ==
  ASSUME NEW h \in Nat, NEW n \in Nat \ {0}, NEW i \in 0..n
  PROVE  /\ Start(h, n, i) = Times(i, h \div n) + (IF i < h % n THEN i ELSE h % n)
         /\ Times(i, h \div n) \in Nat
<1>1. h \div n \in Nat
  BY Division
<1>2. i \in Nat
  OBVIOUS
<1>3. i * (h \div n) \in Nat
  BY <1>1, <1>2, Distribute
<1>4. QED
  BY <1>3, Zenon DEF Start, Times

\* What scatter adds up in allocation: the portion after portion i starts where
\* portion i ends.
LEMMA StartNext ==
  ASSUME NEW h \in Nat, NEW n \in Nat \ {0}, NEW i \in 0..(n - 1)
  PROVE  /\ Start(h, n, i + 1) = Start(h, n, i) + Share(h, n, i)
         /\ Start(h, n, i) \in Nat /\ Share(h, n, i) \in Nat
<1> DEFINE d == h \div n
           m == h % n
<1>1. d \in Nat /\ m \in 0..(n - 1)
  BY Division
<1>2. i \in 0..n /\ i + 1 \in 0..n /\ i \in Nat
  OBVIOUS
<1>3. /\ Start(h, n, i) = Times(i, d) + (IF i < m THEN i ELSE m)
      /\ Times(i, d) \in Nat
  BY <1>2, StartUnfolded
<1>4. Start(h, n, i + 1) = Times(i + 1, d) + (IF i + 1 < m THEN i + 1 ELSE m)
  BY <1>2, StartUnfolded
<1>5. Share(h, n, i) = d + (IF i < m THEN 1 ELSE 0)
  BY Zenon DEF Share
<1> HIDE DEF d, m
<1>6. Times(i + 1, d) = Times(i, d) + d
  BY <1>1, <1>2, Distribute DEF Times
<1>7. QED
  BY <1>1, <1>2, <1>3, <1>4, <1>5, <1>6

\* The first portion starts with the first row, the last one ends with the last.
LEMMA StartEnds ==
  ASSUME NEW h \in Nat, NEW n \in Nat \ {0}
  PROVE  Start(h, n, 0) = 0 /\ Start(h, n, n) = h
<1> DEFINE d == h \div n
           m == h % n
<1>1. d \in Nat /\ m \in 0..(n - 1) /\ h = n * d + m
  BY Division
<1> HIDE DEF d, m
<1>2. 0 * d = 0
  BY <1>1
<1>3. QED
  BY <1>1, <1>2 DEF Start, d, m

\* A later portion starts behind an earlier one.
LEMMA StartMonotone ==
  ASSUME NEW h \in Nat, NEW n \in Nat \ {0}, NEW i \in 0..(n - 1),
         NEW j \in 0..n, i < j
  PROVE  Start(h, n, i) + Share(h, n, i) <= Start(h, n, j)
<1> DEFINE d == h \div n
           m == h % n
           k == j - (i + 1)
<1>1. d \in Nat /\ m \in 0..(n - 1)
  BY Division
<1>2. k \in Nat /\ j = (i + 1) + k /\ i + 1 \in 0..n /\ i + 1 \in Nat
  OBVIOUS
<1>3. Start(h, n, i + 1) = Start(h, n, i) + Share(h, n, i)
  BY StartNext
<1>4. /\ Start(h, n, i + 1) = Times(i + 1, d) + (IF i + 1 < m THEN i + 1 ELSE m)
      /\ Times(i + 1, d) \in Nat
  BY <1>2, StartUnfolded
<1>5. /\ Start(h, n, j) = Times(j, d) + (IF j < m THEN j ELSE m)
      /\ Times(j, d) \in Nat
  BY StartUnfolded
<1> HIDE DEF d, m, k
<1>6. Times(j, d) = Times(i + 1, d) + Times(k, d) /\ Times(k, d) \in Nat
  BY <1>1, <1>2, Distribute DEF Times
<1>7. QED
  BY <1>1, <1>2, <1>3, <1>4, <1>5, <1>6

\* The portion of row r: either among the first, longer ones or behind them.
LEMMA RowHasPortion ==
  ASSUME NEW h \in Nat, NEW n \in Nat \ {0}, NEW r \in 0..(h - 1)
  PROVE  \E i \in 0..(n - 1) : Start(h, n, i) <= r /\ r < Start(h, n, i + 1)
<1> DEFINE d == h \div n
           m == h % n
<1>1. d \in Nat /\ m \in 0..(n - 1) /\ h = n * d + m
  BY Division
<1>2. \A i \in 0..n : /\ Start(h, n, i) = Times(i, d) + (IF i < m THEN i ELSE m)
                      /\ Times(i, d) \in Nat
  BY StartUnfolded
<1> HIDE DEF d, m
<1>3. h = Times(n, d) + m /\ r \in Nat /\ r < h
  BY <1>1 DEF Times
<1>4. CASE r < Times(m, d) + m
  <2> DEFINE i == r \div (d + 1)
             e == r % (d + 1)
  <2>1. i \in Nat /\ e \in 0..d /\ r = (d + 1) * i + e
    <3> DEFINE l == d + 1
    <3>1. l \in Nat \ {0} /\ l - 1 = d
      BY <1>1
    <3> HIDE DEF l
    <3>2. r \div l \in Nat /\ r % l \in 0..(l - 1) /\ r = l * (r \div l) + (r % l)
      BY <1>3, <3>1, Division
    <3>3. QED
      BY <3>1, <3>2, Zenon DEF l
  <2> HIDE DEF i, e
  <2>2. r = Times(i, d) + i + e /\ Times(i, d) \in Nat
    BY <1>1, <2>1, Distribute DEF Times
  <2>3. i < m
    <3> DEFINE k == i - m
    <3>1. SUFFICES ASSUME i >= m PROVE FALSE
      BY <1>1, <2>1
    <3>2. k \in Nat /\ i = m + k /\ m \in Nat
      BY <1>1, <2>1, <3>1
    <3> HIDE DEF k
    <3>3. Times(i, d) = Times(m, d) + Times(k, d) /\ Times(k, d) \in Nat
          /\ Times(m, d) \in Nat
      BY <1>1, <3>2, Distribute DEF Times
    <3>4. QED
      BY <1>1, <1>3, <1>4, <2>1, <2>2, <3>2, <3>3
  <2>4. Times(i + 1, d) = Times(i, d) + d
    BY <1>1, <2>1, Distribute DEF Times
  <2>5. i \in 0..(n - 1) /\ i \in 0..n /\ i + 1 \in 0..n
    BY <1>1, <2>1, <2>3
  <2>6. /\ Start(h, n, i) = Times(i, d) + i
        /\ Start(h, n, i + 1) = Times(i, d) + d + i + 1
    <3>1. Start(h, n, i) = Times(i, d) + i
      BY <1>2, <2>3, <2>5
    <3>2. Start(h, n, i + 1) = Times(i + 1, d) + (IF i + 1 < m THEN i + 1 ELSE m)
      BY <1>2, <2>5
    <3>3. QED
      BY <1>1, <2>1, <2>2, <2>3, <2>4, <3>1, <3>2
  <2>7. Start(h, n, i) <= r /\ r < Start(h, n, i + 1)
    BY <1>1, <2>1, <2>2, <2>6
  <2>8. QED
    BY <2>5, <2>7
<1>5. CASE r >= Times(m, d) + m
  <2> DEFINE s == r - (Times(m, d) + m)
             k == s \div d
             e == s % d
             i == m + k
  <2>1. m \in Nat /\ n - m \in Nat \ {0} /\ n = m + (n - m)
    BY <1>1
  <2>2. /\ Times(n, d) = Times(m, d) + Times(n - m, d)
        /\ Times(m, d) \in Nat /\ Times(n - m, d) \in Nat
    <3> DEFINE l == n - m
    <3>1. l \in Nat /\ n = m + l
      BY <2>1
    <3> HIDE DEF l
    <3>2. Times(n, d) = Times(m, d) + Times(l, d)
          /\ Times(m, d) \in Nat /\ Times(l, d) \in Nat
      BY <1>1, <2>1, <3>1, Distribute DEF Times
    <3>3. QED
      BY <3>2 DEF l
  <2>3. s \in Nat /\ s < Times(n - m, d)
    BY <1>3, <1>5, <2>1, <2>2
  <2>4. d \in Nat \ {0}
    <3>1. SUFFICES ASSUME d = 0 PROVE FALSE
      BY <1>1
    <3>2. Times(n - m, d) = 0
      BY <2>1, <3>1 DEF Times
    <3>3. QED
      BY <2>3, <3>2
  <2>5. r = Times(m, d) + m + s
    BY <1>3, <2>1, <2>2
  <2> HIDE DEF s
  <2>6. k \in Nat /\ e \in 0..(d - 1) /\ s = d * k + e
    BY <2>3, <2>4, Division
  <2> HIDE DEF k, e
  <2>7. s = Times(k, d) + e /\ Times(k, d) \in Nat
    BY <2>4, <2>6, Distribute DEF Times
  <2>8. k < n - m
    <3> DEFINE f == k - (n - m)
               l == n - m
    <3>1. SUFFICES ASSUME k >= n - m PROVE FALSE
      BY <2>1, <2>6
    <3>2. f \in Nat /\ k = l + f /\ l \in Nat
      BY <2>1, <2>6, <3>1
    <3>3. s < Times(l, d)
      BY <2>3
    <3> HIDE DEF f, l
    <3>4. Times(k, d) = Times(l, d) + Times(f, d) /\ Times(l, d) \in Nat
          /\ Times(f, d) \in Nat
      BY <2>4, <3>2, Distribute DEF Times
    <3>5. QED
      BY <2>3, <2>6, <2>7, <3>3, <3>4
  <2>9. /\ Times(i, d) = Times(m, d) + Times(k, d)
        /\ Times(i + 1, d) = Times(m, d) + Times(k, d) + d
    <3>1. i \in Nat
      BY <2>1, <2>6
    <3>2. Times(i, d) = Times(m, d) + Times(k, d)
      BY <2>1, <2>4, <2>6, Distribute DEF Times
    <3> HIDE DEF i
    <3>3. Times(i + 1, d) = Times(i, d) + d
      BY <2>4, <3>1, Distribute DEF Times
    <3>4. QED
      BY <3>2, <3>3
  <2>10. i \in 0..(n - 1) /\ i \in 0..n /\ i + 1 \in 0..n /\ i >= m
    BY <2>1, <2>6, <2>8
  <2>11. /\ Start(h, n, i) = Times(m, d) + Times(k, d) + m
         /\ Start(h, n, i + 1) = Times(m, d) + Times(k, d) + d + m
    <3> HIDE DEF i
    <3>1. Start(h, n, i) = Times(i, d) + m
      BY <1>2, <2>1, <2>10
    <3>2. Start(h, n, i + 1) = Times(i + 1, d) + m
      BY <1>2, <2>1, <2>10
    <3>3. QED
      BY <2>9, <3>1, <3>2
  <2>12. Start(h, n, i) <= r /\ r < Start(h, n, i + 1)
    <3> HIDE DEF i
    <3>1. QED
      BY <2>1, <2>2, <2>3, <2>4, <2>5, <2>6, <2>7, <2>11
  <2>13. QED
    BY <2>10, <2>12
<1>6. QED
  <2>1. Times(m, d) \in Nat
    BY <1>1, Distribute DEF Times
  <2>2. QED
    BY <1>1, <1>3, <1>4, <1>5, <2>1

\* Every row of a photo belongs to exactly one portion: whatever the height and
\* the number of workers, map.cpp and fastflow_map.cpp hand out each row once
\* and no row outside the photo.
THEOREM RowsTiled ==
  ASSUME NEW h \in Nat, NEW n \in Nat \ {0}
  PROVE  /\ \A i, j \in 0..(n - 1) : i # j => RowsOf(h, n, i) \cap RowsOf(h, n, j) = {}
         /\ UNION {RowsOf(h, n, i) : i \in 0..(n - 1)} = 0..(h - 1)
<1>1. ASSUME NEW i \in 0..(n - 1)
      PROVE  /\ Start(h, n, i) \in Nat /\ Share(h, n, i) \in Nat
             /\ Start(h, n, i + 1) = Start(h, n, i) + Share(h, n, i)
  BY StartNext
<1>2. ASSUME NEW i \in 0..(n - 1), NEW j \in 0..(n - 1), i < j
      PROVE  RowsOf(h, n, i) \cap RowsOf(h, n, j) = {}
  <2>1. Start(h, n, i) + Share(h, n, i) <= Start(h, n, j)
    BY <1>2, StartMonotone
  <2>2. QED
    BY <1>1, <2>1 DEF RowsOf
<1>3. ASSUME NEW i \in 0..(n - 1) PROVE RowsOf(h, n, i) \subseteq 0..(h - 1)
  <2>1. Start(h, n, n) = h /\ n \in 0..n /\ i < n
    BY StartEnds
  <2>2. Start(h, n, i) + Share(h, n, i) <= h
    BY <2>1, StartMonotone
  <2>3. QED
    BY <1>1, <2>2 DEF RowsOf
<1>4. ASSUME NEW r \in 0..(h - 1)
      PROVE  \E i \in 0..(n - 1) : r \in RowsOf(h, n, i)
  <2>1. PICK i \in 0..(n - 1) : Start(h, n, i) <= r /\ r < Start(h, n, i + 1)
    BY RowHasPortion
  <2>2. r \in RowsOf(h, n, i)
    BY <1>1, <2>1 DEF RowsOf
  <2>3. QED
    BY <2>2
<1>5. QED
  <2>1. ASSUME NEW i \in 0..(n - 1), NEW j \in 0..(n - 1), i # j
        PROVE  RowsOf(h, n, i) \cap RowsOf(h, n, j) = {}
    <3>1. i < j \/ j < i
      BY <2>1
    <3>2. QED
      BY <1>2, <3>1
  <2>2. QED
    BY <1>3, <1>4, <2>1
=============================================================================
