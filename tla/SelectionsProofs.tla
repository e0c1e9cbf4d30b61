--------------------------- MODULE SelectionsProofs ---------------------------
(***************************************************************************)
(* Proofs about the stages that MCSelections puts side by side: for every  *)
(* set of sizes, limits, options, items and events, and every value of the *)
(* bounds.                                                                 *)
(*                                                                         *)
(* A step of one stage leaves the variables of the others alone, so every  *)
(* stage keeps an invariant of its own. Of the packing it says that the    *)
(* parts have the bytes they say they have, and that the next part never   *)
(* begins earlier than any other way to cut as many parts would allow it:  *)
(* greedy stays ahead. Of the reports, that whatever a process takes for   *)
(* seen was in a report, or is in the lines of that process. Of the gate,  *)
(* that the verdict is that of the page in memory. Of the cutting at       *)
(* lines, that the pieces so far are in their places. Of the snapshot,     *)
(* that the loop never takes more to be left of the budget than is.        *)
(*                                                                         *)
(* Sums, cuts and the collapsing of duplicates are recursive               *)
(* functions; the first lemmas, on the least number of a set, make such a  *)
(* function one that can be reasoned about step by step.                   *)
(***************************************************************************)
EXTENDS MCSelections, Integers, FiniteSets, FiniteSetTheorems, WellFoundedInduction, TLAPS

-----------------------------------------------------------------------------
(* Induction over data.                                                    *)

\* A nonempty set of numbers has a least member: one of its initial segments is
\* contained in no other.
LEMMA LeastNumber ==
  ASSUME NEW T, T \subseteq Nat, T # {}
  PROVE  \E x \in T : \A y \in T : x <= y
<1> DEFINE U == {0..x : x \in T}
<1>1. U \subseteq FiniteSubsetsOf(Nat) /\ U # {}
  <2>1. ASSUME NEW x \in T PROVE 0..x \in SUBSET Nat /\ IsFiniteSet(0..x)
    <3>1. x \in Int /\ 0 \in Int
      OBVIOUS
    <3>2. QED
      BY <3>1, FS_Interval
  <2>2. QED
    BY <2>1 DEF FiniteSubsetsOf
<1>2. PICK u \in U : \A v \in U : ~(<<v, u>> \in StrictSubsetOrdering(Nat))
  BY <1>1, FS_StrictSubsetOrderingWellFounded, WFMin, Zenon
<1>3. PICK x \in T : u = 0..x
  OBVIOUS
<1>4. ASSUME NEW y \in T, ~(x <= y) PROVE FALSE
  <2>1. 0..y \subseteq 0..x /\ 0..y # 0..x
    BY <1>4
  <2>2. <<0..y, 0..x>> \in StrictSubsetOrdering(Nat)
    BY <2>1 DEF StrictSubsetOrdering
  <2>3. QED
    BY <1>2, <1>3, <2>2
<1>5. QED
  BY <1>4

\* Induction on a set: what holds at 0 and goes from n to n + 1 holds up to N.
LEMMA Induction ==
  ASSUME NEW N \in Nat, NEW T, 0 \in T, \A n \in 0..(N - 1) : n \in T => n + 1 \in T
  PROVE  0..N \subseteq T
<1> DEFINE U == (0..N) \ T
<1>1. SUFFICES ASSUME U # {} PROVE FALSE
  OBVIOUS
<1>2. U \subseteq Nat
  OBVIOUS
<1> HIDE DEF U
<1>3. PICK x \in U : \A y \in U : x <= y
  BY <1>1, <1>2, LeastNumber
<1>4. x \in 0..N /\ x \notin T
  BY <1>3 DEF U
<1>5. x # 0
  BY <1>4
<1>6. x - 1 \in 0..(N - 1) /\ ~(x <= x - 1) /\ (x - 1) + 1 = x /\ x - 1 \in 0..N
  BY <1>4, <1>5
<1>7. x - 1 \in T
  <2>1. x - 1 \notin U
    BY <1>3, <1>6
  <2>2. QED
    BY <2>1, <1>6 DEF U
<1>8. QED
  BY <1>4, <1>6, <1>7

\* f is what the step functions make of a first value, one after the other.
Iterates(f, first, step, N, S) ==
  /\ f \in [0..N -> S] /\ f[0] = first
  /\ \A n \in 1..N : f[n] = step[n][f[n - 1]]

\* There is always such a function, and so recursive definitions define something.
LEMMA Iteration ==
  ASSUME NEW N \in Nat, NEW S, NEW first \in S, NEW step \in [1..N -> [S -> S]]
  PROVE  \E f : Iterates(f, first, step, N, S)
<1> DEFINE Good(f, m) == f \in [0..m -> S] /\ f[0] = first
                           /\ \A n \in 1..m : f[n] = step[n][f[n - 1]]
           T == {m \in 0..N : \E f : Good(f, m)}
<1>1. 0 \in T
  <2>1. Good([n \in 0..0 |-> first], 0)
    OBVIOUS
  <2>2. 0 \in 0..N
    OBVIOUS
  <2> HIDE DEF Good
  <2>3. QED
    BY <2>1, <2>2
<1>2. ASSUME NEW m \in 0..(N - 1), m \in T PROVE m + 1 \in T
  <2>1. PICK f : Good(f, m)
    BY <1>2
  <2> DEFINE g == [n \in 0..(m + 1) |-> IF n = m + 1 THEN step[m + 1][f[m]] ELSE f[n]]
  <2>2. Good(g, m + 1)
    <3>1. g \in [0..(m + 1) -> S]
      BY <2>1
    <3>2. g[0] = first
      BY <2>1
    <3>3. ASSUME NEW n \in 1..(m + 1) PROVE g[n] = step[n][g[n - 1]]
      <4>1. CASE n = m + 1
        BY <4>1, <2>1
      <4>2. CASE n # m + 1
        BY <4>2, <2>1
      <4>3. QED
        BY <4>1, <4>2
    <3>4. QED
      BY <3>1, <3>2, <3>3
  <2>3. m + 1 \in 0..N
    OBVIOUS
  <2> HIDE DEF Good, g
  <2>4. QED
    BY <2>2, <2>3
<1> HIDE DEF Good
<1>3. N \in T
  <2>1. 0..N \subseteq T
    <3> HIDE DEF T
    <3>1. QED
      BY <1>1, <1>2, Induction
  <2>2. QED
    BY <2>1
<1>4. PICK f : Good(f, N)
  BY <1>3
<1>5. f \in [0..N -> S] /\ f[0] = first /\ \A n \in 1..N : f[n] = step[n][f[n - 1]]
  BY <1>4 DEF Good
<1>6. QED
  BY <1>5 DEF Iterates

-----------------------------------------------------------------------------
(* The packing of a scan (ScanPacking).                                    *)

\* Cardinality, as the instances of this module name it.
LEMMA SameCardinality ==
  /\ \A S : Scan!Cardinality(S) = Cardinality(S)
  /\ \A S : Gates!Cardinality(S) = Cardinality(S)
BY DEF Cardinality, Scan!Cardinality, Gates!Cardinality

\* The definition of Sum defines what it says.
LEMMA SumDef ==
  ASSUME NEW n \in Nat, NEW size, \A k \in 1..n : size[k] \in Nat
  PROVE  \E sum \in [0..n -> Nat] :
           /\ Scan!SumOf(size, n) = sum[n]
           /\ sum[0] = 0 /\ \A k \in 1..n : sum[k] = sum[k - 1] + size[k]
<1> DEFINE step == [k \in 1..n |-> [x \in Nat |-> x + size[k]]]
           sum[k \in 0..n] == IF k = 0 THEN 0 ELSE sum[k - 1] + size[k]
<1>1. PICK f : Iterates(f, 0, step, n, Nat)
  <2>1. step \in [1..n -> [Nat -> Nat]]
    OBVIOUS
  <2> HIDE DEF step
  <2>2. QED
    BY <2>1, Iteration
<1>2. f \in [0..n -> Nat] /\ f[0] = 0 /\ \A k \in 1..n : f[k] = f[k - 1] + size[k]
  <2>1. f \in [0..n -> Nat] /\ f[0] = 0 /\ \A k \in 1..n : f[k] = step[k][f[k - 1]]
    BY <1>1 DEF Iterates
  <2>2. \A k \in 1..n : k - 1 \in 0..n
    OBVIOUS
  <2>3. \A k \in 1..n : \A x \in Nat : step[k][x] = x + size[k]
    OBVIOUS
  <2> HIDE DEF step
  <2>4. QED
    BY <2>1, <2>2, <2>3
<1>3. f = [k \in 0..n |-> IF k = 0 THEN 0 ELSE f[k - 1] + size[k]]
  <2>1. \A k \in 0..n : f[k] = IF k = 0 THEN 0 ELSE f[k - 1] + size[k]
    BY <1>2
  <2>2. f = [k \in 0..n |-> f[k]]
    BY <1>2
  <2>3. QED
    BY <2>1, <2>2, Zenon
<1>4. sum = [k \in 0..n |-> IF k = 0 THEN 0 ELSE sum[k - 1] + size[k]]
  BY <1>3, Zenon
<1>5. Scan!SumOf(size, n) = sum[n]
  BY DEF Scan!SumOf
<1> HIDE DEF sum, step
<1>6. \A k \in 1..n : sum[k] = sum[k - 1] + size[k]
  BY <1>4
<1>7. sum[0] = 0
  BY <1>4
<1> DEFINE T == {k \in 0..n : sum[k] \in Nat}
<1>8. 0..n \subseteq T
  <2>1. 0 \in T
    BY <1>7
  <2>2. ASSUME NEW k \in 0..(n - 1), k \in T PROVE k + 1 \in T
    <3>1. k + 1 \in 1..n /\ (k + 1) - 1 = k /\ sum[k] \in Nat
      BY <2>2
    <3>2. sum[k + 1] = sum[k] + size[k + 1]
      BY <3>1, <1>6
    <3>3. QED
      BY <3>1, <3>2
  <2> HIDE DEF T
  <2>3. QED
    BY <2>1, <2>2, Induction
<1>9. sum \in [0..n -> Nat]
  <2>1. \A k \in 0..n : sum[k] \in Nat
    BY <1>8
  <2>2. DOMAIN sum = 0..n /\ sum = [k \in 0..n |-> sum[k]]
    BY <1>4
  <2>3. QED
    BY <2>1, <2>2
<1>10. QED
  BY <1>5, <1>6, <1>7, <1>9

\* The empty sum.
LEMMA SumZero ==
  ASSUME NEW size
  PROVE  Scan!SumOf(size, 0) = 0
<1>1. 0 \in Nat /\ \A k \in 1..0 : size[k] \in Nat
  OBVIOUS
<1>2. QED
  BY <1>1, SumDef

\* Sums of the same numbers are the same.
LEMMA SumStep ==
  ASSUME NEW n \in Nat, NEW size, NEW other, \A k \in 1..(n + 1) : size[k] \in Nat,
         \A k \in 1..n : other[k] = size[k]
  PROVE  Scan!SumOf(size, n + 1) = Scan!SumOf(other, n) + size[n + 1]
<1>1. PICK f \in [0..(n + 1) -> Nat] :
        /\ Scan!SumOf(size, n + 1) = f[n + 1]
        /\ f[0] = 0 /\ \A k \in 1..(n + 1) : f[k] = f[k - 1] + size[k]
  <2>1. n + 1 \in Nat
    OBVIOUS
  <2>2. QED
    BY <2>1, SumDef
<1>2. \A k \in 1..n : other[k] \in Nat
  OBVIOUS
<1>3. PICK g \in [0..n -> Nat] :
        /\ Scan!SumOf(other, n) = g[n]
        /\ g[0] = 0 /\ \A k \in 1..n : g[k] = g[k - 1] + other[k]
  BY <1>2, SumDef
<1> DEFINE T == {k \in 0..n : f[k] = g[k]}
<1>4. 0..n \subseteq T
  <2>1. 0 \in T
    BY <1>1, <1>3
  <2>2. ASSUME NEW k \in 0..(n - 1), k \in T PROVE k + 1 \in T
    <3>1. k + 1 \in 1..n /\ (k + 1) - 1 = k /\ f[k] = g[k]
      BY <2>2
    <3>2. f[k + 1] = f[k] + size[k + 1] /\ g[k + 1] = g[k] + other[k + 1]
      BY <3>1, <1>1, <1>3
    <3>3. QED
      BY <3>1, <3>2
  <2> HIDE DEF T
  <2>3. QED
    BY <2>1, <2>2, Induction
<1>5. f[n] = g[n] /\ f[n + 1] = f[n] + size[n + 1]
  BY <1>4, <1>1
<1>6. QED
  BY <1>1, <1>3, <1>5

\* A sum of numbers is a number.
LEMMA SumNat ==
  ASSUME NEW n \in Nat, NEW size, \A k \in 1..n : size[k] \in Nat
  PROVE  Scan!SumOf(size, n) \in Nat
BY SumDef

\* A sum is no larger than one whose terms are no smaller.
LEMMA SumMono ==
  ASSUME NEW n \in Nat, NEW size, NEW other,
         \A k \in 1..n : size[k] \in Nat /\ other[k] \in Nat /\ size[k] <= other[k]
  PROVE  Scan!SumOf(size, n) <= Scan!SumOf(other, n)
<1> DEFINE T == {k \in 0..n : Scan!SumOf(size, k) <= Scan!SumOf(other, k)}
<1>1. 0 \in T
  BY SumZero
<1>2. ASSUME NEW k \in 0..(n - 1), k \in T PROVE k + 1 \in T
  <2>1. k \in Nat /\ k + 1 \in 0..n /\ k + 1 \in 1..n
    OBVIOUS
  <2>2. /\ Scan!SumOf(size, k + 1) = Scan!SumOf(size, k) + size[k + 1]
        /\ Scan!SumOf(other, k + 1) = Scan!SumOf(other, k) + other[k + 1]
    BY <2>1, SumStep
  <2>3. Scan!SumOf(size, k) \in Nat /\ Scan!SumOf(other, k) \in Nat
    BY <2>1, SumNat
  <2>4. Scan!SumOf(size, k) <= Scan!SumOf(other, k) /\ size[k + 1] <= other[k + 1]
    BY <1>2, <2>1
  <2>5. Scan!SumOf(size, k + 1) <= Scan!SumOf(other, k + 1)
    BY <2>1, <2>2, <2>3, <2>4
  <2>6. QED
    BY <2>1, <2>5
<1>3. 0..n \subseteq T
  <2> HIDE DEF T
  <2>1. QED
    BY <1>1, <1>2, Induction
<1>4. QED
  BY <1>3

\* A sum grows by what one of its terms grows by.
LEMMA SumBump ==
  ASSUME NEW n \in Nat, NEW size, NEW other, NEW i \in 1..n, NEW x \in Nat,
         \A k \in 1..n : size[k] \in Nat /\ (k # i => other[k] = size[k]),
         other[i] = size[i] + x
  PROVE  Scan!SumOf(other, n) = Scan!SumOf(size, n) + x
<1> DEFINE T == {k \in 0..n : Scan!SumOf(other, k) = Scan!SumOf(size, k) + IF i <= k THEN x ELSE 0}
<1>1. 0 \in T
  BY SumZero
<1>2. ASSUME NEW k \in 0..(n - 1), k \in T PROVE k + 1 \in T
  <2>1. k \in Nat /\ k + 1 \in 0..n /\ k + 1 \in 1..n
    OBVIOUS
  <2>2. \A j \in 1..(k + 1) : other[j] \in Nat /\ size[j] \in Nat
    OBVIOUS
  <2>3. Scan!SumOf(size, k + 1) = Scan!SumOf(size, k) + size[k + 1]
    BY <2>1, <2>2, SumStep
  <2>4. Scan!SumOf(other, k + 1) = Scan!SumOf(other, k) + other[k + 1]
    BY <2>1, <2>2, SumStep
  <2>5. Scan!SumOf(size, k) \in Nat /\ Scan!SumOf(other, k) \in Nat
    BY <2>1, <2>2, SumNat
  <2>6. Scan!SumOf(other, k) = Scan!SumOf(size, k) + (IF i <= k THEN x ELSE 0)
    BY <1>2
  <2>7. other[k + 1] = IF k + 1 = i THEN size[k + 1] + x ELSE size[k + 1]
    BY <2>1
  <2>8. Scan!SumOf(other, k + 1) = Scan!SumOf(size, k + 1) + IF i <= k + 1 THEN x ELSE 0
    <3>1. size[k + 1] \in Nat
      BY <2>2, <2>1
    <3>2. QED
      BY <2>1, <2>3, <2>4, <2>5, <2>6, <2>7, <3>1
  <2>9. QED
    BY <2>1, <2>8
<1>3. 0..n \subseteq T
  <2> HIDE DEF T
  <2>1. QED
    BY <1>1, <1>2, Induction
<1>4. n \in T
  BY <1>3
<1>5. QED
  BY <1>4

\* A sum of zeros is zero.
LEMMA SumNone ==
  ASSUME NEW n \in Nat, NEW size, \A k \in 1..n : size[k] = 0
  PROVE  Scan!SumOf(size, n) = 0
<1> DEFINE T == {k \in 0..n : Scan!SumOf(size, k) = 0}
<1>1. 0 \in T
  BY SumZero
<1>2. ASSUME NEW k \in 0..(n - 1), k \in T PROVE k + 1 \in T
  <2>1. k \in Nat /\ k + 1 \in 0..n /\ k + 1 \in 1..n /\ \A j \in 1..(k + 1) : size[j] \in Nat
    OBVIOUS
  <2>2. Scan!SumOf(size, k + 1) = Scan!SumOf(size, k) + size[k + 1]
    BY <2>1, SumStep
  <2>3. QED
    BY <1>2, <2>1, <2>2
<1>3. 0..n \subseteq T
  <2> HIDE DEF T
  <2>1. QED
    BY <1>1, <1>2, Induction
<1>4. QED
  BY <1>3

\* The sizes of records.
LEMMA Sized ==
  ASSUME Scan!LimitsAssumption, Scan!TypeOK
  PROVE  /\ Len(records) \in Nat /\ DOMAIN records = 1..Len(records)
         /\ \A k \in 1..Len(records) : records[k].state \in Scan!States /\ records[k].size \in Nat
<1>1. MaxFileBytes \in Nat
  BY DEF Scan!LimitsAssumption
<1>2. records \in Seq([state : Scan!States, size : 0..MaxFileBytes])
  BY DEF Scan!TypeOK
<1>3. Len(records) \in Nat /\ DOMAIN records = 1..Len(records)
      /\ \A k \in 1..Len(records) : records[k] \in [state : Scan!States, size : 0..MaxFileBytes]
  <2> DEFINE R == [state : Scan!States, size : 0..MaxFileBytes]
  <2> HIDE DEF R
  <2>1. records \in Seq(R)
    BY <1>2 DEF R
  <2>2. /\ Len(records) \in Nat /\ DOMAIN records = 1..Len(records)
        /\ \A k \in 1..Len(records) : records[k] \in R
    BY <2>1
  <2>3. QED
    BY <2>2 DEF R
<1>4. \A k \in 1..Len(records) : records[k].state \in Scan!States /\ records[k].size \in 0..MaxFileBytes
  BY <1>3
<1>5. QED
  BY <1>1, <1>3, <1>4

\* The bytes of a set of records are a number.
LEMMA BytesNat ==
  ASSUME Scan!LimitsAssumption, Scan!TypeOK, NEW S
  PROVE  Scan!Bytes(S) \in Nat
<1> DEFINE size == [i \in DOMAIN records |-> IF i \in S THEN records[i].size ELSE 0]
<1>1. Len(records) \in Nat /\ \A k \in 1..Len(records) : size[k] \in Nat
  BY Sized
<1> HIDE DEF size
<1>2. Scan!SumOf(size, Len(records)) \in Nat
  BY <1>1, SumNat
<1>3. QED
  BY <1>2 DEF Scan!Bytes, size

\* No record has no bytes.
LEMMA BytesNone ==
  ASSUME Scan!LimitsAssumption, Scan!TypeOK
  PROVE  Scan!Bytes({}) = 0
<1> DEFINE size == [i \in DOMAIN records |-> IF i \in {} THEN records[i].size ELSE 0]
<1>1. Len(records) \in Nat /\ \A k \in 1..Len(records) : size[k] = 0
  BY Sized
<1> HIDE DEF size
<1>2. Scan!SumOf(size, Len(records)) = 0
  BY <1>1, SumNone
<1>3. QED
  BY <1>2 DEF Scan!Bytes, size

\* More records have no fewer bytes.
LEMMA BytesMono ==
  ASSUME Scan!LimitsAssumption, Scan!TypeOK, NEW S, NEW T, S \subseteq T
  PROVE  Scan!Bytes(S) <= Scan!Bytes(T)
<1> DEFINE size == [i \in DOMAIN records |-> IF i \in S THEN records[i].size ELSE 0]
           other == [i \in DOMAIN records |-> IF i \in T THEN records[i].size ELSE 0]
<1>1. Len(records) \in Nat
      /\ \A k \in 1..Len(records) : size[k] \in Nat /\ other[k] \in Nat /\ size[k] <= other[k]
  BY Sized
<1> HIDE DEF size, other
<1>2. Scan!SumOf(size, Len(records)) <= Scan!SumOf(other, Len(records))
  BY <1>1, SumMono
<1>3. QED
  BY <1>2 DEF Scan!Bytes, size, other

\* One more record adds its size.
LEMMA BytesAdd ==
  ASSUME Scan!LimitsAssumption, Scan!TypeOK, NEW S, NEW i \in DOMAIN records, i \notin S
  PROVE  Scan!Bytes(S \cup {i}) = Scan!Bytes(S) + records[i].size
<1> DEFINE size == [j \in DOMAIN records |-> IF j \in S THEN records[j].size ELSE 0]
           other == [j \in DOMAIN records |-> IF j \in S \cup {i} THEN records[j].size ELSE 0]
           n == Len(records)
           x == records[i].size
<1>1. n \in Nat /\ i \in 1..n /\ x \in Nat
  BY Sized
<1>2. /\ \A k \in 1..n : size[k] \in Nat /\ (k # i => other[k] = size[k])
      /\ other[i] = size[i] + x
  BY Sized
<1>3. Scan!Bytes(S) = Scan!SumOf(size, n) /\ Scan!Bytes(S \cup {i}) = Scan!SumOf(other, n)
  BY DEF Scan!Bytes
<1> HIDE DEF size, other, n, x
<1>4. Scan!SumOf(other, n) = Scan!SumOf(size, n) + x
  BY <1>1, <1>2, SumBump
<1>5. QED
  BY <1>3, <1>4 DEF x

\* A cut of the records is finite.
LEMMA ContentFinite ==
  ASSUME NEW a \in Nat, NEW b \in Nat
  PROVE  IsFiniteSet(Scan!Content(a, b)) /\ Cardinality(Scan!Content(a, b)) \in Nat
<1>1. a + 1 \in Int /\ b \in Int
  OBVIOUS
<1>2. IsFiniteSet((a + 1)..b)
  BY <1>1, FS_Interval
<1>3. IsFiniteSet(Scan!Content(a, b))
  BY <1>2, FS_Subset DEF Scan!Content
<1>4. QED
  BY <1>3, FS_CardinalityType

\* What the next record adds to the content.
LEMMA ContentNext ==
  ASSUME Scan!LimitsAssumption, Scan!TypeOK, packed < Len(records)
  PROVE  LET i == packed + 1 IN
         /\ i \in DOMAIN records
         /\ ~Scan!Supported(i) => Scan!Content(0, i) = Scan!Content(0, packed)
         /\ Scan!Supported(i) =>
              /\ Cardinality(Scan!Content(0, i)) = Cardinality(Scan!Content(0, packed)) + 1
              /\ Scan!Bytes(Scan!Content(0, i)) = Scan!Bytes(Scan!Content(0, packed)) + records[i].size
<1> DEFINE i == packed + 1
           before == Scan!Content(0, packed)
<1>1. packed \in Nat /\ i \in 1..Len(records) /\ DOMAIN records = 1..Len(records)
  BY DEF Scan!TypeOK
<1>2. i \notin before
  BY <1>1 DEF Scan!Content
<1>3. ~Scan!Supported(i) => Scan!Content(0, i) = before
  BY <1>1 DEF Scan!Content
<1>4. Scan!Supported(i) => Scan!Content(0, i) = before \cup {i}
  BY <1>1 DEF Scan!Content
<1>5. IsFiniteSet(before)
  BY <1>1, ContentFinite
<1> HIDE DEF before
<1>6. Cardinality(before \cup {i}) = Cardinality(before) + 1
  BY <1>2, <1>5, FS_AddElement
<1>7. Scan!Bytes(before \cup {i}) = Scan!Bytes(before) + records[i].size
  BY <1>1, <1>2, BytesAdd
<1>8. QED
  BY <1>1, <1>3, <1>4, <1>6, <1>7 DEF before

\* Every record is in one state.
LEMMA StatesAdd ==
  ASSUME Scan!LimitsAssumption, Scan!TypeOK
  PROVE  /\ \A s \in Scan!States : IsFiniteSet(Scan!InState(s)) /\ Cardinality(Scan!InState(s)) \in Nat
         /\ Cardinality(Scan!InState("supported")) + Cardinality(Scan!InState("oversized"))
              + Cardinality(Scan!InState("unsupported_utf8"))
              + Cardinality(Scan!InState("excluded_directory"))
              + Cardinality(Scan!InState("unsupported_file_type"))
              + Cardinality(Scan!InState("symlink_rejected")) = Len(records)
<1>1. IsFiniteSet(DOMAIN records) /\ Cardinality(DOMAIN records) = Len(records)
  <2>1. DOMAIN records = 1..Len(records) /\ Len(records) \in Nat
    BY DEF Scan!TypeOK
  <2>2. 1 \in Int /\ Len(records) \in Int
    BY <2>1
  <2>3. Cardinality(1..Len(records)) = IF 1 > Len(records) THEN 0 ELSE Len(records) - 1 + 1
    BY <2>2, FS_Interval
  <2>4. QED
    BY <2>1, <2>2, <2>3, FS_Interval
<1>2. \A s \in Scan!States : IsFiniteSet(Scan!InState(s)) /\ Cardinality(Scan!InState(s)) \in Nat
  <2>1. \A s \in Scan!States : Scan!InState(s) \subseteq DOMAIN records
    BY DEF Scan!InState
  <2>2. \A s \in Scan!States : IsFiniteSet(Scan!InState(s))
    BY <1>1, <2>1, FS_Subset
  <2>3. QED
    BY <2>2, FS_CardinalityType
<1>3. ASSUME NEW A, NEW B, IsFiniteSet(A), IsFiniteSet(B), A \cap B = {}
      PROVE  IsFiniteSet(A \cup B) /\ Cardinality(A \cup B) = Cardinality(A) + Cardinality(B)
  <2>1. Cardinality({}) = 0
    BY FS_EmptySet
  <2>2. Cardinality(A) \in Nat /\ Cardinality(B) \in Nat
    BY <1>3, FS_CardinalityType
  <2>3. IsFiniteSet(A \cup B)
        /\ Cardinality(A \cup B) = Cardinality(A) + Cardinality(B) - Cardinality(A \cap B)
    BY <1>3, FS_Union, Zenon
  <2>4. Cardinality(A \cap B) = 0
    BY <1>3, <2>1, Zenon
  <2>5. QED
    BY <2>2, <2>3, <2>4
<1> DEFINE a == Scan!InState("supported")
           b == Scan!InState("oversized")
           c == Scan!InState("unsupported_utf8")
           d == Scan!InState("excluded_directory")
           e == Scan!InState("unsupported_file_type")
           f == Scan!InState("symlink_rejected")
<1>4. DOMAIN records = ((((a \cup b) \cup c) \cup d) \cup e) \cup f
  BY Sized DEF Scan!States, Scan!InState
<1>5. /\ a \cap b = {} /\ (a \cup b) \cap c = {} /\ ((a \cup b) \cup c) \cap d = {}
      /\ (((a \cup b) \cup c) \cup d) \cap e = {}
      /\ ((((a \cup b) \cup c) \cup d) \cup e) \cap f = {}
  BY DEF Scan!InState
<1>6. /\ IsFiniteSet(a) /\ IsFiniteSet(b) /\ IsFiniteSet(c)
      /\ IsFiniteSet(d) /\ IsFiniteSet(e) /\ IsFiniteSet(f)
  BY <1>2 DEF Scan!States
<1> HIDE DEF a, b, c, d, e, f
<1>7. /\ IsFiniteSet(a \cup b) /\ Cardinality(a \cup b) = Cardinality(a) + Cardinality(b)
  BY <1>3, <1>5, <1>6
<1>8. /\ IsFiniteSet((a \cup b) \cup c)
      /\ Cardinality((a \cup b) \cup c) = Cardinality(a \cup b) + Cardinality(c)
  BY <1>3, <1>5, <1>6, <1>7
<1>9. /\ IsFiniteSet(((a \cup b) \cup c) \cup d)
      /\ Cardinality(((a \cup b) \cup c) \cup d) = Cardinality((a \cup b) \cup c) + Cardinality(d)
  BY <1>3, <1>5, <1>6, <1>8
<1>10. /\ IsFiniteSet((((a \cup b) \cup c) \cup d) \cup e)
       /\ Cardinality((((a \cup b) \cup c) \cup d) \cup e)
            = Cardinality(((a \cup b) \cup c) \cup d) + Cardinality(e)
  BY <1>3, <1>5, <1>6, <1>9
<1>11. Cardinality(((((a \cup b) \cup c) \cup d) \cup e) \cup f)
         = Cardinality((((a \cup b) \cup c) \cup d) \cup e) + Cardinality(f)
  BY <1>3, <1>5, <1>6, <1>10
<1>12. Cardinality(a) + Cardinality(b) + Cardinality(c) + Cardinality(d) + Cardinality(e)
         + Cardinality(f) = Len(records)
  BY <1>1, <1>4, <1>7, <1>8, <1>9, <1>10, <1>11
<1>13. QED
  BY <1>2, <1>12 DEF a, b, c, d, e, f

\* What part k looks like.
LEMMA PartType ==
  ASSUME Scan!TypeOK
  PROVE  /\ Len(parts) \in Nat /\ DOMAIN parts = 1..Len(parts)
         /\ \A k \in 1..Len(parts) :
              /\ parts[k] = [items |-> parts[k].items, bytes |-> parts[k].bytes]
              /\ parts[k].items \in Seq(Nat) /\ parts[k].bytes \in Nat
              /\ Len(parts[k].items) \in Nat
<1> DEFINE R == [items : Seq(Nat), bytes : Nat]
<1>1. parts \in Seq(R)
  BY DEF Scan!TypeOK
<1> HIDE DEF R
<1>2. /\ Len(parts) \in Nat /\ DOMAIN parts = 1..Len(parts)
      /\ \A k \in 1..Len(parts) : parts[k] \in R
  BY <1>1
<1>3. QED
  BY <1>2 DEF R

\* A step of the packing: nothing, a part of its own, or the last part.
OwnPart(i) ==
  /\ parts = <<>> \/ Scan!Full(parts[Len(parts)], i)
  /\ parts' = Append(parts, [items |-> <<i>>, bytes |-> records[i].size])
LastPart(i) ==
  /\ parts # <<>> /\ ~Scan!Full(parts[Len(parts)], i)
  /\ parts' = [parts EXCEPT ![Len(parts)] =
                 [items |-> Append(parts[Len(parts)].items, i),
                  bytes |-> parts[Len(parts)].bytes + records[i].size]]

\* What a step of packing does: it skips the record, gives it a part of its
\* own, or adds it to the last part.
LEMMA PackStep ==
  ASSUME Scan!Pack
  PROVE  LET i == packed + 1 IN
         /\ verdict = "packing" /\ packed < Len(records) /\ packed' = i
         /\ records' = records /\ verdict' = verdict
         /\ \/ ~Scan!Supported(i) /\ parts' = parts
            \/ Scan!Supported(i) /\ (OwnPart(i) \/ LastPart(i))
BY DEF Scan!Pack, OwnPart, LastPart, Scan!Last

\* What the parts are after one that is put behind them or changed.
LEMMA OwnPartIs ==
  ASSUME Scan!TypeOK, NEW i \in Nat, OwnPart(i), records[i].size \in Nat
  PROVE  LET n == Len(parts) IN
         /\ parts' \in Seq([items : Seq(Nat), bytes : Nat]) /\ Len(parts') = n + 1
         /\ DOMAIN parts' = 1..(n + 1)
         /\ \A k \in 1..n : parts'[k] = parts[k]
         /\ parts'[n + 1].items = <<i>> /\ parts'[n + 1].bytes = records[i].size
<1> DEFINE R == [items : Seq(Nat), bytes : Nat]
           r == [items |-> <<i>>, bytes |-> records[i].size]
<1>1. parts \in Seq(R) /\ parts' = Append(parts, r)
  BY DEF Scan!TypeOK, OwnPart
<1>2. r \in R
  OBVIOUS
<1> HIDE DEF R, r
<1>3. /\ parts' \in Seq(R) /\ Len(parts') = Len(parts) + 1
      /\ DOMAIN parts' = 1..(Len(parts) + 1)
      /\ \A k \in 1..Len(parts) : parts'[k] = parts[k]
      /\ parts'[Len(parts) + 1] = r
  BY <1>1, <1>2
<1>4. r.items = <<i>> /\ r.bytes = records[i].size
  BY DEF r
<1>5. QED
  BY <1>3, <1>4 DEF R

\* The parts after a record is added to the last one.
LEMMA LastPartIs ==
  ASSUME Scan!TypeOK, NEW i \in Nat, LastPart(i), records[i].size \in Nat
  PROVE  LET n == Len(parts) IN
         /\ parts' \in Seq([items : Seq(Nat), bytes : Nat]) /\ Len(parts') = n
         /\ n \in 1..n /\ DOMAIN parts' = 1..n
         /\ \A k \in 1..n : k # n => parts'[k] = parts[k]
         /\ parts'[n].items = Append(parts[n].items, i)
         /\ parts'[n].bytes = parts[n].bytes + records[i].size
<1> DEFINE R == [items : Seq(Nat), bytes : Nat]
           n == Len(parts)
           r == [items |-> Append(parts[n].items, i), bytes |-> parts[n].bytes + records[i].size]
<1>1. parts \in Seq(R) /\ parts' = [parts EXCEPT ![n] = r]
  BY DEF Scan!TypeOK, LastPart
<1>2. n \in 1..n /\ n \in Nat
  <2>1. parts # <<>>
    BY DEF LastPart
  <2> HIDE DEF R
  <2>2. QED
    BY <1>1, <2>1
<1>3. r \in R
  BY <1>2, PartType
<1> HIDE DEF R, r
<1>4. parts' \in Seq(R) /\ Len(parts') = n /\ DOMAIN parts' = 1..n
      /\ \A k \in 1..n : k # n => parts'[k] = parts[k]
  BY <1>1, <1>2, <1>3
<1>5. parts'[n] = r
  BY <1>1, <1>2
<1>6. /\ parts'[n].items = Append(parts[n].items, i)
      /\ parts'[n].bytes = parts[n].bytes + records[i].size
  BY <1>5 DEF r
<1>7. QED
  BY <1>2, <1>4, <1>6 DEF R

\* Every step of a scan keeps its types.
LEMMA ScanTypes ==
  ASSUME Scan!LimitsAssumption, Scan!TypeOK, Scan!ScanNext
  PROVE  Scan!TypeOK'
<1>1. CASE Scan!Classify
  <2>1. PICK entry \in Scan!Entry :
          \/ verdict' = "refused" /\ records' = records
          \/ /\ entry.kind # "unknown" /\ verdict' = verdict
             /\ records' = Append(records, Scan!Record(entry))
    <3>1. PICK entry \in Scan!Entry :
            IF entry.kind = "unknown" \/ Len(records) = MaxFileRecords
            THEN verdict' = "refused" /\ UNCHANGED records
            ELSE records' = Append(records, Scan!Record(entry)) /\ UNCHANGED verdict
      BY <1>1 DEF Scan!Classify
    <3>2. QED
      BY <3>1
  <2>2. entry.kind # "unknown" => Scan!Record(entry) \in [state : Scan!States, size : 0..MaxFileBytes]
    <3>1. entry.kind \in Scan!Kinds /\ entry.size \in Nat /\ MaxFileBytes \in Nat
      <4>1. ScanSizes \subseteq Nat /\ MaxFileBytes \in Nat
        BY DEF Scan!LimitsAssumption
      <4>2. QED
        BY <4>1 DEF Scan!Entry
    <3>2. Scan!State(entry) \in Scan!States
      BY <3>1 DEF Scan!State, Scan!States, Scan!Kinds
    <3>3. entry.kind # "unknown" /\ Scan!State(entry) = "supported" => entry.size <= MaxFileBytes
      <4>1. ASSUME entry.kind # "unknown", ~(entry.size <= MaxFileBytes)
            PROVE  Scan!State(entry) # "supported"
        <5>1. entry.size > MaxFileBytes
          BY <3>1, <4>1
        <5>2. CASE entry.kind = "symlink"
          BY <5>2 DEF Scan!State
        <5>3. CASE entry.kind = "submodule"
          BY <5>3 DEF Scan!State
        <5>4. CASE entry.kind = "excluded"
          BY <5>4 DEF Scan!State
        <5>5. CASE entry.kind \in {"text", "bytes"}
          BY <5>1, <5>5 DEF Scan!State
        <5>6. QED
          BY <3>1, <4>1, <5>2, <5>3, <5>4, <5>5 DEF Scan!Kinds
      <4>2. QED
        BY <4>1
    <3>4. QED
      BY <3>1, <3>2, <3>3 DEF Scan!Record
  <2>3. records' \in Seq([state : Scan!States, size : 0..MaxFileBytes]) /\ Len(records) <= Len(records')
    <3> DEFINE R == [state : Scan!States, size : 0..MaxFileBytes]
    <3>1. records \in Seq(R) /\ (entry.kind # "unknown" => Scan!Record(entry) \in R)
      BY <2>2 DEF Scan!TypeOK
    <3> HIDE DEF R
    <3>2. entry.kind # "unknown" =>
            /\ Append(records, Scan!Record(entry)) \in Seq(R)
            /\ Len(Append(records, Scan!Record(entry))) = Len(records) + 1
      BY <3>1
    <3>3. \/ records' = records
          \/ entry.kind # "unknown" /\ records' = Append(records, Scan!Record(entry))
      BY <2>1
    <3>4. Len(records) \in Nat
      BY <3>1
    <3>5. records' \in Seq(R) /\ Len(records) <= Len(records')
      BY <3>1, <3>2, <3>3, <3>4
    <3>6. QED
      BY <3>5 DEF R
  <2>4. QED
    BY <1>1, <2>1, <2>3 DEF Scan!Classify, Scan!TypeOK
<1>2. CASE Scan!Aggregate
  BY <1>2 DEF Scan!Aggregate, Scan!TypeOK
<1>3. CASE Scan!Pack
  <2> DEFINE i == packed + 1
  <2>1. i \in Nat /\ records[i].size \in Nat /\ i \in 0..Len(records)
    BY <1>3, PackStep, Sized DEF Scan!TypeOK
  <2>2. parts' \in Seq([items : Seq(Nat), bytes : Nat])
    BY <1>3, <2>1, PackStep, OwnPartIs, LastPartIs DEF Scan!TypeOK
  <2>3. QED
    BY <1>3, <2>1, <2>2, PackStep DEF Scan!TypeOK
<1>4. CASE Scan!Finish
  BY <1>4 DEF Scan!Finish, Scan!TypeOK
<1>5. QED
  BY <1>1, <1>2, <1>3, <1>4 DEF Scan!ScanNext

\* Packing changes no record, and nothing that is said of the records only.
LEMMA SameRecords ==
  ASSUME records' = records
  PROVE  /\ \A i : Scan!Supported(i)' <=> Scan!Supported(i)
         /\ \A S : Scan!Bytes(S)' = Scan!Bytes(S)
         /\ \A a, b : Scan!Content(a, b)' = Scan!Content(a, b)
         /\ \A n : Scan!Cuts(n)' = Scan!Cuts(n)
<1>1. \A i : Scan!Supported(i)' <=> Scan!Supported(i)
  BY DEF Scan!Supported
<1>2. \A S : Scan!Bytes(S)' = Scan!Bytes(S)
  BY DEF Scan!Bytes
<1>3. \A a, b : Scan!Content(a, b)' = Scan!Content(a, b)
  BY DEF Scan!Content, Scan!Supported
<1>4. \A S : Scan!Fits(S)' <=> Scan!Fits(S)
  BY <1>2 DEF Scan!Fits
<1>5. \A n : Scan!Cuts(n)' = Scan!Cuts(n)
  BY <1>3, <1>4 DEF Scan!Cuts
<1>6. QED
  BY <1>1, <1>2, <1>3, <1>5

\* What is in a part, before and after the step of the packing.
LEMMA ItemsType ==
  ASSUME Scan!TypeOK, Scan!Exact
  PROVE  \A k \in DOMAIN parts :
           /\ IsFiniteSet(Scan!Items(k)) /\ Scan!Items(k) # {}
           /\ \A j \in Scan!Items(k) : j \in DOMAIN records /\ Scan!Supported(j) /\ j <= packed
<1> SUFFICES ASSUME NEW k \in DOMAIN parts
             PROVE  /\ IsFiniteSet(Scan!Items(k)) /\ Scan!Items(k) # {}
                    /\ \A j \in Scan!Items(k) : j \in DOMAIN records /\ Scan!Supported(j) /\ j <= packed
  OBVIOUS
<1>1. parts[k].items \in Seq(Nat) /\ Len(parts[k].items) # 0
  BY PartType DEF Scan!Exact
<1> DEFINE s == parts[k].items
<1>2. DOMAIN s = 1..Len(s) /\ Len(s) \in Nat
  BY <1>1
<1>3. Scan!Items(k) # {}
  <2>1. 1 \in DOMAIN s
    BY <1>1, <1>2
  <2>2. s[1] \in Scan!Items(k)
    BY <2>1 DEF Scan!Items, Scan!Range
  <2>3. QED
    BY <2>2
<1>4. \A j \in Scan!Items(k) : j \in DOMAIN records /\ Scan!Supported(j) /\ j <= packed
  BY DEF Scan!Exact
<1>5. IsFiniteSet(Scan!Items(k))
  <2>1. DOMAIN records = 1..Len(records) /\ 1 \in Int /\ Len(records) \in Int
    BY DEF Scan!TypeOK
  <2>2. IsFiniteSet(DOMAIN records)
    BY <2>1, FS_Interval
  <2>3. QED
    BY <1>4, <2>2, FS_Subset
<1>6. QED
  BY <1>3, <1>4, <1>5

\* The items of the parts after a record got a part of its own.
LEMMA OwnItems ==
  ASSUME Scan!TypeOK, NEW i \in Nat, OwnPart(i), records[i].size \in Nat,
         NEW n \in Nat, n = Len(parts)
  PROVE  /\ DOMAIN parts' = 1..(n + 1) /\ DOMAIN parts = 1..n
         /\ \A k \in 1..n : Scan!Items(k)' = Scan!Items(k)
         /\ Scan!Items(n + 1)' = {i}
<1>1. /\ DOMAIN parts' = 1..(n + 1)
      /\ \A k \in 1..n : parts'[k] = parts[k]
      /\ parts'[n + 1].items = <<i>>
  BY OwnPartIs
<1>2. DOMAIN parts = 1..n
  BY PartType
<1>3. \A k \in 1..n : Scan!Items(k)' = Scan!Items(k)
  BY <1>1 DEF Scan!Items, Scan!Range
<1>4. Scan!Items(n + 1)' = {i}
  BY <1>1 DEF Scan!Items, Scan!Range
<1>5. QED
  BY <1>1, <1>2, <1>3, <1>4

\* The items of the parts after a record joined the last one.
LEMMA LastItems ==
  ASSUME Scan!TypeOK, NEW i \in Nat, LastPart(i), records[i].size \in Nat,
         NEW n \in Nat, n = Len(parts)
  PROVE  /\ DOMAIN parts' = 1..n /\ DOMAIN parts = 1..n /\ n \in 1..n
         /\ \A k \in 1..n : k # n => Scan!Items(k)' = Scan!Items(k)
         /\ Scan!Items(n)' = Scan!Items(n) \cup {i}
<1>1. /\ DOMAIN parts' = 1..n /\ n \in 1..n
      /\ \A k \in 1..n : k # n => parts'[k] = parts[k]
      /\ parts'[n].items = Append(parts[n].items, i)
  BY LastPartIs
<1>2. DOMAIN parts = 1..n /\ parts[n].items \in Seq(Nat)
  BY <1>1, PartType
<1>3. \A k \in 1..n : k # n => Scan!Items(k)' = Scan!Items(k)
  BY <1>1 DEF Scan!Items, Scan!Range
<1>4. Scan!Items(n)' = Scan!Items(n) \cup {i}
  <2> DEFINE s == parts[n].items
  <2>1. s \in Seq(Nat)
    BY <1>2
  <2>2. Scan!Items(n)' = Scan!Range(Append(s, i)) /\ Scan!Items(n) = Scan!Range(s)
    BY <1>1 DEF Scan!Items
  <2> HIDE DEF s
  <2>3. Scan!Range(Append(s, i)) = Scan!Range(s) \cup {i}
    <3>1. /\ DOMAIN Append(s, i) = 1..(Len(s) + 1) /\ DOMAIN s = 1..Len(s) /\ Len(s) \in Nat
          /\ \A k \in 1..Len(s) : Append(s, i)[k] = s[k]
          /\ Append(s, i)[Len(s) + 1] = i
      BY <2>1
    <3>2. \A k \in 1..(Len(s) + 1) : k \in 1..Len(s) \/ k = Len(s) + 1
      BY <3>1
    <3>3. 1..Len(s) \subseteq 1..(Len(s) + 1) /\ Len(s) + 1 \in 1..(Len(s) + 1)
      BY <3>1
    <3> DEFINE t == Append(s, i)
               m == Len(s)
    <3> HIDE DEF t, m
    <3>4. Scan!Range(t) = Scan!Range(s) \cup {i}
      BY <3>1, <3>2, <3>3 DEF Scan!Range, t, m
    <3>5. QED
      BY <3>4 DEF t
  <2>4. QED
    BY <2>2, <2>3
<1>5. QED
  BY <1>1, <1>2, <1>3, <1>4

\* The record that Pack comes to.
LEMMA NextRecord ==
  ASSUME Scan!LimitsAssumption, Scan!TypeOK, Scan!Exact, Scan!Pack, NEW i \in Nat, i = packed + 1
  PROVE  /\ i \in DOMAIN records /\ DOMAIN records = 1..Len(records) /\ packed \in Nat
         /\ records[i].size \in 0..MaxPartBytes /\ packed' = i /\ records' = records
         /\ \A k \in DOMAIN parts : i \notin Scan!Items(k) /\ \A j \in Scan!Items(k) : j \in Nat /\ j < i
         /\ \/ ~Scan!Supported(i) /\ parts' = parts
            \/ Scan!Supported(i) /\ OwnPart(i)
            \/ Scan!Supported(i) /\ LastPart(i)
<1>1. packed < Len(records) /\ packed \in Nat
  BY PackStep DEF Scan!TypeOK
<1>2. i \in 1..Len(records) /\ DOMAIN records = 1..Len(records)
  BY <1>1, Sized
<1>3. records[i].size \in 0..MaxPartBytes
  <2>1. records[i].size \in 0..MaxFileBytes
    <3> DEFINE R == [state : Scan!States, size : 0..MaxFileBytes]
    <3>1. records \in Seq(R)
      BY DEF Scan!TypeOK
    <3> HIDE DEF R
    <3>2. records[i] \in R
      BY <3>1, <1>2
    <3>3. QED
      BY <3>2 DEF R
  <2>2. MaxFileBytes \in 0..MaxPartBytes /\ MaxPartBytes \in Nat
    BY DEF Scan!LimitsAssumption
  <2>3. QED
    BY <2>1, <2>2
<1>4. \A k \in DOMAIN parts : i \notin Scan!Items(k) /\ \A j \in Scan!Items(k) : j \in Nat /\ j < i
  BY <1>1, <1>2, ItemsType
<1>5. QED
  BY <1>1, <1>2, <1>3, <1>4, PackStep

\* Packing keeps the parts exact: in order, each with the bytes it says, and
\* within both limits.
LEMMA PackExact ==
  ASSUME Scan!LimitsAssumption, Scan!TypeOK, Scan!Exact, Scan!Pack
  PROVE  Scan!Exact'
<1>1. PICK i \in Nat : i = packed + 1
  BY DEF Scan!TypeOK
<1>2. PICK n \in Nat : n = Len(parts) /\ DOMAIN parts = 1..n
  BY PartType
<1>3. /\ i \in DOMAIN records /\ DOMAIN records = 1..Len(records) /\ packed \in Nat
      /\ records[i].size \in 0..MaxPartBytes /\ packed' = i /\ records' = records
      /\ \A k \in DOMAIN parts : i \notin Scan!Items(k) /\ \A j \in Scan!Items(k) : j \in Nat /\ j < i
  BY <1>1, NextRecord
<1>4. MaxPartItems \in Nat \ {0} /\ MaxPartBytes \in Nat
  BY DEF Scan!LimitsAssumption
<1>5. (\A j : Scan!Supported(j)' <=> Scan!Supported(j)) /\ (\A S : Scan!Bytes(S)' = Scan!Bytes(S))
  BY <1>3, SameRecords
<1>6. records[i].size \in Nat
  BY <1>3, <1>4
<1>7. \A k \in 1..n :
        /\ parts[k].items \in Seq(Nat) /\ parts[k].bytes \in Nat /\ Len(parts[k].items) \in Nat
        /\ IsFiniteSet(Scan!Items(k))
  BY <1>2, PartType, ItemsType
<1>8. CASE ~Scan!Supported(i) /\ parts' = parts
  <2>1. \A k : Scan!Items(k)' = Scan!Items(k)
    BY <1>8 DEF Scan!Items
  <2>2. \A j \in DOMAIN records : (Scan!Supported(j)' /\ j <= i) <=> (Scan!Supported(j) /\ j <= packed)
    BY <1>1, <1>3, <1>5, <1>8
  <2>3. Scan!Ordered'
    BY <1>8, <2>1 DEF Scan!Exact, Scan!Ordered
  <2>4. QED
    BY <1>3, <1>5, <1>8, <2>1, <2>2, <2>3 DEF Scan!Exact
<1>9. CASE Scan!Supported(i) /\ OwnPart(i)
  <2>1. /\ DOMAIN parts' = 1..(n + 1)
        /\ \A k \in 1..n : Scan!Items(k)' = Scan!Items(k)
        /\ Scan!Items(n + 1)' = {i}
    BY <1>2, <1>6, <1>9, OwnItems
  <2>2. /\ \A k \in 1..n : parts'[k] = parts[k]
        /\ parts'[n + 1].items = <<i>> /\ parts'[n + 1].bytes = records[i].size
    BY <1>2, <1>6, <1>9, OwnPartIs
  <2>3. \A k \in 1..(n + 1) : k \in 1..n \/ k = n + 1
    OBVIOUS
  <2>4. n + 1 \in 1..(n + 1) /\ 1..n \subseteq 1..(n + 1)
    OBVIOUS
  <2>5. \A j \in DOMAIN records :
          (Scan!Supported(j)' /\ j <= i) <=> \E k \in 1..(n + 1) : j \in Scan!Items(k)'
    <3>1. \A j \in DOMAIN records : (Scan!Supported(j) /\ j <= packed) <=> \E k \in 1..n : j \in Scan!Items(k)
      BY <1>2 DEF Scan!Exact
    <3>2. \A j \in DOMAIN records : j <= i <=> j <= packed \/ j = i
      BY <1>1, <1>3
    <3>3. QED
      BY <1>5, <1>9, <2>1, <2>3, <2>4, <3>1, <3>2
  <2>6. \A k \in 1..(n + 1) : Scan!Items(k)' \subseteq DOMAIN records
    BY <1>2, <1>3, <2>1, <2>3 DEF Scan!Exact
  <2>7. Scan!Ordered'
    <3>1. ASSUME NEW k \in 1..(n + 1), NEW a \in 1..MaxPartItems, NEW b \in 1..MaxPartItems,
                 a < b, b <= Len(parts'[k].items)
          PROVE  parts'[k].items[a] < parts'[k].items[b]
      <4>1. CASE k \in 1..n
        BY <1>2, <2>2, <3>1, <4>1 DEF Scan!Exact, Scan!Ordered
      <4>2. CASE k = n + 1
        <5>1. Len(parts'[k].items) = 1
          BY <2>2, <4>2
        <5>2. QED
          BY <1>4, <3>1, <5>1
      <4>3. QED
        BY <2>3, <4>1, <4>2
    <3>2. ASSUME NEW k \in 1..(n + 1), NEW l \in 1..(n + 1), k < l,
                 NEW x \in Scan!Items(k)', NEW y \in Scan!Items(l)'
          PROVE  x < y
      <4>1. k \in 1..n
        BY <3>2, <2>3
      <4>2. CASE l \in 1..n
        BY <1>2, <2>1, <3>2, <4>1, <4>2 DEF Scan!Exact, Scan!Ordered
      <4>3. CASE l = n + 1
        BY <1>2, <1>3, <2>1, <3>2, <4>1, <4>3
      <4>4. QED
        BY <2>3, <4>2, <4>3
    <3>3. QED
      BY <2>1, <3>1, <3>2 DEF Scan!Ordered
  <2>8. \A k \in 1..(n + 1) :
          /\ Len(parts'[k].items) \in 1..MaxPartItems /\ parts'[k].bytes <= MaxPartBytes
          /\ Cardinality(Scan!Items(k)') = Len(parts'[k].items) /\ Scan!Bytes(Scan!Items(k))' = parts'[k].bytes
    <3>1. ASSUME NEW k \in 1..n
          PROVE  /\ Len(parts'[k].items) \in 1..MaxPartItems /\ parts'[k].bytes <= MaxPartBytes
                 /\ Cardinality(Scan!Items(k)') = Len(parts'[k].items)
                 /\ Scan!Bytes(Scan!Items(k))' = parts'[k].bytes
      <4>1. Scan!Bytes(Scan!Items(k))' = Scan!Bytes(Scan!Items(k))
        <5>1. Scan!Items(k)' = Scan!Items(k)
          BY <2>1
        <5>2. QED
          BY <1>3, <5>1 DEF Scan!Bytes
      <4>2. QED
        BY <1>2, <2>1, <2>2, <4>1, SameCardinality DEF Scan!Exact
    <3>2. /\ Len(parts'[n + 1].items) = 1 /\ 1 \in 1..MaxPartItems
          /\ parts'[n + 1].bytes <= MaxPartBytes
      BY <1>3, <1>4, <2>2
    <3>3. Cardinality(Scan!Items(n + 1)') = 1
      BY <2>1, FS_Singleton
    <3>4. Scan!Bytes(Scan!Items(n + 1))' = records[i].size
      <4>1. Scan!Bytes({} \cup {i}) = Scan!Bytes({}) + records[i].size
        BY <1>3, BytesAdd
      <4>2. Scan!Bytes({}) = 0
        BY BytesNone
      <4>3. {} \cup {i} = {i}
        OBVIOUS
      <4>4. Scan!Bytes({i}) = records[i].size
        BY <1>6, <4>1, <4>2, <4>3
      <4>5. Scan!Bytes(Scan!Items(n + 1))' = Scan!Bytes({i})
        BY <1>3, <2>1 DEF Scan!Bytes
      <4>6. QED
        BY <4>4, <4>5
    <3>5. QED
      BY <2>2, <2>3, <3>1, <3>2, <3>3, <3>4
  <2>9. QED
    BY <1>3, <2>1, <2>5, <2>6, <2>7, <2>8, SameCardinality DEF Scan!Exact
<1>10. CASE Scan!Supported(i) /\ LastPart(i)
  <2>1. /\ DOMAIN parts' = 1..n /\ n \in 1..n
        /\ \A k \in 1..n : k # n => Scan!Items(k)' = Scan!Items(k)
        /\ Scan!Items(n)' = Scan!Items(n) \cup {i}
    BY <1>2, <1>6, <1>10, LastItems
  <2>2. /\ \A k \in 1..n : k # n => parts'[k] = parts[k]
        /\ parts'[n].items = Append(parts[n].items, i)
        /\ parts'[n].bytes = parts[n].bytes + records[i].size
    BY <1>2, <1>6, <1>10, LastPartIs
  <2>3. PICK m \in Nat : /\ m = Len(parts[n].items) /\ Len(parts'[n].items) = m + 1
                         /\ \A a \in 1..m : parts'[n].items[a] = parts[n].items[a]
                         /\ parts'[n].items[m + 1] = i
                         /\ \A a \in 1..m : parts[n].items[a] \in Scan!Items(n)
    <3> DEFINE s == parts[n].items
    <3>1. s \in Seq(Nat) /\ parts'[n].items = Append(s, i)
      BY <1>7, <2>1, <2>2
    <3>2. \A a \in DOMAIN s : s[a] \in Scan!Items(n)
      BY DEF Scan!Items, Scan!Range
    <3> HIDE DEF s
    <3>3. /\ Len(s) \in Nat /\ Len(Append(s, i)) = Len(s) + 1 /\ Append(s, i)[Len(s) + 1] = i
          /\ \A a \in 1..Len(s) : Append(s, i)[a] = s[a] /\ a \in DOMAIN s
      BY <3>1
    <3>4. QED
      BY <3>1, <3>2, <3>3 DEF s
  <2>4. m + 1 <= MaxPartItems /\ parts[n].bytes + records[i].size <= MaxPartBytes
    BY <1>2, <1>4, <1>6, <1>7, <1>10, <2>1, <2>3 DEF LastPart, Scan!Full
  <2>5. \A j \in DOMAIN records :
          (Scan!Supported(j)' /\ j <= i) <=> \E k \in 1..n : j \in Scan!Items(k)'
    <3>1. \A j \in DOMAIN records : (Scan!Supported(j) /\ j <= packed) <=> \E k \in 1..n : j \in Scan!Items(k)
      BY <1>2 DEF Scan!Exact
    <3>2. \A j \in DOMAIN records : j <= i <=> j <= packed \/ j = i
      BY <1>1, <1>3
    <3>3. QED
      BY <1>5, <1>10, <2>1, <3>1, <3>2
  <2>6. \A k \in 1..n : Scan!Items(k)' \subseteq DOMAIN records
    BY <1>2, <1>3, <2>1 DEF Scan!Exact
  <2>7. Scan!Ordered'
    <3>1. ASSUME NEW k \in 1..n, NEW a \in 1..MaxPartItems, NEW b \in 1..MaxPartItems,
                 a < b, b <= Len(parts'[k].items)
          PROVE  parts'[k].items[a] < parts'[k].items[b]
      <4>1. CASE k # n
        BY <1>2, <2>2, <3>1, <4>1 DEF Scan!Exact, Scan!Ordered
      <4>2. CASE k = n
        <5>1. a \in 1..m /\ (b \in 1..m \/ b = m + 1)
          BY <1>4, <2>3, <3>1, <4>2
        <5>2. CASE b \in 1..m
          <6>1. b <= Len(parts[n].items)
            BY <2>3, <5>2
          <6>2. parts[n].items[a] < parts[n].items[b]
            BY <1>2, <2>1, <3>1, <6>1 DEF Scan!Exact, Scan!Ordered
          <6>3. QED
            BY <2>3, <4>2, <5>1, <5>2, <6>2
        <5>3. CASE b = m + 1
          BY <1>2, <1>3, <2>1, <2>3, <4>2, <5>1, <5>3
        <5>4. QED
          BY <5>1, <5>2, <5>3
      <4>3. QED
        BY <4>1, <4>2
    <3>2. ASSUME NEW k \in 1..n, NEW l \in 1..n, k < l, NEW x \in Scan!Items(k)',
                 NEW y \in Scan!Items(l)'
          PROVE  x < y
      <4>1. k # n /\ x \in Scan!Items(k)
        BY <2>1, <3>2
      <4>2. y \in Scan!Items(l) \/ y = i
        BY <2>1, <3>2
      <4>3. CASE y \in Scan!Items(l)
        BY <1>2, <3>2, <4>1, <4>3 DEF Scan!Exact, Scan!Ordered
      <4>4. CASE y = i
        BY <1>2, <1>3, <4>1, <4>4
      <4>5. QED
        BY <4>2, <4>3, <4>4
    <3>3. QED
      BY <2>1, <3>1, <3>2 DEF Scan!Ordered
  <2>8. \A k \in 1..n :
          /\ Len(parts'[k].items) \in 1..MaxPartItems /\ parts'[k].bytes <= MaxPartBytes
          /\ Cardinality(Scan!Items(k)') = Len(parts'[k].items) /\ Scan!Bytes(Scan!Items(k))' = parts'[k].bytes
    <3>1. ASSUME NEW k \in 1..n, k # n
          PROVE  /\ Len(parts'[k].items) \in 1..MaxPartItems /\ parts'[k].bytes <= MaxPartBytes
                 /\ Cardinality(Scan!Items(k)') = Len(parts'[k].items)
                 /\ Scan!Bytes(Scan!Items(k))' = parts'[k].bytes
      <4>1. Scan!Bytes(Scan!Items(k))' = Scan!Bytes(Scan!Items(k))
        <5>1. Scan!Items(k)' = Scan!Items(k)
          BY <2>1, <3>1
        <5>2. QED
          BY <1>3, <5>1 DEF Scan!Bytes
      <4>2. QED
        BY <1>2, <2>1, <2>2, <3>1, <4>1, SameCardinality DEF Scan!Exact
    <3>2. Len(parts'[n].items) \in 1..MaxPartItems /\ parts'[n].bytes <= MaxPartBytes
      BY <1>4, <2>2, <2>3, <2>4
    <3>3. Cardinality(Scan!Items(n)') = m + 1
      <4>1. Cardinality(Scan!Items(n)) = m /\ IsFiniteSet(Scan!Items(n)) /\ i \notin Scan!Items(n)
        BY <1>2, <1>3, <1>7, <2>1, <2>3, SameCardinality DEF Scan!Exact
      <4>2. Cardinality(Scan!Items(n) \cup {i}) = Cardinality(Scan!Items(n)) + 1
        BY <4>1, FS_AddElement
      <4>3. QED
        BY <2>1, <4>1, <4>2
    <3>4. Scan!Bytes(Scan!Items(n))' = parts'[n].bytes
      <4>1. Scan!Bytes(Scan!Items(n)) = parts[n].bytes /\ i \notin Scan!Items(n)
        BY <1>2, <1>3, <2>1 DEF Scan!Exact
      <4>2. Scan!Bytes(Scan!Items(n) \cup {i}) = Scan!Bytes(Scan!Items(n)) + records[i].size
        BY <1>3, <4>1, BytesAdd
      <4>3. Scan!Bytes(Scan!Items(n))' = Scan!Bytes(Scan!Items(n) \cup {i})
        BY <1>3, <2>1 DEF Scan!Bytes
      <4>4. QED
        BY <2>2, <4>1, <4>2, <4>3
    <3>5. QED
      BY <2>3, <3>1, <3>2, <3>3, <3>4
  <2>9. QED
    BY <1>3, <2>1, <2>5, <2>6, <2>7, <2>8, SameCardinality DEF Scan!Exact
<1>11. QED
  BY <1>1, <1>8, <1>9, <1>10, NextRecord

\* What fits holds no more than what is put into it.
LEMMA FitsLess ==
  ASSUME Scan!LimitsAssumption, Scan!TypeOK, NEW S, NEW T, S \subseteq T, IsFiniteSet(T),
         Scan!Fits(T)
  PROVE  Scan!Fits(S)
<1>1. Cardinality(S) <= Cardinality(T) /\ Cardinality(S) \in Nat /\ Cardinality(T) \in Nat
  BY FS_Subset, FS_CardinalityType
<1>2. Scan!Bytes(S) <= Scan!Bytes(T) /\ Scan!Bytes(S) \in Nat /\ Scan!Bytes(T) \in Nat
  BY BytesMono, BytesNat
<1>3. MaxPartItems \in Nat /\ MaxPartBytes \in Nat
  BY DEF Scan!LimitsAssumption
<1>4. QED
  BY <1>1, <1>2, <1>3, SameCardinality DEF Scan!Fits

\* Greedy stays ahead: a part begins when the one before it cannot hold more, and so
\* no cut gets further with as many parts.
LEMMA PackAhead ==
  ASSUME Scan!LimitsAssumption, Scan!TypeOK, Scan!Exact, Scan!Ahead, Scan!Pack
  PROVE  Scan!Ahead'
<1>1. PICK i \in Nat : i = packed + 1
  BY DEF Scan!TypeOK
<1>2. PICK n \in Nat : n = Len(parts) /\ DOMAIN parts = 1..n
  BY PartType
<1>3. /\ i \in DOMAIN records /\ DOMAIN records = 1..Len(records) /\ packed \in Nat
      /\ records[i].size \in 0..MaxPartBytes /\ packed' = i /\ records' = records
      /\ \A k \in DOMAIN parts : i \notin Scan!Items(k) /\ \A j \in Scan!Items(k) : j \in Nat /\ j < i
  BY <1>1, NextRecord
<1>4. MaxPartItems \in Nat \ {0} /\ MaxPartBytes \in Nat /\ records[i].size \in Nat
      /\ Len(records) \in Nat
  BY <1>3, Sized DEF Scan!LimitsAssumption
<1>5. \A k : Scan!Cuts(k)' = Scan!Cuts(k)
  BY <1>3, SameRecords
<1>6. \A k \in 1..n : \A ends \in Scan!Cuts(k - 1), j \in Scan!Items(k) : ends[k - 1] < j
  BY <1>2 DEF Scan!Ahead
<1>7. CASE ~Scan!Supported(i) /\ parts' = parts
  <2>1. \A k : Scan!Items(k)' = Scan!Items(k)
    BY <1>7 DEF Scan!Items
  <2>2. QED
    BY <1>2, <1>5, <1>6, <1>7, <2>1 DEF Scan!Ahead
<1>8. CASE Scan!Supported(i) /\ OwnPart(i)
  <2>1. /\ DOMAIN parts' = 1..(n + 1)
        /\ \A k \in 1..n : Scan!Items(k)' = Scan!Items(k)
        /\ Scan!Items(n + 1)' = {i}
    BY <1>2, <1>4, <1>8, OwnItems
  <2>2. \A k \in 1..(n + 1) : k \in 1..n \/ k = n + 1
    OBVIOUS
  <2>3. ASSUME NEW ends \in Scan!Cuts(n), ~(ends[n] < i) PROVE FALSE
    <3>1. /\ ends \in [0..n -> 0..Len(records)] /\ ends[0] = 0
          /\ \A k \in 1..n : Scan!Fits(Scan!Content(ends[k - 1], ends[k]))
      BY <2>3 DEF Scan!Cuts
    <3>2. n # 0
      BY <1>1, <1>3, <2>3, <3>1
    <3>3. n \in 1..n /\ n - 1 \in Nat /\ n - 1 \in 0..n
      BY <3>2
    <3> DEFINE first == [k \in 0..(n - 1) |-> ends[k]]
    <3>4. first \in Scan!Cuts(n - 1)
      <4>1. first \in [0..(n - 1) -> 0..Len(records)] /\ first[0] = 0
        BY <3>1, <3>3
      <4>2. \A k \in 1..(n - 1) : first[k - 1] = ends[k - 1] /\ first[k] = ends[k] /\ k \in 1..n
        BY <3>3
      <4> HIDE DEF first
      <4>3. \A k \in 1..(n - 1) : Scan!Fits(Scan!Content(first[k - 1], first[k]))
        BY <3>1, <4>2
      <4>4. QED
        BY <4>1, <4>3 DEF Scan!Cuts
    <3>5. \A j \in Scan!Items(n) : ends[n - 1] < j
      <4>1. first[n - 1] = ends[n - 1]
        BY <3>3
      <4> HIDE DEF first
      <4>2. QED
        BY <1>6, <3>3, <3>4, <4>1
    <3> DEFINE a == ends[n - 1]
               b == ends[n]
    <3>6. a \in Nat /\ b \in Nat /\ Scan!Fits(Scan!Content(a, b)) /\ i <= b
      BY <1>4, <2>3, <3>1, <3>3
    <3>7. \A j \in Scan!Items(n) : Scan!Supported(j) /\ j \in Nat /\ j < i
      BY <1>2, <1>3, <3>3, ItemsType
    <3>8. \E j \in Scan!Items(n) : TRUE
      BY <1>2, <3>3, ItemsType
    <3>9. Scan!Items(n) \cup {i} \subseteq Scan!Content(a, b)
      <4>1. \A j \in Scan!Items(n) : a < j
        BY <3>5
      <4> HIDE DEF a, b
      <4>2. a < i
        BY <3>6, <3>7, <3>8, <4>1
      <4>3. \A j \in Scan!Items(n) \cup {i} : j \in (a + 1)..b /\ Scan!Supported(j)
        BY <1>8, <3>6, <3>7, <4>1, <4>2
      <4>4. QED
        BY <4>3 DEF Scan!Content
    <3>10. IsFiniteSet(Scan!Content(a, b))
      BY <3>6, ContentFinite
    <3> HIDE DEF a, b
    <3>11. Scan!Fits(Scan!Items(n) \cup {i})
      BY <3>6, <3>9, <3>10, FitsLess
    <3>12. /\ Cardinality(Scan!Items(n)) = Len(parts[n].items) /\ Scan!Bytes(Scan!Items(n)) = parts[n].bytes
           /\ IsFiniteSet(Scan!Items(n)) /\ i \notin Scan!Items(n)
           /\ Len(parts[n].items) \in Nat /\ parts[n].bytes \in Nat
      BY <1>2, <1>3, <3>3, ItemsType, PartType, SameCardinality DEF Scan!Exact
    <3>13. Cardinality(Scan!Items(n) \cup {i}) = Cardinality(Scan!Items(n)) + 1
      BY <3>12, FS_AddElement
    <3>14. Scan!Bytes(Scan!Items(n) \cup {i}) = Scan!Bytes(Scan!Items(n)) + records[i].size
      BY <1>3, <3>12, BytesAdd
    <3>15. Scan!Full(parts[n], i)
      <4>1. parts # <<>>
        BY <1>2, <3>2
      <4>2. QED
        BY <1>2, <1>8, <4>1 DEF OwnPart
    <3>16. QED
      BY <1>4, <3>11, <3>12, <3>13, <3>14, <3>15, SameCardinality DEF Scan!Fits, Scan!Full
  <2>4. \A k \in 1..(n + 1) : \A ends \in Scan!Cuts(k - 1), j \in Scan!Items(k)' : ends[k - 1] < j
    <3>1. (n + 1) - 1 = n
      OBVIOUS
    <3>2. QED
      BY <1>6, <2>1, <2>2, <2>3, <3>1
  <2>5. QED
    BY <1>5, <2>1, <2>4 DEF Scan!Ahead
<1>9. CASE Scan!Supported(i) /\ LastPart(i)
  <2>1. /\ DOMAIN parts' = 1..n /\ n \in 1..n
        /\ \A k \in 1..n : k # n => Scan!Items(k)' = Scan!Items(k)
        /\ Scan!Items(n)' = Scan!Items(n) \cup {i}
    BY <1>2, <1>4, <1>9, LastItems
  <2>2. ASSUME NEW ends \in Scan!Cuts(n - 1) PROVE ends[n - 1] < i
    <3>1. ends[n - 1] \in Nat
      <4>1. ends \in [0..(n - 1) -> 0..Len(records)]
        BY DEF Scan!Cuts
      <4>2. n - 1 \in 0..(n - 1)
        BY <2>1
      <4>3. QED
        BY <1>4, <4>1, <4>2
    <3>2. PICK j \in Scan!Items(n) : TRUE
      BY <1>2, <2>1, ItemsType
    <3>3. ends[n - 1] < j /\ j < i /\ j \in Nat
      BY <1>2, <1>3, <1>6, <2>1, <3>2
    <3>4. QED
      BY <3>1, <3>3
  <2>3. \A k \in 1..n : \A ends \in Scan!Cuts(k - 1), j \in Scan!Items(k)' : ends[k - 1] < j
    BY <1>6, <2>1, <2>2
  <2>4. QED
    BY <1>5, <2>1, <2>3 DEF Scan!Ahead
<1>10. QED
  BY <1>1, <1>7, <1>8, <1>9, NextRecord

\* What the report says of the parts.
LEMMA ReportedParts ==
  /\ Scan!Report.partFiles = [k \in DOMAIN parts |-> Len(parts[k].items)]
  /\ Scan!Report.partBytes = [k \in DOMAIN parts |-> parts[k].bytes]
BY DEF Scan!Report

\* Packing keeps the counts adding up to what was packed.
LEMMA PackAdds ==
  ASSUME Scan!LimitsAssumption, Scan!TypeOK, Scan!Exact, Scan!Adds, Scan!Pack
  PROVE  Scan!Adds'
<1>1. PICK i \in Nat : i = packed + 1
  BY DEF Scan!TypeOK
<1>2. PICK n \in Nat : n = Len(parts) /\ DOMAIN parts = 1..n
  BY PartType
<1>3. /\ i \in DOMAIN records /\ packed \in Nat
      /\ packed' = i /\ records' = records
      /\ records[i].size \in Nat /\ packed < Len(records)
  BY <1>1, NextRecord, PackStep, Sized
<1>4. /\ ~Scan!Supported(i) => Scan!Content(0, i) = Scan!Content(0, packed)
      /\ Scan!Supported(i) =>
           /\ Cardinality(Scan!Content(0, i)) = Cardinality(Scan!Content(0, packed)) + 1
           /\ Scan!Bytes(Scan!Content(0, i)) = Scan!Bytes(Scan!Content(0, packed)) + records[i].size
  BY <1>1, <1>3, ContentNext
<1>5. /\ Scan!Content(0, packed)' = Scan!Content(0, i)
      /\ Scan!Bytes(Scan!Content(0, packed))' = Scan!Bytes(Scan!Content(0, i))
  <2>1. Scan!Content(0, packed)' = Scan!Content(0, i)
    BY <1>3 DEF Scan!Content, Scan!Supported
  <2>2. QED
    BY <1>3, <2>1 DEF Scan!Bytes
<1> DEFINE files == [k \in DOMAIN parts |-> Len(parts[k].items)]
           bytes == [k \in DOMAIN parts |-> parts[k].bytes]
           files1 == [k \in DOMAIN parts' |-> Len(parts'[k].items)]
           bytes1 == [k \in DOMAIN parts' |-> parts'[k].bytes]
<1>6. /\ Scan!SumOf(files, n) = Cardinality(Scan!Content(0, packed))
      /\ Scan!SumOf(bytes, n) = Scan!Bytes(Scan!Content(0, packed))
  BY <1>2, ReportedParts, SameCardinality DEF Scan!Adds
<1>7. SUFFICES /\ Scan!SumOf(files1, Len(parts')) = Cardinality(Scan!Content(0, i))
               /\ Scan!SumOf(bytes1, Len(parts')) = Scan!Bytes(Scan!Content(0, i))
  <2>1. Scan!Report.partFiles' = files1 /\ Scan!Report.partBytes' = bytes1
    BY DEF Scan!Report
  <2> HIDE DEF files1, bytes1
  <2>2. QED
    BY <1>5, <2>1, SameCardinality DEF Scan!Adds
<1>8. \A k \in 1..n : Len(parts[k].items) \in Nat /\ parts[k].bytes \in Nat
  BY <1>2, PartType
<1>9. \A k \in 1..n : files[k] \in Nat /\ bytes[k] \in Nat
  BY <1>2, <1>8
<1>10. CASE ~Scan!Supported(i) /\ parts' = parts
  <2>1. files1 = files /\ bytes1 = bytes
    BY <1>10, Zenon
  <2>2. Len(parts') = n
    BY <1>2, <1>10
  <2> HIDE DEF files, bytes, files1, bytes1
  <2>3. QED
    BY <1>4, <1>6, <1>10, <2>1, <2>2
<1>11. CASE Scan!Supported(i) /\ OwnPart(i)
  <2>1. /\ Len(parts') = n + 1 /\ DOMAIN parts' = 1..(n + 1)
        /\ \A k \in 1..n : parts'[k] = parts[k]
        /\ parts'[n + 1].items = <<i>> /\ parts'[n + 1].bytes = records[i].size
    BY <1>2, <1>3, <1>11, OwnPartIs
  <2>2. /\ \A k \in 1..n : files1[k] = files[k] /\ bytes1[k] = bytes[k]
        /\ files1[n + 1] = 1 /\ bytes1[n + 1] = records[i].size
    <3>1. \A k \in 1..n : k \in DOMAIN parts /\ k \in DOMAIN parts' /\ parts'[k] = parts[k]
      BY <1>2, <2>1
    <3>2. n + 1 \in DOMAIN parts' /\ Len(<<i>>) = 1
      BY <2>1
    <3>3. \A k \in 1..n : files1[k] = files[k]
      BY <3>1
    <3>4. \A k \in 1..n : bytes1[k] = bytes[k]
      BY <3>1
    <3>5. files1[n + 1] = 1 /\ bytes1[n + 1] = records[i].size
      BY <2>1, <3>2
    <3>6. QED
      BY <3>3, <3>4, <3>5
  <2>3. \A k \in 1..(n + 1) : k \in 1..n \/ k = n + 1
    OBVIOUS
  <2> HIDE DEF files, bytes, files1, bytes1
  <2>4. \A k \in 1..(n + 1) : files1[k] \in Nat /\ bytes1[k] \in Nat
    BY <1>3, <1>9, <2>2, <2>3
  <2>5. Scan!SumOf(files1, n + 1) = Scan!SumOf(files, n) + files1[n + 1]
    BY <2>2, <2>4, SumStep
  <2>6. Scan!SumOf(bytes1, n + 1) = Scan!SumOf(bytes, n) + bytes1[n + 1]
    BY <2>2, <2>4, SumStep
  <2>7. QED
    BY <1>4, <1>6, <1>11, <2>1, <2>2, <2>5, <2>6
<1>12. CASE Scan!Supported(i) /\ LastPart(i)
  <2>1. /\ Len(parts') = n /\ DOMAIN parts' = 1..n /\ n \in 1..n
        /\ \A k \in 1..n : k # n => parts'[k] = parts[k]
        /\ parts'[n].items = Append(parts[n].items, i)
        /\ parts'[n].bytes = parts[n].bytes + records[i].size
    BY <1>2, <1>3, <1>12, LastPartIs
  <2>2. Len(parts'[n].items) = Len(parts[n].items) + 1
    BY <1>2, <2>1, PartType
  <2>3. /\ \A k \in 1..n : k # n => files1[k] = files[k] /\ bytes1[k] = bytes[k]
        /\ files1[n] = files[n] + 1 /\ bytes1[n] = bytes[n] + records[i].size
    BY <1>2, <2>1, <2>2
  <2> HIDE DEF files, bytes, files1, bytes1
  <2>4. Scan!SumOf(files1, n) = Scan!SumOf(files, n) + 1
    <3>1. \A k \in 1..n : files[k] \in Nat /\ (k # n => files1[k] = files[k])
      BY <1>9, <2>3
    <3>2. files1[n] = files[n] + 1 /\ n \in 1..n /\ 1 \in Nat
      BY <2>1, <2>3
    <3>3. QED
      BY ONLY <3>1, <3>2, n \in Nat, SumBump
  <2>5. Scan!SumOf(bytes1, n) = Scan!SumOf(bytes, n) + records[i].size
    <3>1. \A k \in 1..n : bytes[k] \in Nat /\ (k # n => bytes1[k] = bytes[k])
      BY <1>9, <2>3
    <3>2. bytes1[n] = bytes[n] + records[i].size /\ n \in 1..n /\ records[i].size \in Nat
      BY <1>3, <2>1, <2>3
    <3>3. QED
      BY ONLY <3>1, <3>2, n \in Nat, SumBump
  <2>6. QED
    BY <1>4, <1>6, <1>12, <2>1, <2>4, <2>5
<1>13. QED
  BY <1>1, <1>10, <1>11, <1>12, NextRecord

\* When all records are packed, the report that is built agrees with itself.
LEMMA ReportAgrees ==
  ASSUME Scan!LimitsAssumption, Scan!TypeOK, Scan!Exact, Scan!Adds, packed = Len(records)
  PROVE  Scan!Consistent(Scan!Report)
<1>1. Scan!Content(0, packed) = Scan!InState("supported")
  BY Sized DEF Scan!Content, Scan!InState, Scan!Supported
<1>2. Len(parts) \in Nat /\ DOMAIN parts = 1..Len(parts)
  BY PartType
<1> DEFINE files == [k \in DOMAIN parts |-> Len(parts[k].items)]
           bytes == [k \in DOMAIN parts |-> parts[k].bytes]
<1>3. Scan!Report.partFiles = files /\ Scan!Report.partBytes = bytes
      /\ Len(files) = Len(parts) /\ Len(bytes) = Len(parts)
      /\ DOMAIN files = 1..Len(parts)
      /\ \A k \in 1..Len(parts) : files[k] = Len(parts[k].items) /\ bytes[k] = parts[k].bytes
  BY <1>2, ReportedParts
<1> HIDE DEF files, bytes
<1>4. \A k \in DOMAIN files : files[k] \in 1..MaxPartItems /\ bytes[k] <= MaxPartBytes
  BY <1>2, <1>3 DEF Scan!Exact
<1>5. Scan!SumOf(files, Len(files)) = Cardinality(Scan!InState("supported"))
      /\ Scan!SumOf(bytes, Len(bytes)) = Scan!Bytes(Scan!InState("supported"))
  BY <1>1, <1>3, SameCardinality DEF Scan!Adds
<1>6. /\ Scan!Report.supported = Cardinality(Scan!InState("supported")) /\ Scan!Report.files = Len(records)
      /\ Scan!Report.bytes = Scan!Bytes(Scan!InState("supported")) /\ Scan!Report.skips = Scan!Skips
  BY SameCardinality DEF Scan!Report
<1>7. /\ Scan!Skips.oversized = Cardinality(Scan!InState("oversized"))
      /\ Scan!Skips.nonUTF8 = Cardinality(Scan!InState("unsupported_utf8"))
      /\ Scan!Skips.excludedDirectory = Cardinality(Scan!InState("excluded_directory"))
      /\ Scan!Skips.unsupportedFileType = Cardinality(Scan!InState("unsupported_file_type"))
      /\ Scan!Skips.symlink = Cardinality(Scan!InState("symlink_rejected"))
  BY SameCardinality DEF Scan!Skips
<1> DEFINE a == Cardinality(Scan!InState("supported"))
           b == Cardinality(Scan!InState("oversized"))
           c == Cardinality(Scan!InState("unsupported_utf8"))
           d == Cardinality(Scan!InState("excluded_directory"))
           e == Cardinality(Scan!InState("unsupported_file_type"))
           f == Cardinality(Scan!InState("symlink_rejected"))
<1>8. /\ a \in Nat /\ b \in Nat /\ c \in Nat /\ d \in Nat /\ e \in Nat /\ f \in Nat
      /\ a + b + c + d + e + f = Len(records)
  BY StatesAdd DEF Scan!States
<1> HIDE DEF a, b, c, d, e, f
<1>9. a <= Len(records) /\ b + c + d + e + f = Len(records) - a
  BY <1>8
<1>10. /\ Scan!Report.supported <= Scan!Report.files
       /\ Scan!Report.skips.oversized + Scan!Report.skips.nonUTF8 + Scan!Report.skips.excludedDirectory
            + Scan!Report.skips.unsupportedFileType + Scan!Report.skips.symlink
          = Scan!Report.files - Scan!Report.supported
  BY <1>6, <1>7, <1>9 DEF a, b, c, d, e, f
<1>11. QED
  BY <1>3, <1>4, <1>5, <1>6, <1>10 DEF Scan!Consistent

\* Nothing that is said of the packing changes while it rests.
LEMMA PackingRests ==
  ASSUME Scan!TypeOK, Scan!Exact, Scan!Ahead, Scan!Adds, UNCHANGED <<records, parts, packed>>
  PROVE  Scan!Exact' /\ Scan!Ahead' /\ Scan!Adds'
<1>1. \A k : Scan!Items(k)' = Scan!Items(k)
  BY DEF Scan!Items
<1>2. /\ \A i : Scan!Supported(i)' <=> Scan!Supported(i)
      /\ \A S : Scan!Bytes(S)' = Scan!Bytes(S)
      /\ \A a, b : Scan!Content(a, b)' = Scan!Content(a, b)
      /\ \A n : Scan!Cuts(n)' = Scan!Cuts(n)
  BY SameRecords
<1>3. Scan!Exact'
  BY <1>1, <1>2 DEF Scan!Exact, Scan!Ordered
<1>4. Scan!Ahead'
  BY <1>1, <1>2 DEF Scan!Ahead
<1>5. Scan!Adds'
  <2>1. Scan!Content(0, packed)' = Scan!Content(0, packed)
    BY DEF Scan!Content, Scan!Supported
  <2>2. Scan!Report.partFiles' = Scan!Report.partFiles /\ Scan!Report.partBytes' = Scan!Report.partBytes
    BY DEF Scan!Report
  <2>3. Scan!Bytes(Scan!Content(0, packed))' = Scan!Bytes(Scan!Content(0, packed))
    BY <2>1 DEF Scan!Bytes
  <2>4. QED
    BY <2>1, <2>2, <2>3 DEF Scan!Adds
<1>6. QED
  BY <1>3, <1>4, <1>5

\* The invariant of a scan is inductive.
LEMMA ScanKeeps ==
  ASSUME Scan!LimitsAssumption, Scan!TypeOK, Scan!ScanInv, Scan!ScanNext
  PROVE  Scan!ScanInv'
<1>1. CASE Scan!Classify
  <2>1. parts = <<>> /\ packed = 0 /\ UNCHANGED <<parts, packed>>
        /\ verdict' \in {"scanning", "refused"}
    BY <1>1 DEF Scan!Classify, Scan!ScanInv
  <2>2. DOMAIN parts' = {} /\ Len(parts') = 0
    BY <2>1
  <2>3. \A j \in DOMAIN records' : ~(j <= packed')
    <3>1. Scan!TypeOK'
      BY <1>1, ScanTypes DEF Scan!ScanNext
    <3>2. DOMAIN records' \subseteq 1..Len(records') /\ Len(records') \in Nat
      BY <3>1 DEF Scan!TypeOK
    <3>3. QED
      BY <2>1, <3>2
  <2>4. Scan!Exact' /\ Scan!Ahead'
    BY <2>2, <2>3 DEF Scan!Exact, Scan!Ahead, Scan!Ordered
  <2>5. Scan!Adds'
    <3>1. Scan!Content(0, packed)' = {}
      BY <2>1 DEF Scan!Content
    <3>2. /\ Scan!SumOf(Scan!Report.partFiles, Len(parts))' = 0
          /\ Scan!SumOf(Scan!Report.partBytes, Len(parts))' = 0
      BY <2>2, SumZero
    <3>3. Scan!Bytes({})' = 0
      <4>1. Scan!TypeOK'
        BY <1>1, ScanTypes DEF Scan!ScanNext
      <4> DEFINE size == [j \in DOMAIN records' |-> IF j \in {} THEN records'[j].size ELSE 0]
      <4>2. Len(records') \in Nat /\ \A k \in 1..Len(records') : size[k] = 0
        BY <4>1 DEF Scan!TypeOK
      <4> HIDE DEF size
      <4>3. Scan!SumOf(size, Len(records')) = 0
        BY <4>2, SumNone
      <4>4. QED
        BY <4>3 DEF Scan!Bytes, size
    <3>4. Cardinality({}) = 0
      BY FS_EmptySet
    <3>5. Scan!Bytes(Scan!Content(0, packed))' = Scan!Bytes({})'
      BY <3>1 DEF Scan!Bytes
    <3>6. QED
      BY <3>1, <3>2, <3>3, <3>4, <3>5, SameCardinality DEF Scan!Adds
  <2>6. QED
    BY <2>1, <2>4, <2>5 DEF Scan!ScanInv
<1>2. CASE Scan!Aggregate
  BY <1>2, PackingRests DEF Scan!Aggregate, Scan!ScanInv
<1>3. CASE Scan!Pack
  <2>1. Scan!Exact' /\ Scan!Ahead' /\ Scan!Adds'
    BY <1>3, PackExact, PackAhead, PackAdds DEF Scan!ScanInv
  <2>2. verdict' = "packing"
    BY <1>3, PackStep
  <2>3. QED
    BY <2>1, <2>2 DEF Scan!ScanInv
<1>4. CASE Scan!Finish
  <2>1. packed = Len(records) /\ UNCHANGED <<records, parts, packed>>
    BY <1>4 DEF Scan!Finish
  <2>2. Scan!Consistent(Scan!Report)
    BY <2>1, ReportAgrees DEF Scan!ScanInv
  <2>3. verdict' \in {"too_many_parts", "ok", "drifted"}
    BY <1>4, <2>2 DEF Scan!Finish
  <2>4. QED
    BY <2>1, <2>3, PackingRests DEF Scan!ScanInv
<1>5. QED
  BY <1>1, <1>2, <1>3, <1>4 DEF Scan!ScanNext

\* The invariant of a scan gives the property.
LEMMA ScanPromises ==
  ASSUME Scan!LimitsAssumption, Scan!TypeOK, Scan!ScanInv
  PROVE  Scan!PackingIsExact
<1>1. Scan!Exact /\ Scan!Ahead
  BY DEF Scan!ScanInv
<1>2. SUFFICES ASSUME verdict \in {"ok", "drifted", "too_many_parts"}
      PROVE  /\ \A i \in DOMAIN records : Scan!Supported(i) <=> \E k \in DOMAIN parts : i \in Scan!Items(k)
             /\ Scan!Ordered
             /\ \A k \in DOMAIN parts : Scan!Items(k) # {} /\ Scan!Fits(Scan!Items(k))
             /\ parts # <<>> => ~Scan!CanBeCut(Len(parts) - 1)
  BY DEF Scan!PackingIsExact, Scan!ScanInv
<1>3. packed = Len(records) /\ DOMAIN records = 1..Len(records) /\ Len(records) \in Nat
  BY <1>2, Sized DEF Scan!ScanInv
<1>4. \A i \in DOMAIN records : Scan!Supported(i) <=> \E k \in DOMAIN parts : i \in Scan!Items(k)
  BY <1>1, <1>3 DEF Scan!Exact
<1>5. \A k \in DOMAIN parts : Scan!Items(k) # {} /\ Scan!Fits(Scan!Items(k))
  BY <1>1, ItemsType DEF Scan!Exact, Scan!Fits
<1>6. ASSUME parts # <<>> PROVE ~Scan!CanBeCut(Len(parts) - 1)
  <2>1. Len(parts) \in DOMAIN parts
    BY <1>6 DEF Scan!TypeOK
  <2>2. PICK i \in Scan!Items(Len(parts)) : i \in DOMAIN records
    BY <1>1, <2>1, ItemsType
  <2>3. \A ends \in Scan!Cuts(Len(parts) - 1) : ends[Len(parts) - 1] < i
    BY <1>1, <2>1, <2>2 DEF Scan!Ahead
  <2>4. ~(Len(records) < i)
    BY <1>3, <2>2
  <2>5. QED
    BY <2>3, <2>4 DEF Scan!CanBeCut
<1>7. QED
  BY <1>1, <1>4, <1>5, <1>6 DEF Scan!Exact

\* The invariant of a scan holds at the start.
LEMMA ScanStarts ==
  ASSUME Scan!LimitsAssumption, Scan!ScanInit
  PROVE  Scan!TypeOK /\ Scan!ScanInv
<1>1. records = <<>> /\ parts = <<>> /\ packed = 0 /\ verdict = "scanning"
  BY DEF Scan!ScanInit
<1>2. Scan!TypeOK
  BY <1>1 DEF Scan!TypeOK
<1>3. DOMAIN parts = {} /\ Len(parts) = 0 /\ DOMAIN records = {}
  BY <1>1
<1>4. Scan!Exact /\ Scan!Ahead
  BY <1>3 DEF Scan!Exact, Scan!Ahead, Scan!Ordered
<1>5. Scan!Adds
  <2>1. Scan!Content(0, packed) = {}
    BY <1>1 DEF Scan!Content
  <2>2. /\ Scan!SumOf(Scan!Report.partFiles, Len(parts)) = 0
        /\ Scan!SumOf(Scan!Report.partBytes, Len(parts)) = 0
    BY <1>3, SumZero
  <2>3. Scan!Bytes({}) = 0 /\ Cardinality({}) = 0
    BY <1>2, BytesNone, FS_EmptySet
  <2>4. QED
    BY <2>1, <2>2, <2>3, SameCardinality DEF Scan!Adds
<1>6. QED
  BY <1>1, <1>2, <1>4, <1>5 DEF Scan!ScanInv

\* A scan at rest keeps what is said of it.
LEMMA ScanRests ==
  ASSUME Scan!TypeOK, Scan!ScanInv, UNCHANGED <<records, parts, packed, verdict>>
  PROVE  Scan!TypeOK' /\ Scan!ScanInv'
<1>1. Scan!TypeOK'
  BY DEF Scan!TypeOK
<1>2. Scan!Exact' /\ Scan!Ahead' /\ Scan!Adds'
  BY PackingRests DEF Scan!ScanInv
<1>3. QED
  BY <1>1, <1>2 DEF Scan!ScanInv

-----------------------------------------------------------------------------
(* The reports of feedback (FeedbackReport).                               *)

\* WithItem adds nothing but the item.
LEMMA WithItemKeeps ==
  ASSUME NEW items, NEW kept \in Seq(items), NEW f \in items
  PROVE  Reports!WithItem(kept, f) \in Seq(items)
<1> DEFINE alike == {i \in DOMAIN kept : Reports!AreAlike(kept[i], f)}
           first == CHOOSE i \in alike : \A j \in alike : i <= j
<1>1. Append(kept, f) \in Seq(items)
  OBVIOUS
<1>2. [kept EXCEPT ![first] = f] \in Seq(items)
  <2> HIDE DEF first
  <2>1. kept \in [1..Len(kept) -> items] /\ Len(kept) \in Nat
    OBVIOUS
  <2>2. [kept EXCEPT ![first] = f] \in [1..Len(kept) -> items]
    BY <2>1
  <2>3. QED
    BY <2>1, <2>2
<1>3. Reports!WithItem(kept, f) \in {Append(kept, f), [kept EXCEPT ![first] = f], kept}
  BY DEF Reports!WithItem
<1> HIDE DEF first
<1>4. QED
  BY <1>1, <1>2, <1>3

\* Collapsing duplicates makes nothing up.
LEMMA CollapsedIsPart ==
  ASSUME Reports!FeedbackAssumption, NEW items, items \subseteq Reports!Feedback
  PROVE  Reports!Collapsed(items) \subseteq items
<1> DEFINE step == [n \in 1..Len(Order) |-> [kept \in Seq(items) |->
                      IF Order[n] \in items THEN Reports!WithItem(kept, Order[n]) ELSE kept]]
           all[n \in 0..Len(Order)] ==
             IF n = 0 THEN <<>>
             ELSE IF Order[n] \in items THEN Reports!WithItem(all[n - 1], Order[n]) ELSE all[n - 1]
<1>1. Len(Order) \in Nat
  BY DEF Reports!FeedbackAssumption
<1>2. step \in [1..Len(Order) -> [Seq(items) -> Seq(items)]]
  <2>1. \A n \in 1..Len(Order) : \A kept \in Seq(items) :
          (IF Order[n] \in items THEN Reports!WithItem(kept, Order[n]) ELSE kept) \in Seq(items)
    BY WithItemKeeps
  <2>2. QED
    BY <2>1
<1>3. <<>> \in Seq(items)
  OBVIOUS
<1>4. PICK f : Iterates(f, <<>>, step, Len(Order), Seq(items))
  <2> HIDE DEF step
  <2>1. QED
    BY <1>1, <1>2, <1>3, Iteration
<1>5. f = [n \in 0..Len(Order) |->
             IF n = 0 THEN <<>>
             ELSE IF Order[n] \in items THEN Reports!WithItem(f[n - 1], Order[n]) ELSE f[n - 1]]
  <2>1. \A n \in 0..Len(Order) : n # 0 => n \in 1..Len(Order) /\ f[n - 1] \in Seq(items)
    BY <1>1, <1>4 DEF Iterates
  <2>2. \A n \in 0..Len(Order) : n # 0 =>
          step[n][f[n - 1]] = IF Order[n] \in items THEN Reports!WithItem(f[n - 1], Order[n]) ELSE f[n - 1]
    BY <2>1
  <2> HIDE DEF step
  <2>3. \A n \in 0..Len(Order) :
          f[n] = IF n = 0 THEN <<>>
                 ELSE IF Order[n] \in items THEN Reports!WithItem(f[n - 1], Order[n]) ELSE f[n - 1]
    BY <1>4, <2>1, <2>2 DEF Iterates
  <2>4. f = [n \in 0..Len(Order) |-> f[n]]
    BY <1>4 DEF Iterates
  <2>5. QED
    BY <2>3, <2>4, Zenon
<1> HIDE DEF step
<1>6. all = [n \in 0..Len(Order) |->
             IF n = 0 THEN <<>>
             ELSE IF Order[n] \in items THEN Reports!WithItem(all[n - 1], Order[n]) ELSE all[n - 1]]
  BY <1>5, Zenon
<1> DEFINE T == {n \in 0..Len(Order) : all[n] \in Seq(items)}
<1> HIDE DEF all
<1>7. 0 \in T
  BY <1>1, <1>3, <1>6
<1>8. ASSUME NEW n \in 0..(Len(Order) - 1), n \in T PROVE n + 1 \in T
  <2>1. n + 1 \in 0..Len(Order) /\ n + 1 # 0 /\ (n + 1) - 1 = n
    BY <1>1
  <2>2. all[n] \in Seq(items)
    BY <1>8
  <2>3. all[n + 1] = IF Order[n + 1] \in items THEN Reports!WithItem(all[n], Order[n + 1]) ELSE all[n]
    BY <1>6, <2>1
  <2>4. QED
    BY <2>1, <2>2, <2>3, WithItemKeeps
<1>9. all[Len(Order)] \in Seq(items)
  <2>1. 0..Len(Order) \subseteq T
    <3> HIDE DEF T
    <3>1. QED
      BY <1>1, <1>7, <1>8, Induction
  <2>2. QED
    BY <2>1, <1>1
<1>10. Reports!Collapsed(items) = Reports!Range(all[Len(Order)])
  BY DEF Reports!Collapsed, all
<1>11. QED
  BY <1>9, <1>10 DEF Reports!Range

\* A document that is done adds the same to the cache as to the report.
LEMMA ListStep ==
  ASSUME Reports!FeedbackAssumption, Reports!TypeOK, NEW p \in Processes, Reports!List(p)
  PROVE  \E d, more : more \subseteq Reports!Feedback
                      /\ me' = [me EXCEPT ![p] = Reports!Listed(me[p], d, more, more)]
<1>1. PICK d \in me[p].todo :
        \/ me' = [me EXCEPT ![p] = Reports!Listed(me[p], d, {}, {})]
        \/ LET fresh == {f \in Reports!Feedback : feedback[f] = d} \ me[p].seen
               kept == Reports!Collapsed(fresh)
           IN me' = [me EXCEPT ![p] = Reports!Listed(me[p], d, Reports!NowSeen(fresh, kept), kept)]
  BY DEF Reports!List
<1> DEFINE fresh == {f \in Reports!Feedback : feedback[f] = d} \ me[p].seen
           more == Reports!Collapsed(fresh)
<1>2. more \subseteq Reports!Feedback
  <2>1. fresh \subseteq Reports!Feedback
    OBVIOUS
  <2> HIDE DEF fresh
  <2>2. QED
    BY <2>1, CollapsedIsPart
<1>3. \/ me' = [me EXCEPT ![p] = Reports!Listed(me[p], d, {}, {})]
      \/ me' = [me EXCEPT ![p] = Reports!Listed(me[p], d, more, more)]
  BY <1>1, Zenon DEF Reports!NowSeen
<1> HIDE DEF more
<1>4. QED
  BY <1>2, <1>3

\* What an action of ReportNext keeps.
LEMMA ReportTypes ==
  ASSUME Reports!FeedbackAssumption, Reports!TypeOK, Reports!ReportNext
  PROVE  Reports!TypeOK'
<1>1. CASE Reports!Generate
  BY <1>1 DEF Reports!Generate, Reports!TypeOK
<1>2. ASSUME NEW p \in Processes, Reports!LoadCache(p) PROVE Reports!TypeOK'
  <2>1. me'[p] \in Reports!Memory /\ \A q \in Processes : q # p => me'[q] = me[q]
    BY <1>2 DEF Reports!LoadCache, Reports!TypeOK, Reports!Memory, Reports!Idle
  <2>2. me' \in [Processes -> Reports!Memory]
    BY <1>2, <2>1 DEF Reports!LoadCache, Reports!TypeOK
  <2>3. QED
    BY <1>2, <2>2 DEF Reports!LoadCache, Reports!TypeOK
<1>3. ASSUME NEW p \in Processes, Reports!List(p) PROVE Reports!TypeOK'
  <2>1. me' \in [Processes -> Reports!Memory]
    <3>1. PICK d, more : /\ more \subseteq Reports!Feedback
                         /\ me' = [me EXCEPT ![p] = Reports!Listed(me[p], d, more, more)]
      BY <1>3, ListStep
    <3>2. Reports!Listed(me[p], d, more, more) \in Reports!Memory
      BY <3>1 DEF Reports!TypeOK, Reports!Listed, Reports!Memory
    <3>3. QED
      BY <3>1, <3>2 DEF Reports!TypeOK
  <2>2. faults' \in Nat
    <3>1. faults' \in {faults, faults + 1}
      BY <1>3 DEF Reports!List
    <3>2. QED
      BY <3>1 DEF Reports!TypeOK
  <2>3. QED
    BY <1>3, <2>1, <2>2 DEF Reports!List, Reports!TypeOK
<1>4. ASSUME NEW p \in Processes, Reports!SaveCache(p) PROVE Reports!TypeOK'
  <2>1. me[p] \in Reports!Memory /\ Reports!Idle \in Reports!Memory
    BY DEF Reports!TypeOK, Reports!Idle, Reports!Memory
  <2>2. me' \in [Processes -> Reports!Memory]
    BY <1>4, <2>1 DEF Reports!SaveCache, Reports!TypeOK, Reports!Memory
  <2>3. cache' \in (SUBSET Reports!Feedback) \cup {Torn} /\ faults' \in Nat
    BY <1>4, <2>1 DEF Reports!SaveCache, Reports!TypeOK, Reports!Memory
  <2>4. QED
    BY <1>4, <2>2, <2>3 DEF Reports!SaveCache, Reports!TypeOK
<1>5. ASSUME NEW p \in Processes, Reports!WriteReport(p) PROVE Reports!TypeOK'
  <2>1. me[p] \in Reports!Memory /\ Reports!Idle \in Reports!Memory
    BY DEF Reports!TypeOK, Reports!Idle, Reports!Memory
  <2>2. QED
    BY <1>5, <2>1 DEF Reports!WriteReport, Reports!TypeOK, Reports!Memory
<1>6. ASSUME NEW p \in Processes, Reports!Die(p) PROVE Reports!TypeOK'
  <2>1. me[p] \in Reports!Memory /\ Reports!Idle \in Reports!Memory
    BY DEF Reports!TypeOK, Reports!Idle, Reports!Memory
  <2>2. QED
    BY <1>6, <2>1 DEF Reports!Die, Reports!TypeOK, Reports!Memory
<1>7. QED
  BY <1>1, <1>2, <1>3, <1>4, <1>5, <1>6 DEF Reports!ReportNext

\* The invariant of the reports is inductive.
LEMMA ReportKeeps ==
  ASSUME Reports!FeedbackAssumption, Reports!TypeOK, Reports!ReportInv, Reports!ReportNext
  PROVE  Reports!ReportInv'
<1> DEFINE Writing == UNION {me[p].lines : p \in {q \in Processes : Reports!At(q, "write")}}
<1>1. CASE Reports!Generate
  BY <1>1 DEF Reports!Generate, Reports!ReportInv, Reports!Told, Reports!At
<1>2. ASSUME NEW p \in Processes, Reports!LoadCache(p) PROVE Reports!ReportInv'
  <2>1. me'[p].pc = "list" /\ me'[p].lines = {}
        /\ me'[p].seen = (IF cache = Torn THEN {} ELSE cache)
        /\ \A q \in Processes : q # p => me'[q] = me[q]
    BY <1>2 DEF Reports!LoadCache, Reports!TypeOK, Reports!Memory, Reports!Idle
  <2>2. Reports!Told \subseteq Reports!Told'
    BY <1>2, <2>1 DEF Reports!LoadCache, Reports!Told, Reports!At
  <2>3. QED
    BY <1>2, <2>1, <2>2 DEF Reports!LoadCache, Reports!ReportInv, Reports!At
<1>3. ASSUME NEW p \in Processes, Reports!List(p) PROVE Reports!ReportInv'
  <2>1. /\ me'[p].pc = "list" /\ me[p].pc = "list"
        /\ \E more : me'[p].seen = me[p].seen \cup more /\ me'[p].lines = me[p].lines \cup more
        /\ \A q \in Processes : q # p => me'[q] = me[q]
    <3>1. PICK d, more : me' = [me EXCEPT ![p] = Reports!Listed(me[p], d, more, more)]
      BY <1>3, ListStep
    <3>2. me'[p] = Reports!Listed(me[p], d, more, more) /\ me[p].pc = "list"
      BY <1>3, <3>1 DEF Reports!TypeOK, Reports!List, Reports!At
    <3>3. QED
      BY <3>1, <3>2 DEF Reports!TypeOK, Reports!Listed
  <2>2. Reports!Told' = Reports!Told
    <3>1. \A q \in Processes : (Reports!At(q, "write")' <=> Reports!At(q, "write"))
                               /\ (Reports!At(q, "write") => me'[q].lines = me[q].lines)
      BY <2>1 DEF Reports!At
    <3>2. UNCHANGED <<reported, lost>>
      BY <1>3 DEF Reports!List
    <3>3. QED
      BY <3>1, <3>2 DEF Reports!Told
  <2>3. UNCHANGED cache
    BY <1>3 DEF Reports!List
  <2>4. QED
    BY <1>3, <2>1, <2>2, <2>3 DEF Reports!List, Reports!ReportInv, Reports!At
<1>4. ASSUME NEW p \in Processes, Reports!SaveCache(p) PROVE Reports!ReportInv'
  <2>1. me[p] \in Reports!Memory /\ me[p].pc = "list"
    BY <1>4 DEF Reports!TypeOK, Reports!SaveCache, Reports!At
  <2>2. /\ \A q \in Processes : q # p => me'[q] = me[q]
        /\ me'[p].pc \in {"idle", "write"}
        /\ me'[p].lines = me[p].lines
        /\ me'[p].pc = "idle" => me[p].lines = {}
    BY <1>4, <2>1 DEF Reports!SaveCache, Reports!TypeOK, Reports!Memory, Reports!Idle
  <2>3. Reports!Told \cup me[p].lines \subseteq Reports!Told'
    BY <1>4, <2>1, <2>2 DEF Reports!SaveCache, Reports!Told, Reports!At
  <2>4. cache' \in {me[p].seen, cache, Torn}
    BY <1>4 DEF Reports!SaveCache
  <2>5. QED
    BY <2>1, <2>2, <2>3, <2>4 DEF Reports!ReportInv, Reports!At
<1>5. ASSUME NEW p \in Processes, Reports!WriteReport(p) PROVE Reports!ReportInv'
  <2>1. me'[p] = Reports!Idle /\ \A q \in Processes : q # p => me'[q] = me[q]
    BY <1>5 DEF Reports!WriteReport, Reports!TypeOK
  <2>2. Reports!Told \subseteq Reports!Told'
    BY <1>5, <2>1 DEF Reports!WriteReport, Reports!Told, Reports!At, Reports!Idle
  <2>3. QED
    BY <1>5, <2>1, <2>2 DEF Reports!WriteReport, Reports!ReportInv, Reports!At, Reports!Idle
<1>6. ASSUME NEW p \in Processes, Reports!Die(p) PROVE Reports!ReportInv'
  <2>1. me'[p] = Reports!Idle /\ \A q \in Processes : q # p => me'[q] = me[q]
    BY <1>6 DEF Reports!Die, Reports!TypeOK
  <2>2. Reports!Told \subseteq Reports!Told'
    BY <1>6, <2>1 DEF Reports!Die, Reports!Told, Reports!At, Reports!Idle
  <2>3. cache' \in {cache, Torn}
    BY <1>6 DEF Reports!Die
  <2>4. QED
    BY <2>1, <2>2, <2>3 DEF Reports!ReportInv, Reports!At, Reports!Idle
<1>7. QED
  BY <1>1, <1>2, <1>3, <1>4, <1>5, <1>6 DEF Reports!ReportNext

\* Reports that rest.
LEMMA ReportRests ==
  ASSUME Reports!TypeOK, Reports!ReportInv,
         UNCHANGED <<feedback, cache, reported, lost, me, runs, faults>>
  PROVE  Reports!TypeOK' /\ Reports!ReportInv'
BY DEF Reports!TypeOK, Reports!ReportInv, Reports!Told, Reports!At

\* The invariant of the reports holds at the start.
LEMMA ReportStarts ==
  ASSUME Reports!ReportInit
  PROVE  Reports!TypeOK /\ Reports!ReportInv
<1>1. Reports!Idle \in Reports!Memory
  BY DEF Reports!Idle, Reports!Memory
<1>2. Reports!TypeOK
  BY <1>1 DEF Reports!ReportInit, Reports!TypeOK
<1>3. cache = {} /\ \A p \in Processes : me[p].pc = "idle" /\ me[p].lines = {}
  BY DEF Reports!ReportInit, Reports!Idle
<1>4. QED
  BY <1>2, <1>3 DEF Reports!ReportInv, Reports!At

\* The invariant of the reports gives the property.
LEMMA ReportPromises ==
  ASSUME Reports!ReportInv
  PROVE  Reports!NothingSwallowed
BY DEF Reports!ReportInv, Reports!NothingSwallowed, Reports!Told

-----------------------------------------------------------------------------
(* The notification gate (NotificationGate).                               *)

\* A page of events.
GatePage == IF Len(events) <= PageSize THEN events ELSE SubSeq(events, 1, PageSize)

\* The page is of the events of the server.
LEMMA PageType ==
  ASSUME Gates!GateAssumption, Gates!TypeOK
  PROVE  /\ GatePage \in Seq(Gates!Event) /\ Gates!Range(GatePage) \subseteq Gates!Range(events)
         /\ Cardinality({k \in DOMAIN GatePage : Gates!Considered(GatePage[k])}) \in Nat
<1> HIDE DEF Gates!Event
<1>1. PageSize \in Nat /\ events \in Seq(Gates!Event)
  BY DEF Gates!GateAssumption, Gates!TypeOK
<1>2. ASSUME Len(events) <= PageSize PROVE GatePage = events
  BY <1>2 DEF GatePage
<1>3. ASSUME ~(Len(events) <= PageSize)
      PROVE  GatePage \in Seq(Gates!Event) /\ Gates!Range(GatePage) \subseteq Gates!Range(events)
  <2>1. GatePage = SubSeq(events, 1, PageSize)
    BY <1>3 DEF GatePage
  <2>2. /\ Len(GatePage) = PageSize /\ GatePage \in Seq(Gates!Event)
        /\ \A k \in 1..PageSize : GatePage[k] = events[k] /\ k \in DOMAIN events
    BY <1>1, <1>3, <2>1
  <2>3. DOMAIN GatePage = 1..PageSize
    BY <1>1, <2>2
  <2>4. Gates!Range(GatePage) \subseteq Gates!Range(events)
    BY <2>2, <2>3 DEF Gates!Range
  <2>5. QED
    BY <2>2, <2>4
<1>4. GatePage \in Seq(Gates!Event) /\ Gates!Range(GatePage) \subseteq Gates!Range(events)
  BY <1>1, <1>2, <1>3
<1>5. IsFiniteSet(1..Len(GatePage))
  BY <1>4, FS_Interval
<1>6. DOMAIN GatePage = 1..Len(GatePage)
  BY <1>4
<1>7. IsFiniteSet({k \in DOMAIN GatePage : Gates!Considered(GatePage[k])})
  <2>1. {k \in DOMAIN GatePage : Gates!Considered(GatePage[k])} \subseteq 1..Len(GatePage)
    BY <1>6
  <2>2. QED
    BY <1>5, <2>1, FS_Subset
<1>8. QED
  BY <1>4, <1>7, FS_CardinalityType

\* Every step of the gate keeps its types.
LEMMA GateTypes ==
  ASSUME Gates!GateAssumption, Gates!TypeOK, Gates!GateNext
  PROVE  Gates!TypeOK'
<1> DEFINE G == [pc : Gates!PC, mode : Gates!Modes, filters : Gates!Filters, waits : BOOLEAN, started : Nat,
               resp : Seq(Gates!Event), last : Nat, stable : 0..2]
<1>1. /\ events \in Seq(Gates!Event) /\ serves \in BOOLEAN /\ clock \in Nat
      /\ gate \in G /\ gateRuns \in Nat /\ errors \in Nat
  BY DEF Gates!TypeOK
<1>2. CASE Gates!Score
  <2>1. PICK l \in Gates!Labels, skew \in 0..1 :
          /\ skew <= clock
          /\ events' = <<[at |-> clock, stamp |-> clock - skew, doc |-> l.doc,
                      severity |-> l.severity, intent |-> l.intent,
                      action |-> l.action]>> \o events
    BY <1>2 DEF Gates!Score
  <2> DEFINE e == [at |-> clock, stamp |-> clock - skew, doc |-> l.doc,
                      severity |-> l.severity, intent |-> l.intent,
                      action |-> l.action]
  <2>2. e \in Gates!Event
    BY <1>1, <2>1 DEF Gates!Labels, Gates!Event
  <2>3. events' = <<e>> \o events
    BY <2>1
  <2> HIDE DEF Gates!Event, e
  <2>4. events' \in Seq(Gates!Event)
    BY <1>1, <2>2, <2>3
  <2>5. QED
    BY <1>1, <1>2, <2>4 DEF Gates!TypeOK, Gates!Score
<1>3. CASE Gates!Tick
  BY <1>1, <1>3 DEF Gates!Tick, Gates!TypeOK
<1>4. CASE Gates!Begin
  <2> USE DEF Gates!PC, Gates!Modes
  <2>1. PICK flags \in Gates!Filters, preset \in BOOLEAN, mode \in Gates!Modes,
             updated \in BOOLEAN :
       gate' = [gate EXCEPT !.pc = "running", !.mode = mode,
                  !.filters = IF preset THEN Gates!Applied(flags) ELSE flags,
                  !.started = clock,
                  !.waits = updated /\ mode = "both" /\
                              Gates!Detailed(IF preset THEN Gates!Applied(flags) ELSE flags)]
    BY <1>4 DEF Gates!Begin
  <2>2. Gates!Applied(flags) \in Gates!Filters
    BY DEF Gates!Applied, Gates!Filters, Gates!Preset
  <2> DEFINE filters == IF preset THEN Gates!Applied(flags) ELSE flags
  <2>3. filters \in Gates!Filters
    BY <2>2
  <2>4. (updated /\ mode = "both" /\ Gates!Detailed(filters)) \in BOOLEAN
    OBVIOUS
  <2> HIDE DEF filters, Gates!Filters, Gates!Detailed
  <2>5. gate' \in G
    BY <1>1, <2>1, <2>3, <2>4 DEF filters
  <2>6. UNCHANGED <<events, serves, clock, errors>> /\ gateRuns' = gateRuns + 1
    BY <1>4 DEF Gates!Begin, Gates!server
  <2> HIDE DEF Gates!Modes, Gates!PC
  <2>7. QED
    BY <1>1, <2>5, <2>6 DEF Gates!TypeOK
<1>5. CASE Gates!Unavailable
  <2>1. gate' = [gate EXCEPT !.pc = "count"] /\ errors' \in Nat /\ UNCHANGED <<Gates!server, gateRuns>>
    BY <1>1, <1>5 DEF Gates!Unavailable
  <2>2. gate' \in G
    BY <1>1, <2>1 DEF Gates!PC
  <2>3. QED
    BY <1>1, <2>1, <2>2 DEF Gates!TypeOK, Gates!server
<1>6. CASE Gates!NotGated
  <2>1. gate' = [gate EXCEPT !.pc = "count"] /\ UNCHANGED <<Gates!server, gateRuns, errors>>
    BY <1>6 DEF Gates!NotGated
  <2>2. gate' \in G
    BY <1>1, <2>1 DEF Gates!PC
  <2>3. QED
    BY <1>1, <2>1, <2>2 DEF Gates!TypeOK, Gates!server
<1>7. CASE Gates!Poll
  <2> DEFINE considered == Cardinality({k \in DOMAIN GatePage : Gates!Considered(GatePage[k])})
             stable == IF gate.last = considered + 1 THEN gate.stable + 1 ELSE 0
  <2>1. /\ UNCHANGED <<Gates!server, gateRuns, errors>>
        /\ \/ gate' = [gate EXCEPT !.pc = "judge", !.resp = GatePage, !.last = 0, !.stable = 0]
           \/ gate' = [gate EXCEPT !.last = considered + 1,
                                 !.stable = IF stable < 2 THEN stable ELSE 2]
    BY <1>7, SameCardinality DEF Gates!Poll, GatePage
  <2>2. GatePage \in Seq(Gates!Event) /\ considered \in Nat
    BY PageType
  <2> HIDE DEF considered
  <2>3. (IF stable < 2 THEN stable ELSE 2) \in 0..2
    BY <1>1
  <2> DEFINE level == IF stable < 2 THEN stable ELSE 2
  <2> HIDE DEF stable, level, Gates!Filters
  <2>4. CASE gate' = [gate EXCEPT !.pc = "judge", !.resp = GatePage, !.last = 0, !.stable = 0]
    <3>1. gate' \in G
      <4>1. "judge" \in Gates!PC /\ 0 \in 0..2
        BY DEF Gates!PC
      <4>2. QED
        BY <1>1, <2>2, <2>4, <4>1
    <3>2. QED
      BY <1>1, <2>1, <3>1 DEF Gates!TypeOK, Gates!server
  <2>5. CASE gate' = [gate EXCEPT !.last = considered + 1, !.stable = level]
    <3>1. level \in 0..2 /\ considered + 1 \in Nat
      BY <2>2, <2>3 DEF level
    <3>2. gate' \in G
      BY <1>1, <2>5, <3>1
    <3>3. QED
      BY <1>1, <2>1, <3>2 DEF Gates!TypeOK, Gates!server
  <2>6. QED
    BY <2>1, <2>4, <2>5 DEF level
<1>8. CASE Gates!Judge
  <2>1. /\ UNCHANGED <<Gates!server, gateRuns, errors>>
        /\ \E pc \in Gates!PC : gate' = [gate EXCEPT !.pc = pc]
    BY <1>8 DEF Gates!Judge, Gates!PC
  <2>2. gate' \in G
    BY <1>1, <2>1
  <2>3. QED
    BY <1>1, <2>1, <2>2 DEF Gates!TypeOK, Gates!server
<1>9. CASE Gates!Count
  <2>1. /\ UNCHANGED <<Gates!server, gateRuns, errors>>
        /\ \E pc \in Gates!PC : gate' = [gate EXCEPT !.pc = pc]
    BY <1>9 DEF Gates!Count, Gates!PC
  <2>2. gate' \in G
    BY <1>1, <2>1
  <2>3. QED
    BY <1>1, <2>1, <2>2 DEF Gates!TypeOK, Gates!server
<1>10. Gates!Fresh \in G
  BY DEF Gates!Fresh, Gates!PC, Gates!Modes, Gates!Filters, Gates!Severities, Gates!Intents
<1>11. CASE Gates!Exit
  BY <1>1, <1>10, <1>11 DEF Gates!TypeOK, Gates!server, Gates!Exit
<1>12. QED
  BY <1>2, <1>3, <1>4, <1>5, <1>6, <1>7, <1>8, <1>9, <1>11 DEF Gates!GateNext

\* The invariant of the gate is inductive.
LEMMA GateKeeps ==
  ASSUME Gates!GateAssumption, Gates!TypeOK, Gates!GateInv, Gates!GateNext
  PROVE  Gates!GateInv'
<1>1. Gates!TypeOK'
  BY GateTypes
<1>2. /\ events \in Seq(Gates!Event) /\ clock \in Nat /\ gate.resp \in Seq(Gates!Event)
      /\ \A e \in Gates!Range(events) \cup Gates!Range(gate.resp) : Gates!Stamped(e)
      /\ gate.pc \in Gates!PC
  <2> HIDE DEF Gates!Event
  <2>1. QED
    BY DEF Gates!TypeOK, Gates!GateInv
<1>3. CASE Gates!Score
  <2>1. PICK l \in Gates!Labels, skew \in 0..1 :
          /\ skew <= clock
          /\ events' = <<[at |-> clock, stamp |-> clock - skew, doc |-> l.doc,
                      severity |-> l.severity, intent |-> l.intent,
                      action |-> l.action]>> \o events
    BY <1>3 DEF Gates!Score
  <2> DEFINE e == [at |-> clock, stamp |-> clock - skew, doc |-> l.doc,
                      severity |-> l.severity, intent |-> l.intent,
                      action |-> l.action]
  <2>2. Gates!Stamped(e)
    BY <1>2, <2>1 DEF Gates!Stamped
  <2>3. events' = <<e>> \o events
    BY <2>1
  <2> HIDE DEF e, Gates!Event
  <2>4. Gates!Range(events') \subseteq Gates!Range(events) \cup {e}
    BY <1>2, <2>3 DEF Gates!Range
  <2>5. gate' = gate
    BY <1>3 DEF Gates!Score
  <2>6. QED
    BY <1>2, <2>2, <2>4, <2>5
       DEF Gates!GateInv, Gates!In, Gates!Considered, Gates!Since, Gates!Matches, Gates!Stamped
<1>4. CASE Gates!Tick
  BY <1>2, <1>4
     DEF Gates!Tick, Gates!GateInv, Gates!In, Gates!Considered, Gates!Since, Gates!Matches,
         Gates!Stamped
<1>5. CASE Gates!Begin \/ Gates!Unavailable \/ Gates!NotGated \/ Gates!Count
  <2>1. events' = events /\ gate'.resp = gate.resp
    BY <1>5
       DEF Gates!Begin, Gates!Unavailable, Gates!NotGated, Gates!Count, Gates!TypeOK, Gates!server
  <2>2. gate'.pc \notin {"passed", "blocked"}
    BY <1>5 DEF Gates!Begin, Gates!Unavailable, Gates!NotGated, Gates!Count, Gates!TypeOK
  <2>3. QED
    BY <1>2, <2>1, <2>2 DEF Gates!GateInv, Gates!In, Gates!Stamped
<1>6. CASE Gates!Poll
  <2>1. events' = events /\ gate'.resp \in {gate.resp, GatePage}
        /\ gate'.pc \in {gate.pc, "judge"} /\ Gates!In("running")
    BY <1>6 DEF Gates!Poll, GatePage, Gates!TypeOK, Gates!server
  <2>2. Gates!Range(gate'.resp) \subseteq Gates!Range(gate.resp) \cup Gates!Range(events)
    BY <2>1, PageType
  <2>3. QED
    BY <1>2, <2>1, <2>2 DEF Gates!GateInv, Gates!In, Gates!Stamped
<1>7. CASE Gates!Judge
  <2> DEFINE matched == {e \in Gates!Range(gate.resp) : Gates!Considered(e) /\ Gates!Matches(e)}
  <2>1. events' = events
        /\ gate' = [gate EXCEPT !.pc = IF matched # {} THEN "blocked" ELSE "passed"]
    BY <1>7 DEF Gates!Judge, Gates!server
  <2>2. /\ gate'.pc = IF matched # {} THEN "blocked" ELSE "passed"
        /\ gate'.resp = gate.resp /\ gate'.mode = gate.mode /\ gate'.filters = gate.filters
        /\ gate'.started = gate.started
    BY <2>1 DEF Gates!TypeOK
  <2>3. \A e : (Gates!Considered(e)' <=> Gates!Considered(e)) /\ (Gates!Matches(e)' <=> Gates!Matches(e))
    BY <2>2 DEF Gates!Considered, Gates!Since, Gates!Matches
  <2>4. \A e \in Gates!Range(events') \cup Gates!Range(gate'.resp) : Gates!Stamped(e)'
    BY <1>2, <2>1, <2>2 DEF Gates!Stamped
  <2>5. QED
    BY <2>2, <2>3, <2>4 DEF Gates!GateInv, Gates!In
<1>8. CASE Gates!Exit
  <2>1. events' = events /\ gate'.pc = "idle" /\ gate'.resp = <<>>
    BY <1>8 DEF Gates!Exit, Gates!Fresh, Gates!server
  <2>2. Gates!Range(gate'.resp) = {}
    BY <2>1 DEF Gates!Range
  <2>3. QED
    BY <1>2, <2>1, <2>2 DEF Gates!GateInv, Gates!In, Gates!Stamped
<1>9. QED
  BY <1>3, <1>4, <1>5, <1>6, <1>7, <1>8 DEF Gates!GateNext

\* The invariant of the gate holds at the start.
LEMMA GateStarts ==
  ASSUME Gates!GateInit
  PROVE  Gates!TypeOK /\ Gates!GateInv
<1>1. events = <<>> /\ gate = Gates!Fresh
  BY DEF Gates!GateInit
<1>2. Gates!TypeOK
  <2>1. gate \in [pc : Gates!PC, mode : Gates!Modes, filters : Gates!Filters, waits : BOOLEAN, started : Nat,
               resp : Seq(Gates!Event), last : Nat, stable : 0..2]
    BY <1>1 DEF Gates!Fresh, Gates!PC, Gates!Modes, Gates!Filters, Gates!Severities, Gates!Intents
  <2>2. QED
    BY <2>1 DEF Gates!GateInit, Gates!TypeOK
<1>3. Gates!Range(events) = {} /\ Gates!Range(gate.resp) = {} /\ gate.pc = "idle"
  BY <1>1 DEF Gates!Fresh, Gates!Range
<1>4. QED
  BY <1>2, <1>3 DEF Gates!GateInv, Gates!In

\* The invariant of the gate gives the property.
LEMMA GatePromises ==
  ASSUME Gates!TypeOK, Gates!GateInv
  PROVE  Gates!VerdictIsInformed
<1> DEFINE asked == {e \in Gates!Range(gate.resp) :
                  /\ e.action = "push" /\ Gates!Matches(e)
                  /\ e.doc \in IF gate.mode = "push" THEN Mine \cup Other ELSE Mine}
<1>1. gate.resp \in Seq(Gates!Event) /\ gate.started \in Nat
  BY DEF Gates!TypeOK
<1>2. ASSUME NEW e \in Gates!Range(gate.resp)
      PROVE  e \in Gates!Event /\ Gates!Stamped(e)
  BY <1>1 DEF Gates!Range, Gates!GateInv
<1>3. ASSUME NEW e \in Gates!Range(gate.resp)
      PROVE  e.at \in Nat /\ e.stamp \in Nat /\ e.doc \in Mine \cup Other /\ e.action \in Gates!Actions
  BY <1>2 DEF Gates!Event
<1>4. ASSUME Gates!In("passed"), NEW e \in asked, e.at >= gate.started PROVE FALSE
  <2>1. e.stamp >= Gates!Since
    BY <1>1, <1>2, <1>3, <1>4 DEF Gates!Since, Gates!Stamped
  <2>2. Gates!Considered(e) /\ Gates!Matches(e)
    BY <1>3, <1>4, <2>1 DEF Gates!Considered
  <2>3. QED
    BY <1>4, <2>2 DEF Gates!GateInv
<1>5. ASSUME Gates!In("blocked") PROVE \E e \in asked : e.at + 1 >= gate.started
  <2>1. PICK e \in Gates!Range(gate.resp) : Gates!Considered(e) /\ Gates!Matches(e)
    BY <1>5 DEF Gates!GateInv
  <2>2. e.action = "push" /\ e.doc \in IF gate.mode = "push" THEN Mine \cup Other ELSE Mine
    BY <1>3, <2>1 DEF Gates!Considered, Gates!Actions
  <2>3. e.at + 1 >= gate.started
    BY <1>1, <1>2, <1>3, <2>1 DEF Gates!Considered, Gates!Since, Gates!Stamped
  <2>4. QED
    BY <2>1, <2>2, <2>3
<1>6. QED
  BY <1>4, <1>5 DEF Gates!VerdictIsInformed

\* A gate that rests.
LEMMA GateRests ==
  ASSUME Gates!TypeOK, Gates!GateInv, UNCHANGED <<events, serves, clock, gate, gateRuns, errors>>
  PROVE  Gates!TypeOK' /\ Gates!GateInv'
<1>1. Gates!TypeOK'
  BY DEF Gates!TypeOK
<1>2. Gates!GateInv'
  BY DEF Gates!GateInv, Gates!In, Gates!Considered, Gates!Since, Gates!Matches, Gates!Stamped
<1>3. QED
  BY <1>1, <1>2

-----------------------------------------------------------------------------
(* The budget of a snapshot (SnapshotBudget).                              *)

\* What a count adds to the statistics.
LEMMA StatsCount ==
  ASSUME stats \in [DOMAIN Budget!NoStats -> Nat], NEW fields
  PROVE  /\ Budget!Counted(fields) \in [DOMAIN Budget!NoStats -> Nat]
         /\ \A f \in DOMAIN Budget!NoStats :
              Budget!Counted(fields)[f] = IF f \in fields THEN stats[f] + 1 ELSE stats[f]
<1> DEFINE D == DOMAIN Budget!NoStats
<1> HIDE DEF D
<1>1. stats \in [D -> Nat]
  BY DEF D
<1>2. /\ Budget!Counted(fields) \in [D -> Nat]
      /\ \A f \in D : Budget!Counted(fields)[f] = IF f \in fields THEN stats[f] + 1 ELSE stats[f]
  BY <1>1 DEF Budget!Counted
<1>3. QED
  BY <1>2 DEF D

\* The counters of a snapshot.
LEMMA StatsFields ==
  DOMAIN Budget!NoStats = {"total", "ignored", "tooLarge", "nonText", "included", "omitted"}
BY DEF Budget!NoStats

\* What is left of the budget once n bytes are used.
LEMMA RemainingIs ==
  ASSUME Budget!SizesAssumption, Budget!TypeOK, NEW n \in Nat
  PROVE  /\ caps.total \in Nat /\ caps.files \in Nat
         /\ Budget!Remaining(n) \in Nat
         /\ Budget!Capped /\ n < caps.total => Budget!Remaining(n) = caps.total - n
         /\ ~(Budget!Capped /\ n < caps.total) => Budget!Remaining(n) = 0
BY DEF Budget!SizesAssumption, Budget!TypeOK, Budget!Remaining

\* A chunk that is written fits what the loop takes to be left.
LEMMA WrittenIs ==
  ASSUME Budget!SizesAssumption, Budget!TypeOK, Budget!WriteChunk, ~Budget!TooLittle
  PROVE  \E length \in Nat :
           /\ used' = used + Delimiter + length
           /\ Budget!Capped => length <= remaining
<1>1. todo \in Seq(ChunkSizes) /\ todo # <<>> /\ ChunkSizes \subseteq Nat /\ Overhead \in Nat
      /\ remaining \in Nat
  BY DEF Budget!TypeOK, Budget!WriteChunk, Budget!SizesAssumption
<1>2. Head(todo) \in Nat
  <2>1. Head(todo) = todo[1] /\ 1 \in 1..Len(todo) /\ DOMAIN todo = 1..Len(todo)
    BY <1>1
  <2>2. todo[1] \in ChunkSizes
    BY <1>1, <2>1
  <2>3. QED
    BY <1>1, <2>1, <2>2
<1>3. PICK length \in Budget!Fitted(Head(todo)) : used' = used + Delimiter + length
  BY DEF Budget!WriteChunk
<1>4. length \in Nat /\ (Budget!Capped => length <= remaining)
  BY <1>1, <1>2, <1>3 DEF Budget!Fitted
<1>5. QED
  BY <1>3, <1>4

\* Every step of a snapshot keeps its types.
LEMMA SnapshotTypes ==
  ASSUME Budget!SizesAssumption, Budget!TypeOK, Budget!SnapshotNext
  PROVE  Budget!TypeOK'
<1> DEFINE S == [DOMAIN Budget!NoStats -> Nat]
           C == [total : Budgets, files : FileCaps]
<1>1. /\ phase \in {"walk", "select", "write", "done"}
      /\ caps \in C /\ left \in Nat /\ todo \in Seq(ChunkSizes) /\ added \in BOOLEAN
      /\ remaining \in Nat /\ used \in Nat /\ stats \in S
  BY DEF Budget!TypeOK
<1>2. Delimiter \in Nat /\ Summary \in Nat /\ ChunkSizes \subseteq Nat
  BY DEF Budget!SizesAssumption
<1>3. \A fields : Budget!Counted(fields) \in S
  BY <1>1, StatsCount
<1> HIDE DEF S, C
<1>4. SUFFICES /\ phase' \in {"walk", "select", "write", "done"}
               /\ caps' \in C /\ left' \in Nat /\ todo' \in Seq(ChunkSizes) /\ added' \in BOOLEAN
               /\ remaining' \in Nat /\ used' \in Nat /\ stats' \in S
  BY DEF Budget!TypeOK, S, C
<1>5. CASE Budget!Walk
  BY <1>1, <1>3, <1>5 DEF Budget!Walk, Budget!Skipped
<1>6. CASE Budget!WriteTree
  <2>1. PICK tree \in ChunkSizes : used' = tree /\ remaining' = Budget!Remaining(tree)
    BY <1>6 DEF Budget!WriteTree
  <2>2. remaining' \in Nat
    BY <1>2, <2>1, RemainingIs
  <2>3. QED
    BY <1>1, <1>2, <1>6, <2>1, <2>2 DEF Budget!WriteTree
<1>7. CASE Budget!Omit
  BY <1>1, <1>3, <1>7 DEF Budget!Omit
<1>8. CASE Budget!Select
  <2>1. \A n \in 1..MaxChunks : [1..n -> ChunkSizes] \subseteq Seq(ChunkSizes)
    <3>1. \A n \in 1..MaxChunks : n \in Nat
      OBVIOUS
    <3>2. QED
      BY <3>1
  <2>2. todo' \in Seq(ChunkSizes)
    BY <1>8, <2>1 DEF Budget!Select
  <2>3. /\ phase' = "write" /\ left > 0 /\ left' = left - 1 /\ added' = FALSE
        /\ UNCHANGED <<caps, remaining, used, stats>>
    BY <1>8 DEF Budget!Select
  <2>4. left' \in Nat
    BY <1>1, <2>3
  <2>5. added' \in BOOLEAN
    BY <2>3
  <2>6. QED
    BY <1>1, <2>2, <2>3, <2>4, <2>5
<1>9. CASE Budget!WriteChunk
  <2>1. UNCHANGED <<phase, caps, left, stats>>
    BY <1>9 DEF Budget!WriteChunk
  <2>2. CASE Budget!TooLittle
    <3>1. remaining' = 0 /\ todo' = <<>> /\ UNCHANGED <<used, added>>
      BY <1>9, <2>2 DEF Budget!WriteChunk
    <3>2. QED
      BY <1>1, <2>1, <3>1
  <2>3. CASE ~Budget!TooLittle
    <3>1. used' \in Nat
      <4>1. PICK length \in Nat : used' = used + Delimiter + length
        BY <1>9, <2>3, WrittenIs
      <4>2. QED
        BY <1>1, <1>2, <4>1
    <3>2. remaining' = Budget!Remaining(used') /\ todo' = Tail(todo) /\ added' = TRUE /\ todo # <<>>
      BY <1>9, <2>3 DEF Budget!WriteChunk
    <3>3. remaining' \in Nat
      BY <3>1, <3>2, RemainingIs
    <3>4. Tail(todo) \in Seq(ChunkSizes)
      BY <1>1, <3>2
    <3>5. QED
      BY <1>1, <2>1, <3>1, <3>2, <3>3, <3>4
  <2>4. QED
    BY <2>2, <2>3
<1>10. CASE Budget!FileDone
  BY <1>1, <1>3, <1>10 DEF Budget!FileDone, Budget!FileCounts
<1>11. CASE Budget!WriteSummary
  <2>1. /\ phase' = "done" /\ UNCHANGED <<caps, left, todo, added, remaining, stats>>
        /\ used' \in {used + Summary, used + Summary + Delimiter, used + Summary + 0}
    BY <1>11 DEF Budget!WriteSummary
  <2>2. used' \in Nat
    BY <1>1, <1>2, <2>1
  <2>3. QED
    BY <1>1, <2>1, <2>2
<1>12. QED
  BY <1>5, <1>6, <1>7, <1>8, <1>9, <1>10, <1>11 DEF Budget!SnapshotNext

\* The invariant of a snapshot is inductive.
LEMMA SnapshotKeeps ==
  ASSUME Budget!SizesAssumption, Budget!TypeOK, Budget!SnapshotInv, Budget!SnapshotNext
  PROVE  Budget!SnapshotInv'
<1>1. /\ left \in Nat /\ remaining \in Nat /\ used \in Nat
      /\ stats \in [DOMAIN Budget!NoStats -> Nat]
      /\ Delimiter \in Nat /\ Summary \in Nat /\ ChunkSizes \subseteq Nat
      /\ Overhead \in Nat /\ Least \in Nat
      /\ caps.total \in Nat /\ caps.files \in Nat
  BY RemainingIs DEF Budget!TypeOK, Budget!SizesAssumption
<1>2. /\ stats.total \in Nat /\ stats.tooLarge \in Nat /\ stats.nonText \in Nat
      /\ stats.included \in Nat /\ stats.omitted \in Nat
  BY <1>1, StatsFields
<1>3. \A fields :
        /\ Budget!Counted(fields).total = IF "total" \in fields THEN stats.total + 1 ELSE stats.total
        /\ Budget!Counted(fields).tooLarge =
             IF "tooLarge" \in fields THEN stats.tooLarge + 1 ELSE stats.tooLarge
        /\ Budget!Counted(fields).nonText =
             IF "nonText" \in fields THEN stats.nonText + 1 ELSE stats.nonText
        /\ Budget!Counted(fields).included =
             IF "included" \in fields THEN stats.included + 1 ELSE stats.included
        /\ Budget!Counted(fields).omitted =
             IF "omitted" \in fields THEN stats.omitted + 1 ELSE stats.omitted
  BY <1>1, StatsCount, StatsFields
<1>4. caps' = caps
  BY DEF Budget!SnapshotNext, Budget!Walk, Budget!WriteTree, Budget!Omit, Budget!Select,
         Budget!WriteChunk, Budget!FileDone, Budget!WriteSummary
<1>5. /\ Budget!BudgetFits
      /\ phase = "walk" => stats.included = 0 /\ used = 0
      /\ stats.total <= Budget!Accounted
      /\ caps.files > 0 => stats.included <= caps.files - IF phase = "write" THEN 1 ELSE 0
  BY DEF Budget!SnapshotInv
<1>6. CASE Budget!Walk
  <2>1. /\ phase = "walk" /\ UNCHANGED <<phase, remaining, used>>
        /\ \/ stats' = Budget!Counted({"ignored"}) /\ UNCHANGED left
           \/ stats' = Budget!Counted({"total", "tooLarge"}) /\ UNCHANGED left
           \/ stats' = Budget!Counted({"total", "nonText"}) /\ UNCHANGED left
           \/ stats' = Budget!Counted({"total"}) /\ left' = left + 1
    BY <1>6 DEF Budget!Walk, Budget!Skipped
  <2>2. stats'.included = stats.included
    BY <1>3, <2>1
  <2>3. stats'.total <= Budget!Accounted'
    BY <1>1, <1>2, <1>3, <1>5, <2>1 DEF Budget!Accounted
  <2>4. QED
    BY <1>4, <1>5, <2>1, <2>2, <2>3
       DEF Budget!SnapshotInv, Budget!BudgetFits, Budget!SnapshotIsAccounted, Budget!Exhausted,
           Budget!Capped
<1>7. CASE Budget!WriteTree
  <2>1. PICK tree \in ChunkSizes :
          /\ used' = tree /\ remaining' = Budget!Remaining(tree) /\ phase = "walk"
          /\ phase' = IF Budget!Capped /\ Budget!Remaining(tree) = 0 THEN "done" ELSE "select"
          /\ UNCHANGED <<left, stats>>
    BY <1>7 DEF Budget!WriteTree
  <2>2. tree \in Nat
    BY <1>1
  <2>3. /\ Budget!Remaining(tree) \in Nat
        /\ Budget!Capped /\ tree < caps.total => Budget!Remaining(tree) = caps.total - tree
        /\ ~(Budget!Capped /\ tree < caps.total) => Budget!Remaining(tree) = 0
    BY <2>2, RemainingIs
  <2>4. Budget!Capped' <=> Budget!Capped
    BY <1>4 DEF Budget!Capped
  <2>5. Budget!BudgetFits'
    BY <1>1, <1>4, <2>1, <2>2, <2>3, <2>4 DEF Budget!BudgetFits
  <2>6. stats.included = 0 /\ phase' \in {"done", "select"}
    BY <1>5, <2>1
  <2>7. stats'.total <= Budget!Accounted'
    BY <1>5, <2>1 DEF Budget!Accounted
  <2>8. Budget!SnapshotIsAccounted'
    BY <1>1, <1>2, <1>4, <1>5, <2>1, <2>3, <2>4, <2>5, <2>6
       DEF Budget!SnapshotIsAccounted, Budget!Exhausted, Budget!BudgetFits, Budget!Accounted
  <2>9. QED
    BY <1>1, <1>4, <2>1, <2>5, <2>6, <2>7, <2>8 DEF Budget!SnapshotInv
<1>8. CASE Budget!Omit
  <2>1. /\ phase = "select" /\ UNCHANGED <<phase, remaining, used>>
        /\ left > 0 /\ left' = left - 1
        /\ \/ stats' = Budget!Counted({"omitted"})
           \/ stats' = Budget!Counted({"omitted", "nonText"})
    BY <1>8 DEF Budget!Omit
  <2>2. stats'.included = stats.included
    BY <1>3, <2>1
  <2>3. stats'.total <= Budget!Accounted'
    BY <1>1, <1>2, <1>3, <1>5, <2>1 DEF Budget!Accounted
  <2>4. QED
    BY <1>4, <1>5, <2>1, <2>2, <2>3
       DEF Budget!SnapshotInv, Budget!BudgetFits, Budget!SnapshotIsAccounted, Budget!Exhausted,
           Budget!Capped
<1>9. CASE Budget!Select
  <2>1. /\ phase = "select" /\ phase' = "write" /\ UNCHANGED <<remaining, used, stats>>
        /\ left > 0 /\ left' = left - 1
        /\ ~(caps.files > 0 /\ stats.included >= caps.files)
    BY <1>9 DEF Budget!Select
  <2>2. stats'.total <= Budget!Accounted'
    BY <1>1, <1>2, <1>5, <2>1 DEF Budget!Accounted
  <2>3. caps.files > 0 => stats.included <= caps.files - 1
    BY <1>1, <1>2, <2>1
  <2>4. QED
    BY <1>4, <1>5, <2>1, <2>2, <2>3
       DEF Budget!SnapshotInv, Budget!BudgetFits, Budget!SnapshotIsAccounted, Budget!Exhausted,
           Budget!Capped
<1>10. CASE Budget!WriteChunk
  <2>1. /\ phase = "write" /\ ~(Budget!Capped /\ remaining = 0) /\ UNCHANGED <<phase, left, stats>>
    BY <1>10 DEF Budget!WriteChunk
  <2>2. Budget!Capped' <=> Budget!Capped
    BY <1>4 DEF Budget!Capped
  <2>3. Budget!BudgetFits'
    <3>1. CASE Budget!TooLittle
      <4>1. remaining' = 0 /\ used' = used
        BY <1>10, <3>1 DEF Budget!WriteChunk
      <4>2. Budget!Capped /\ used + remaining = caps.total /\ remaining <= Overhead + Least
        BY <1>1, <1>5, <2>1, <3>1 DEF Budget!BudgetFits, Budget!TooLittle
      <4>3. caps.total <= used' + Overhead + Least
        BY <1>1, <4>1, <4>2
      <4>4. QED
        BY <1>4, <1>5, <2>1, <2>2, <4>1, <4>3 DEF Budget!BudgetFits
    <3>2. CASE ~Budget!TooLittle
      <4>1. PICK length \in Nat :
              used' = used + Delimiter + length /\ (Budget!Capped => length <= remaining)
        BY <1>10, <3>2, WrittenIs
      <4>2. remaining' = Budget!Remaining(used')
        BY <1>10, <3>2 DEF Budget!WriteChunk
      <4>3. used' \in Nat
        BY <1>1, <4>1
      <4>4. /\ Budget!Capped /\ used' < caps.total => remaining' = caps.total - used'
            /\ ~(Budget!Capped /\ used' < caps.total) => remaining' = 0
        BY <4>2, <4>3, RemainingIs
      <4>5. ASSUME Budget!Capped PROVE used' <= caps.total + Delimiter
        <5>1. remaining > 0 /\ used + remaining = caps.total
          BY <1>1, <1>5, <2>1, <4>5 DEF Budget!BudgetFits
        <5>2. QED
          BY <1>1, <4>1, <4>5, <5>1
      <4>6. Budget!Capped /\ remaining' > 0 => used' + remaining' = caps.total
        BY <1>1, <4>3, <4>4
      <4>7. Budget!Capped /\ remaining' = 0 => caps.total <= used' + Overhead + Least
        BY <1>1, <4>3, <4>4
      <4>8. QED
        BY <1>4, <2>2, <4>5, <4>6, <4>7 DEF Budget!BudgetFits
    <3>3. QED
      BY <3>1, <3>2
  <2>4. stats'.total <= Budget!Accounted'
    BY <1>5, <2>1 DEF Budget!Accounted
  <2>5. QED
    BY <1>4, <1>5, <2>1, <2>3, <2>4 DEF Budget!SnapshotInv, Budget!SnapshotIsAccounted
<1>11. CASE Budget!FileDone
  <2>1. /\ phase = "write" /\ phase' = "select" /\ UNCHANGED <<left, remaining, used>>
        /\ \/ stats' = Budget!Counted({"included"})
           \/ stats' = Budget!Counted({"omitted"})
    BY <1>11 DEF Budget!FileDone, Budget!FileCounts
  <2>2. stats'.total <= Budget!Accounted'
    BY <1>1, <1>2, <1>3, <1>5, <2>1 DEF Budget!Accounted
  <2>3. caps.files > 0 => stats'.included <= caps.files
    <3>1. stats'.included \in {stats.included, stats.included + 1}
      BY <1>3, <2>1
    <3>2. QED
      BY <1>1, <1>2, <1>5, <2>1, <3>1
  <2>4. stats'.included \in Int /\ caps.files \in Int
    BY <1>1, <1>2, <1>3, <2>1
  <2>5. QED
    BY <1>4, <1>5, <2>1, <2>2, <2>3, <2>4
       DEF Budget!SnapshotInv, Budget!BudgetFits, Budget!SnapshotIsAccounted, Budget!Exhausted, Budget!Capped
<1>12. CASE Budget!WriteSummary
  <2>1. /\ phase = "select" /\ phase' = "done"
        /\ used' \in {used + Summary + 0, used + Summary + Delimiter}
        /\ UNCHANGED <<left, remaining, stats>>
        /\ \/ left = 0
           \/ caps.files > 0 /\ stats.included >= caps.files
           \/ Budget!Capped /\ remaining = 0
    BY <1>12 DEF Budget!WriteSummary
  <2>2. Budget!Capped' <=> Budget!Capped
    BY <1>4 DEF Budget!Capped
  <2>3. stats'.total <= Budget!Accounted'
    BY <1>5, <2>1 DEF Budget!Accounted
  <2>4. Budget!Capped => used' <= caps.total + Delimiter + Delimiter + Summary
    BY <1>1, <1>5, <2>1 DEF Budget!BudgetFits
  <2>5. stats.total <= stats.included + stats.omitted + stats.tooLarge + stats.nonText + left
    BY <1>1, <1>2, <1>5, <2>1 DEF Budget!Accounted
  <2>6. left > 0 => \/ Budget!Exhausted
                    \/ caps.files > 0 /\ stats.included = caps.files
    BY <1>1, <1>2, <1>5, <2>1 DEF Budget!Exhausted
  <2>7. Budget!SnapshotIsAccounted'
    BY <1>4, <2>1, <2>2, <2>4, <2>5, <2>6 DEF Budget!SnapshotIsAccounted, Budget!Exhausted
  <2>8. QED
    BY <1>4, <1>5, <2>1, <2>3, <2>7 DEF Budget!SnapshotInv, Budget!BudgetFits
<1>13. QED
  BY <1>6, <1>7, <1>8, <1>9, <1>10, <1>11, <1>12 DEF Budget!SnapshotNext

\* The invariant of a snapshot holds at the start.
LEMMA SnapshotStarts ==
  ASSUME Budget!SizesAssumption, Budget!SnapshotInit
  PROVE  Budget!TypeOK /\ Budget!SnapshotInv
<1>1. Budget!NoStats \in [DOMAIN Budget!NoStats -> Nat]
  BY DEF Budget!NoStats
<1>2. Budget!TypeOK
  <2>1. /\ stats = Budget!NoStats /\ phase = "walk" /\ todo = <<>> /\ added = FALSE
        /\ left = 0 /\ remaining = 0 /\ used = 0
        /\ caps \in [total : Budgets, files : FileCaps]
    BY DEF Budget!SnapshotInit
  <2>2. <<>> \in Seq(ChunkSizes)
    OBVIOUS
  <2> HIDE DEF Budget!NoStats
  <2>3. QED
    BY <1>1, <2>1, <2>2 DEF Budget!TypeOK
<1>3. caps.files \in Nat
  BY <1>2, RemainingIs
<1>4. stats.total = 0 /\ stats.included = 0 /\ stats.omitted = 0 /\ stats.tooLarge = 0
      /\ stats.nonText = 0 /\ left = 0 /\ phase = "walk" /\ used = 0
  BY DEF Budget!SnapshotInit, Budget!NoStats
<1>5. QED
  BY <1>2, <1>3, <1>4
     DEF Budget!SnapshotInv, Budget!BudgetFits, Budget!Accounted, Budget!SnapshotIsAccounted,
         Budget!Exhausted

\* A snapshot that rests.
LEMMA SnapshotRests ==
  ASSUME Budget!TypeOK, Budget!SnapshotInv,
         UNCHANGED <<phase, caps, left, todo, added, remaining, used, stats>>
  PROVE  Budget!TypeOK' /\ Budget!SnapshotInv'
<1>1. Budget!TypeOK'
  BY DEF Budget!TypeOK
<1>2. Budget!SnapshotInv'
  BY DEF Budget!SnapshotInv, Budget!BudgetFits, Budget!Accounted, Budget!SnapshotIsAccounted,
         Budget!Exhausted, Budget!Capped
<1>3. QED
  BY <1>1, <1>2

-----------------------------------------------------------------------------
(* The cutting of a file (SnapshotChunks).                                 *)

\* What the cutting of the lines before line i + 1 has come to: the pieces are in
\* their places, from 1 to start, and not too much is left over.
CutSoFar(lines, i, acc) ==
  /\ acc.start \in 1..(Len(lines) + 1)
  /\ acc.start <= i \/ (i = 0 /\ acc.start = 1)
  /\ (i + 1) - acc.start <= MaxLines
  /\ \E from \in [1..(Len(acc.out) + 1) -> 1..(Len(lines) + 1)] :
       /\ from[1] = 1 /\ from[Len(acc.out) + 1] = acc.start
       /\ \A k \in DOMAIN acc.out :
            /\ from[k] < from[k + 1] /\ from[k + 1] - from[k] <= MaxLines
            /\ acc.out[k] = SubSeq(lines, from[k], from[k + 1] - 1)

\* The runs of lines.
Runs(lines) == UNION {{SubSeq(lines, a, b) : b \in Nat} : a \in Nat}
Cuttings(lines) == [start : Nat, out : Seq(Runs(lines))]

\* A run of lines is one of them.
LEMMA RunIs ==
  ASSUME NEW lines, NEW a \in Nat, NEW b \in Nat
  PROVE  SubSeq(lines, a, b) \in Runs(lines)
<1>1. SubSeq(lines, a, b) \in {SubSeq(lines, a, x) : x \in Nat}
  OBVIOUS
<1>2. QED
  BY <1>1, Zenon DEF Runs

\* A look at a line makes a cutting of a cutting.
LEMMA CutAtType ==
  ASSUME Cuts!RuleAssumption, NEW lines, NEW i \in Nat \ {0}, NEW acc \in Cuttings(lines)
  PROVE  Cuts!CutAt(lines, i, acc) \in Cuttings(lines)
<1>1. acc.start \in Nat /\ acc.out \in Seq(Runs(lines))
  BY DEF Cuttings
<1>2. SubSeq(lines, acc.start, i - 1) \in Runs(lines)
  <2>1. i - 1 \in Nat
    OBVIOUS
  <2>2. QED
    BY <1>1, <2>1, RunIs
<1>3. Append(acc.out, SubSeq(lines, acc.start, i - 1)) \in Seq(Runs(lines))
  BY <1>1, <1>2
<1>4. [start |-> i, out |-> Append(acc.out, SubSeq(lines, acc.start, i - 1))]
        \in Cuttings(lines)
  BY <1>3 DEF Cuttings
<1>5. QED
  BY <1>4 DEF Cuts!CutAt, Cuts!NextStart

\* One more piece, or one more line for the next piece.
LEMMA CutAtKeeps ==
  ASSUME Cuts!RuleAssumption, NEW T, NEW lines \in Seq(T), NEW i \in 1..Len(lines),
         NEW acc \in Cuttings(lines), CutSoFar(lines, i - 1, acc)
  PROVE  CutSoFar(lines, i, Cuts!CutAt(lines, i, acc))
<1> DEFINE n == Len(acc.out)
           piece == SubSeq(lines, acc.start, i - 1)
           out == Append(acc.out, piece)
<1>1. /\ acc.start \in Nat /\ acc.out \in Seq(Runs(lines)) /\ n \in Nat
      /\ Len(lines) \in Nat /\ i \in Nat /\ MaxLines \in Nat /\ MinLines \in Nat \ {0}
      /\ MinLines < MaxLines
  BY DEF Cuttings, Cuts!RuleAssumption
<1>2. /\ acc.start \in 1..i /\ i - acc.start <= MaxLines
  BY <1>1 DEF CutSoFar
<1>3. PICK from \in [1..(n + 1) -> 1..(Len(lines) + 1)] :
        /\ from[1] = 1 /\ from[n + 1] = acc.start
        /\ \A k \in DOMAIN acc.out :
             /\ from[k] < from[k + 1] /\ from[k + 1] - from[k] <= MaxLines
             /\ acc.out[k] = SubSeq(lines, from[k], from[k + 1] - 1)
  BY DEF CutSoFar
<1>4. CASE Cuts!CutAt(lines, i, acc) = [start |-> i, out |-> out] /\ i - acc.start > 0
  <2> DEFINE f == [k \in 1..((n + 1) + 1) |-> IF k = (n + 1) + 1 THEN i ELSE from[k]]
  <2>1. /\ Len(out) = n + 1 /\ DOMAIN out = 1..(n + 1) /\ DOMAIN acc.out = 1..n
        /\ out[n + 1] = piece /\ \A k \in 1..n : out[k] = acc.out[k]
    <3>1. i - 1 \in Nat
      BY <1>1
    <3>2. piece \in Runs(lines)
      BY <1>1, <3>1, RunIs
    <3> HIDE DEF piece
    <3>3. QED
      BY <1>1, <3>2
  <2> HIDE DEF out
  <2>2. f \in [1..(Len(out) + 1) -> 1..(Len(lines) + 1)]
    BY <1>1, <1>3, <2>1
  <2>3. f[1] = 1 /\ f[Len(out) + 1] = i
    BY <1>1, <1>3, <2>1
  <2>4. ASSUME NEW k \in DOMAIN out
        PROVE  /\ f[k] < f[k + 1] /\ f[k + 1] - f[k] <= MaxLines
               /\ out[k] = SubSeq(lines, f[k], f[k + 1] - 1)
    <3>1. CASE k = n + 1
      <4>1. f[k] = acc.start /\ f[k + 1] = i
        BY <1>1, <1>3, <3>1
      <4>2. QED
        <5>1. out[k] = SubSeq(lines, f[k], f[k + 1] - 1)
          BY <2>1, <3>1, <4>1, Zenon
        <5> HIDE DEF f, piece
        <5>2. QED
          BY <1>1, <1>2, <1>4, <4>1, <5>1
    <3>2. CASE k # n + 1
      <4>1. k \in 1..n /\ k \in DOMAIN acc.out /\ f[k] = from[k] /\ f[k + 1] = from[k + 1]
        BY <1>1, <2>1, <3>2
      <4> HIDE DEF f, piece
      <4>2. QED
        BY <1>3, <2>1, <4>1
    <3>3. QED
      BY <3>1, <3>2
  <2> HIDE DEF f, out
  <2>5. \E g \in [1..(Len(out) + 1) -> 1..(Len(lines) + 1)] :
          /\ g[1] = 1 /\ g[Len(out) + 1] = i
          /\ \A k \in DOMAIN out :
               /\ g[k] < g[k + 1] /\ g[k + 1] - g[k] <= MaxLines
               /\ out[k] = SubSeq(lines, g[k], g[k + 1] - 1)
    BY <2>2, <2>3, <2>4
  <2>6. i \in 1..(Len(lines) + 1) /\ (i + 1) - i <= MaxLines
    BY <1>1
  <2>7. ASSUME NEW x, x.start = i, x.out = out PROVE CutSoFar(lines, i, x)
    <3>1. i <= i
      BY <1>1
    <3>2. QED
      BY <2>5, <2>6, <2>7, <3>1 DEF CutSoFar
  <2>8. QED
    BY <1>4, <2>7
<1>5. CASE Cuts!CutAt(lines, i, acc) = acc /\ i - acc.start < MaxLines
  <2>1. acc.start <= i /\ (i + 1) - acc.start <= MaxLines /\ acc.start \in 1..(Len(lines) + 1)
    BY <1>1, <1>2, <1>5
  <2>2. QED
    BY <1>3, <1>5, <2>1 DEF CutSoFar
<1>6. QED
  <2>1. i - acc.start \in Nat
    BY <1>1, <1>2
  <2>2. CASE \/ i - acc.start >= MaxLines
             \/ i - acc.start >= MinLines /\ Cuts!Kind(lines[i]) \in Cuts!SplitPrefixes
    <3>1. Cuts!CutAt(lines, i, acc) = [start |-> i, out |-> out]
      BY <2>2 DEF Cuts!CutAt, Cuts!NextStart
    <3>2. i - acc.start > 0
      BY <1>1, <2>1, <2>2
    <3>3. QED
      BY <1>4, <3>1, <3>2
  <2>3. CASE ~(\/ i - acc.start >= MaxLines
               \/ i - acc.start >= MinLines /\ Cuts!Kind(lines[i]) \in Cuts!SplitPrefixes)
    <3>1. Cuts!CutAt(lines, i, acc) = acc
      BY <2>3 DEF Cuts!CutAt
    <3>2. i - acc.start < MaxLines
      BY <1>1, <2>1, <2>3
    <3>3. QED
      BY <1>5, <3>1, <3>2
  <2>4. QED
    BY <2>2, <2>3

\* The cut at lines tiles whatever it cuts, unless there is nothing to cut.
LEMMA DefaultIsTiled ==
  ASSUME Cuts!RuleAssumption, NEW T, NEW lines \in Seq(T), lines # <<>>
  PROVE  Cuts!Tiled(Cuts!Default(lines), lines)
<1> DEFINE N == Len(lines)
           first == [start |-> 1, out |-> <<>>]
           step == [i \in 1..N |-> [acc \in Cuttings(lines) |-> Cuts!CutAt(lines, i, acc)]]
           cut[i \in 0..Len(lines)] == IF i = 0 THEN [start |-> 1, out |-> <<>>]
                                       ELSE Cuts!CutAt(lines, i, cut[i - 1])
           all == cut[N]
<1>1. N \in Nat \ {0} /\ MaxLines \in Nat \ {0} /\ MinLines \in Nat \ {0} /\ MinLines < MaxLines
  BY DEF Cuts!RuleAssumption
<1>2. first \in Cuttings(lines)
  BY DEF Cuttings
<1>3. step \in [1..N -> [Cuttings(lines) -> Cuttings(lines)]]
  BY CutAtType
<1>4. PICK f : Iterates(f, first, step, N, Cuttings(lines))
  <2> HIDE DEF step, first
  <2>1. QED
    BY <1>1, <1>2, <1>3, Iteration
<1>5. f = [i \in 0..Len(lines) |-> IF i = 0 THEN [start |-> 1, out |-> <<>>]
                                   ELSE Cuts!CutAt(lines, i, f[i - 1])]
  <2>1. \A i \in 0..N : i # 0 => i \in 1..N /\ f[i - 1] \in Cuttings(lines)
    BY <1>1, <1>4 DEF Iterates
  <2>2. \A i \in 0..N : i # 0 => step[i][f[i - 1]] = Cuts!CutAt(lines, i, f[i - 1])
    BY <2>1
  <2> HIDE DEF step
  <2>3. \A i \in 0..N : f[i] = IF i = 0 THEN [start |-> 1, out |-> <<>>]
                               ELSE Cuts!CutAt(lines, i, f[i - 1])
    BY <1>4, <2>1, <2>2 DEF Iterates
  <2>4. f = [i \in 0..N |-> f[i]]
    BY <1>4 DEF Iterates
  <2>5. QED
    BY <2>3, <2>4, Zenon
<1> HIDE DEF step
<1>6. cut = [i \in 0..Len(lines) |-> IF i = 0 THEN [start |-> 1, out |-> <<>>]
                                     ELSE Cuts!CutAt(lines, i, cut[i - 1])]
  BY <1>5, Zenon
<1> DEFINE U == {i \in 0..N : cut[i] \in Cuttings(lines) /\ CutSoFar(lines, i, cut[i])}
<1> HIDE DEF cut
<1>7. 0 \in U
  <2>1. cut[0] = first
    BY <1>1, <1>6
  <2>2. CutSoFar(lines, 0, first)
    <3> DEFINE g == [k \in {1} |-> 1]
    <3>1. DOMAIN first.out = {} /\ Len(first.out) + 1 = 1 /\ first.start = 1
      OBVIOUS
    <3>2. g \in [1..(Len(first.out) + 1) -> 1..(N + 1)] /\ g[1] = 1
      BY <1>1, <3>1
    <3> HIDE DEF first, g
    <3>3. first.start \in 1..(N + 1) /\ (0 + 1) - first.start <= MaxLines
      BY <1>1, <3>1
    <3>4. QED
      BY <3>1, <3>2, <3>3 DEF CutSoFar
  <2>3. QED
    BY <1>1, <1>2, <2>1, <2>2
<1>8. ASSUME NEW i \in 0..(N - 1), i \in U PROVE i + 1 \in U
  <2>1. i + 1 \in 1..N /\ i + 1 \in 0..N /\ i + 1 # 0 /\ (i + 1) - 1 = i /\ i + 1 \in Nat \ {0}
    BY <1>1
  <2>2. cut[i] \in Cuttings(lines) /\ CutSoFar(lines, (i + 1) - 1, cut[i])
    BY <1>8, <2>1
  <2>3. cut[i + 1] = Cuts!CutAt(lines, i + 1, cut[i])
    BY <1>6, <2>1
  <2>4. cut[i + 1] \in Cuttings(lines)
    BY <2>1, <2>2, <2>3, CutAtType
  <2>5. CutSoFar(lines, i + 1, cut[i + 1])
    BY <2>1, <2>2, <2>3, CutAtKeeps
  <2>6. QED
    BY <2>1, <2>4, <2>5
<1>9. all \in Cuttings(lines) /\ CutSoFar(lines, N, all)
  <2>1. 0..N \subseteq U
    <3> HIDE DEF U
    <3>1. QED
      BY <1>1, <1>7, <1>8, Induction
  <2>2. QED
    BY <2>1, <1>1
<1>10. Cuts!Default(lines) =
         IF Len(lines) <= MaxLines THEN <<lines>>
         ELSE IF all.start > Len(lines) THEN all.out
         ELSE Append(all.out, SubSeq(lines, all.start, Len(lines)))
  BY DEF Cuts!Default, cut
<1>11. CASE N <= MaxLines
  <2>1. Cuts!Default(lines) = <<lines>>
    BY <1>10, <1>11
  <2>2. SubSeq(lines, 1, N) = lines
    BY <1>1
  <2> DEFINE g == [k \in 1..2 |-> IF k = 1 THEN 1 ELSE N + 1]
  <2>3. g \in [1..(Len(<<lines>>) + 1) -> 1..(N + 1)] /\ g[1] = 1 /\ g[2] = N + 1
    BY <1>1
  <2>4. \A k \in DOMAIN <<lines>> : k = 1
    OBVIOUS
  <2>5. N + 1 - 1 = N /\ 1 < N + 1 /\ Len(<<lines>>) + 1 = 2 /\ <<lines>>[1] = lines
    BY <1>1
  <2> HIDE DEF g
  <2>6. QED
    BY <1>1, <1>11, <2>1, <2>2, <2>3, <2>4, <2>5 DEF Cuts!Tiled
<1>12. CASE N > MaxLines
  <2> DEFINE n == Len(all.out)
             piece == SubSeq(lines, all.start, N)
             out == Append(all.out, piece)
  <2>1. /\ all.start \in 1..N /\ (N + 1) - all.start <= MaxLines
        /\ all.out \in Seq(Runs(lines)) /\ n \in Nat
    BY <1>1, <1>9 DEF CutSoFar, Cuttings
  <2>2. Cuts!Default(lines) = out
    <3>1. ~(Len(lines) <= MaxLines) /\ ~(all.start > Len(lines))
      BY <1>1, <1>12, <2>1
    <3>2. QED
      BY <1>10, <3>1, Zenon
  <2>3. PICK from \in [1..(n + 1) -> 1..(N + 1)] :
          /\ from[1] = 1 /\ from[n + 1] = all.start
          /\ \A k \in DOMAIN all.out :
               /\ from[k] < from[k + 1] /\ from[k + 1] - from[k] <= MaxLines
               /\ all.out[k] = SubSeq(lines, from[k], from[k + 1] - 1)
    BY <1>9 DEF CutSoFar
  <2> DEFINE g == [k \in 1..((n + 1) + 1) |-> IF k = (n + 1) + 1 THEN N + 1 ELSE from[k]]
  <2>4. /\ Len(out) = n + 1 /\ DOMAIN out = 1..(n + 1) /\ DOMAIN all.out = 1..n
        /\ out[n + 1] = piece /\ \A k \in 1..n : out[k] = all.out[k]
    <3>1. piece \in Runs(lines)
      BY <1>1, <2>1, RunIs
    <3> HIDE DEF piece, all
    <3>2. QED
      BY <2>1, <3>1
  <2> HIDE DEF all
  <2>5. g \in [1..(Len(out) + 1) -> 1..(N + 1)] /\ g[1] = 1 /\ g[Len(out) + 1] = N + 1
    <3>1. (n + 1) + 1 # 1 /\ N + 1 \in 1..(N + 1) /\ 1 \in 1..((n + 1) + 1) /\ Len(out) = n + 1
          /\ (n + 1) + 1 \in 1..((n + 1) + 1)
          /\ \A k \in 1..((n + 1) + 1) : k # (n + 1) + 1 => k \in 1..(n + 1)
      <4> HIDE DEF out
      <4>1. QED
        BY <1>1, <2>1, <2>4
    <3> HIDE DEF out
    <3>2. QED
      BY <2>3, <3>1
  <2>6. ASSUME NEW k \in DOMAIN out
        PROVE  /\ g[k] < g[k + 1] /\ g[k + 1] - g[k] <= MaxLines
               /\ out[k] = SubSeq(lines, g[k], g[k + 1] - 1)
    <3>1. CASE k = n + 1
      <4>1. g[k] = all.start /\ g[k + 1] = N + 1 /\ (N + 1) - 1 = N
        BY <1>1, <2>1, <2>3, <3>1
      <4>2. QED
        <5>1. out[k] = SubSeq(lines, g[k], g[k + 1] - 1)
          <6>1. out[k] = SubSeq(lines, all.start, N)
            BY <2>4, <3>1, Zenon
          <6> HIDE DEF g, all
          <6>2. QED
            BY <4>1, <6>1
        <5> HIDE DEF g, piece
        <5>2. QED
          BY <1>1, <2>1, <4>1, <5>1
    <3>2. CASE k # n + 1
      <4>1. k \in 1..n /\ k \in DOMAIN all.out /\ k \in 1..((n + 1) + 1) /\ k # (n + 1) + 1
            /\ k + 1 \in 1..((n + 1) + 1) /\ k + 1 # (n + 1) + 1
        BY <2>1, <2>4, <3>2
      <4>2. g[k] = from[k] /\ g[k + 1] = from[k + 1]
        BY <4>1, Zenon
      <4>3. out[k] = all.out[k]
        BY <2>4, <4>1
      <4> HIDE DEF g, piece, out
      <4>4. QED
        BY <2>3, <4>1, <4>2, <4>3
    <3>3. QED
      BY <3>1, <3>2
  <2> HIDE DEF g, out
  <2>7. QED
    BY <2>2, <2>5, <2>6 DEF Cuts!Tiled
<1>13. QED
  BY <1>1, <1>11, <1>12

\* Every step of a cutting keeps its types.
LEMMA ChunksTypes ==
  ASSUME Cuts!TypeOK, Cuts!ChunksNext
  PROVE  Cuts!TypeOK'
<1>1. CASE Cuts!ReadLine
  <2> DEFINE K == UNION {Cuts!Kinds[l] : l \in DOMAIN Cuts!Kinds}
  <2>1. PICK kind \in Cuts!Kinds[lang] : text' = Append(text, kind)
    BY <1>1 DEF Cuts!ReadLine
  <2>2. kind \in K /\ text \in Seq(K)
    BY DEF Cuts!TypeOK
  <2>3. profile' = profile /\ lang' = lang
    BY <1>1 DEF Cuts!ReadLine
  <2> HIDE DEF K
  <2>4. text' \in Seq(K)
    BY <2>1, <2>2
  <2>5. QED
    BY <2>3, <2>4 DEF Cuts!TypeOK, K
<1>2. CASE Cuts!Chunk
  BY <1>2 DEF Cuts!Chunk, Cuts!TypeOK
<1>3. QED
  BY <1>1, <1>2 DEF Cuts!ChunksNext

\* The types hold at the start.
LEMMA ChunksStart ==
  ASSUME Cuts!ChunksInit
  PROVE  Cuts!TypeOK
BY DEF Cuts!ChunksInit, Cuts!TypeOK

\* A cutting that rests keeps its types.
LEMMA ChunksRest ==
  ASSUME Cuts!TypeOK, UNCHANGED <<lang, text, profile, chunks>>
  PROVE  Cuts!TypeOK'
BY DEF Cuts!TypeOK

\* A step of a cutting cuts the whole file or nothing.
LEMMA ChunksTile ==
  ASSUME Cuts!RuleAssumption, Cuts!TypeOK, Cuts!ChunksNext
  PROVE  Cuts!DefaultTiles
<1>1. CASE Cuts!ReadLine
  BY <1>1 DEF Cuts!ReadLine, Cuts!DefaultTiles
<1>2. CASE Cuts!Chunk
  <2>1. /\ profile = Cuts!NoProfile /\ Cuts!Trimmed(Cuts!Lines) # <<>>
        /\ chunks' = Cuts!ChunkText(profile')
    BY <1>2 DEF Cuts!Chunk
  <2>2. ASSUME Cuts!Special(profile') = <<>> PROVE chunks' = Cuts!Default(Cuts!Lines)
    BY <2>1, <2>2 DEF Cuts!ChunkText
  <2>3. text # <<>>
    <3>1. SUFFICES ASSUME text = <<>> PROVE Cuts!Trimmed(Cuts!Lines) = <<>>
      BY <2>1
    <3>2. DOMAIN Cuts!Lines = {}
      BY <3>1 DEF Cuts!Lines
    <3>3. QED
      BY <3>2 DEF Cuts!Trimmed
  <2>4. Cuts!Lines \in Seq(Nat) /\ Cuts!Lines # <<>>
    <3>1. Len(text) \in Nat /\ DOMAIN text = 1..Len(text) /\ Len(text) # 0
      BY <2>3 DEF Cuts!TypeOK
    <3>2. Cuts!Lines \in [1..Len(text) -> Nat]
      BY <3>1 DEF Cuts!Lines
    <3>3. QED
      BY <3>1, <3>2
  <2>5. Cuts!Tiled(Cuts!Default(Cuts!Lines), Cuts!Lines)
    BY <2>4, DefaultIsTiled
  <2>6. QED
    BY <2>1, <2>2, <2>5 DEF Cuts!DefaultTiles
<1>3. QED
  BY <1>1, <1>2 DEF Cuts!ChunksNext

-----------------------------------------------------------------------------
(* The theorems.                                                           *)

\* A step is one of the scan, or the scan rests; and so for the other stages.
LEMMA StageSteps ==
  ASSUME [Next]_vars
  PROVE  /\ Scan!ScanNext \/ UNCHANGED scanned
         /\ Reports!ReportNext \/ UNCHANGED reporting
         /\ Gates!GateNext \/ UNCHANGED gating
         /\ Cuts!ChunksNext \/ UNCHANGED cutting
         /\ Budget!SnapshotNext \/ UNCHANGED writing
<1>1. CASE UNCHANGED vars
  BY <1>1 DEF vars
<1>2. CASE Next
  BY <1>2 DEF Next
<1>3. QED
  BY <1>1, <1>2

\* The parts are those of the records packed, within the limits, and no other way to
\* cut is ahead of them, in every state of a scan.
THEOREM ScanInvariant == Spec => [](Scan!TypeOK /\ Scan!ScanInv)
<1>1. Init => Scan!TypeOK /\ Scan!ScanInv
  BY StageAssumptions, ScanStarts DEF Init
<1>2. Scan!TypeOK /\ Scan!ScanInv /\ [Next]_vars => Scan!TypeOK' /\ Scan!ScanInv'
  BY StageAssumptions, StageSteps, ScanTypes, ScanKeeps, ScanRests DEF scanned
<1>3. QED
  BY <1>1, <1>2, PTL DEF Spec

\* The upload parts of a scan are the supported files, each once and in order, and as
\* few as can be; and the report always satisfies its contract (buildContentParts,
\* buildDryRunReport).
THEOREM PartsAreFewest == Spec => []PackingIsExact
<1>1. Scan!TypeOK /\ Scan!ScanInv => PackingIsExact
  BY StageAssumptions, ScanPromises DEF PackingIsExact
<1>2. QED
  BY <1>1, ScanInvariant, PTL

\* What any process takes for seen has been reported or is in its lines, in every
\* state of the reports.
THEOREM ReportInvariant == Spec => [](Reports!TypeOK /\ Reports!ReportInv)
<1>1. Init => Reports!TypeOK /\ Reports!ReportInv
  BY ReportStarts DEF Init
<1>2. Reports!TypeOK /\ Reports!ReportInv /\ [Next]_vars
      => Reports!TypeOK' /\ Reports!ReportInv'
  BY StageAssumptions, StageSteps, ReportTypes, ReportKeeps, ReportRests DEF reporting
<1>3. QED
  BY <1>1, <1>2, PTL DEF Spec

\* No interleaving of syncs, their crashes and the failures of their files hides
\* feedback that no report was to show (the fetch half of sync).
THEOREM FeedbackIsTold == Spec => []NothingSwallowed
<1>1. Reports!TypeOK /\ Reports!ReportInv => NothingSwallowed
  BY ReportPromises DEF NothingSwallowed
<1>2. QED
  BY <1>1, ReportInvariant, PTL

\* Events are stamped at most half a minute late, and the verdict is about the page in
\* memory, in every state of the gate.
THEOREM GateInvariant == Spec => [](Gates!TypeOK /\ Gates!GateInv)
<1>1. Init => Gates!TypeOK /\ Gates!GateInv
  BY GateStarts DEF Init
<1>2. Gates!TypeOK /\ Gates!GateInv /\ [Next]_vars => Gates!TypeOK' /\ Gates!GateInv'
  BY StageAssumptions, StageSteps, GateTypes, GateKeeps, GateRests DEF gating
<1>3. QED
  BY <1>1, <1>2, PTL DEF Spec

\* A gate passes or blocks for what it was shown of this sync, whatever is scored and
\* however late the server's clock is (evaluateNotificationGate).
THEOREM VerdictsAreInformed == Spec => []VerdictIsInformed
<1>1. Gates!TypeOK /\ Gates!GateInv => VerdictIsInformed
  BY GatePromises DEF VerdictIsInformed
<1>2. QED
  BY <1>1, GateInvariant, PTL

\* What the loop takes to be left of the budget is left, and the statistics cover the
\* files reached, in every state of a snapshot.
THEOREM SnapshotInvariant == Spec => [](Budget!TypeOK /\ Budget!SnapshotInv)
<1>1. Init => Budget!TypeOK /\ Budget!SnapshotInv
  BY StageAssumptions, SnapshotStarts DEF Init
<1>2. Budget!TypeOK /\ Budget!SnapshotInv /\ [Next]_vars
      => Budget!TypeOK' /\ Budget!SnapshotInv'
  BY StageAssumptions, StageSteps, SnapshotTypes, SnapshotKeeps, SnapshotRests DEF writing
<1>3. QED
  BY <1>1, <1>2, PTL DEF Spec

\* A snapshot exceeds its budget by its summary and two delimiters at most, and the
\* summary accounts for every file unless as many as allowed are in the text, or the
\* budget would not hold another chunk (buildRepoSnapshot).
THEOREM SnapshotsAreAccounted == Spec => []SnapshotIsAccounted
<1>1. Budget!TypeOK /\ Budget!SnapshotInv => SnapshotIsAccounted
  BY DEF Budget!SnapshotInv, SnapshotIsAccounted
<1>2. QED
  BY <1>1, SnapshotInvariant, PTL

\* The text is a sequence of lines of the kinds there are, in every state of a
\* cutting.
THEOREM ChunkTypes == Spec => []Cuts!TypeOK
<1>1. Init => Cuts!TypeOK
  BY ChunksStart DEF Init
<1>2. Cuts!TypeOK /\ [Next]_vars => Cuts!TypeOK'
  BY StageSteps, ChunksTypes, ChunksRest DEF cutting
<1>3. QED
  BY <1>1, <1>2, PTL DEF Spec

\* A file without symbols or sections to cut it at, whatever its profile, is cut into
\* pieces that leave out no line, repeat none, and are neither empty nor too long
\* (chunkTextDefault).
THEOREM DefaultCutsTile == Spec => [][Cuts!DefaultTiles]_vars
<1>1. Cuts!TypeOK /\ [Next]_vars => [Cuts!DefaultTiles]_vars
  <2>1. ASSUME UNCHANGED cutting PROVE Cuts!DefaultTiles
    BY <2>1 DEF cutting, Cuts!DefaultTiles
  <2>2. QED
    BY <2>1, StageAssumptions, StageSteps, ChunksTile
<1>2. QED
  BY <1>1, ChunkTypes, PTL DEF Spec
=============================================================================
