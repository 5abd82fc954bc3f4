------------------------ MODULE SlidingWindowProofs ------------------------
(***************************************************************************)
(* What the sliding window guarantees whoever uses it: the lemmas that the *)
(* proofs about both limiters cite.                                        *)
(***************************************************************************)
EXTENDS SlidingWindow, FiniteSetTheorems, SequenceTheorems, TLAPS

\* The oldest comes first.
Sorted(ages) == \A i, j \in 1..Len(ages) : i < j => ages[i] >= ages[j]

\* times is a deque of acquire(), and recent the acquisitions of the last Window ticks.
Tracks(times, recent) ==
    /\ times \in Seq(0..Window) /\ Sorted(times)
    /\ recent = Unexpired(times)
    /\ Len(recent) <= RateLimit

\* A set of positions that holds every position before one of its own is a prefix.
LEMMA PrefixIsInterval ==
    ASSUME NEW n \in Nat, NEW D \in SUBSET (1..n), \A i \in D : 1..i \subseteq D
    PROVE  Cardinality(D) \in 0..n /\ D = 1..Cardinality(D)
<1> DEFINE c == Cardinality(D)
<1>1. \A m \in Nat : IsFiniteSet(1..m) /\ Cardinality(1..m) = m
  <2> SUFFICES ASSUME NEW m \in Nat PROVE IsFiniteSet(1..m) /\ Cardinality(1..m) = m
    OBVIOUS
  <2>1. IsFiniteSet(1..m) /\ Cardinality(1..m) = IF 1 > m THEN 0 ELSE m - 1 + 1
    BY FS_Interval
  <2> QED
    BY <2>1
<1>2. IsFiniteSet(D) /\ c \in Nat /\ c <= n
  <2>1. IsFiniteSet(D) /\ Cardinality(D) <= Cardinality(1..n)
    BY <1>1, FS_Subset
  <2> QED
    BY <1>1, <2>1, FS_CardinalityType
<1>3. ASSUME NEW i \in D PROVE i \in 1..c
  <2>1. 1..i \subseteq D /\ i \in Nat
    OBVIOUS
  <2>2. Cardinality(1..i) <= c
    BY <1>2, <2>1, FS_Subset
  <2> QED
    BY <1>1, <1>2, <2>1, <2>2
<1>4. ASSUME NEW i \in 1..c PROVE i \in D
  <2> SUFFICES ASSUME i \notin D PROVE FALSE
    OBVIOUS
  <2>1. D \subseteq 1..(i - 1)
    <3> SUFFICES ASSUME NEW j \in D, ~(j <= i - 1) PROVE FALSE
      BY <1>2
    <3> QED
      BY <1>2
  <2>2. i - 1 \in Nat
    BY <1>2
  <2>3. c <= Cardinality(1..(i - 1))
    BY <1>1, <2>1, <2>2, FS_Subset
  <2> QED
    BY <1>1, <1>2, <2>2, <2>3
<1>5. c \in 0..n /\ D = 1..c
  <2>1. D = 1..c
    BY <1>3, <1>4
  <2>2. c \in 0..n
    BY <1>2
  <2> QED
    BY <2>1, <2>2
<1> QED
  BY <1>5

\* acquire() pops what is a window old, up to the first that is not.
LEMMA ExpiredStops ==
    ASSUME NEW times \in Seq(0..Window)
    PROVE  /\ Expired(times) \in 0..Len(times)
           /\ \A i \in 1..Expired(times) : times[i] >= Window
           /\ Expired(times) < Len(times) => times[Expired(times) + 1] < Window
<1> DEFINE D == {i \in 1..Len(times) : \A j \in 1..i : times[j] >= Window}
           n == Cardinality(D)
<1>1. Len(times) \in Nat /\ \A i \in 1..Len(times) : times[i] \in 0..Window
  BY LenProperties, ElementOfSeq
<1>2. n \in 0..Len(times) /\ D = 1..n
  <2>1. D \in SUBSET (1..Len(times)) /\ \A i \in D : 1..i \subseteq D
    BY <1>1
  <2> HIDE DEF D
  <2> QED
    BY <1>1, <2>1, PrefixIsInterval
<1>3. \A i \in 1..Len(times) : i \in 1..n <=> \A j \in 1..i : times[j] >= Window
  <2>1. \A i \in 1..Len(times) : i \in D <=> \A j \in 1..i : times[j] >= Window
    OBVIOUS
  <2> HIDE DEF D
  <2> QED
    BY <1>2, <2>1
<1>5. Expired(times) = n
  BY DEF Expired
<1> HIDE DEF D
<1>6. \A i \in 1..n : times[i] >= Window
  BY <1>1, <1>2, <1>3
<1>7. n < Len(times) => times[n + 1] < Window
  <2> SUFFICES ASSUME n < Len(times), ~(times[n + 1] < Window) PROVE FALSE
    OBVIOUS
  <2>1. n + 1 \in 1..Len(times) /\ n + 1 \notin 1..n
    BY <1>1, <1>2
  <2>2. times[n + 1] >= Window
    BY <1>1, <2>1, WindowAssumption
  <2> QED
    BY <1>1, <1>2, <1>3, <1>6, <2>1, <2>2
<1> QED
  BY <1>2, <1>5, <1>6, <1>7

\* Of acquisitions in order, that is where the recent ones begin.
LEMMA ExpiredIs ==
    ASSUME NEW times \in Seq(0..Window), Sorted(times), NEW n \in 0..Len(times),
           \A i \in 1..n : times[i] >= Window,
           n < Len(times) => times[n + 1] < Window
    PROVE  Expired(times) = n
<1>1. Len(times) \in Nat /\ \A i \in 1..Len(times) : times[i] \in 0..Window
  BY LenProperties, ElementOfSeq
<1> DEFINE m == Expired(times)
<1>2. /\ m \in 0..Len(times)
      /\ \A i \in 1..m : times[i] >= Window
      /\ m < Len(times) => times[m + 1] < Window
  BY ExpiredStops
<1> HIDE DEF m
<1>3. ~(m < n)
  BY <1>1, <1>2, WindowAssumption
<1>4. ~(n < m)
  BY <1>1, <1>2, WindowAssumption
<1> QED
  BY <1>1, <1>2, <1>3, <1>4 DEF m

\* What is left are the times within the window.
LEMMA UnexpiredIs ==
    ASSUME NEW times \in Seq(0..Window)
    PROVE  /\ Unexpired(times) \in Seq(0..Window)
           /\ Len(Unexpired(times)) = Len(times) - Expired(times)
           /\ \A i \in 1..Len(Unexpired(times)) :
                 Unexpired(times)[i] = times[Expired(times) + i]
<1> DEFINE n == Expired(times)
<1>1. /\ n \in 0..Len(times) /\ Len(times) \in Nat
      /\ \A i \in 1..Len(times) : times[i] \in 0..Window
  BY ExpiredStops, LenProperties, ElementOfSeq
<1> HIDE DEF n
<1> DEFINE m == Len(times)
           left == SubSeq(times, n + 1, m)
<1>2. /\ n + 1 \in Int /\ m \in Int
      /\ \A i \in (n + 1)..m : times[i] \in 0..Window
  BY <1>1
<1> HIDE DEF m
<1>3. /\ left \in Seq(0..Window)
      /\ Len(left) = m - n
      /\ \A i \in 1..(m - n) : left[i] = times[n + i]
  <2>1. /\ left \in Seq(0..Window)
        /\ Len(left) = IF n + 1 <= m THEN m - (n + 1) + 1 ELSE 0
        /\ \A i \in 1..(m - (n + 1) + 1) : left[i] = times[(n + 1) + i - 1]
    BY <1>2, SubSeqProperties
  <2> HIDE DEF left
  <2>2. n \in Nat /\ m \in Nat /\ n <= m
    BY <1>1 DEF m
  <2>3. m - (n + 1) + 1 = m - n /\ \A i \in 1..(m - n) : (n + 1) + i - 1 = n + i
    BY <2>2
  <2> QED
    BY <2>1, <2>2, <2>3
<1>4. Unexpired(times) = left
  BY DEF Unexpired, n, m
<1> HIDE DEF left
<1> QED
  BY <1>3, <1>4 DEF n, m

\* The oldest first: what is left is all within the window, and in order.
LEMMA UnexpiredSorted ==
    ASSUME NEW times \in Seq(0..Window), Sorted(times)
    PROVE  /\ Sorted(Unexpired(times))
           /\ \A i \in 1..Len(Unexpired(times)) : Unexpired(times)[i] < Window
<1>1. /\ Len(times) \in Nat /\ \A i \in 1..Len(times) : times[i] \in 0..Window
      /\ Expired(times) \in 0..Len(times)
      /\ Expired(times) < Len(times) => times[Expired(times) + 1] < Window
  BY ExpiredStops, LenProperties, ElementOfSeq
<1>2. /\ Len(Unexpired(times)) = Len(times) - Expired(times)
      /\ \A i \in 1..Len(Unexpired(times)) :
            /\ Unexpired(times)[i] = times[Expired(times) + i]
            /\ Expired(times) + i \in 1..Len(times)
  BY <1>1, UnexpiredIs
<1> DEFINE left == Unexpired(times)
           n == Expired(times)
<1> HIDE DEF left, n
<1>3. \A i \in 1..Len(left) : left[i] = times[n + i] /\ n + i \in 1..Len(times)
  BY <1>2 DEF left, n
<1>4. n \in Nat /\ Len(left) \in Nat /\ Len(times) \in Nat /\ Len(left) = Len(times) - n
  BY <1>1, <1>2 DEF left, n
<1>5. \A i, j \in 1..Len(left) : i < j => left[i] >= left[j]
  <2> SUFFICES ASSUME NEW i \in 1..Len(left), NEW j \in 1..Len(left), i < j
               PROVE  left[i] >= left[j]
    OBVIOUS
  <2>1. n + i < n + j /\ n + i \in 1..Len(times) /\ n + j \in 1..Len(times)
    BY <1>3, <1>4
  <2>2. times[n + i] >= times[n + j]
    BY <2>1 DEF Sorted
  <2> QED
    BY <1>3, <2>2
<1>6. \A i \in 1..Len(left) : left[i] < Window
  <2>1. \A i \in 1..Len(left) : times[n + 1] >= left[i] /\ n < Len(times)
    <3> SUFFICES ASSUME NEW i \in 1..Len(left)
                 PROVE  times[n + 1] >= left[i] /\ n < Len(times)
      OBVIOUS
    <3>1. n + 1 \in 1..Len(times) /\ n + i \in 1..Len(times) /\ n < Len(times)
      BY <1>3, <1>4
    <3>2. times[n + 1] >= times[n + i]
      <4>1. CASE i = 1
        BY <1>1, <3>1, <4>1
      <4>2. CASE i > 1
        BY <1>4, <3>1, <4>2 DEF Sorted
      <4> QED
        BY <4>1, <4>2
    <3> QED
      BY <1>3, <3>1, <3>2
  <2>2. \A i \in 1..Len(left) : left[i] \in 0..Window /\ times[n + 1] \in 0..Window
    BY <1>1, <1>3, <2>1, <1>4
  <2> QED
    BY <1>1, <2>1, <2>2, WindowAssumption DEF n
<1> QED
  BY <1>5, <1>6 DEF Sorted, left

\* Nothing is dropped from what is within the window.
LEMMA UnexpiredKeeps ==
    ASSUME NEW times \in Seq(0..Window), Sorted(times),
           \A i \in 1..Len(times) : times[i] < Window
    PROVE  Unexpired(times) = times
<1>1. Len(times) \in Nat
  BY LenProperties
<1>2. Expired(times) = 0
  BY <1>1, ExpiredIs
<1>3. /\ Unexpired(times) \in Seq(0..Window) /\ Len(Unexpired(times)) = Len(times)
      /\ \A i \in 1..Len(times) : Unexpired(times)[i] = times[i]
  BY <1>1, <1>2, UnexpiredIs, ElementOfSeq
<1> QED
  BY <1>3, SeqEqual

\* Of acquisitions in their order, the recent ones are those that are left.
LEMMA RecentIsUnexpired ==
    ASSUME NEW times \in Seq(0..Window), Sorted(times)
    PROVE  Recent(times) = Unexpired(times)
<1> DEFINE D == {i \in 1..Len(times) : times[i] >= Window}
<1>1. D = {i \in 1..Len(times) : \A j \in 1..i : times[j] >= Window}
  <2>1. Len(times) \in Nat /\ \A i \in 1..Len(times) : times[i] \in 0..Window
    BY LenProperties, ElementOfSeq
  <2>2. ASSUME NEW i \in 1..Len(times), times[i] >= Window, NEW j \in 1..i
        PROVE  times[j] >= Window
    BY <2>1, <2>2, WindowAssumption DEF Sorted
  <2>3. ASSUME NEW i \in 1..Len(times), \A j \in 1..i : times[j] >= Window
        PROVE  times[i] >= Window
    BY <2>1, <2>3
  <2> QED
    BY <2>2, <2>3
<1> HIDE DEF D
<1>2. Cardinality(D) = Expired(times)
  BY <1>1 DEF Expired
<1>3. Recent(times) = SubSeq(times, Cardinality(D) + 1, Len(times))
  BY DEF Recent, D
<1> QED
  BY <1>2, <1>3 DEF Unexpired

\* A tick.
LEMMA AgedIs ==
    ASSUME NEW times \in Seq(0..Window), Sorted(times)
    PROVE  /\ Aged(times) \in Seq(0..Window) /\ Sorted(Aged(times))
           /\ Len(Aged(times)) = Len(times)
           /\ \A i \in 1..Len(times) :
                 Aged(times)[i] = IF times[i] < Window THEN times[i] + 1 ELSE Window
<1>1. Len(times) \in Nat /\ \A i \in 1..Len(times) : times[i] \in 0..Window
  BY LenProperties, ElementOfSeq
<1>2. \A i \in 1..Len(times) : (IF times[i] < Window THEN times[i] + 1 ELSE Window) \in 0..Window
  BY <1>1, WindowAssumption
<1>3. Aged(times) \in Seq(0..Window) /\ Len(Aged(times)) = Len(times)
  BY <1>1, <1>2, IsASeq, LenProperties DEF Aged
<1>4. \A i \in 1..Len(times) :
         Aged(times)[i] = IF times[i] < Window THEN times[i] + 1 ELSE Window
  BY DEF Aged
<1> DEFINE aged == Aged(times)
<1> HIDE DEF aged
<1>5. \A i, j \in 1..Len(times) : i < j => aged[i] >= aged[j]
  BY <1>1, <1>4, WindowAssumption DEF Sorted, aged
<1>6. Sorted(Aged(times))
  BY <1>3, <1>5 DEF Sorted, aged
<1> QED
  BY <1>3, <1>4, <1>6

-----------------------------------------------------------------------------
(* The steps of a limiter.                                                 *)

LEMMA TracksInit == Tracks(<< >>, << >>)
<1>1. << >> \in Seq(0..Window) /\ Len(<< >>) = 0 /\ \A i \in 1..0 : FALSE
  BY EmptySeq
<1>2. Sorted(<< >>)
  BY <1>1 DEF Sorted
<1>3. Unexpired(<< >>) = << >>
  BY <1>1, <1>2, UnexpiredKeeps
<1> QED
  BY <1>1, <1>2, <1>3, WindowAssumption DEF Tracks

\* acquire() finds no room: it has dropped what is too old, and nothing else.
LEMMA TracksDrop ==
    ASSUME NEW times, NEW recent, Tracks(times, recent)
    PROVE  Tracks(Unexpired(times), recent)
<1> DEFINE left == Unexpired(times)
<1>1. /\ left \in Seq(0..Window) /\ Sorted(left) /\ left = recent
      /\ \A i \in 1..Len(left) : left[i] < Window
  BY UnexpiredIs, UnexpiredSorted DEF Tracks
<1> HIDE DEF left
<1>2. Unexpired(left) = left
  BY <1>1, UnexpiredKeeps
<1>3. Len(recent) <= RateLimit
  BY DEF Tracks
<1>4. Tracks(left, recent)
  BY <1>1, <1>2, <1>3 DEF Tracks
<1> QED
  BY <1>4 DEF left

\* acquire() finds room.
LEMMA TracksAcquire ==
    ASSUME NEW times, NEW recent, Tracks(times, recent), HasRoom(times)
    PROVE  Tracks(Acquired(times), Append(recent, 0))
<1> DEFINE left == Append(recent, 0)
<1>1. /\ recent \in Seq(0..Window) /\ Sorted(recent) /\ Len(recent) < RateLimit
      /\ \A i \in 1..Len(recent) : recent[i] < Window
      /\ Acquired(times) = left
  BY UnexpiredIs, UnexpiredSorted DEF Tracks, HasRoom, Acquired
<1>2. /\ left \in Seq(0..Window) /\ Len(left) = Len(recent) + 1 /\ Len(recent) \in Nat
      /\ \A i \in 1..Len(recent) : left[i] = recent[i]
      /\ left[Len(recent) + 1] = 0
      /\ \A i \in 1..Len(recent) : recent[i] \in 0..Window
  BY <1>1, WindowAssumption, AppendProperties, LenProperties, ElementOfSeq
<1> HIDE DEF left
<1>3. \A i \in 1..Len(left) : left[i] < Window
  BY <1>1, <1>2, WindowAssumption
<1>4. Sorted(left)
  BY <1>1, <1>2 DEF Sorted
<1>5. Unexpired(left) = left
  BY <1>2, <1>3, <1>4, UnexpiredKeeps
<1>6. Tracks(left, left)
  BY <1>1, <1>2, <1>4, <1>5, WindowAssumption DEF Tracks
<1> QED
  BY <1>1, <1>6 DEF left

\* A tick: what leaves the window leaves the record of the recent acquisitions, whether
\* or not acquire() has popped what left it before.
LEMMA TracksTick ==
    ASSUME NEW times, NEW recent, Tracks(times, recent)
    PROVE  Tracks(Aged(times), Recent(Aged(recent)))
<1> DEFINE n == Expired(times)
           a == Aged(times)
           b == Aged(recent)
           k == Expired(b)
<1>1. /\ times \in Seq(0..Window) /\ Sorted(times)
      /\ recent \in Seq(0..Window) /\ Sorted(recent) /\ Len(recent) <= RateLimit
      /\ recent = Unexpired(times)
  BY UnexpiredIs, UnexpiredSorted DEF Tracks
<1>2. /\ n \in 0..Len(times) /\ Len(times) \in Nat
      /\ \A i \in 1..Len(times) : times[i] \in 0..Window
      /\ \A i \in 1..n : times[i] >= Window
      /\ Len(recent) = Len(times) - n
      /\ \A i \in 1..Len(recent) : recent[i] = times[n + i]
  BY <1>1, ExpiredStops, UnexpiredIs, LenProperties, ElementOfSeq
<1>3. /\ a \in Seq(0..Window) /\ Sorted(a) /\ Len(a) = Len(times)
      /\ \A i \in 1..Len(times) : a[i] = IF times[i] < Window THEN times[i] + 1 ELSE Window
  BY <1>1, AgedIs
<1>4. /\ b \in Seq(0..Window) /\ Sorted(b) /\ Len(b) = Len(recent)
      /\ \A i \in 1..Len(recent) : b[i] = IF recent[i] < Window THEN recent[i] + 1 ELSE Window
  BY <1>1, AgedIs
<1>5. /\ k \in 0..Len(b)
      /\ \A i \in 1..k : b[i] >= Window
      /\ k < Len(b) => b[k + 1] < Window
  BY <1>4, ExpiredStops
<1>6. /\ Unexpired(b) \in Seq(0..Window) /\ Len(Unexpired(b)) = Len(b) - k
      /\ \A i \in 1..Len(Unexpired(b)) : Unexpired(b)[i] = b[k + i]
  BY <1>4, UnexpiredIs
<1>7. Recent(b) = Unexpired(b)
  BY <1>4, RecentIsUnexpired
<1> HIDE DEF n, a, b, k
<1>8. \A i \in 1..Len(b) : n + i \in 1..Len(a) /\ b[i] = a[n + i]
  BY <1>2, <1>3, <1>4
<1>9. Expired(a) = n + k
  <2>1. n + k \in 0..Len(a)
    BY <1>2, <1>3, <1>4, <1>5
  <2>2. \A i \in 1..(n + k) : a[i] >= Window
    <3> SUFFICES ASSUME NEW i \in 1..(n + k) PROVE a[i] >= Window
      OBVIOUS
    <3>1. CASE i \in 1..n
      BY <1>2, <1>3, <3>1, WindowAssumption
    <3>2. CASE i \notin 1..n
      <4>1. i - n \in 1..k /\ n + (i - n) = i /\ i - n \in 1..Len(b)
        BY <1>2, <1>5, <3>2, <1>4
      <4> QED
        BY <1>5, <1>8, <4>1
    <3> QED
      BY <3>1, <3>2
  <2>3. n + k < Len(a) => a[n + k + 1] < Window
    <3> SUFFICES ASSUME n + k < Len(a) PROVE a[n + k + 1] < Window
      OBVIOUS
    <3>1. k < Len(b) /\ k + 1 \in 1..Len(b) /\ n + (k + 1) = n + k + 1
      BY <1>2, <1>3, <1>4, <1>5
    <3> QED
      BY <1>5, <1>8, <3>1
  <2> QED
    BY <1>3, <2>1, <2>2, <2>3, ExpiredIs
<1>10. Unexpired(a) = Unexpired(b)
  <2>1. /\ Unexpired(a) \in Seq(0..Window) /\ Len(Unexpired(a)) = Len(a) - (n + k)
        /\ \A i \in 1..Len(Unexpired(a)) : Unexpired(a)[i] = a[n + k + i]
    BY <1>3, <1>9, UnexpiredIs
  <2>2. Len(Unexpired(a)) = Len(Unexpired(b))
    BY <1>2, <1>3, <1>4, <1>5, <1>6, <2>1
  <2>3. \A i \in 1..Len(Unexpired(a)) : Unexpired(a)[i] = Unexpired(b)[i]
    <3> SUFFICES ASSUME NEW i \in 1..Len(Unexpired(a))
                 PROVE  Unexpired(a)[i] = Unexpired(b)[i]
      OBVIOUS
    <3>1. k + i \in 1..Len(b) /\ n + k + i = n + (k + i)
      BY <1>2, <1>3, <1>4, <1>5, <2>1
    <3> QED
      BY <1>6, <1>8, <2>1, <2>2, <3>1
  <2> QED
    BY <1>6, <2>1, <2>2, <2>3, SeqEqual
<1>11. Len(Unexpired(b)) <= RateLimit
  BY <1>1, <1>2, <1>4, <1>5, <1>6, WindowAssumption
<1>12. Tracks(a, Recent(b))
  BY <1>3, <1>7, <1>10, <1>11 DEF Tracks
<1> QED
  BY <1>12 DEF a, b
=============================================================================
