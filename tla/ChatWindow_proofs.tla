-------------------------- MODULE ChatWindow_proofs --------------------------
(***************************************************************************)
(* What a page shows.  For any rows, heights and gestures: the list of the *)
(* open chat covers the screen and keeps the row at its top in its place.  *)
(* For any chats, histories, limits and faults: the window shows the chat  *)
(* that was opened last.                                                   *)
(***************************************************************************)
EXTENDS ChatWindow, ChatView, FiniteSetTheorems, WellFoundedInduction, TLAPS

----------------------------------------------------------------------------
(* Numbers: a set of them has a least one, and what holds of the first and *)
(* goes on from each to the next holds of all.                             *)

LEMMA LeastNumber ==
    ASSUME NEW S \in SUBSET Nat, S # {}
    PROVE  \E m \in S : \A n \in S : m <= n
<1> DEFINE below == {0..n : n \in S}
<1>1. below \subseteq FiniteSubsetsOf(Nat) /\ below # {}
  <2>1. \A n \in S : IsFiniteSet(0..n) /\ 0..n \subseteq Nat
    BY FS_Interval
  <2> QED BY <2>1 DEF FiniteSubsetsOf
<1>2. PICK b \in below : \A c \in below : ~(<<c, b>> \in StrictSubsetOrdering(Nat))
  <2> HIDE DEF below
  <2> QED BY <1>1, FS_StrictSubsetOrderingWellFounded, WFMin
<1>3. PICK m \in S : b = 0..m
  OBVIOUS
<1>4. ASSUME NEW n \in S, n < m PROVE FALSE
  <2>1. 0..n \subseteq 0..m /\ m \in 0..m /\ m \notin 0..n
    BY <1>4
  <2>2. 0..n \in below /\ 0..n \in SUBSET Nat /\ 0..m \in SUBSET Nat
    OBVIOUS
  <2>3. <<0..n, 0..m>> \in StrictSubsetOrdering(Nat)
    BY <2>1, <2>2 DEF StrictSubsetOrdering
  <2> QED BY <1>2, <1>3, <2>2, <2>3
<1> QED BY <1>4

GoesFrom(lo, last, S) == lo \in S /\ \A i \in lo..last : i \in S /\ i # last => i + 1 \in S

LEMMA ToTheLast ==
    ASSUME NEW S, NEW lo \in Nat, NEW last \in Nat, GoesFrom(lo, last, S)
    PROVE  lo..last \subseteq S
<1> DEFINE missing == {i \in lo..last : i \notin S}
<1>1. SUFFICES ASSUME missing # {} PROVE FALSE
  OBVIOUS
<1>2. missing \in SUBSET Nat
  OBVIOUS
<1>3. PICK m \in missing : \A n \in missing : m <= n
  <2> HIDE DEF missing
  <2> QED BY <1>1, <1>2, LeastNumber
<1>4. m \in lo..last /\ m # lo /\ m \in Nat /\ m \notin S
  BY DEF GoesFrom
<1>5. m - 1 \in lo..last /\ ~(m <= m - 1) /\ (m - 1) + 1 = m /\ m - 1 # last
  BY <1>4
<1>6. m - 1 \in S
  BY <1>3, <1>5
<1> QED BY <1>4, <1>5, <1>6 DEF GoesFrom

----------------------------------------------------------------------------
(* Rows one below the other *)

\* at says where rows begin.
Stacks(at, height, lo, hi) ==
    /\ at \in [lo .. hi + 1 -> Nat] /\ at[lo] = 0
    /\ \A i \in lo..hi : at[i + 1] = at[i] + height[i]

LEMMA StackedRows ==
    ASSUME NEW lo \in Nat \ {0}, NEW hi \in Nat, lo <= hi + 1, NEW height \in [lo..hi -> Nat]
    PROVE  Stacks(Stacked(height, lo, hi), height, lo, hi)
<1> DEFINE Row(at, i) == IF i = lo THEN 0 ELSE at[i - 1] + height[i - 1]
           reached == {n \in lo .. hi + 1 : \E f \in [lo..n -> Nat] :
                          f[lo] = 0 /\ \A i \in lo .. n - 1 : f[i + 1] = f[i] + height[i]}
<1>1. lo .. hi + 1 \subseteq reached
  <2>1. lo \in reached
    <3> DEFINE f == [i \in lo..lo |-> 0]
    <3>1. f \in [lo..lo -> Nat] /\ f[lo] = 0 /\ lo .. lo - 1 = {} /\ lo \in lo .. hi + 1
      OBVIOUS
    <3> HIDE DEF f
    <3> QED BY <3>1
  <2>2. ASSUME NEW n \in lo .. hi + 1, n \in reached, n # hi + 1
        PROVE  n + 1 \in reached
    <3>1. PICK f \in [lo..n -> Nat] : f[lo] = 0 /\ \A i \in lo .. n - 1 : f[i + 1] = f[i] + height[i]
      BY <2>2
    <3> DEFINE g == [i \in lo .. n + 1 |-> IF i = n + 1 THEN f[n] + height[n] ELSE f[i]]
    <3>2. n \in lo..hi /\ n \in lo..n /\ n + 1 \in lo .. hi + 1
      BY <2>2
    <3>3. f[n] + height[n] \in Nat
      BY <3>2
    <3>4. g \in [lo .. n + 1 -> Nat]
      <4>1. \A i \in lo .. n + 1 : i # n + 1 => i \in lo..n
        OBVIOUS
      <4> QED BY <3>3, <4>1
    <3>5. g[lo] = 0
      BY <3>1, <3>2
    <3>6. ASSUME NEW i \in lo .. (n + 1) - 1
          PROVE  g[i + 1] = g[i] + height[i]
      <4>1. i \in lo .. n + 1 /\ i + 1 \in lo .. n + 1 /\ i # n + 1
        OBVIOUS
      <4>2. CASE i = n
        BY <4>1, <4>2
      <4>3. CASE i # n
        <5>1. i \in lo .. n - 1 /\ i + 1 # n + 1
          BY <4>3
        <5> QED BY <3>1, <4>1, <5>1
      <4> QED BY <4>2, <4>3
    <3> HIDE DEF g
    <3> QED BY <3>2, <3>4, <3>5, <3>6
  <2> HIDE DEF reached
  <2>3. GoesFrom(lo, hi + 1, reached)
    BY <2>1, <2>2 DEF GoesFrom
  <2> QED BY <2>3, ToTheLast
<1>2. hi + 1 \in reached
  <2>1. hi + 1 \in lo .. hi + 1
    OBVIOUS
  <2> HIDE DEF reached
  <2> QED BY <1>1, <2>1
<1>3. PICK f \in [lo .. hi + 1 -> Nat] :
         f[lo] = 0 /\ \A i \in lo .. (hi + 1) - 1 : f[i + 1] = f[i] + height[i]
  BY <1>2
<1>4. f = [i \in lo .. hi + 1 |-> Row(f, i)]
  <2>1. ASSUME NEW i \in lo .. hi + 1 PROVE f[i] = Row(f, i)
    <3>1. i # lo => i - 1 \in lo .. (hi + 1) - 1 /\ (i - 1) + 1 = i
      OBVIOUS
    <3> QED BY <1>3, <3>1
  <2> QED BY <2>1
<1> DEFINE at == Stacked(height, lo, hi)
<1>5. at = [i \in lo .. hi + 1 |-> Row(at, i)]
  <2>1. at = CHOOSE g : g = [i \in lo .. hi + 1 |-> Row(g, i)]
    BY DEF Stacked
  <2>2. \E g : g = [i \in lo .. hi + 1 |-> Row(g, i)]
    BY <1>4
  <2> QED BY <2>1, <2>2
<1> HIDE DEF at
<1>6. at[lo] = 0
  BY <1>5
<1>7. \A i \in lo..hi : at[i + 1] = at[i] + height[i]
  <2>1. ASSUME NEW i \in lo..hi PROVE at[i + 1] = at[i] + height[i]
    <3>1. i + 1 \in lo .. hi + 1 /\ i + 1 # lo /\ (i + 1) - 1 = i
      OBVIOUS
    <3> QED BY <1>5, <3>1
  <2> QED BY <2>1
<1>8. ASSUME NEW i \in lo .. hi + 1 PROVE at[i] \in Nat
  <2> DEFINE S == {j \in lo .. hi + 1 : at[j] \in Nat}
  <2>1. lo \in S
    BY <1>6
  <2>2. \A j \in lo .. hi + 1 : j \in S /\ j # hi + 1 => j + 1 \in S
    BY <1>7
  <2>3. lo .. hi + 1 \subseteq S
    <3> HIDE DEF S
    <3>1. GoesFrom(lo, hi + 1, S)
      BY <2>1, <2>2 DEF GoesFrom
    <3> QED BY <3>1, ToTheLast
  <2> QED BY <2>3
<1>9. at \in [lo .. hi + 1 -> Nat]
  BY <1>5, <1>8
<1> QED BY <1>6, <1>7, <1>9 DEF at, Stacks

\* No row begins above an earlier one.
LEMMA StackedInOrder ==
    ASSUME NEW lo \in Nat \ {0}, NEW hi \in Nat, lo <= hi + 1, NEW height \in [lo..hi -> Nat],
           NEW at, Stacks(at, height, lo, hi), NEW i \in lo .. hi + 1, NEW j \in i .. hi + 1
    PROVE  at[i] <= at[j]
<1> DEFINE S == {k \in i .. hi + 1 : at[i] <= at[k]}
<1>1. at \in [lo .. hi + 1 -> Nat] /\ \A k \in lo..hi : at[k + 1] = at[k] + height[k]
  BY DEF Stacks
<1>2. i \in S
  BY <1>1
<1>3. ASSUME NEW k \in i .. hi + 1, k \in S, k # hi + 1
      PROVE  k + 1 \in S
  <2>1. k \in lo..hi /\ k \in lo .. hi + 1 /\ k + 1 \in i .. hi + 1
    BY <1>3
  <2>2. at[k + 1] = at[k] + height[k] /\ at[k] \in Nat /\ height[k] \in Nat /\ at[i] \in Nat
        /\ at[i] <= at[k]
    BY <1>1, <1>3, <2>1
  <2>3. at[i] <= at[k + 1]
    BY <2>2
  <2> QED BY <2>1, <2>3
<1>4. i .. hi + 1 \subseteq S
  <2> HIDE DEF S
  <2>1. GoesFrom(i, hi + 1, S)
    BY <1>2, <1>3 DEF GoesFrom
  <2> QED BY <2>1, ToTheLast
<1> QED BY <1>4

\* The rows first..last of lo..hi, with the heights they have there
PartOf(part, first, last, height, lo, hi) ==
    /\ first \in lo .. hi + 1 /\ last \in first - 1 .. hi
    /\ part \in [first..last -> Nat] /\ \A i \in first..last : part[i] = height[i]

\* A part of the rows begins where it begins, and is as high as it is alone.
LEMMA StackedPart ==
    ASSUME NEW lo \in Nat \ {0}, NEW hi \in Nat, NEW height \in [lo..hi -> Nat],
           NEW first, NEW last, NEW part, PartOf(part, first, last, height, lo, hi),
           NEW at, Stacks(at, height, lo, hi), NEW of, Stacks(of, part, first, last),
           NEW i \in first .. last + 1
    PROVE  at[i] = at[first] + of[i]
<1>0. /\ first \in lo .. hi + 1 /\ last \in first - 1 .. hi /\ part \in [first..last -> Nat]
      /\ \A k \in first..last : part[k] = height[k]
  BY DEF PartOf
<1> DEFINE S == {k \in first .. last + 1 : at[k] = at[first] + of[k]}
<1>1. /\ at \in [lo .. hi + 1 -> Nat] /\ \A k \in lo..hi : at[k + 1] = at[k] + height[k]
      /\ of \in [first .. last + 1 -> Nat] /\ \A k \in first..last : of[k + 1] = of[k] + part[k]
      /\ of[first] = 0
  BY DEF Stacks
<1>2. first \in S
  BY <1>0, <1>1
<1>3. ASSUME NEW k \in first .. last + 1, k \in S, k # last + 1
      PROVE  k + 1 \in S
  <2>1. k \in lo..hi /\ k \in lo .. hi + 1 /\ k \in first..last /\ k + 1 \in first .. last + 1
        /\ k \in first .. last + 1
    BY <1>0, <1>3
  <2>2. /\ at[k + 1] = at[k] + height[k] /\ of[k + 1] = of[k] + height[k]
        /\ {at[k], height[k], at[first], of[k]} \subseteq Nat /\ at[k] = at[first] + of[k]
    BY <1>0, <1>1, <1>3, <2>1
  <2>3. at[k + 1] = at[first] + of[k + 1]
    BY <2>2
  <2> QED BY <2>1, <2>3
<1>4. first .. last + 1 \subseteq S
  <2>1. first \in Nat /\ last + 1 \in Nat
    BY <1>0
  <2> HIDE DEF S
  <2>2. GoesFrom(first, last + 1, S)
    BY <1>2, <1>3 DEF GoesFrom
  <2> QED BY <2>1, <2>2, ToTheLast
<1> QED BY <1>4
----------------------------------------------------------------------------
(* The layout of a list *)

Measured == UNION {[which -> Nat] : which \in SUBSET (1..LastRow)}

Lists == {l \in [lo : Nat \ {0}, hi : 0..LastRow, measured : Measured,
                 groups : SUBSET Tools, longs : SUBSET LongRows] : l.lo <= l.hi + 1}

Heights(l) == [i \in Items(l) |-> RowHeight(l, i)]

LEMMA HeightsFit ==
    ASSUME NEW l \in Lists
    PROVE  /\ Heights(l) \in [l.lo..l.hi -> Nat] /\ \A i \in l.lo..l.hi : Heights(l)[i] = RowHeight(l, i)
           /\ l.lo \in Nat \ {0} /\ l.hi \in Nat /\ l.lo <= l.hi + 1 /\ Items(l) = l.lo..l.hi
<1>1. l.lo \in Nat \ {0} /\ l.hi \in Nat /\ l.lo <= l.hi + 1 /\ l.measured \in Measured
  BY ChatViewAssumption DEF Lists
<1>2. ASSUME NEW i \in Items(l) PROVE RowHeight(l, i) \in Nat
  <2>1. i \in DOMAIN l.measured => l.measured[i] \in Nat
    BY <1>1 DEF Measured
  <2> QED BY <2>1, ChatViewAssumption DEF RowHeight
<1> QED BY <1>1, <1>2 DEF Heights, Items

LEMMA OffsetsFit ==
    ASSUME NEW l \in Lists
    PROVE  Stacks(Offsets(l), Heights(l), l.lo, l.hi)
<1>1. Offsets(l) = Stacked(Heights(l), l.lo, l.hi)
  BY DEF Offsets, Heights
<1> QED BY <1>1, HeightsFit, StackedRows

LEMMA OffsetFits ==
    ASSUME NEW l \in Lists
    PROVE  /\ \A i \in l.lo .. l.hi + 1 : Offset(l, i) \in Nat
           /\ Offset(l, l.lo) = 0
           /\ \A i \in l.lo..l.hi : Offset(l, i + 1) = Offset(l, i) + RowHeight(l, i) /\ RowHeight(l, i) \in Nat
           /\ \A i, j \in l.lo .. l.hi + 1 : i <= j => Offset(l, i) <= Offset(l, j)
<1> DEFINE at == Offsets(l)
<1>1. Stacks(at, Heights(l), l.lo, l.hi)
  BY OffsetsFit
<1>2. \A i : Offset(l, i) = at[i]
  BY DEF Offset
<1> HIDE DEF at
<1>3. /\ Heights(l) \in [l.lo..l.hi -> Nat] /\ \A i \in l.lo..l.hi : Heights(l)[i] = RowHeight(l, i)
      /\ l.lo \in Nat \ {0} /\ l.hi \in Nat /\ l.lo <= l.hi + 1
  BY HeightsFit
<1>4. ASSUME NEW i \in l.lo .. l.hi + 1, NEW j \in l.lo .. l.hi + 1, i <= j
      PROVE  at[i] <= at[j]
  <2>1. j \in i .. l.hi + 1
    BY <1>3, <1>4
  <2> QED BY <1>1, <1>3, <2>1, StackedInOrder
<1>5. /\ \A i \in l.lo .. l.hi + 1 : at[i] \in Nat
      /\ at[l.lo] = 0
      /\ \A i \in l.lo..l.hi : at[i + 1] = at[i] + RowHeight(l, i) /\ RowHeight(l, i) \in Nat
  BY <1>1, <1>3 DEF Stacks
<1> QED BY <1>2, <1>4, <1>5

\* A set of numbers has the least one that Min says.
LEMMA LeastIsMin ==
    ASSUME NEW S \in SUBSET Nat, S # {}
    PROVE  Min(S) \in S /\ \A n \in S : Min(S) <= n
<1>1. \E m \in S : \A n \in S : m <= n
  BY LeastNumber
<1> QED BY <1>1 DEF Min

LEMMA LowerBoundFits ==
    ASSUME NEW l \in Lists, NEW v \in Int
    PROVE  /\ LowerBound(l, v) \in l.lo .. l.hi + 1
           /\ \A i \in Items(l) : i < LowerBound(l, v) => Offset(l, i) < v
           /\ LowerBound(l, v) # l.hi + 1 => Offset(l, LowerBound(l, v)) >= v
<1> DEFINE places == {i \in Items(l) : Offset(l, i) >= v} \cup {l.hi + 1}
           b == LowerBound(l, v)
<1>1. b = Min(places)
  BY DEF LowerBound, Offset
<1>2. l.lo \in Nat \ {0} /\ l.hi \in Nat /\ l.lo <= l.hi + 1 /\ Items(l) = l.lo..l.hi
  BY HeightsFit
<1>3. b \in places /\ \A n \in places : b <= n
  <2>1. places \in SUBSET Nat /\ places # {}
    BY <1>2
  <2> HIDE DEF places, b
  <2> QED BY <1>1, <2>1, LeastIsMin
<1> HIDE DEF b
<1>4. b \in l.lo .. l.hi + 1
  BY <1>2, <1>3
<1>5. ASSUME NEW i \in Items(l), i < b PROVE Offset(l, i) < v
  <2>1. i \notin places
    BY <1>2, <1>3, <1>4, <1>5
  <2>2. ~(Offset(l, i) >= v) /\ Offset(l, i) \in Nat
    BY <1>2, <2>1, OffsetFits
  <2> QED BY <2>2
<1>6. b # l.hi + 1 => Offset(l, b) >= v
  BY <1>3
<1> QED BY <1>4, <1>5, <1>6 DEF b

\* The rows between the bounds of the screen
LEMMA BoundsFit ==
    ASSUME NEW l \in Lists, NEW t \in Nat
    PROVE  /\ LowerBound(l, t) \in l.lo .. l.hi + 1 /\ LowerBound(l, t + Screen) \in l.lo .. l.hi + 1
           /\ LowerBound(l, t) <= LowerBound(l, t + Screen)
           /\ \A i \in Items(l) : Offset(l, i) < t + Screen /\ Offset(l, i) + RowHeight(l, i) > t =>
                 i < LowerBound(l, t + Screen) /\ LowerBound(l, t) <= i + 1
<1> DEFINE b == LowerBound(l, t)
           e == LowerBound(l, t + Screen)
<1>1. /\ l.lo \in Nat \ {0} /\ l.hi \in Nat /\ l.lo <= l.hi + 1 /\ Items(l) = l.lo..l.hi
      /\ Screen \in Nat /\ t \in Int /\ t + Screen \in Int
  BY HeightsFit, ChatViewAssumption
<1>2. /\ b \in l.lo .. l.hi + 1
      /\ \A i \in Items(l) : i < b => Offset(l, i) < t
      /\ b # l.hi + 1 => Offset(l, b) >= t
  BY <1>1, LowerBoundFits
<1>3. /\ e \in l.lo .. l.hi + 1
      /\ \A i \in Items(l) : i < e => Offset(l, i) < t + Screen
      /\ e # l.hi + 1 => Offset(l, e) >= t + Screen
  BY <1>1, LowerBoundFits
<1> HIDE DEF b, e
<1>4. /\ \A i \in l.lo .. l.hi + 1 : Offset(l, i) \in Nat
      /\ \A i \in l.lo..l.hi : Offset(l, i + 1) = Offset(l, i) + RowHeight(l, i) /\ RowHeight(l, i) \in Nat
      /\ \A i, j \in l.lo .. l.hi + 1 : i <= j => Offset(l, i) <= Offset(l, j)
  BY OffsetFits
<1>5. b <= e
  <2>1. SUFFICES ASSUME e < b PROVE FALSE
    BY <1>1, <1>2, <1>3
  <2>2. e \in Items(l) /\ e # l.hi + 1 /\ e \in l.lo .. l.hi + 1
    BY <1>1, <1>2, <1>3, <2>1
  <2>3. Offset(l, e) < t /\ Offset(l, e) >= t + Screen /\ Offset(l, e) \in Nat
    BY <1>2, <1>3, <1>4, <2>1, <2>2
  <2> QED BY <1>1, <2>3
<1>6. ASSUME NEW i \in Items(l), Offset(l, i) < t + Screen, Offset(l, i) + RowHeight(l, i) > t
      PROVE  i < e /\ b <= i + 1
  <2>0. i \in l.lo .. l.hi /\ i \in l.lo .. l.hi + 1 /\ i + 1 \in l.lo .. l.hi + 1
    BY <1>1
  <2>1. ASSUME e <= i PROVE FALSE
    <3>1. e # l.hi + 1 /\ e \in l.lo .. l.hi + 1
      BY <1>1, <1>3, <2>0, <2>1
    <3>2. Offset(l, e) >= t + Screen /\ Offset(l, e) <= Offset(l, i)
      BY <1>3, <1>4, <2>0, <2>1, <3>1
    <3>3. Offset(l, e) \in Nat /\ Offset(l, i) \in Nat
      BY <1>4, <2>0, <3>1
    <3> QED BY <1>1, <1>6, <3>2, <3>3
  <2>2. ASSUME i + 1 < b PROVE FALSE
    <3>1. i + 1 \in Items(l)
      BY <1>1, <1>2, <2>0, <2>2
    <3>2. Offset(l, i + 1) < t /\ Offset(l, i + 1) = Offset(l, i) + RowHeight(l, i) /\ Offset(l, i + 1) \in Nat
      BY <1>2, <1>4, <2>0, <2>2, <3>1
    <3> QED BY <1>6, <3>2
  <2> QED BY <1>1, <1>2, <1>3, <2>0, <2>1, <2>2
<1> QED BY <1>2, <1>3, <1>5, <1>6 DEF b, e

\* What a range may be: rows of the list, or none.
RangeFits(r, l) ==
    /\ r.start \in Nat /\ r.end \in Nat /\ r.start <= r.end /\ l.lo + r.start <= l.hi + 1
    /\ r.above \in Int /\ r.below \in Int

LEMMA RangeAtFits ==
    ASSUME NEW l \in Lists, NEW t \in Nat
    PROVE  /\ RangeFits(RangeAt(l, t), l)
           /\ FirstOnPage(l, RangeAt(l, t)) = Larger(l.lo, LowerBound(l, t) - Overscan)
           /\ LastOnPage(l, RangeAt(l, t)) =
                 Smaller(l.hi, LowerBound(l, t + Screen) + Overscan - 1)
<1> DEFINE b == LowerBound(l, t)
           e == LowerBound(l, t + Screen)
           start == Larger(l.lo, b - Overscan)
           end == Smaller(l.hi + 1, e + Overscan)
           r == RangeAt(l, t)
<1>1. /\ l.lo \in Nat \ {0} /\ l.hi \in Nat /\ l.lo <= l.hi + 1 /\ Items(l) = l.lo..l.hi
      /\ Overscan \in Nat \ {0} /\ Screen \in Nat \ {0}
  BY HeightsFit, ChatViewAssumption
<1>2. b \in l.lo .. l.hi + 1 /\ e \in l.lo .. l.hi + 1 /\ b <= e
  BY BoundsFit
<1>4. r = [start |-> start - l.lo, end |-> end - l.lo, above |-> Offset(l, start),
           below |-> Total(l) - Offset(l, end)]
  BY DEF RangeAt, RangeOf
<1> HIDE DEF b, e, r
<1>5. /\ start \in l.lo .. l.hi + 1 /\ end \in l.lo .. l.hi + 1 /\ start <= end
  BY <1>1, <1>2 DEF Larger, Smaller
<1>6. Offset(l, start) \in Nat /\ Offset(l, end) \in Nat /\ Total(l) \in Nat
  <2>1. l.hi + 1 \in l.lo .. l.hi + 1
    BY <1>1
  <2> HIDE DEF start, end
  <2> QED BY <1>5, <2>1, OffsetFits DEF Total
<1>7. l.lo + (start - l.lo) = start /\ Smaller(l.hi, l.lo + (end - l.lo) - 1) = Smaller(l.hi, e + Overscan - 1)
  <2>1. Smaller(l.hi, end - 1) = Smaller(l.hi, e + Overscan - 1)
    BY <1>1, <1>2 DEF Smaller
  <2> HIDE DEF start, end
  <2>2. l.lo + (start - l.lo) = start /\ l.lo + (end - l.lo) - 1 = end - 1
    BY <1>1, <1>5
  <2> QED BY <2>1, <2>2
<1> HIDE DEF start, end
<1>8. RangeFits(r, l)
  BY <1>1, <1>4, <1>5, <1>6 DEF RangeFits
<1>9. FirstOnPage(l, r) = start /\ LastOnPage(l, r) = Smaller(l.hi, e + Overscan - 1)
  BY <1>4, <1>7 DEF FirstOnPage, LastOnPage
<1> QED BY <1>8, <1>9 DEF start, b, e, r

\* What the layout has on the screen is in the range for it.
LEMMA RangeCovers ==
    ASSUME NEW l \in Lists, NEW t \in Nat, NEW i \in Items(l),
           Offset(l, i) < t + Screen, Offset(l, i) + RowHeight(l, i) > t
    PROVE  i \in OnPage(l, RangeAt(l, t))
<1> DEFINE b == LowerBound(l, t)
           e == LowerBound(l, t + Screen)
<1>1. /\ l.lo \in Nat \ {0} /\ l.hi \in Nat /\ l.lo <= l.hi + 1 /\ Items(l) = l.lo..l.hi
      /\ Overscan \in Nat \ {0}
  BY HeightsFit, ChatViewAssumption
<1>2. b \in l.lo .. l.hi + 1 /\ e \in l.lo .. l.hi + 1 /\ i < e /\ b <= i + 1
  BY BoundsFit
<1> HIDE DEF b, e
<1>5. i \in Larger(l.lo, b - Overscan) .. Smaller(l.hi, e + Overscan - 1)
  BY <1>1, <1>2 DEF Larger, Smaller
<1> QED BY <1>5, RangeAtFits DEF OnPage, b, e

\* The page can be scrolled to a number.
LEMMA LimitFits ==
    ASSUME NEW l \in Lists, NEW r, RangeFits(r, l)
    PROVE  Limit(l, r) \in Nat
<1> DEFINE first == FirstOnPage(l, r)
           last == LastOnPage(l, r)
           taken == [i \in first..last |-> TakenBy(l, r, i)]
           at == Stacked(taken, first, last)
<1>1. /\ l.lo \in Nat \ {0} /\ l.hi \in 0..LastRow /\ LastRow \in Nat /\ l.lo <= l.hi + 1
  BY HeightsFit, ChatViewAssumption DEF Lists
<1>2. first \in Nat \ {0} /\ last \in Nat /\ first <= last + 1 /\ last <= LastRow
  BY <1>1 DEF RangeFits, FirstOnPage, LastOnPage, Smaller
<1>3. ASSUME NEW i \in first..last PROVE TakenBy(l, r, i) \in Nat
  <2>1. i \in 1..LastRow
    BY <1>1, <1>2
  <2>2. RealHeight(l, i) \in Nat
    BY <2>1, ChatViewAssumption DEF RealHeight
  <2> QED BY <2>2, ChatViewAssumption DEF TakenBy
<1>4. Limit(l, r) = Larger(0, r.above + at[last + 1] + r.below - Screen)
  BY DEF Limit, OnPage
<1>5. taken \in [first..last -> Nat]
  BY <1>3
<1> HIDE DEF first, last, taken
<1>6. Stacks(at, taken, first, last)
  BY <1>2, <1>5, StackedRows
<1>7. at[last + 1] \in Nat
  BY <1>2, <1>6 DEF Stacks
<1> HIDE DEF at
<1> QED BY <1>4, <1>7, ChatViewAssumption DEF RangeFits, Larger

----------------------------------------------------------------------------
(* What holds of the view between two steps *)

AnchorFits(a, l) == a = NoAnchor \/ (a.key \in l.lo .. l.hi + 1 /\ a.within \in Int)

\* The range is that of the position, unless a scroll event is due that sets it.
RangeOfTop == ~scrolled => range = RangeAt(list, top)

ViewInv ==
    /\ list \in Lists /\ RangeFits(range, list) /\ AnchorFits(anchor, list)
    /\ top \in Nat /\ prevTop \in Nat /\ unflushed \subseteq 1..LastRow
    /\ RangeOfTop

\* A range of a list is one of a list that has grown.
LEMMA RangeStillFits ==
    ASSUME NEW l \in Lists, NEW m \in Lists, NEW r, RangeFits(r, l), m.lo <= l.lo, l.hi <= m.hi
    PROVE  RangeFits(r, m)
<1>1. /\ l.lo \in Nat \ {0} /\ l.hi \in Nat /\ m.lo \in Nat \ {0} /\ m.hi \in Nat
  BY HeightsFit
<1>2. r.start \in Nat /\ r.end \in Nat /\ r.start <= r.end /\ l.lo + r.start <= l.hi + 1
      /\ r.above \in Int /\ r.below \in Int
  BY DEF RangeFits
<1>3. m.lo + r.start <= m.hi + 1
  BY <1>1, <1>2
<1> QED BY <1>2, <1>3 DEF RangeFits

\* What the layout restores, before and after the range is set.
Kept(l, held) == IF Prepended(l) THEN [key |-> list.lo, within |-> prevTop] ELSE held
There(l, a) == Offset(l, a.key) + a.within
FirstTop(l) == Smaller(top, Limit(l, range))
Restored(l, held) ==
    IF Kept(l, held) = NoAnchor THEN FirstTop(l)
    ELSE Larger(0, Smaller(There(l, Kept(l, held)), Limit(l, range)))

LEMMA LaidOutIs ==
    ASSUME NEW l, NEW held, LaidOut(l, held)
    PROVE  /\ list' = l /\ range' = RangeAt(l, Restored(l, held))
           /\ top' = Smaller(Restored(l, held), Limit(l, RangeAt(l, Restored(l, held))))
           /\ prevTop' \in {FirstTop(l), Restored(l, held)} /\ anchor' = NoAnchor
           /\ ~scrolled' => ~scrolled /\ top' = Restored(l, held)
  BY DEF LaidOut, Restored, Kept, There, FirstTop

LEMMA LaidOutKeeps ==
    ASSUME ViewInv, NEW l \in Lists, l.lo <= list.lo, list.hi <= l.hi,
           NEW held, AnchorFits(held, list), LaidOut(l, held)
    PROVE  /\ list' \in Lists /\ RangeFits(range', list') /\ AnchorFits(anchor', list')
           /\ top' \in Nat /\ prevTop' \in Nat /\ RangeOfTop'
<1> DEFINE t == Restored(l, held)
           r == RangeAt(l, t)
           kept == Kept(l, held)
<1>1. /\ list' = l /\ range' = r /\ top' = Smaller(t, Limit(l, r))
      /\ prevTop' \in {FirstTop(l), t} /\ anchor' = NoAnchor
      /\ ~scrolled' => ~scrolled /\ top' = t
  BY LaidOutIs
<1>2. /\ list \in Lists /\ RangeFits(range, list) /\ top \in Nat /\ prevTop \in Nat
  BY DEF ViewInv
<1>3. /\ l.lo \in Nat \ {0} /\ l.hi \in Nat /\ list.lo \in Nat \ {0} /\ list.hi \in Nat /\ list.lo <= list.hi + 1
  BY <1>2, HeightsFit
<1>4. Limit(l, range) \in Nat
  BY <1>2, RangeStillFits, LimitFits
<1>5. FirstTop(l) \in Nat
  BY <1>2, <1>4 DEF FirstTop, Smaller
<1>6. kept = NoAnchor \/ (kept.key \in l.lo .. l.hi + 1 /\ kept.within \in Int)
  <2>1. CASE Prepended(l)
    <3>1. kept.key = list.lo /\ kept.within = prevTop
      BY <2>1 DEF Kept
    <3> HIDE DEF kept
    <3> QED BY <1>2, <1>3, <3>1
  <2>2. CASE ~Prepended(l)
    <3>1. kept = held
      BY <2>2 DEF Kept
    <3> HIDE DEF kept
    <3>2. CASE held = NoAnchor
      BY <3>1, <3>2
    <3>3. CASE held.key \in list.lo .. list.hi + 1 /\ held.within \in Int
      BY <1>3, <3>1, <3>3
    <3> QED BY <3>2, <3>3 DEF AnchorFits
  <2> QED BY <2>1, <2>2
<1>7. t \in Nat
  <2>1. kept # NoAnchor => There(l, kept) \in Int
    <3>1. ASSUME kept # NoAnchor PROVE Offset(l, kept.key) \in Nat /\ kept.within \in Int
      <4> HIDE DEF kept
      <4> QED BY <1>6, <3>1, OffsetFits
    <3> HIDE DEF kept
    <3> QED BY <3>1 DEF There
  <2>2. t = IF kept = NoAnchor THEN FirstTop(l) ELSE Larger(0, Smaller(There(l, kept), Limit(l, range)))
    BY DEF Restored
  <2> HIDE DEF kept, t
  <2> QED BY <1>4, <1>5, <2>1, <2>2 DEF Larger, Smaller
<1> HIDE DEF t, kept
<1>8. RangeFits(r, l)
  BY <1>7, RangeAtFits
<1>9. Limit(l, r) \in Nat
  <2> HIDE DEF r
  <2> QED BY <1>8, LimitFits
<1>10. top' \in Nat /\ prevTop' \in Nat
  <2> HIDE DEF r
  <2> QED BY <1>1, <1>5, <1>7, <1>9 DEF Smaller
<1>11. RangeOfTop'
  BY <1>1 DEF RangeOfTop
<1> QED BY <1>1, <1>8, <1>10, <1>11 DEF AnchorFits

\* The row at the top of the screen begins at it or above.
LEMMA TopRowFits ==
    ASSUME NEW l \in Lists, NEW t \in Nat, TopRow(l, t) # NoAnchor
    PROVE  /\ TopRow(l, t).key \in Items(l) /\ TopRow(l, t).within \in Nat
           /\ TopRow(l, t).within = t - Offset(l, TopRow(l, t).key)
<1> DEFINE i == LowerBound(l, t)
           row == Larger(l.lo, IF Offset(l, i) = t THEN i ELSE i - 1)
<1>1. row \in Items(l) /\ TopRow(l, t) = [key |-> row, within |-> t - Offset(l, row)]
  BY DEF TopRow
<1>2. /\ l.lo \in Nat \ {0} /\ l.hi \in Nat /\ l.lo <= l.hi + 1 /\ Items(l) = l.lo..l.hi /\ t \in Int
  BY HeightsFit
<1>3. /\ i \in l.lo .. l.hi + 1
      /\ \A j \in Items(l) : j < i => Offset(l, j) < t
  BY <1>2, LowerBoundFits
<1>4. /\ \A j \in l.lo .. l.hi + 1 : Offset(l, j) \in Nat
      /\ Offset(l, l.lo) = 0
  BY OffsetFits
<1> HIDE DEF i
<1>5. (row = i /\ Offset(l, i) = t) \/ row = l.lo \/ row < i
  BY <1>2, <1>3 DEF Larger
<1> HIDE DEF row
<1>6. Offset(l, row) <= t /\ Offset(l, row) \in Nat
  <2>1. row \in l.lo .. l.hi + 1
    BY <1>1, <1>2
  <2>2. Offset(l, row) \in Nat
    BY <1>4, <2>1
  <2>3. CASE row = i /\ Offset(l, i) = t
    BY <2>2, <2>3
  <2>4. CASE row = l.lo
    BY <1>4, <2>4
  <2>5. CASE row < i
    BY <1>1, <1>3, <2>2, <2>5
  <2> QED BY <1>5, <2>2, <2>3, <2>4, <2>5
<1>7. t - Offset(l, row) \in Nat
  BY <1>2, <1>6
<1> QED BY <1>1, <1>7

LEMMA CapturedFits ==
    ASSUME ViewInv
    PROVE  AnchorFits(Captured, list)
<1>1. list \in Lists /\ top \in Nat /\ AnchorFits(anchor, list)
  BY DEF ViewInv
<1>2. ASSUME TopRow(list, top) # NoAnchor
      PROVE  TopRow(list, top).key \in list.lo .. list.hi + 1 /\ TopRow(list, top).within \in Int
  <2>1. TopRow(list, top).key \in list.lo .. list.hi /\ TopRow(list, top).within \in Nat
    BY <1>1, <1>2, TopRowFits, HeightsFit
  <2>2. list.lo \in Nat /\ list.hi \in Nat
    BY <1>1, HeightsFit
  <2> QED BY <2>1, <2>2
<1> QED BY <1>1, <1>2 DEF Captured, AnchorFits

----------------------------------------------------------------------------
(* The list after a step *)

\* A list with other heights, groups or ends is a list.
LEMMA ListAltered ==
    ASSUME NEW l \in Lists
    PROVE  /\ \A which \in SUBSET (1..LastRow) : \A f \in [which -> Nat] : [l EXCEPT !.measured = f] \in Lists
           /\ \A g \in SUBSET Tools : [l EXCEPT !.groups = g] \in Lists
           /\ \A g \in SUBSET LongRows : [l EXCEPT !.longs = g] \in Lists
           /\ \A lo \in 1..l.lo : [l EXCEPT !.lo = lo] \in Lists
           /\ \A hi \in l.hi..LastRow : [l EXCEPT !.hi = hi] \in Lists
<1>1. /\ l.lo \in Nat \ {0} /\ l.hi \in 0..LastRow /\ l.measured \in Measured /\ l.groups \in SUBSET Tools
      /\ l.longs \in SUBSET LongRows /\ l.lo <= l.hi + 1
      /\ l = [lo |-> l.lo, hi |-> l.hi, measured |-> l.measured, groups |-> l.groups, longs |-> l.longs]
  BY DEF Lists
<1>2. LastRow \in Nat
  BY ChatViewAssumption
<1>3. \A which \in SUBSET (1..LastRow) : \A f \in [which -> Nat] : [l EXCEPT !.measured = f] \in Lists
  <2>1. ASSUME NEW which \in SUBSET (1..LastRow), NEW f \in [which -> Nat] PROVE f \in Measured
    BY <2>1 DEF Measured
  <2>2. ASSUME NEW f \in Measured PROVE [l EXCEPT !.measured = f] \in Lists
    BY <1>1 DEF Lists
  <2> QED BY <2>1, <2>2
<1>4. ASSUME NEW lo \in 1..l.lo PROVE [l EXCEPT !.lo = lo] \in Lists
  <2>1. lo \in Nat \ {0} /\ lo <= l.hi + 1
    BY <1>1, <1>2
  <2> QED BY <1>1, <2>1 DEF Lists
<1>5. ASSUME NEW hi \in l.hi..LastRow PROVE [l EXCEPT !.hi = hi] \in Lists
  <2>1. hi \in 0..LastRow /\ l.lo <= hi + 1
    BY <1>1, <1>2
  <2> QED BY <1>1, <2>1 DEF Lists
<1>6. \A g \in SUBSET Tools : [l EXCEPT !.groups = g] \in Lists
  BY <1>1 DEF Lists
<1>7. \A g \in SUBSET LongRows : [l EXCEPT !.longs = g] \in Lists
  BY <1>1 DEF Lists
<1> QED BY <1>3, <1>4, <1>5, <1>6, <1>7

\* A row that is on the page is a row of the chat and has a height there.
LEMMA OnPageFits ==
    ASSUME NEW l \in Lists, NEW r, RangeFits(r, l)
    PROVE  OnPage(l, r) \subseteq Items(l) /\ Items(l) \subseteq 1..LastRow
<1>1. /\ l.lo \in Nat \ {0} /\ l.hi \in 0..LastRow /\ LastRow \in Nat
  BY ChatViewAssumption DEF Lists
<1>2. r.start \in Nat /\ r.end \in Nat
  BY DEF RangeFits
<1> QED BY <1>1, <1>2 DEF OnPage, FirstOnPage, LastOnPage, Smaller, Items

LEMMA RealHeightFits ==
    ASSUME NEW l, NEW i \in 1..LastRow
    PROVE  RealHeight(l, i) \in Nat
  BY ChatViewAssumption DEF RealHeight

\* Unfolding a long row changes nothing of the layout.
LEMMA SameLayout ==
    ASSUME NEW l, NEW m, m.lo = l.lo, m.hi = l.hi, m.measured = l.measured, m.groups = l.groups
    PROVE  \A t : RangeAt(m, t) = RangeAt(l, t)
<1>1. \A i : RowHeight(m, i) = RowHeight(l, i)
  BY DEF RowHeight
<1>2. Items(m) = Items(l)
  BY DEF Items
<1>3. Offsets(m) = Offsets(l)
  BY <1>1, <1>2 DEF Offsets
<1>4. \A i : Offset(m, i) = Offset(l, i)
  BY <1>3 DEF Offset
<1>5. \A v : LowerBound(m, v) = LowerBound(l, v)
  BY <1>2, <1>3 DEF LowerBound
<1>6. Total(m) = Total(l)
  BY <1>4 DEF Total
<1> QED BY <1>4, <1>5, <1>6 DEF RangeAt, RangeOf

----------------------------------------------------------------------------
(* Every step keeps the invariant. *)

LEMMA InvParts ==
    ASSUME ViewInv
    PROVE  /\ list \in Lists /\ RangeFits(range, list) /\ AnchorFits(anchor, list)
           /\ top \in Nat /\ prevTop \in Nat /\ unflushed \in SUBSET (1..LastRow) /\ RangeOfTop
           /\ list.lo \in Nat \ {0} /\ list.hi \in 0..LastRow /\ LastRow \in Nat
           /\ list.lo <= list.hi + 1 /\ list.measured \in Measured
           /\ list.groups \in SUBSET Tools /\ list.longs \in SUBSET LongRows
<1>1. list \in Lists
  BY DEF ViewInv
<1>2. /\ list.lo \in Nat \ {0} /\ list.hi \in 0..LastRow /\ list.lo <= list.hi + 1 /\ list.measured \in Measured
      /\ list.groups \in SUBSET Tools /\ list.longs \in SUBSET LongRows
  BY <1>1 DEF Lists
<1> QED BY <1>2, ChatViewAssumption DEF ViewInv

LEMMA InvInitially ==
    ASSUME ViewInit
    PROVE  ViewInv
<1>1. PICK w \in OpenedWith :
         list = [lo |-> w.lo, hi |-> w.hi, measured |-> <<>>, groups |-> {}, longs |-> {}]
  BY DEF ViewInit
<1>2. w.lo \in Nat \ {0} /\ w.hi \in 0..LastRow /\ w.lo <= w.hi + 1
  BY ChatViewAssumption
<1>3. <<>> \in Measured
  <2>1. <<>> \in [{} -> Nat] /\ {} \in SUBSET (1..LastRow)
    OBVIOUS
  <2> QED BY <2>1 DEF Measured
<1>4. list \in Lists
  BY <1>1, <1>2, <1>3 DEF Lists
<1>5. range = RangeAt(list, 0) /\ top = 0 /\ prevTop = 0 /\ anchor = NoAnchor /\ unflushed = {}
  BY DEF ViewInit
<1>6. RangeFits(range, list)
  BY <1>4, <1>5, RangeAtFits
<1> QED BY <1>4, <1>5, <1>6 DEF ViewInv, AnchorFits, RangeOfTop

LEMMA HydratedKeeps ==
    ASSUME ViewInv, NEW saved \in SavedHeights, Hydrated(saved)
    PROVE  ViewInv'
<1> DEFINE l == [list EXCEPT !.measured = [i \in saved |-> Height[i]]]
<1>1. saved \in SUBSET (1..LastRow) /\ [i \in saved |-> Height[i]] \in [saved -> Nat]
  BY ChatViewAssumption
<1>2. l \in Lists /\ l.lo = list.lo /\ l.hi = list.hi
  BY <1>1, InvParts, ListAltered
<1>3. LaidOut(l, anchor) /\ unflushed' = unflushed
  BY DEF Hydrated
<1> HIDE DEF l
<1> QED BY <1>2, <1>3, InvParts, LaidOutKeeps DEF ViewInv

LEMMA FlushedKeeps ==
    ASSUME ViewInv, Flushed
    PROVE  ViewInv'
<1> DEFINE heights == [i \in DOMAIN list.measured \cup unflushed |->
                          IF i \in unflushed THEN RealHeight(list, i) ELSE list.measured[i]]
           l == [list EXCEPT !.measured = heights]
<1>1. LaidOut(l, Captured) /\ unflushed' = {}
  BY DEF Flushed
<1>2. heights \in [DOMAIN list.measured \cup unflushed -> Nat]
      /\ DOMAIN list.measured \cup unflushed \in SUBSET (1..LastRow)
  <2>1. PICK which \in SUBSET (1..LastRow) : list.measured \in [which -> Nat]
    BY InvParts DEF Measured
  <2>2. unflushed \in SUBSET (1..LastRow)
    BY InvParts
  <2> QED BY <2>1, <2>2, RealHeightFits
<1>3. l \in Lists /\ l.lo = list.lo /\ l.hi = list.hi
  <2> HIDE DEF heights
  <2> QED BY <1>2, InvParts, ListAltered
<1> HIDE DEF l, heights
<1> QED BY <1>1, <1>3, InvParts, CapturedFits, LaidOutKeeps DEF ViewInv

LEMMA GroupToggledKeeps ==
    ASSUME ViewInv, NEW i \in Tools, GroupToggled(i)
    PROVE  ViewInv'
<1> DEFINE l == [list EXCEPT !.groups = IF i \in @ THEN @ \ {i} ELSE @ \cup {i}]
<1>1. LaidOut(l, Captured) /\ unflushed' = unflushed
  BY DEF GroupToggled
<1>2. l \in Lists /\ l.lo = list.lo /\ l.hi = list.hi
  <2>1. (IF i \in list.groups THEN list.groups \ {i} ELSE list.groups \cup {i}) \in SUBSET Tools
    BY InvParts
  <2> QED BY <2>1, InvParts, ListAltered
<1> HIDE DEF l
<1> QED BY <1>1, <1>2, InvParts, CapturedFits, LaidOutKeeps DEF ViewInv

LEMMA RestyledKeeps ==
    ASSUME ViewInv, Restyled
    PROVE  ViewInv'
<1> DEFINE none == <<>>
           l == [list EXCEPT !.measured = none]
<1>1. LaidOut(l, Captured) /\ unflushed' = unflushed
  BY DEF Restyled
<1>2. l \in Lists /\ l.lo = list.lo /\ l.hi = list.hi
  <2>1. \E which \in SUBSET (1..LastRow) : none \in [which -> Nat]
    <3>1. none \in [{} -> Nat] /\ {} \in SUBSET (1..LastRow)
      OBVIOUS
    <3> HIDE DEF none
    <3> QED BY <3>1
  <2> HIDE DEF none
  <2>2. PICK which \in SUBSET (1..LastRow) : none \in [which -> Nat]
    BY <2>1
  <2>3. l \in Lists
    BY <2>2, InvParts, ListAltered
  <2>4. l.lo = list.lo /\ l.hi = list.hi
    BY InvParts DEF Lists
  <2> QED BY <2>3, <2>4
<1> HIDE DEF l
<1> QED BY <1>1, <1>2, InvParts, CapturedFits, LaidOutKeeps DEF ViewInv

LEMMA OlderCameKeeps ==
    ASSUME ViewInv, OlderCame
    PROVE  ViewInv'
<1> DEFINE l == [list EXCEPT !.lo = Larger(1, @ - OlderPage)]
<1>1. LaidOut(l, anchor) /\ unflushed' = unflushed
  BY DEF OlderCame
<1>2. Larger(1, list.lo - OlderPage) \in 1..list.lo
  BY InvParts, ChatViewAssumption DEF Larger
<1>3. l \in Lists /\ l.lo = Larger(1, list.lo - OlderPage) /\ l.hi = list.hi
  BY <1>2, InvParts, ListAltered
<1> HIDE DEF l
<1>4. l.lo <= list.lo /\ list.hi <= l.hi
  BY <1>2, <1>3, InvParts
<1> QED BY <1>1, <1>3, <1>4, InvParts, LaidOutKeeps DEF ViewInv

LEMMA RowCameKeeps ==
    ASSUME ViewInv, RowCame
    PROVE  ViewInv'
<1> DEFINE l == [list EXCEPT !.hi = @ + 1]
<1>1. LaidOut(l, anchor) /\ unflushed' = unflushed /\ list.hi < LastRow
  BY DEF RowCame
<1>2. list.hi + 1 \in list.hi..LastRow
  BY <1>1, InvParts
<1>3. l \in Lists /\ l.lo = list.lo /\ l.hi = list.hi + 1
  BY <1>2, InvParts, ListAltered
<1> HIDE DEF l
<1>4. l.lo <= list.lo /\ list.hi <= l.hi
  BY <1>2, <1>3, InvParts
<1> QED BY <1>1, <1>3, <1>4, InvParts, LaidOutKeeps DEF ViewInv

LEMMA LongToggledKeeps ==
    ASSUME ViewInv, NEW i \in LongRows, LongToggled(i)
    PROVE  ViewInv'
<1> DEFINE l == [list EXCEPT !.longs = IF i \in @ THEN @ \ {i} ELSE @ \cup {i}]
<1>1. /\ list' = l /\ anchor' = Captured /\ top' = Smaller(top, Limit(l, range)) /\ prevTop' = top'
      /\ ~scrolled' => ~scrolled /\ top' = top
      /\ range' = range /\ unflushed' = unflushed
  BY DEF LongToggled
<1>2. /\ l \in Lists /\ l.lo = list.lo /\ l.hi = list.hi /\ l.measured = list.measured /\ l.groups = list.groups
  <2>1. (IF i \in list.longs THEN list.longs \ {i} ELSE list.longs \cup {i}) \in SUBSET LongRows
    BY InvParts
  <2>2. l.lo = list.lo /\ l.hi = list.hi /\ l.measured = list.measured /\ l.groups = list.groups
    BY InvParts DEF Lists
  <2> QED BY <2>1, <2>2, InvParts, ListAltered
<1> HIDE DEF l
<1>3. RangeFits(range, l)
  BY <1>2, InvParts, RangeStillFits
<1>4. Limit(l, range) \in Nat
  BY <1>2, <1>3, LimitFits
<1>5. top' \in Nat
  BY <1>1, <1>4, InvParts DEF Smaller
<1>6. RangeOfTop'
  <2>1. \A t : RangeAt(l, t) = RangeAt(list, t)
    BY <1>2, SameLayout
  <2> QED BY <1>1, <2>1, InvParts DEF RangeOfTop
<1>7. AnchorFits(anchor', list')
  BY <1>1, <1>2, CapturedFits DEF AnchorFits
<1> QED BY <1>1, <1>2, <1>3, <1>5, <1>6, <1>7, InvParts DEF ViewInv

LEMMA FrameKeeps ==
    ASSUME ViewInv, Frame
    PROVE  ViewInv'
<1>1. PICK t1 \in {top, Limit(list, range)}, r \in {range, RangeAt(list, top)} :
         /\ r = IF scrolled THEN RangeAt(list, top) ELSE range
         /\ range' = r /\ top' = Smaller(t1, Limit(list, r)) /\ prevTop' \in {prevTop, t1}
         /\ ~scrolled' => top' = top
         /\ UNCHANGED <<list, anchor, unflushed>>
  <2> DEFINE user == scrolled /\ ~anchoring
             scrolls == framesDue = 1 /\ ~settled /\ ~(byUser \/ user)
             t1 == IF scrolls THEN Limit(list, range) ELSE top
             r == IF scrolled THEN RangeAt(list, top) ELSE range
  <2>1. /\ range' = r /\ top' = Smaller(t1, Limit(list, r))
        /\ scrolled' = (t1 # top \/ Smaller(t1, Limit(list, r)) # t1)
        /\ prevTop' = IF r # range \/ loading' # loading THEN t1 ELSE prevTop
        /\ UNCHANGED <<list, anchor, unflushed>>
    BY DEF Frame
  <2>2. t1 \in {top, Limit(list, range)} /\ r \in {range, RangeAt(list, top)}
    OBVIOUS
  <2>3. r = IF scrolled THEN RangeAt(list, top) ELSE range
    OBVIOUS
  <2> HIDE DEF t1, r
  <2> QED BY <2>1, <2>2, <2>3
<1>2. RangeFits(r, list)
  BY <1>1, InvParts, RangeAtFits
<1>3. Limit(list, r) \in Nat /\ Limit(list, range) \in Nat
  BY <1>2, InvParts, LimitFits
<1>4. top' \in Nat /\ prevTop' \in Nat
  BY <1>1, <1>3, InvParts DEF Smaller
<1>5. r = RangeAt(list, top)
  BY <1>1, InvParts DEF RangeOfTop
<1>6. RangeOfTop'
  BY <1>1, <1>5 DEF RangeOfTop
<1> QED BY <1>1, <1>2, <1>4, <1>6, InvParts DEF ViewInv

LEMMA ViewStepKeeps ==
    ASSUME ViewInv, [ViewNext]_viewVars
    PROVE  ViewInv'
<1>1. CASE UNCHANGED viewVars
  BY <1>1 DEF ViewInv, RangeOfTop, viewVars
<1>2. CASE Observed
  <2>1. /\ unflushed' \subseteq unflushed \cup OnPage(list, range)
        /\ UNCHANGED <<list, range, top, anchor, prevTop, scrolled>>
    BY <1>2 DEF Observed
  <2>2. OnPage(list, range) \subseteq 1..LastRow
    BY InvParts, OnPageFits
  <2>3. unflushed' \subseteq 1..LastRow
    BY <2>1, <2>2, InvParts
  <2> QED BY <2>1, <2>3 DEF ViewInv, RangeOfTop
<1>3. CASE Rerendered
  <2>1. prevTop' = top /\ UNCHANGED <<list, range, top, anchor, unflushed, scrolled>>
    BY <1>3 DEF Rerendered
  <2> QED BY <2>1 DEF ViewInv, RangeOfTop
<1>4. CASE \E t \in 0 .. Limit(list, range) : UserScrolled(t)
  <2>1. PICK t \in 0 .. Limit(list, range) : UserScrolled(t)
    BY <1>4
  <2>2. /\ top' = t /\ scrolled' = TRUE /\ UNCHANGED <<list, range, anchor, prevTop, unflushed>>
    BY <2>1 DEF UserScrolled
  <2>3. Limit(list, range) \in Nat
    BY InvParts, LimitFits
  <2>4. top' \in Nat
    <3> DEFINE limit == Limit(list, range)
    <3>1. limit \in Nat /\ t \in 0..limit
      BY <2>3
    <3> HIDE DEF limit
    <3> QED BY <2>2, <3>1
  <2> QED BY <2>2, <2>4 DEF ViewInv, RangeOfTop
<1>5. CASE \E saved \in SavedHeights : Hydrated(saved)
  BY <1>5, HydratedKeeps
<1>6. CASE Flushed \/ Restyled \/ OlderCame \/ RowCame \/ Frame
  BY <1>6, FlushedKeeps, RestyledKeeps, OlderCameKeeps, RowCameKeeps, FrameKeeps
<1>7. CASE \E i \in Tools : GroupToggled(i)
  BY <1>7, GroupToggledKeeps
<1>8. CASE \E i \in LongRows : LongToggled(i)
  BY <1>8, LongToggledKeeps
<1> QED BY <1>1, <1>2, <1>3, <1>4, <1>5, <1>6, <1>7, <1>8 DEF ViewNext

\* Whenever no scroll event is due, what the layout has on the screen is rendered
\* (chat-view.tsx: updateRange, the anchor, the paddings), for every chat.
THEOREM ScreenIsCovered ==
    ViewSpec => []ScreenCovered
<1>1. ViewInv => ScreenCovered
  <2>1. ASSUME ViewInv, ~scrolled, NEW i \in Items(list),
               Offset(list, i) < top + Screen, Offset(list, i) + RowHeight(list, i) > top
        PROVE  i \in OnPage(list, range)
    <3>1. range = RangeAt(list, top) /\ list \in Lists /\ top \in Nat
      BY <2>1, InvParts DEF RangeOfTop
    <3> QED BY <2>1, <3>1, RangeCovers
  <2> QED BY <2>1 DEF ScreenCovered
<1> QED BY <1>1, InvInitially, ViewStepKeeps, PTL DEF ViewSpec

----------------------------------------------------------------------------
(* The row at the top of the screen stays where it is. *)

\* Rows that come before a list, and continue no group there, or after it leave the heights
\* of its rows.
LEMMA GrownHeights ==
    ASSUME NEW m \in Lists, NEW l \in Lists, l.lo <= m.lo, l.measured = m.measured, l.groups = m.groups,
           l.lo = m.lo \/ ~({m.lo - 1, m.lo} \subseteq Tools), NEW i \in m.lo..m.hi
    PROVE  RowHeight(l, i) = RowHeight(m, i)
<1>1. l.lo \in Nat /\ m.lo \in Nat /\ m.hi \in Nat
  BY HeightsFit
<1>2. {h \in l.lo..i : h..i \subseteq Tools} = {h \in m.lo..i : h..i \subseteq Tools}
  <2>1. ASSUME NEW h \in l.lo..i, h..i \subseteq Tools PROVE h \in m.lo..i
    <3>1. CASE h < m.lo
      <4>1. m.lo - 1 \in h..i /\ m.lo \in h..i /\ l.lo # m.lo
        BY <1>1, <3>1
      <4> QED BY <2>1, <4>1
    <3> QED BY <1>1, <3>1
  <2>2. ASSUME NEW h \in m.lo..i PROVE h \in l.lo..i
    BY <1>1
  <2> QED BY <2>1, <2>2
<1>3. HeadOf(i, l.lo) = HeadOf(i, m.lo)
  BY <1>2 DEF HeadOf
<1> QED BY <1>3 DEF RowHeight

LEMMA GrownPlaces ==
    ASSUME NEW m \in Lists, NEW l \in Lists, l.lo <= m.lo, m.hi <= l.hi,
           l.measured = m.measured, l.groups = m.groups,
           l.lo = m.lo \/ ~({m.lo - 1, m.lo} \subseteq Tools), NEW i \in m.lo .. m.hi + 1
    PROVE  Offset(l, i) = Offset(l, m.lo) + Offset(m, i)
<1> DEFINE height == Heights(l)
           part == Heights(m)
<1>1. /\ height \in [l.lo..l.hi -> Nat] /\ \A j \in l.lo..l.hi : height[j] = RowHeight(l, j)
      /\ l.lo \in Nat \ {0} /\ l.hi \in Nat /\ l.lo <= l.hi + 1
      /\ part \in [m.lo..m.hi -> Nat] /\ \A j \in m.lo..m.hi : part[j] = RowHeight(m, j)
      /\ m.lo \in Nat \ {0} /\ m.hi \in Nat /\ m.lo <= m.hi + 1
  BY HeightsFit
<1>2. Stacks(Offsets(l), height, l.lo, l.hi) /\ Stacks(Offsets(m), part, m.lo, m.hi)
  BY OffsetsFit
<1> HIDE DEF height, part
<1>3. \A j \in m.lo..m.hi : part[j] = height[j]
  <2>1. ASSUME NEW j \in m.lo..m.hi PROVE part[j] = height[j]
    <3>1. j \in l.lo..l.hi
      BY <1>1
    <3>2. RowHeight(l, j) = RowHeight(m, j)
      BY GrownHeights
    <3> QED BY <1>1, <3>1, <3>2
  <2> QED BY <2>1
<1>4. m.lo \in l.lo .. l.hi + 1 /\ m.hi \in m.lo - 1 .. l.hi
  BY <1>1
<1> DEFINE lo == l.lo
           hi == l.hi
           first == m.lo
           last == m.hi
           at == Offsets(l)
           of == Offsets(m)
<1>5. /\ lo \in Nat \ {0} /\ hi \in Nat /\ height \in [lo..hi -> Nat]
      /\ PartOf(part, first, last, height, lo, hi)
      /\ Stacks(at, height, lo, hi) /\ Stacks(of, part, first, last) /\ i \in first .. last + 1
  BY <1>1, <1>2, <1>3, <1>4 DEF PartOf
<1>6. Offset(l, i) = at[i] /\ Offset(l, m.lo) = at[first] /\ Offset(m, i) = of[i]
  BY DEF Offset
<1> HIDE DEF lo, hi, first, last, at, of
<1>7. at[i] = at[first] + of[i]
  BY <1>5, StackedPart
<1> QED BY <1>6, <1>7

\* Where the anchor leads to is where the view goes, if the page is long enough for it.
LEMMA GoesThere ==
    ASSUME ViewInv, NEW l \in Lists, l.lo <= list.lo, list.hi <= l.hi,
           NEW held, LaidOut(l, held), NEW n \in Nat,
           IF Kept(l, held) = NoAnchor THEN n = top ELSE There(l, Kept(l, held)) = n
    PROVE  top' = n \/ n > Smaller(Limit(list', range), Limit(list', range'))
<1> DEFINE t == Restored(l, held)
           r == RangeAt(l, t)
<1>1. list' = l /\ range' = r /\ top' = Smaller(t, Limit(l, r))
  BY LaidOutIs
<1>2. Limit(l, range) \in Nat
  BY InvParts, RangeStillFits, LimitFits
<1>3. t = IF Kept(l, held) = NoAnchor THEN Smaller(top, Limit(l, range))
          ELSE Larger(0, Smaller(There(l, Kept(l, held)), Limit(l, range)))
  BY DEF Restored, FirstTop
<1> HIDE DEF t
<1>4. n <= Limit(l, range) => t = n
  BY <1>2, <1>3 DEF Larger, Smaller
<1>5. t \in Nat
  BY <1>2, <1>3, InvParts DEF Larger, Smaller
<1>6. Limit(l, r) \in Nat
  <2>1. RangeFits(r, l)
    BY <1>5, RangeAtFits
  <2> HIDE DEF r
  <2> QED BY <2>1, LimitFits
<1> HIDE DEF r
<1> QED BY <1>1, <1>2, <1>4, <1>6 DEF Smaller

\* The view is where the row at the top of the screen was, or the page is too short for that.
RowStays(row) ==
    LET there == Offset(list', row.key) + row.within
    IN  top' = there \/ there > Smaller(Limit(list', range), Limit(list', range'))

LEMMA CapturedStays ==
    ASSUME ViewInv, NEW l \in Lists, l.lo = list.lo, l.hi = list.hi, LaidOut(l, Captured),
           TopRow(list, top) # NoAnchor
    PROVE  RowStays(TopRow(list, top))
<1> DEFINE row == TopRow(list, top)
<1>1. row.key \in Items(list) /\ row.within \in Nat
  BY InvParts, TopRowFits
<1>2. Kept(l, Captured) = row
  <2>1. ~Prepended(l)
    BY InvParts DEF Prepended
  <2> QED BY <2>1 DEF Kept, Captured
<1>3. list' = l
  BY LaidOutIs
<1> HIDE DEF row
<1>4. There(l, row) \in Nat
  <2>1. row.key \in l.lo .. l.hi + 1
    BY <1>1, InvParts DEF Items
  <2>2. Offset(l, row.key) \in Nat
    BY <2>1, OffsetFits
  <2> QED BY <1>1, <2>2 DEF There
<1>5. top' = There(l, row) \/ There(l, row) > Smaller(Limit(list', range), Limit(list', range'))
  <2>1. row # NoAnchor
    BY DEF row
  <2>2. l.lo <= list.lo /\ list.hi <= l.hi
    BY InvParts
  <2> DEFINE n == There(l, row)
  <2>3. IF Kept(l, Captured) = NoAnchor THEN n = top ELSE There(l, Kept(l, Captured)) = n
    BY <1>2, <2>1
  <2>4. n \in Nat
    BY <1>4
  <2> HIDE DEF n
  <2>5. top' = n \/ n > Smaller(Limit(list', range), Limit(list', range'))
    BY <2>2, <2>3, <2>4, GoesThere
  <2> QED BY <2>5 DEF n
<1> QED BY <1>3, <1>5 DEF RowStays, There, row

\* Rows that come, before or after the others
LEMMA GrownStays ==
    ASSUME ViewInv, NEW l \in Lists, l.lo <= list.lo, list.hi <= l.hi,
           l.measured = list.measured, l.groups = list.groups,
           l.lo = list.lo \/ ~({list.lo - 1, list.lo} \subseteq Tools),
           LaidOut(l, anchor), anchor = NoAnchor, prevTop = top, TopRow(list, top) # NoAnchor
    PROVE  RowStays(TopRow(list, top))
<1> DEFINE row == TopRow(list, top)
           n == Offset(l, row.key) + row.within
<1>1. row.key \in Items(list) /\ row.within = top - Offset(list, row.key)
  BY InvParts, TopRowFits
<1>2. list' = l
  BY LaidOutIs
<1> HIDE DEF row
<1>3. row.key \in list.lo .. list.hi + 1 /\ list.lo \in l.lo .. l.hi + 1
  BY <1>1, InvParts, HeightsFit DEF Items
<1>4. Offset(list, row.key) \in Nat /\ Offset(l, list.lo) \in Nat /\ top \in Nat
  BY <1>3, InvParts, OffsetFits
<1>5. Offset(l, row.key) = Offset(l, list.lo) + Offset(list, row.key)
  BY <1>3, InvParts, GrownPlaces
<1>6. n = Offset(l, list.lo) + top /\ n \in Nat
  BY <1>1, <1>4, <1>5
<1>7. IF Kept(l, anchor) = NoAnchor THEN n = top ELSE There(l, Kept(l, anchor)) = n
  <2>1. CASE l.lo < list.lo
    <3>1. Kept(l, anchor) = [key |-> list.lo, within |-> top]
      BY <2>1 DEF Kept, Prepended
    <3>2. Kept(l, anchor) # NoAnchor
      BY <3>1, InvParts DEF NoAnchor
    <3>3. There(l, Kept(l, anchor)) = Offset(l, list.lo) + top
      BY <3>1 DEF There
    <3> QED BY <1>6, <3>2, <3>3
  <2>2. CASE l.lo = list.lo
    <3>1. Kept(l, anchor) = NoAnchor
      BY <2>2, InvParts DEF Kept, Prepended
    <3>2. Offset(l, list.lo) = 0
      BY <2>2, OffsetFits
    <3> QED BY <1>4, <1>6, <3>1, <3>2
  <2> QED BY <2>1, <2>2, InvParts, HeightsFit
<1>8. top' = n \/ n > Smaller(Limit(list', range), Limit(list', range'))
  <2> HIDE DEF n
  <2> QED BY <1>6, <1>7, GoesThere
<1> QED BY <1>2, <1>8 DEF RowStays, row

Stays ==
    LET row == TopRow(list, top)
        there == Offset(list', row.key) + row.within
    IN  \/ UNCHANGED list \/ hydrated' # hydrated \/ prevTop # top \/ anchor # NoAnchor
        \/ row = NoAnchor \/ (list'.lo < list.lo /\ {list.lo - 1, list.lo} \subseteq Tools)
        \/ top' = there \/ there > Smaller(Limit(list', range), Limit(list', range'))

LEMMA ViewStepStays ==
    ASSUME ViewInv, ViewNext
    PROVE  Stays
<1> DEFINE row == TopRow(list, top)
<1>1. SUFFICES ASSUME hydrated' = hydrated, prevTop = top, anchor = NoAnchor, row # NoAnchor,
                      ~(list'.lo < list.lo /\ {list.lo - 1, list.lo} \subseteq Tools)
               PROVE  UNCHANGED list \/ RowStays(row)
  BY DEF Stays, RowStays
<1>2. CASE \E saved \in SavedHeights : Hydrated(saved)
  BY <1>1, <1>2 DEF Hydrated
<1>3. CASE Observed \/ Rerendered \/ Frame \/ \E t \in 0 .. Limit(list, range) : UserScrolled(t)
  BY <1>3 DEF Observed, Rerendered, Frame, UserScrolled
<1>4. CASE Flushed
  <2> DEFINE l == [list EXCEPT !.measured = [i \in DOMAIN @ \cup unflushed |->
                      IF i \in unflushed THEN RealHeight(list, i) ELSE @[i]]]
  <2>1. LaidOut(l, Captured)
    BY <1>4 DEF Flushed
  <2>2. l.lo = list.lo /\ l.hi = list.hi
    BY InvParts DEF Lists
  <2> HIDE DEF l
  <2>3. l \in Lists
    BY <1>4, <2>1, FlushedKeeps, LaidOutIs DEF ViewInv
  <2> QED BY <1>1, <2>1, <2>2, <2>3, CapturedStays
<1>5. CASE Restyled
  <2> DEFINE l == [list EXCEPT !.measured = <<>>]
  <2>1. LaidOut(l, Captured)
    BY <1>5 DEF Restyled
  <2>2. l.lo = list.lo /\ l.hi = list.hi
    BY InvParts DEF Lists
  <2> HIDE DEF l
  <2>3. l \in Lists
    BY <1>5, <2>1, RestyledKeeps, LaidOutIs DEF ViewInv
  <2> QED BY <1>1, <2>1, <2>2, <2>3, CapturedStays
<1>6. ASSUME NEW i \in Tools, GroupToggled(i) PROVE RowStays(row)
  <2> DEFINE l == [list EXCEPT !.groups = IF i \in @ THEN @ \ {i} ELSE @ \cup {i}]
  <2>1. LaidOut(l, Captured)
    BY <1>6 DEF GroupToggled
  <2>2. l.lo = list.lo /\ l.hi = list.hi
    BY InvParts DEF Lists
  <2> HIDE DEF l
  <2>3. l \in Lists
    BY <1>6, <2>1, GroupToggledKeeps, LaidOutIs DEF ViewInv
  <2> QED BY <1>1, <2>1, <2>2, <2>3, CapturedStays
<1>7. CASE OlderCame
  <2> DEFINE lo == Larger(1, list.lo - OlderPage)
             l == [list EXCEPT !.lo = lo]
  <2>1. LaidOut(l, anchor)
    BY <1>7 DEF OlderCame
  <2>2. lo \in Nat /\ lo <= list.lo
    BY InvParts, ChatViewAssumption DEF Larger
  <2> HIDE DEF lo
  <2>3. l.lo = lo /\ l.hi = list.hi /\ l.measured = list.measured /\ l.groups = list.groups
    BY InvParts DEF Lists
  <2>4. lo = list.lo => l = list
    BY InvParts DEF Lists
  <2> HIDE DEF l
  <2>5. list' = l
    BY <2>1, LaidOutIs
  <2>6. l \in Lists
    BY <1>7, <2>5, OlderCameKeeps DEF ViewInv
  <2>7. CASE lo = list.lo
    BY <2>4, <2>5, <2>7
  <2>8. CASE lo < list.lo
    <3>1. ~({list.lo - 1, list.lo} \subseteq Tools)
      BY <1>1, <2>3, <2>5, <2>8
    <3>2. l.lo <= list.lo /\ list.hi <= l.hi
      BY <2>2, <2>3, InvParts
    <3> QED BY <1>1, <2>1, <2>3, <2>6, <3>1, <3>2, GrownStays
  <2> QED BY <2>2, <2>7, <2>8, InvParts
<1>8. CASE RowCame
  <2> DEFINE l == [list EXCEPT !.hi = @ + 1]
  <2>1. LaidOut(l, anchor)
    BY <1>8 DEF RowCame
  <2>2. l.lo = list.lo /\ l.hi = list.hi + 1 /\ l.measured = list.measured /\ l.groups = list.groups
    BY InvParts DEF Lists
  <2> HIDE DEF l
  <2>3. l \in Lists
    BY <1>8, <2>1, RowCameKeeps, LaidOutIs DEF ViewInv
  <2>4. l.lo <= list.lo /\ list.hi <= l.hi
    BY <2>2, InvParts
  <2> QED BY <1>1, <2>1, <2>2, <2>3, <2>4, GrownStays
<1>9. ASSUME NEW i \in LongRows, LongToggled(i) PROVE RowStays(row)
  <2> DEFINE l == [list EXCEPT !.longs = IF i \in @ THEN @ \ {i} ELSE @ \cup {i}]
  <2>1. list' = l /\ top' = Smaller(top, Limit(l, range)) /\ range' = range
    BY <1>9 DEF LongToggled
  <2>2. l.lo = list.lo /\ l.hi = list.hi /\ l.measured = list.measured /\ l.groups = list.groups
    BY InvParts DEF Lists
  <2> HIDE DEF l
  <2>3. Offset(l, row.key) = Offset(list, row.key)
    <3>1. \A j : RowHeight(l, j) = RowHeight(list, j)
      BY <2>2 DEF RowHeight
    <3> QED BY <2>2, <3>1 DEF Offset, Offsets, Items
  <2>4. row.key \in list.lo .. list.hi + 1 /\ row.within = top - Offset(list, row.key)
    <3>1. row.key \in Items(list) /\ row.within = top - Offset(list, row.key)
      BY <1>1, InvParts, TopRowFits
    <3> HIDE DEF row
    <3> QED BY <3>1, InvParts DEF Items
  <2>5. l \in Lists
    BY <1>9, <2>1, LongToggledKeeps DEF ViewInv
  <2>6. Limit(l, range) \in Nat
    BY <2>2, <2>5, InvParts, RangeStillFits, LimitFits
  <2> HIDE DEF row
  <2>7. Offset(list, row.key) \in Nat
    BY <2>4, InvParts, OffsetFits
  <2>8. Offset(list', row.key) + row.within = top
    BY <2>1, <2>3, <2>4, <2>7, InvParts
  <2> QED BY <2>1, <2>6, <2>8, InvParts DEF RowStays, Smaller
<1> QED BY <1>2, <1>3, <1>4, <1>5, <1>6, <1>7, <1>8, <1>9 DEF ViewNext

\* Whatever changes the list, the row at the top of the screen stays where it is, as far as
\* the page can be scrolled there (chat-view.tsx:126-134), but for the cases StaysPut names.
THEOREM TopRowStays ==
    ViewSpec => StaysPut
<1>1. ViewInv /\ [ViewNext]_viewVars => [Stays]_viewVars
  BY ViewStepStays
<1> QED BY <1>1, InvInitially, ViewStepKeeps, PTL DEF ViewSpec, StaysPut, Stays

----------------------------------------------------------------------------
(* The window of the open chat *)

USE ChatWindowAssumption

\* The fields of a pull, of a scope, and of the window.
PullShape(p) ==
    p \in [stage : {p.stage}, chat : {p.chat}, token : {p.token}, tail : {p.tail},
           max : {p.max}]

PullFits(p) ==
    /\ PullShape(p)
    /\ p.token \in Nat /\ p.token <= token
    /\ p = NoPull \/ (p.stage # "idle" /\ p.chat \in Chats)

\* A pull that reports to the present window pulls the chat that is open.
PullMatches(p) == p # NoPull /\ p.token = token /\ ~crossed => p.chat = source

ScopeShape(s) ==
    s \in [chat : {s.chat}, known : {s.known}, synced : {s.synced}, pull : {s.pull},
           retry : {s.retry}, timer : {s.timer}]

ScopeFits ==
    /\ ScopeShape(scope)
    /\ scope = NoScope \/ scope.chat \in Chats
    /\ PullFits(scope.pull)

StraysFit == \A p \in strays : PullFits(p) /\ PullMatches(p)

OlderFits == older = NoOlder \/ older.chat \in Chats

WindowFits ==
    /\ win = [chat |-> win.chat, items |-> win.items, first |-> win.first, last |-> win.last,
              hasOlder |-> win.hasOlder]
    /\ win = NoWindow \/ win.chat \in Chats

\* openChat goes on with the chat that was opened last; while it waits, the scope that
\* it will replace runs under an older token, and after that there is a scope of the
\* open chat.
OpeningFits ==
    /\ opening # NoOpening => opening.chat = source /\ source \in Chats
    /\ opening # NoOpening /\ ~crossed => scope.pull = NoPull \/ scope.pull.token < token
    /\ opening = NoOpening /\ ~crossed => scope = NoScope \/ scope.chat = source

IInv ==
    /\ token \in Nat
    /\ WindowFits /\ ScopeFits /\ OpeningFits
    /\ StraysFit /\ OlderFits /\ PullMatches(scope.pull)
    /\ ShowsWhatIsOpen

LEMMA Initially == Init => IInv
<1> SUFFICES ASSUME Init PROVE IInv
  OBVIOUS
<1> USE DEF Init
<1>1. token \in Nat /\ OlderFits
  BY DEF OlderFits
<1>2. WindowFits
  BY DEF WindowFits, NoWindow
<1>3. ScopeFits
  BY DEF ScopeFits, ScopeShape, NoScope, PullFits, PullShape, NoPull
<1>4. OpeningFits
  BY DEF OpeningFits
<1>5. PullMatches(scope.pull) /\ StraysFit
  BY DEF PullMatches, NoScope, StraysFit
<1>6. ShowsWhatIsOpen
  BY DEF ShowsWhatIsOpen
<1> QED BY <1>1, <1>2, <1>3, <1>4, <1>5, <1>6 DEF IInv

----------------------------------------------------------------------------
(* Scopes and their pulls *)

\* A scope that runs keeps its pull, or begins one under the present token.
LEMMA RunFits ==
    ASSUME token \in Nat, NEW s, ScopeShape(s), s.chat \in Chats, PullFits(s.pull)
    PROVE  /\ ScopeShape(Run(s)) /\ Run(s).chat = s.chat /\ PullFits(Run(s).pull)
           /\ Run(s).pull = s.pull \/ (Run(s).pull.token = token /\ Run(s).pull.chat = s.chat)
<1>1. CASE s.pull # NoPull
  BY <1>1 DEF Run, ScopeShape
<1>2. CASE s.pull = NoPull
  <2> DEFINE p == [NoPull EXCEPT !.stage = "asked", !.chat = s.chat, !.token = token]
  <2>1. PullShape(NoPull)
    BY DEF NoPull, PullShape
  <2>2. PullShape(p) /\ p.stage = "asked" /\ p.chat = s.chat /\ p.token = token
    BY <2>1 DEF PullShape
  <2>3. PullFits(p) /\ p.token = token /\ p.chat = s.chat
    <3> HIDE DEF p
    <3> QED BY <2>2 DEF PullFits
  <2>4. Run(s) = [s EXCEPT !.retry = FALSE, !.pull = p]
    BY <1>2 DEF Run
  <2> HIDE DEF p
  <2> QED BY <2>3, <2>4 DEF ScopeShape
<1> QED BY <1>1, <1>2

\* The active scope has run, or goes on without running.
LEMMA BecomesFits ==
    ASSUME IInv, NEW s, Becomes(s), UNCHANGED <<win, source, token, opening, strays, older>>,
           ScopeShape(s), s.chat = scope.chat, PullFits(s.pull),
           s = scope \/ s.chat \in Chats,
           s.pull = scope.pull \/ (s.pull.token = token /\ s.pull.chat = s.chat)
    PROVE  IInv'
<1> USE DEF IInv
<1>1. scope' = s /\ (crossed' = (crossed \/ (s.pull # scope.pull /\ opening # NoOpening)))
  BY DEF Becomes
<1>2. ~crossed' => ~crossed /\ (s.pull = scope.pull \/ opening = NoOpening)
  BY <1>1
<1>3. WindowFits' /\ token' \in Nat /\ OlderFits'
  BY DEF WindowFits, OlderFits
<1>4. ScopeFits'
  BY <1>1 DEF ScopeFits, ScopeShape, PullFits
<1>5. ShowsWhatIsOpen'
  BY <1>2 DEF ShowsWhatIsOpen
<1>6. StraysFit'
  BY <1>2 DEF StraysFit, PullFits, PullMatches
<1>7. scope = NoScope => s = scope \/ s.chat = NoChat
  BY DEF NoScope
<1>8. OpeningFits'
  BY <1>1, <1>2, <1>7 DEF OpeningFits, ChatWindowAssumption
<1>9. PullMatches(scope.pull)'
  <2>1. CASE s.pull = scope.pull
    BY <1>1, <1>2, <2>1 DEF PullMatches
  <2>2. CASE s.pull # scope.pull
    <3>1. s # scope /\ s.chat \in Chats /\ scope # NoScope
      BY <1>7, <2>2 DEF ChatWindowAssumption
    <3>2. ~crossed' => scope.chat = source
      BY <1>2, <2>2, <3>1 DEF OpeningFits
    <3> QED BY <1>1, <2>2, <3>2 DEF PullMatches
  <2> QED BY <2>1, <2>2
<1> QED BY <1>3, <1>4, <1>5, <1>6, <1>8, <1>9

\* A pull of the active scope goes on or ends, and perhaps shows what it has got.
LEMMA PullGoesOn ==
    ASSUME IInv, NEW s, scope' = s, scope # NoScope,
           UNCHANGED <<source, token, opening, strays, older, crossed>>,
           ScopeShape(s), s.chat = scope.chat, PullFits(s.pull),
           s.pull = NoPull \/ (/\ scope.pull # NoPull /\ s.pull.token = scope.pull.token
                               /\ s.pull.chat = scope.pull.chat),
           WindowFits', ShowsWhatIsOpen'
    PROVE  IInv'
<1> USE DEF IInv
<1>1. token' \in Nat /\ OlderFits'
  BY DEF OlderFits
<1>2. ScopeFits'
  BY DEF ScopeFits, ScopeShape, PullFits
<1>3. StraysFit'
  BY DEF StraysFit, PullFits, PullMatches
<1>4. OpeningFits'
  BY DEF OpeningFits
<1>5. PullMatches(scope.pull)'
  BY DEF PullMatches
<1> QED BY <1>1, <1>2, <1>3, <1>4, <1>5

\* What a pull merges makes the window that of the pull's chat.
LEMMA MergedFits ==
    ASSUME IInv, NEW p, PullFits(p), PullMatches(p), p # NoPull, Current(p),
           win' = Merged(p), UNCHANGED <<source, crossed>>
    PROVE  WindowFits' /\ ShowsWhatIsOpen'
<1>1. p.chat \in Chats
  BY DEF PullFits
<1>2. win' = [chat |-> p.chat, items |-> win'.items, first |-> win'.first, last |-> win'.last,
              hasOlder |-> win'.hasOlder]
  <2>1. CASE win.chat = p.chat
    BY <2>1 DEF Merged, Appended, IInv, WindowFits
  <2>2. CASE win.chat # p.chat
    BY <2>2 DEF Merged, WindowOn
  <2> QED BY <2>1, <2>2
<1>3. WindowFits' /\ win'.chat = p.chat
  BY <1>1, <1>2 DEF WindowFits
<1>4. ~crossed => p.chat = source
  BY DEF Current, PullMatches
<1> QED BY <1>3, <1>4 DEF ShowsWhatIsOpen

\* What touches nothing the invariant speaks of.
LEMMA NothingMoves ==
    ASSUME IInv,
           UNCHANGED <<win, source, token, opening, scope, strays, older, crossed>>
    PROVE  IInv'
BY DEF IInv, WindowFits, ScopeFits, ScopeShape, PullFits, OpeningFits, StraysFit, OlderFits,
       PullMatches, ShowsWhatIsOpen

\* A page that is loaded moves the load only, or the window of the load's chat.
LEMMA OlderMoves ==
    ASSUME IInv, UNCHANGED <<source, token, opening, scope, strays, crossed>>,
           OlderFits', WindowFits', win'.chat = win.chat, win = NoWindow => win' = NoWindow
    PROVE  IInv'
BY DEF IInv, ScopeFits, ScopeShape, PullFits, OpeningFits, StraysFit, PullMatches,
       ShowsWhatIsOpen

----------------------------------------------------------------------------
(* Ticks and reruns *)

LEMMA KickFits ==
    ASSUME token \in Nat, NEW s, ScopeShape(s), s.chat \in Chats, PullFits(s.pull)
    PROVE  /\ ScopeShape(MaybeKick(s)) /\ MaybeKick(s).chat = s.chat
           /\ PullFits(MaybeKick(s).pull)
           /\ \/ MaybeKick(s).pull = s.pull
              \/ MaybeKick(s).pull.token = token /\ MaybeKick(s).pull.chat = s.chat
BY RunFits DEF MaybeKick

LEMMA HeardFits ==
    ASSUME NEW s, ScopeShape(s)
    PROVE  /\ ScopeShape(Heard(s)) /\ Heard(s).chat = s.chat /\ Heard(s).pull = s.pull
           /\ ScopeShape([Heard(s) EXCEPT !.retry = TRUE])
           /\ [Heard(s) EXCEPT !.retry = TRUE].chat = s.chat
           /\ [Heard(s) EXCEPT !.retry = TRUE].pull = s.pull
<1> DEFINE h == Heard(s)
<1>1. ScopeShape(h) /\ h.chat = s.chat /\ h.pull = s.pull
  BY DEF Heard, ScopeShape
<1> HIDE DEF h
<1>2. /\ ScopeShape([h EXCEPT !.retry = TRUE]) /\ [h EXCEPT !.retry = TRUE].chat = h.chat
      /\ [h EXCEPT !.retry = TRUE].pull = h.pull
  BY <1>1 DEF ScopeShape
<1> QED BY <1>1, <1>2 DEF h

LEMMA TickFits ==
    ASSUME IInv, NEW files, Tick(files) PROVE IInv'
<1>1. ScopeShape(scope) /\ PullFits(scope.pull) /\ token \in Nat
      /\ (scope = NoScope \/ scope.chat \in Chats)
  BY DEF IInv, ScopeFits
<1>2. UNCHANGED <<win, source, token, opening, strays, older>>
  BY DEF Tick
<1>3. CASE scope = NoScope \/ source \notin files
  <2>1. Becomes(scope)
    BY <1>3 DEF Tick
  <2> QED BY <1>1, <1>2, <2>1, BecomesFits
<1>4. CASE ~(scope = NoScope \/ source \notin files) /\ scope.pull # NoPull
  <2> DEFINE s == [Heard(scope) EXCEPT !.retry = TRUE]
  <2>1. Becomes(s)
    BY <1>4 DEF Tick
  <2>2. ScopeShape(s) /\ s.chat = scope.chat /\ s.pull = scope.pull
    BY <1>1, HeardFits
  <2> HIDE DEF s
  <2> QED BY <1>1, <1>2, <1>4, <2>1, <2>2, BecomesFits
<1>5. CASE ~(scope = NoScope \/ source \notin files) /\ ~(scope.pull # NoPull)
  <2> DEFINE h == Heard(scope)
             s == MaybeKick(h)
  <2>1. Becomes(s)
    BY <1>5 DEF Tick
  <2>2. ScopeShape(h) /\ h.chat = scope.chat /\ h.pull = scope.pull
    BY <1>1, HeardFits
  <2> HIDE DEF h
  <2>3. /\ ScopeShape(s) /\ s.chat = h.chat /\ PullFits(s.pull)
        /\ s.pull = h.pull \/ (s.pull.token = token /\ s.pull.chat = h.chat)
    BY <1>1, <1>5, <2>2, KickFits
  <2> HIDE DEF s
  <2> QED BY <1>1, <1>2, <1>5, <2>1, <2>2, <2>3, BecomesFits
<1> QED BY <1>3, <1>4, <1>5

LEMMA ReconnectFits ==
    ASSUME IInv, Reconnect PROVE IInv'
<1>1. ScopeShape(scope) /\ PullFits(scope.pull) /\ token \in Nat
      /\ (scope = NoScope \/ scope.chat \in Chats)
  BY DEF IInv, ScopeFits
<1>2. UNCHANGED <<win, source, token, opening, strays, older>>
  BY DEF Reconnect
<1>3. CASE scope = NoScope
  <2>1. Becomes(scope)
    BY <1>3 DEF Reconnect
  <2> QED BY <1>1, <1>2, <2>1, BecomesFits
<1>4. CASE scope # NoScope
  <2> DEFINE h == Heard(scope)
             s == Run(h)
  <2>1. Becomes(s)
    BY <1>4 DEF Reconnect
  <2>2. ScopeShape(h) /\ h.chat = scope.chat /\ h.pull = scope.pull
    BY <1>1, HeardFits
  <2> HIDE DEF h
  <2>3. /\ ScopeShape(s) /\ s.chat = h.chat /\ PullFits(s.pull)
        /\ s.pull = h.pull \/ (s.pull.token = token /\ s.pull.chat = h.chat)
    BY <1>1, <1>4, <2>2, RunFits
  <2> HIDE DEF s
  <2> QED BY <1>1, <1>2, <1>4, <2>1, <2>2, <2>3, BecomesFits
<1> QED BY <1>3, <1>4

LEMMA RerunFits ==
    ASSUME IInv, Rerun PROVE IInv'
<1>1. ScopeShape(scope) /\ PullFits(scope.pull) /\ token \in Nat
      /\ (scope = NoScope \/ scope.chat \in Chats)
  BY DEF IInv, ScopeFits
<1>2. UNCHANGED <<win, source, token, opening, strays, older>>
  BY DEF Rerun
<1>3. scope.chat \in Chats
  BY <1>1 DEF Rerun, NoScope
<1> DEFINE h == [scope EXCEPT !.timer = FALSE]
           s == Run(h)
<1>4. Becomes(s)
  BY DEF Rerun
<1>6. ScopeShape(h) /\ h.chat = scope.chat /\ h.pull = scope.pull
  BY <1>1 DEF ScopeShape
<1> HIDE DEF h
<1>7. /\ ScopeShape(s) /\ s.chat = h.chat /\ PullFits(s.pull)
      /\ s.pull = h.pull \/ (s.pull.token = token /\ s.pull.chat = h.chat)
  BY <1>1, <1>3, <1>6, RunFits
<1> HIDE DEF s
<1> QED BY <1>1, <1>2, <1>3, <1>4, <1>6, <1>7, BecomesFits

----------------------------------------------------------------------------
(* Pulls *)

LEMMA AnsweredFits ==
    ASSUME NEW p, PullFits(p), p # NoPull
    PROVE  /\ PullFits(Answered(p)) /\ Answered(p).token = p.token
           /\ Answered(p).chat = p.chat /\ Answered(p) # NoPull
<1> DEFINE t == Newest(ChatRows(rows, p.chat), TailDefault)
<1>1. Answered(p) = [p EXCEPT !.stage = "served", !.max = lastRev, !.tail = t]
  BY DEF Answered
<1> HIDE DEF t
<1> DEFINE q == [p EXCEPT !.stage = "served", !.max = lastRev, !.tail = t]
<1>2. PullShape(q) /\ q.stage = "served" /\ q.chat = p.chat /\ q.token = p.token
  BY DEF PullFits, PullShape
<1> HIDE DEF q
<1>3. q # NoPull
  BY <1>2 DEF NoPull
<1>4. PullFits(q)
  BY <1>2 DEF PullFits
<1> QED BY <1>1, <1>2, <1>3, <1>4 DEF q

LEMMA FinishedFits ==
    ASSUME NEW s, ScopeShape(s), token \in Nat
    PROVE  /\ ScopeShape(Finished(s)) /\ Finished(s).chat = s.chat
           /\ Finished(s).pull = NoPull /\ PullFits(NoPull)
<1> DEFINE b == s.timer \/ s.retry \/ s.synced < s.known
<1>1. Finished(s) = [s EXCEPT !.pull = NoPull, !.timer = b, !.retry = FALSE]
  BY DEF Finished
<1> HIDE DEF b
<1>2. PullFits(NoPull)
  BY DEF PullFits, PullShape, NoPull
<1> DEFINE f == [s EXCEPT !.pull = NoPull, !.timer = b, !.retry = FALSE]
<1>3. ScopeShape(f) /\ f.chat = s.chat /\ f.pull = NoPull
  BY DEF ScopeShape
<1> HIDE DEF f
<1> QED BY <1>1, <1>2, <1>3 DEF f

\* A scope with a pull is one of a chat.
LEMMA PullUnderWay ==
    ASSUME IInv, scope.pull.stage # "idle"
    PROVE  /\ scope # NoScope /\ scope.pull # NoPull /\ ScopeShape(scope)
           /\ PullFits(scope.pull) /\ PullMatches(scope.pull) /\ token \in Nat
BY DEF IInv, ScopeFits, NoScope, NoPull

\* A pull that ends without showing anything.
LEMMA EndFits ==
    ASSUME IInv, scope.pull.stage # "idle", scope' = Finished(scope),
           UNCHANGED <<win, source, token, opening, strays, older, crossed>>
    PROVE  IInv'
<1>1. ScopeShape(scope) /\ scope # NoScope /\ token \in Nat
  BY PullUnderWay
<1> DEFINE s == Finished(scope)
<1>2. ScopeShape(s) /\ s.chat = scope.chat /\ s.pull = NoPull /\ PullFits(s.pull)
  BY <1>1, FinishedFits
<1>3. scope' = s
  OBVIOUS
<1> HIDE DEF s
<1>4. WindowFits' /\ ShowsWhatIsOpen'
  BY DEF IInv, WindowFits, ShowsWhatIsOpen
<1> QED BY <1>1, <1>2, <1>3, <1>4, PullGoesOn

LEMMA ServeFits ==
    ASSUME IInv, Serve PROVE IInv'
<1>1. /\ scope # NoScope /\ scope.pull # NoPull /\ ScopeShape(scope)
      /\ PullFits(scope.pull)
  BY PullUnderWay DEF Serve
<1> DEFINE p == Answered(scope.pull)
           s == [scope EXCEPT !.pull = p]
<1>2. PullFits(p) /\ p.token = scope.pull.token /\ p.chat = scope.pull.chat
  BY <1>1, AnsweredFits
<1>3. scope' = s
  BY DEF Serve
<1> HIDE DEF p
<1>4. ScopeShape(s) /\ s.chat = scope.chat /\ s.pull = p
  BY <1>1 DEF ScopeShape
<1> HIDE DEF s
<1>5. WindowFits' /\ ShowsWhatIsOpen'
  BY DEF IInv, WindowFits, ShowsWhatIsOpen, Serve
<1>6. UNCHANGED <<source, token, opening, strays, older, crossed>>
  BY DEF Serve
<1> QED BY <1>1, <1>2, <1>3, <1>4, <1>5, <1>6, PullGoesOn

LEMMA ReceiveFits ==
    ASSUME IInv, Receive PROVE IInv'
<1>1. scope.pull.stage = "served"
      /\ UNCHANGED <<win, source, token, opening, strays, older, crossed>>
  BY DEF Receive
<1>2. /\ scope # NoScope /\ scope.pull # NoPull /\ ScopeShape(scope)
      /\ PullFits(scope.pull)
  BY <1>1, PullUnderWay
<1>3. CASE scope' = Finished(scope)
  BY <1>1, <1>3, EndFits
<1>4. ASSUME NEW m, scope' = [scope EXCEPT !.pull.stage = "stored", !.pull.max = m]
      PROVE  IInv'
  <2> DEFINE q == [scope.pull EXCEPT !.stage = "stored"]
             p == [q EXCEPT !.max = m]
             s == [[scope EXCEPT !.pull = q] EXCEPT !.pull = p]
  <2>1. PullShape(p) /\ p.stage = "stored" /\ p.token = scope.pull.token
        /\ p.chat = scope.pull.chat
    BY <1>2 DEF PullFits, PullShape
  <2>2. scope' = s
    BY <1>2, <1>4 DEF ScopeShape
  <2> HIDE DEF q
  <2>3. PullFits(p) /\ p.token = scope.pull.token /\ p.chat = scope.pull.chat
    <3> HIDE DEF p
    <3> QED BY <1>2, <2>1 DEF PullFits
  <2> HIDE DEF p
  <2>4. ScopeShape(s) /\ s.chat = scope.chat /\ s.pull = p
    BY <1>2 DEF ScopeShape
  <2> HIDE DEF s
  <2>5. WindowFits' /\ ShowsWhatIsOpen'
    BY <1>1 DEF IInv, WindowFits, ShowsWhatIsOpen
  <2> QED BY <1>1, <1>2, <2>2, <2>3, <2>4, <2>5, PullGoesOn
<1> QED BY <1>3, <1>4 DEF Receive

LEMMA MergeFits ==
    ASSUME IInv, Merge PROVE IInv'
<1>1. scope.pull.stage = "stored"
      /\ UNCHANGED <<source, token, opening, strays, older, crossed>>
  BY DEF Merge
<1>2. /\ scope # NoScope /\ scope.pull # NoPull /\ ScopeShape(scope) /\ token \in Nat
      /\ PullFits(scope.pull) /\ PullMatches(scope.pull)
  BY <1>1, PullUnderWay
<1>3. CASE ~Current(scope.pull)
  BY <1>1, <1>3, EndFits DEF Merge
<1>4. CASE Current(scope.pull)
  <2> DEFINE h == [scope EXCEPT !.synced = Max2(@, scope.pull.max)]
             s == Finished(h)
  <2>1. scope' = s /\ win' = Merged(scope.pull)
    BY <1>4 DEF Merge
  <2>2. ScopeShape(h) /\ h.chat = scope.chat
    BY <1>2 DEF ScopeShape
  <2> HIDE DEF h
  <2>3. ScopeShape(s) /\ s.chat = scope.chat /\ s.pull = NoPull /\ PullFits(s.pull)
    BY <1>2, <2>2, FinishedFits
  <2> HIDE DEF s
  <2>4. WindowFits' /\ ShowsWhatIsOpen'
    BY <1>1, <1>2, <1>4, <2>1, MergedFits
  <2> QED BY <1>1, <1>2, <2>1, <2>3, <2>4, PullGoesOn
<1> QED BY <1>3, <1>4

LEMMA PutFailsFits ==
    ASSUME IInv, PutFails PROVE IInv'
BY EndFits DEF PutFails

LEMMA StrayFits ==
    ASSUME IInv, StrayStep PROVE IInv'
<1>1. UNCHANGED <<source, token, opening, older, crossed>>
  BY DEF StrayStep
<1>2. PICK p \in strays :
        /\ strays' = (strays \ {p}) \cup
             (CASE p.stage = "asked" -> {Answered(p)}
                [] p.stage = "served" /\ Current(p) -> {[p EXCEPT !.stage = "stored"]}
                [] OTHER -> {})
        /\ win' = IF p.stage = "stored" /\ Current(p) THEN Merged(p) ELSE win
        /\ scope' = IF p.stage = "stored" /\ Current(p) /\ scope # NoScope
                    THEN [scope EXCEPT !.synced = Max2(@, p.max)] ELSE scope
  BY DEF StrayStep
<1>3. PullFits(p) /\ PullMatches(p)
  BY <1>2 DEF IInv, StraysFit
<1>4. \A q \in strays' : PullFits(q) /\ PullMatches(q)
  <2>1. CASE p.stage = "asked"
    <3>1. p # NoPull
      BY <2>1 DEF NoPull
    <3>2. PullFits(Answered(p)) /\ PullMatches(Answered(p))
      BY <1>3, <3>1, AnsweredFits DEF PullMatches
    <3>3. strays' \subseteq strays \cup {Answered(p)}
      BY <1>2, <2>1
    <3> QED BY <3>2, <3>3 DEF IInv, StraysFit
  <2>2. CASE p.stage = "served" /\ Current(p)
    <3> DEFINE q == [p EXCEPT !.stage = "stored"]
    <3>1. PullShape(q) /\ q.stage = "stored" /\ q.chat = p.chat /\ q.token = p.token
      BY <1>3 DEF PullFits, PullShape
    <3>2. strays' \subseteq strays \cup {q}
      BY <1>2, <2>2
    <3> HIDE DEF q
    <3>3. p # NoPull
      BY <2>2 DEF NoPull
    <3>4. PullFits(q) /\ PullMatches(q)
      BY <1>3, <3>1, <3>3 DEF PullFits, PullMatches
    <3> QED BY <3>2, <3>4 DEF IInv, StraysFit
  <2>3. CASE p.stage # "asked" /\ ~(p.stage = "served" /\ Current(p))
    <3>1. strays' \subseteq strays
      BY <1>2, <2>3
    <3> QED BY <3>1 DEF IInv, StraysFit
  <2> QED BY <2>1, <2>2, <2>3
<1>5. StraysFit'
  BY <1>1, <1>4 DEF StraysFit, PullFits, PullMatches
<1>6. WindowFits' /\ ShowsWhatIsOpen'
  <2>1. CASE p.stage = "stored" /\ Current(p)
    <3>1. p # NoPull
      BY <2>1 DEF NoPull
    <3> QED BY <1>1, <1>2, <1>3, <2>1, <3>1, MergedFits
  <2>2. CASE ~(p.stage = "stored" /\ Current(p))
    BY <1>1, <1>2, <2>2 DEF IInv, WindowFits, ShowsWhatIsOpen
  <2> QED BY <2>1, <2>2
<1>7. /\ ScopeShape(scope') /\ scope'.chat = scope.chat /\ scope'.pull = scope.pull
      /\ scope = NoScope => scope' = NoScope
  BY <1>2 DEF IInv, ScopeFits, ScopeShape
<1>8. ScopeFits'
  <2>1. ScopeShape(scope)'
    BY <1>7 DEF ScopeShape
  <2>2. PullFits(scope.pull)'
    BY <1>1, <1>7 DEF IInv, ScopeFits, PullFits
  <2>3. (scope = NoScope \/ scope.chat \in Chats)'
    BY <1>7 DEF IInv, ScopeFits
  <2> QED BY <2>1, <2>2, <2>3 DEF ScopeFits
<1>9. OpeningFits' /\ PullMatches(scope.pull)' /\ OlderFits' /\ token' \in Nat
  BY <1>1, <1>7 DEF IInv, OpeningFits, PullMatches, OlderFits
<1> QED BY <1>5, <1>6, <1>8, <1>9 DEF IInv

----------------------------------------------------------------------------
(* Opening and closing *)

\* After a move every pull is under an older token.
LEMMA MoveFits ==
    ASSUME IInv, token' = token + 1, crossed' = FALSE, win' = NoWindow,
           scope' = scope \/ scope' = NoScope, UNCHANGED <<strays, older>>,
           opening' # NoOpening => opening'.chat = source' /\ source' \in Chats,
           opening' = NoOpening => scope' = NoScope
    PROVE  IInv'
<1>1. token \in Nat /\ token' \in Nat
  BY DEF IInv
<1>2. WindowFits' /\ ShowsWhatIsOpen' /\ OlderFits'
  BY DEF IInv, WindowFits, ShowsWhatIsOpen, OlderFits, NoWindow
<1>3. StraysFit'
  BY <1>1 DEF IInv, StraysFit, PullFits, PullMatches
<1>4. PullFits(scope.pull)' /\ (scope'.pull = NoPull \/ scope'.pull.token < token')
  <2>1. CASE scope' = scope
    BY <1>1, <2>1 DEF IInv, ScopeFits, PullFits, PullShape
  <2>2. CASE scope' = NoScope
    <3>1. scope'.pull = NoPull
      BY <2>2 DEF NoScope
    <3> QED BY <1>1, <3>1 DEF PullFits, PullShape, NoPull
  <2> QED BY <2>1, <2>2
<1>5. ScopeFits'
  <2>1. ScopeShape(scope)'
    BY DEF IInv, ScopeFits, ScopeShape, NoScope
  <2>2. (scope = NoScope \/ scope.chat \in Chats)'
    BY DEF IInv, ScopeFits
  <2> QED BY <1>4, <2>1, <2>2 DEF ScopeFits
<1>6. OpeningFits'
  BY <1>4 DEF OpeningFits
<1>7. PullMatches(scope.pull)'
  BY <1>1, <1>4, <1>5 DEF PullMatches, ScopeFits, PullFits
<1> QED BY <1>1, <1>2, <1>3, <1>5, <1>6, <1>7 DEF IInv

LEMMA OpenChatFits ==
    ASSUME IInv, NEW c \in Chats, OpenChat(c) PROVE IInv'
<1>1. opening'.chat = c /\ source' = c /\ opening' # NoOpening
  BY DEF OpenChat, NoOpening, ChatWindowAssumption
<1> QED BY <1>1, MoveFits DEF OpenChat

LEMMA CloseFits ==
    ASSUME IInv, CloseActiveChat PROVE IInv'
BY MoveFits DEF CloseActiveChat

LEMMA ReadTailFits ==
    ASSUME IInv, ReadTail PROVE IInv'
<1>1. opening # NoOpening /\ opening'.chat = opening.chat
  BY DEF ReadTail
<1>2. UNCHANGED <<win, source, token, scope, strays, older, crossed>>
  BY DEF ReadTail
<1>3. opening'.chat # NoChat
  BY <1>1 DEF IInv, OpeningFits, ChatWindowAssumption
<1>4. opening' # NoOpening
  BY <1>3 DEF NoOpening
<1>5. OpeningFits'
  BY <1>1, <1>2, <1>4 DEF IInv, OpeningFits
<1> QED BY <1>2, <1>5 DEF IInv, WindowFits, ScopeFits, ScopeShape, PullFits, StraysFit,
                         OlderFits, PullMatches, ShowsWhatIsOpen

LEMMA ShowTailFits ==
    ASSUME IInv, ShowTail PROVE IInv'
<1> DEFINE c == opening.chat
           k == Max2(known, 1)
           s == [NoScope EXCEPT !.chat = c, !.known = k]
<1>1. opening # NoOpening /\ c = source /\ c \in Chats /\ token \in Nat
  BY DEF ShowTail, NoOpening, IInv, OpeningFits
<1>2. UNCHANGED <<source, token, older, crossed>> /\ opening' = NoOpening
  BY DEF ShowTail
<1>3. PullFits(NoPull)
  BY <1>1 DEF PullFits, PullShape, NoPull
<1>4. scope' = Run(s)
  BY DEF ShowTail
<1> HIDE DEF c, k
<1>5. ScopeShape(s) /\ s.chat = c /\ s.pull = NoPull
  <2>1. ScopeShape(NoScope) /\ NoScope.pull = NoPull
    BY DEF ScopeShape, NoScope
  <2> QED BY <2>1 DEF ScopeShape
<1> HIDE DEF s
<1>6. /\ ScopeShape(scope') /\ scope'.chat = c /\ PullFits(scope'.pull)
      /\ scope'.pull = NoPull \/ scope'.pull.chat = c
  BY <1>1, <1>3, <1>4, <1>5, RunFits
<1>7. ScopeFits' /\ PullMatches(scope.pull)' /\ OpeningFits'
  BY <1>1, <1>2, <1>6 DEF ScopeFits, ScopeShape, PullFits, PullMatches, OpeningFits
<1>8. StraysFit'
  <2>1. \A p \in strays' : p \in strays \/ (p = scope.pull /\ p # NoPull /\ Current(p))
    BY DEF ShowTail
  <2>2. \A p \in strays' : PullFits(p) /\ PullMatches(p)
    BY <2>1 DEF IInv, StraysFit, ScopeFits
  <2> QED BY <1>2, <2>2 DEF StraysFit, PullFits, PullMatches
<1>9. WindowFits' /\ ShowsWhatIsOpen'
  <2>1. CASE opening.tail = <<>>
    BY <1>2, <2>1 DEF ShowTail, IInv, WindowFits, ShowsWhatIsOpen
  <2>2. CASE opening.tail # <<>>
    <3>1. win' = WindowOn(c, opening.tail)
      BY <2>2 DEF ShowTail, c
    <3> QED BY <1>1, <1>2, <3>1 DEF WindowOn, WindowFits, ShowsWhatIsOpen
  <2> QED BY <2>1, <2>2
<1> QED BY <1>1, <1>2, <1>7, <1>8, <1>9 DEF IInv, OlderFits

----------------------------------------------------------------------------
(* Paging back *)

\* A load that goes on is that of its chat.
LEMMA OlderGoesOn ==
    ASSUME IInv, UNCHANGED <<win, source, token, opening, scope, strays, crossed>>,
           older' = NoOlder \/ (older # NoOlder /\ older'.chat = older.chat)
    PROVE  IInv'
<1>1. OlderFits'
  BY DEF IInv, OlderFits
<1>2. WindowFits'
  BY DEF IInv, WindowFits
<1> QED BY <1>1, <1>2, OlderMoves

LEMMA LoadOlderFits ==
    ASSUME IInv, LoadOlder PROVE IInv'
<1>1. win.chat \in Chats
  BY DEF LoadOlder, NoWindow, IInv, WindowFits
<1>2. OlderFits'
  BY <1>1 DEF LoadOlder, NoOlder, OlderFits
<1>3. WindowFits'
  BY DEF LoadOlder, IInv, WindowFits
<1> QED BY <1>2, <1>3, OlderMoves DEF LoadOlder

LEMMA OlderStepFits ==
    ASSUME IInv, OlderStep PROVE IInv'
<1>1. CASE ReadOlder
  <2> DEFINE page == Newest({r \in ChatRows(cache, older.chat) : r.seq < older.first},
                            HistoryPage)
             left == HistoryPage - Len(page)
  <2>1. older.stage = "cache"
    BY <1>1 DEF ReadOlder
  <2>2. older # NoOlder
    BY <2>1 DEF NoOlder
  <2> HIDE DEF page, left
  <2>3. CASE ~StillThere
    BY <1>1, <2>2, <2>3, OlderGoesOn DEF ReadOlder
  <2>4. CASE StillThere
    <3>1. PICK online \in BOOLEAN :
            older' = [older EXCEPT !.items = page, !.left = left,
                        !.first = IF page = <<>> THEN @ ELSE Head(page).seq,
                        !.hasOlder = left = 0,
                        !.stage = IF left > 0 /\ online THEN "asked" ELSE "ready"]
      BY <1>1, <2>4 DEF ReadOlder, page, left
    <3> DEFINE f == IF page = <<>> THEN older.first ELSE Head(page).seq
               b == left = 0
               g == IF left > 0 /\ online THEN "asked" ELSE "ready"
    <3>2. older' = [older EXCEPT !.items = page, !.left = left, !.first = f,
                                 !.hasOlder = b, !.stage = g]
      BY <3>1
    <3> HIDE DEF f, b, g
    <3>3. older'.chat = older.chat
      BY <3>2
    <3> QED BY <1>1, <2>2, <3>3, OlderGoesOn DEF ReadOlder
  <2> QED BY <2>3, <2>4
<1>2. CASE ServeOlder
  <2>1. older # NoOlder
    BY <1>2 DEF ServeOlder, NoOlder
  <2>2. older'.chat = older.chat
    BY <1>2 DEF ServeOlder
  <2> QED BY <1>2, <2>1, <2>2, OlderGoesOn DEF ServeOlder
<1>3. CASE StoreOlder
  <2>1. older # NoOlder
    BY <1>3 DEF StoreOlder, NoOlder
  <2>2. CASE ~StillThere
    BY <1>3, <2>1, <2>2, OlderGoesOn DEF StoreOlder
  <2>3. CASE StillThere
    <3> DEFINE i == Reverse(older.page) \o older.items
               f == IF older.page = <<>> THEN older.first ELSE Last(older.page).seq
               b == Len(older.page) = older.left
    <3>1. older' = [older EXCEPT !.stage = "ready", !.items = i, !.first = f, !.hasOlder = b]
      BY <1>3, <2>3 DEF StoreOlder
    <3> HIDE DEF i, f, b
    <3>2. older'.chat = older.chat
      BY <3>1
    <3> QED BY <1>3, <2>1, <3>2, OlderGoesOn DEF StoreOlder
  <2> QED BY <2>2, <2>3
<1>4. CASE Prepend
  <2>1. OlderFits' /\ UNCHANGED <<source, token, opening, scope, strays, crossed>>
    BY <1>4 DEF Prepend, OlderFits
  <2>2. CASE ~StillThere
    BY <1>4, <2>1, <2>2, OlderGoesOn DEF Prepend
  <2>3. CASE StillThere
    <3>1. older # NoOlder
      BY <1>4 DEF Prepend, NoOlder
    <3>2. win.chat \in Chats
      BY <2>3, <3>1 DEF StillThere, IInv, OlderFits
    <3>3. win # NoWindow
      BY <3>2 DEF NoWindow, ChatWindowAssumption
    <3>4. win' = [win EXCEPT !.items = older.items \o @, !.first = older.first,
                             !.hasOlder = older.hasOlder]
      BY <1>4, <2>3 DEF Prepend
    <3>5. WindowFits' /\ win'.chat = win.chat
      BY <3>2, <3>4 DEF IInv, WindowFits
    <3> QED BY <2>1, <3>3, <3>5, OlderMoves
  <2> QED BY <2>2, <2>3
<1> QED BY <1>1, <1>2, <1>3, <1>4 DEF OlderStep

----------------------------------------------------------------------------

LEMMA Preserved == IInv /\ [Next]_vars => IInv'
<1> SUFFICES ASSUME IInv, [Next]_vars PROVE IInv'
  OBVIOUS
<1>1. CASE UNCHANGED vars
  BY <1>1, NothingMoves DEF vars
<1>2. ASSUME NEW c \in Chats, NEW e \in NewEvents, Write(c, e) PROVE IInv'
  BY <1>2, NothingMoves DEF Write
<1>3. ASSUME NEW files \in SUBSET untold, Tick(files) PROVE IInv'
  BY <1>3, TickFits
<1>4. CASE Reconnect \/ Rerun
  BY <1>4, ReconnectFits, RerunFits
<1>5. CASE PullStep \/ PutFails \/ StrayStep
  BY <1>5, ServeFits, ReceiveFits, MergeFits, PutFailsFits, StrayFits DEF PullStep
<1>6. ASSUME NEW c \in Chats, OpenChat(c) PROVE IInv'
  BY <1>6, OpenChatFits
<1>7. CASE ReadTail \/ ShowTail \/ CloseActiveChat
  BY <1>7, ReadTailFits, ShowTailFits, CloseFits
<1>8. CASE LoadOlder \/ OlderStep
  BY <1>8, LoadOlderFits, OlderStepFits
<1> QED BY <1>1, <1>2, <1>3, <1>4, <1>5, <1>6, <1>7, <1>8 DEF Next

LEMMA Inductive == Spec => []IInv
BY Initially, Preserved, PTL DEF Spec

\* For every user who opens and closes chats, every order of answers and ticks: unless
\* a frame makes the replaced scope run while openChat reads the cache, the window is
\* that of the chat opened last (views-store-v4.ts:646 "user moved on").
THEOREM ShowsTheOpenChat == Spec => []ShowsWhatIsOpen
<1>1. IInv => ShowsWhatIsOpen
  BY DEF IInv
<1> QED BY <1>1, Inductive, PTL
=============================================================================
