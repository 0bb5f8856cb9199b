---------------------------- MODULE OrderBookProofs ----------------------------
(***************************************************************************)
(* Proofs about OrderBookEngine: for any prices, sizes, depth and calls,   *)
(* the sides stay sorted, rows do to the slices what they mean for the     *)
(* book, and every method is a step of BookEngine.                         *)
(***************************************************************************)
EXTENDS OrderBookEngine, FiniteSetTheorems, SequenceTheorems, WellFoundedInduction, TLAPS

-------------------------------------------------------------------------------
(* Sequences of levels.                                                    *)

LEMMA LeastExists ==
  ASSUME NEW S \in SUBSET Nat, S # {}
  PROVE  \E m \in S : \A n \in S : m <= n
<1>1. PICK m \in S : \A n \in S : <<n, m>> \notin OpToRel(<, Nat)
  BY NatLessThanWellFounded, WFMin, Zenon
<1>2. \A n \in S : ~ (n < m)
  BY <1>1 DEF OpToRel
<1>3. QED
  BY <1>2

\* Of finitely many positions one is the last.
LEMMA GreatestExists ==
  ASSUME NEW n \in Nat, NEW S \in SUBSET (1 .. n), S # {}
  PROVE  \E m \in S : \A k \in S : k <= m
<1> DEFINE T == {n - k : k \in S}
<1>1. T \in SUBSET Nat /\ T # {}
  <2>1. \A k \in S : n - k \in Nat
    OBVIOUS
  <2>2. QED
    BY <2>1
<1> HIDE DEF T
<1>2. PICK t \in T : \A k \in T : t <= k
  BY <1>1, LeastExists
<1>3. PICK m \in S : t = n - m
  BY DEF T
<1>4. \A k \in S : k <= m
  <2> TAKE k \in S
  <2>1. n - k \in T
    BY DEF T
  <2>2. n - m <= n - k
    BY <1>2, <1>3, <2>1
  <2>3. QED
    BY <2>2
<1>5. QED
  BY <1>4

LEMMA PrefixOfLevels ==
  ASSUME NEW arr \in Seq(Level), NEW n \in 0 .. Len(arr)
  PROVE  /\ SubSeq(arr, 1, n) \in Seq(Level)
         /\ Len(SubSeq(arr, 1, n)) = n
         /\ \A i \in 1 .. n : SubSeq(arr, 1, n)[i] = arr[i]
<1>1. \A i \in 1 .. n : arr[i] \in Level
  OBVIOUS
<1>2. QED
  BY <1>1, SubSeqProperties

LEMMA SuffixOfLevels ==
  ASSUME NEW arr \in Seq(Level), NEW n \in 1 .. Len(arr) + 1
  PROVE  /\ SubSeq(arr, n, Len(arr)) \in Seq(Level)
         /\ Len(SubSeq(arr, n, Len(arr))) = Len(arr) - n + 1
         /\ \A i \in 1 .. Len(arr) - n + 1 : SubSeq(arr, n, Len(arr))[i] = arr[n + i - 1]
<1>1. \A i \in n .. Len(arr) : arr[i] \in Level
  OBVIOUS
<1>2. QED
  BY <1>1, SubSeqProperties

LEMMA RemovedLevel ==
  ASSUME NEW arr \in Seq(Level), NEW i \in 1 .. Len(arr)
  PROVE  /\ RemoveAt(arr, i) \in Seq(Level)
         /\ Len(RemoveAt(arr, i)) = Len(arr) - 1
         /\ \A j \in 1 .. Len(arr) - 1 :
               RemoveAt(arr, i)[j] = IF j < i THEN arr[j] ELSE arr[j + 1]
<1> DEFINE front == SubSeq(arr, 1, i - 1)
           back == SubSeq(arr, i + 1, Len(arr))
<1>1. /\ front \in Seq(Level) /\ Len(front) = i - 1
      /\ \A j \in 1 .. i - 1 : front[j] = arr[j]
  BY PrefixOfLevels
<1>2. /\ back \in Seq(Level) /\ Len(back) = Len(arr) - i
      /\ \A j \in 1 .. Len(arr) - i : back[j] = arr[i + j]
  <2>1. i + 1 \in 1 .. Len(arr) + 1
    OBVIOUS
  <2>2. QED
    BY <2>1, SuffixOfLevels
<1>3. RemoveAt(arr, i) = front \o back
  BY DEF RemoveAt
<1> HIDE DEF front, back
<1>4. /\ front \o back \in Seq(Level) /\ Len(front \o back) = Len(arr) - 1
      /\ \A j \in 1 .. Len(arr) - 1 :
            (front \o back)[j] = IF j <= i - 1 THEN front[j] ELSE back[j - (i - 1)]
  <2>1. Len(front) + Len(back) = Len(arr) - 1
    BY <1>1, <1>2
  <2>2. /\ front \o back \in Seq(Level) /\ Len(front \o back) = Len(front) + Len(back)
        /\ \A j \in 1 .. Len(front) + Len(back) :
              (front \o back)[j] = IF j <= Len(front) THEN front[j] ELSE back[j - Len(front)]
    BY <1>1, <1>2, ConcatProperties, Zenon
  <2>3. QED
    BY <1>1, <2>1, <2>2, Zenon
<1>5. \A j \in 1 .. Len(arr) - 1 :
          (front \o back)[j] = IF j < i THEN arr[j] ELSE arr[j + 1]
  <2> TAKE j \in 1 .. Len(arr) - 1
  <2>0. j < i \/ j >= i
    OBVIOUS
  <2>1. CASE j < i
    BY <2>1, <1>1, <1>4
  <2>2. CASE j >= i
    <3>1. (front \o back)[j] = back[j - (i - 1)]
      BY <2>2, <1>4
    <3>2. j - (i - 1) \in 1 .. Len(arr) - i
      BY <2>2
    <3>3. back[j - (i - 1)] = arr[j + 1]
      BY <3>2, <1>2
    <3>4. QED
      BY <2>2, <3>1, <3>3
  <2>3. QED
    BY <2>0, <2>1, <2>2, Zenon
<1>6. QED
  BY <1>3, <1>4, <1>5

LEMMA InsertedLevel ==
  ASSUME NEW arr \in Seq(Level), NEW i \in 1 .. Len(arr) + 1, NEW lvl \in Level
  PROVE  /\ InsertAt(arr, i, lvl) \in Seq(Level)
         /\ Len(InsertAt(arr, i, lvl)) = Len(arr) + 1
         /\ \A j \in 1 .. Len(arr) + 1 :
               InsertAt(arr, i, lvl)[j] = IF j < i THEN arr[j]
                                          ELSE IF j = i THEN lvl ELSE arr[j - 1]
<1> DEFINE front == SubSeq(arr, 1, i - 1)
           back == SubSeq(arr, i, Len(arr))
           mid == front \o <<lvl>>
<1>1. /\ front \in Seq(Level) /\ Len(front) = i - 1
      /\ \A j \in 1 .. i - 1 : front[j] = arr[j]
  BY PrefixOfLevels
<1>2. /\ back \in Seq(Level) /\ Len(back) = Len(arr) - i + 1
      /\ \A j \in 1 .. Len(arr) - i + 1 : back[j] = arr[i + j - 1]
  BY SuffixOfLevels
<1>3. InsertAt(arr, i, lvl) = mid \o back
  BY DEF InsertAt
<1> HIDE DEF front, back
<1>4. /\ mid \in Seq(Level) /\ Len(mid) = i
      /\ \A j \in 1 .. i - 1 : mid[j] = arr[j]
      /\ mid[i] = lvl
  <2>1. <<lvl>> \in Seq(Level) /\ Len(<<lvl>>) = 1 /\ <<lvl>>[1] = lvl
    OBVIOUS
  <2>2. /\ mid \in Seq(Level) /\ Len(mid) = i
        /\ \A j \in 1 .. i : mid[j] = IF j <= i - 1 THEN front[j] ELSE <<lvl>>[j - (i - 1)]
    <3>1. (i - 1) + 1 = i
      OBVIOUS
    <3>2. QED
      BY <1>1, <2>1, <3>1, ConcatProperties
  <2>3. QED
    BY <1>1, <2>1, <2>2
<1> HIDE DEF mid
<1>5. /\ mid \o back \in Seq(Level) /\ Len(mid \o back) = Len(arr) + 1
      /\ \A j \in 1 .. Len(arr) + 1 :
            (mid \o back)[j] = IF j <= i THEN mid[j] ELSE back[j - i]
  BY <1>2, <1>4, ConcatProperties
<1>6. \A j \in 1 .. Len(arr) + 1 :
          (mid \o back)[j] = IF j < i THEN arr[j] ELSE IF j = i THEN lvl ELSE arr[j - 1]
  <2> TAKE j \in 1 .. Len(arr) + 1
  <2>0. j <= i \/ j > i
    OBVIOUS
  <2>1. CASE j <= i
    BY <2>1, <1>4, <1>5
  <2>2. CASE j > i
    <3>1. (mid \o back)[j] = back[j - i]
      BY <2>2, <1>5
    <3>2. j - i \in 1 .. Len(arr) - i + 1
      BY <2>2
    <3>3. back[j - i] = arr[j - 1]
      BY <3>2, <1>2
    <3>4. QED
      BY <2>2, <3>1, <3>3
  <2>3. QED
    BY <2>0, <2>1, <2>2, Zenon
<1>7. QED
  BY <1>3, <1>5, <1>6

-------------------------------------------------------------------------------
(* What a slice says of a price.                                           *)

LEMMA LevelFields ==
  ASSUME NEW lvl \in Level
  PROVE  lvl.price \in Price /\ lvl.size \in Size /\ lvl.price \in Int /\ lvl.size \in Nat
BY OrderBookAssumption DEF Level

\* The last level of a price is the one that counts.
LEMMA SizeIsLast ==
  ASSUME NEW arr \in Seq(Level), NEW i \in DOMAIN arr, NEW p, arr[i].price = p,
         \A j \in DOMAIN arr : arr[j].price = p => j <= i
  PROVE  SizeAt(arr, p) = arr[i].size
<1>1. i \in At(arr, p) /\ \A j \in At(arr, p) : j <= i
  BY DEF At
<1> DEFINE last == CHOOSE k \in At(arr, p) : \A j \in At(arr, p) : j <= k
<1>2. last \in At(arr, p) /\ \A j \in At(arr, p) : j <= last
  BY <1>1
<1>3. At(arr, p) \subseteq Int
  BY DEF At
<1> HIDE DEF last
<1>4. last = i
  BY <1>1, <1>2, <1>3
<1>5. QED
  BY <1>1, <1>4 DEF SizeAt, last

LEMMA SizeIsZero ==
  ASSUME NEW arr \in Seq(Level), NEW p, \A j \in DOMAIN arr : arr[j].price # p
  PROVE  SizeAt(arr, p) = 0
BY DEF SizeAt, At

\* Sizes are sizes.
LEMMA SizeIsSize ==
  ASSUME NEW arr \in Seq(Level), NEW p
  PROVE  SizeAt(arr, p) \in Size
<1>1. CASE \A j \in DOMAIN arr : arr[j].price # p
  BY <1>1, SizeIsZero, OrderBookAssumption
<1>2. CASE \E j \in DOMAIN arr : arr[j].price = p
  <2>1. At(arr, p) \in SUBSET (1 .. Len(arr)) /\ At(arr, p) # {}
    BY <1>2 DEF At
  <2>2. PICK i \in At(arr, p) : \A j \in At(arr, p) : j <= i
    <3>1. Len(arr) \in Nat
      OBVIOUS
    <3>2. QED
      BY <2>1, <3>1, GreatestExists, Zenon
  <2>3. i \in DOMAIN arr /\ arr[i].price = p /\ \A j \in DOMAIN arr : arr[j].price = p => j <= i
    BY <2>2 DEF At
  <2>4. SizeAt(arr, p) = arr[i].size
    BY <2>3, SizeIsLast
  <2>5. QED
    BY <2>3, <2>4, LevelFields
<1>3. QED
  BY <1>1, <1>2

\* A slice as the engine keeps it, but for the depth.
Sorted(side, arr) ==
    /\ arr \in Seq(Level)
    /\ \A i \in DOMAIN arr : arr[i].size # 0
    /\ \A i, j \in DOMAIN arr : i < j => Before(side, arr[i].price, arr[j].price)

LEMMA PricesInOrder ==
  ASSUME NEW side, NEW a \in Int, NEW b \in Int
  PROVE  /\ Before(side, a, b) \/ a = b \/ Before(side, b, a)
         /\ ~ (Before(side, a, b) /\ Before(side, b, a))
         /\ ~ Before(side, a, a)
         /\ \A c \in Int : Before(side, a, b) /\ Before(side, b, c) => Before(side, a, c)
BY DEF Before

\* A sorted slice has no price twice.
LEMMA SortedSizes ==
  ASSUME NEW side, NEW arr, Sorted(side, arr)
  PROVE  /\ \A i, j \in DOMAIN arr : arr[i].price = arr[j].price => i = j
         /\ \A i \in DOMAIN arr : SizeAt(arr, arr[i].price) = arr[i].size
<1>1. arr \in Seq(Level) /\ DOMAIN arr \subseteq Int
  BY DEF Sorted
<1>2. \A i, j \in DOMAIN arr : arr[i].price = arr[j].price => i = j
  <2> SUFFICES ASSUME NEW i \in DOMAIN arr, NEW j \in DOMAIN arr,
                      arr[i].price = arr[j].price, i # j
               PROVE  FALSE
    OBVIOUS
  <2>1. i < j \/ j < i
    BY <1>1
  <2>2. arr[i].price \in Int
    BY <1>1, LevelFields
  <2>3. ~ Before(side, arr[i].price, arr[i].price)
    BY <2>2, PricesInOrder
  <2>4. QED
    BY <2>1, <2>3 DEF Sorted
<1>3. \A i \in DOMAIN arr : SizeAt(arr, arr[i].price) = arr[i].size
  <2> TAKE i \in DOMAIN arr
  <2>1. \A j \in DOMAIN arr : arr[j].price = arr[i].price => j <= i
    BY <1>1, <1>2
  <2>2. QED
    BY <1>1, <2>1, SizeIsLast
<1>4. QED
  BY <1>2, <1>3

\* Slices with the same levels of a price have the same size there.
LEMMA SameSizes ==
  ASSUME NEW side, NEW a, NEW b, Sorted(side, a), Sorted(side, b), NEW p,
         \A k \in DOMAIN a : a[k].price = p => \E j \in DOMAIN b : b[j] = a[k],
         \A j \in DOMAIN b : b[j].price = p => \E k \in DOMAIN a : a[k] = b[j]
  PROVE  SizeAt(a, p) = SizeAt(b, p)
<1>1. a \in Seq(Level) /\ b \in Seq(Level)
  BY DEF Sorted
<1>2. CASE \E k \in DOMAIN a : a[k].price = p
  <2>1. PICK k \in DOMAIN a : a[k].price = p
    BY <1>2
  <2>2. PICK j \in DOMAIN b : b[j] = a[k]
    BY <2>1
  <2>3. SizeAt(a, p) = a[k].size /\ SizeAt(b, p) = b[j].size
    BY <2>1, <2>2, SortedSizes
  <2>4. QED
    BY <2>2, <2>3
<1>3. CASE \A k \in DOMAIN a : a[k].price # p
  <2>1. \A j \in DOMAIN b : b[j].price # p
    BY <1>3
  <2>2. QED
    BY <1>1, <1>3, <2>1, SizeIsZero
<1>4. QED
  BY <1>2, <1>3

-------------------------------------------------------------------------------
(* One row.                                                                *)

\* sort.Search finds where a price is or belongs.
LEMMA SearchFinds ==
  ASSUME NEW side, NEW arr \in Seq(Level), NEW p
  PROVE  LET i == SearchIndex(side, arr, p)
         IN  /\ i \in 1 .. Len(arr) + 1
             /\ i <= Len(arr) => ~ Before(side, arr[i].price, p)
             /\ \A j \in 1 .. i - 1 : Before(side, arr[j].price, p)
<1> DEFINE S == {i \in 1 .. Len(arr) + 1 : i <= Len(arr) => ~ Before(side, arr[i].price, p)}
<1>1. S \in SUBSET Nat /\ Len(arr) + 1 \in S
  OBVIOUS
<1>2. PICK m \in S : \A n \in S : m <= n
  <2> HIDE DEF S
  <2>1. QED
    BY <1>1, LeastExists
<1>3. \A j \in 1 .. m - 1 : Before(side, arr[j].price, p)
  <2> TAKE j \in 1 .. m - 1
  <2>1. j \notin S
    BY <1>2
  <2>2. j \in 1 .. Len(arr) + 1
    BY <1>2
  <2>3. QED
    BY <2>1, <2>2
<1>4. \E i \in 1 .. Len(arr) + 1 :
          /\ i <= Len(arr) => ~ Before(side, arr[i].price, p)
          /\ \A j \in 1 .. i - 1 : Before(side, arr[j].price, p)
  BY <1>2, <1>3
<1>5. QED
  BY <1>4, Zenon DEF SearchIndex

\* A row replaces, removes or inserts its own level and no other.
LEMMA RowIsApplied ==
  ASSUME NEW side, NEW arr, Sorted(side, arr), NEW lvl \in Level
  PROVE  /\ Sorted(side, ApplyLevel(side, arr, lvl))
         /\ \A p \in Price : SizeAt(ApplyLevel(side, arr, lvl), p)
                                 = IF p = lvl.price THEN lvl.size ELSE SizeAt(arr, p)
<1> DEFINE i == SearchIndex(side, arr, lvl.price)
           found == i <= Len(arr) /\ arr[i].price = lvl.price
           res == ApplyLevel(side, arr, lvl)
<1>1. /\ arr \in Seq(Level) /\ Len(arr) \in Nat /\ DOMAIN arr = 1 .. Len(arr)
      /\ \A j \in 1 .. Len(arr) : arr[j] \in Level /\ arr[j].price \in Int /\ arr[j].size # 0
      /\ \A j, k \in 1 .. Len(arr) : j < k => Before(side, arr[j].price, arr[k].price)
  <2>1. arr \in Seq(Level)
    BY DEF Sorted
  <2>2. QED
    BY <2>1, LevelFields DEF Sorted
<1>2. /\ i \in 1 .. Len(arr) + 1
      /\ i <= Len(arr) => ~ Before(side, arr[i].price, lvl.price)
      /\ \A j \in 1 .. i - 1 : Before(side, arr[j].price, lvl.price)
  BY <1>1, SearchFinds
<1>3. lvl.price \in Int
  BY LevelFields
<1>4. res = CASE found /\ lvl.size = 0  -> RemoveAt(arr, i)
              [] found /\ lvl.size # 0  -> [arr EXCEPT ![i].size = lvl.size]
              [] ~found /\ lvl.size # 0 -> InsertAt(arr, i, lvl)
              [] OTHER -> arr
  BY DEF ApplyLevel
<1> HIDE DEF i, res
<1>5. \A j \in 1 .. Len(arr) : i <= j => \/ j = i /\ found
                                         \/ Before(side, lvl.price, arr[j].price)
  <2> TAKE j \in 1 .. Len(arr)
  <2> HAVE i <= j
  <2>1. i \in 1 .. Len(arr) /\ ~ Before(side, arr[i].price, lvl.price) /\ arr[i].price \in Int
    BY <1>1, <1>2
  <2>2. arr[i].price = lvl.price \/ Before(side, lvl.price, arr[i].price)
    BY <2>1, <1>3, PricesInOrder
  <2>3. CASE j = i
    BY <2>1, <2>2, <2>3
  <2>4. CASE i < j
    <3>1. Before(side, arr[i].price, arr[j].price) /\ arr[j].price \in Int
      BY <2>1, <2>4, <1>1
    <3>2. Before(side, lvl.price, arr[j].price)
      BY <2>1, <2>2, <3>1, <1>3, PricesInOrder
    <3>3. QED
      BY <3>2
  <2>5. QED
    BY <2>1, <2>3, <2>4
<1>6. \A j \in 1 .. Len(arr) : arr[j].price = lvl.price => j = i /\ found
  <2> SUFFICES ASSUME NEW j \in 1 .. Len(arr), arr[j].price = lvl.price PROVE j = i /\ found
    OBVIOUS
  <2>1. ~ Before(side, arr[j].price, lvl.price) /\ ~ Before(side, lvl.price, arr[j].price)
    BY <1>3, PricesInOrder
  <2>2. i <= j
    BY <2>1, <1>2
  <2>3. QED
    BY <2>1, <2>2, <1>5
<1>7. CASE found /\ lvl.size = 0
  <2>1. res = RemoveAt(arr, i) /\ i \in 1 .. Len(arr)
    <3>1. res = RemoveAt(arr, i)
      BY <1>4, <1>7, Zenon
    <3>2. QED
      BY <3>1, <1>1, <1>2, <1>7
  <2>2. /\ res \in Seq(Level) /\ Len(res) = Len(arr) - 1 /\ DOMAIN res = 1 .. Len(arr) - 1
        /\ \A j \in 1 .. Len(arr) - 1 : res[j] = IF j < i THEN arr[j] ELSE arr[j + 1]
    <3>1. /\ res \in Seq(Level) /\ Len(res) = Len(arr) - 1
          /\ \A j \in 1 .. Len(arr) - 1 : res[j] = IF j < i THEN arr[j] ELSE arr[j + 1]
      BY <2>1, <1>1, RemovedLevel, Zenon
    <3>2. QED
      BY <3>1
  <2>3. \A j \in 1 .. Len(arr) - 1 : \E k \in 1 .. Len(arr) : k # i /\ res[j] = arr[k]
    <3> TAKE j \in 1 .. Len(arr) - 1
    <3>1. j \in 1 .. Len(arr) /\ j + 1 \in 1 .. Len(arr)
      BY <1>1
    <3>2. QED
      BY <2>1, <2>2, <3>1
  <2>4. \A k \in 1 .. Len(arr) : k # i => \E j \in 1 .. Len(arr) - 1 : res[j] = arr[k]
    <3> SUFFICES ASSUME NEW k \in 1 .. Len(arr), k # i
                 PROVE  \E j \in 1 .. Len(arr) - 1 : res[j] = arr[k]
      OBVIOUS
    <3>1. CASE k < i
      <4>1. k \in 1 .. Len(arr) - 1
        BY <2>1, <3>1, <1>1
      <4>2. QED
        BY <2>2, <3>1, <4>1
    <3>2. CASE i < k
      <4>1. k - 1 \in 1 .. Len(arr) - 1 /\ ~ (k - 1 < i) /\ (k - 1) + 1 = k
        BY <2>1, <3>2, <1>1
      <4>2. res[k - 1] = arr[k]
        BY <2>2, <4>1
      <4>3. QED
        BY <4>1, <4>2
    <3>3. QED
      BY <2>1, <3>1, <3>2
  <2>5. Sorted(side, res)
    <3>1. \A j \in DOMAIN res : res[j].size # 0
      BY <2>2, <2>3, <1>1
    <3>2. \A j, k \in DOMAIN res : j < k => Before(side, res[j].price, res[k].price)
      <4> SUFFICES ASSUME NEW j \in 1 .. Len(arr) - 1, NEW k \in 1 .. Len(arr) - 1, j < k
                   PROVE  Before(side, res[j].price, res[k].price)
        BY <2>2
      <4> DEFINE up(n) == IF n < i THEN n ELSE n + 1
      <4>1. up(j) \in 1 .. Len(arr) /\ up(k) \in 1 .. Len(arr) /\ up(j) < up(k)
        BY <2>1, <1>1
      <4>2. res[j] = arr[up(j)] /\ res[k] = arr[up(k)]
        BY <2>2
      <4> HIDE DEF up
      <4>3. QED
        BY <4>1, <4>2, <1>1
    <3>3. QED
      BY <2>2, <3>1, <3>2 DEF Sorted
  <2>6. SizeAt(res, lvl.price) = 0
    <3>1. \A j \in DOMAIN res : res[j].price # lvl.price
      BY <2>2, <2>3, <1>6
    <3>2. QED
      BY <2>2, <3>1, SizeIsZero
  <2>7. \A p \in Price : p # lvl.price => SizeAt(res, p) = SizeAt(arr, p)
    <3> SUFFICES ASSUME NEW p \in Price, p # lvl.price PROVE SizeAt(res, p) = SizeAt(arr, p)
      OBVIOUS
    <3>1. \A k \in DOMAIN arr : arr[k].price = p => \E j \in DOMAIN res : res[j] = arr[k]
      BY <2>2, <2>4, <1>1, <1>7
    <3>2. \A j \in DOMAIN res : \E k \in DOMAIN arr : arr[k] = res[j]
      BY <2>2, <2>3, <1>1
    <3>3. QED
      BY <2>5, <3>1, <3>2, SameSizes
  <2>8. QED
    BY <2>5, <2>6, <2>7, <1>7 DEF res
<1>8. CASE found /\ lvl.size # 0
  <2>1. res = [arr EXCEPT ![i].size = lvl.size] /\ i \in 1 .. Len(arr)
    <3>1. res = [arr EXCEPT ![i].size = lvl.size]
      BY <1>4, <1>8, Zenon
    <3>2. i \in 1 .. Len(arr)
      BY <1>1, <1>2, <1>8
    <3>3. QED
      BY <3>1, <3>2
  <2>2. /\ res \in Seq(Level) /\ DOMAIN res = 1 .. Len(arr)
        /\ \A j \in 1 .. Len(arr) : j # i => res[j] = arr[j]
        /\ res[i].price = lvl.price /\ res[i].size = lvl.size
    <3>1. [arr[i] EXCEPT !.size = lvl.size] \in Level
      BY <2>1, <1>1, LevelFields DEF Level
    <3>2. res = [arr EXCEPT ![i] = [arr[i] EXCEPT !.size = lvl.size]]
      BY <2>1
    <3>3. arr[i] \in [price : Price, size : Size]
      BY <2>1, <1>1 DEF Level
    <3>4. QED
      BY <2>1, <3>1, <3>2, <3>3, <1>1, <1>8
  <2>3. \A j \in 1 .. Len(arr) : res[j].price = arr[j].price
    BY <2>2, <1>8
  <2>4. Sorted(side, res)
    BY <2>2, <2>3, <1>1, <1>8 DEF Sorted
  <2>5. SizeAt(res, lvl.price) = lvl.size
    BY <2>1, <2>2, <2>4, SortedSizes
  <2>6. \A p \in Price : p # lvl.price => SizeAt(res, p) = SizeAt(arr, p)
    <3> SUFFICES ASSUME NEW p \in Price, p # lvl.price PROVE SizeAt(res, p) = SizeAt(arr, p)
      OBVIOUS
    <3>1. \A k \in DOMAIN arr : arr[k].price = p => k # i
      BY <1>8
    <3>2. \A k \in DOMAIN res : res[k].price = p => k # i
      BY <2>2
    <3>3. QED
      BY <2>2, <2>4, <3>1, <3>2, <1>1, SameSizes
  <2>7. QED
    BY <2>4, <2>5, <2>6 DEF res
<1>9. CASE ~found /\ lvl.size # 0
  <2>1. res = InsertAt(arr, i, lvl)
    BY <1>4, <1>9, Zenon
  <2>2. /\ res \in Seq(Level) /\ Len(res) = Len(arr) + 1 /\ DOMAIN res = 1 .. Len(arr) + 1
        /\ \A j \in 1 .. Len(arr) + 1 : res[j] = IF j < i THEN arr[j]
                                                 ELSE IF j = i THEN lvl ELSE arr[j - 1]
    <3> DEFINE ins == InsertAt(arr, i, lvl)
    <3>1. arr \in Seq(Level) /\ i \in 1 .. Len(arr) + 1
      BY <1>1, <1>2
    <3>2. /\ ins \in Seq(Level) /\ Len(ins) = Len(arr) + 1
          /\ \A j \in 1 .. Len(arr) + 1 : ins[j] = IF j < i THEN arr[j]
                                                   ELSE IF j = i THEN lvl ELSE arr[j - 1]
      BY <3>1, InsertedLevel
    <3>3. ins = res
      BY <2>1
    <3> HIDE DEF ins
    <3>4. QED
      BY <3>2, <3>3
  <2>3. i \in DOMAIN res /\ res[i] = lvl
    BY <2>2, <1>2
  <2>4. \A j \in 1 .. Len(arr) + 1 : j # i => \E k \in 1 .. Len(arr) : res[j] = arr[k]
    <3> SUFFICES ASSUME NEW j \in 1 .. Len(arr) + 1, j # i
                 PROVE  \E k \in 1 .. Len(arr) : res[j] = arr[k]
      OBVIOUS
    <3>1. CASE j < i
      BY <3>1, <2>2, <1>1, <1>2
    <3>2. CASE i < j
      <4>1. j - 1 \in 1 .. Len(arr) /\ res[j] = arr[j - 1]
        BY <3>2, <2>2, <1>1, <1>2
      <4>2. QED
        BY <4>1
    <3>3. QED
      BY <3>1, <3>2, <1>2
  <2>5. \A k \in 1 .. Len(arr) : \E j \in 1 .. Len(arr) + 1 : j # i /\ res[j] = arr[k]
    <3> TAKE k \in 1 .. Len(arr)
    <3>1. CASE k < i
      <4>1. k \in 1 .. Len(arr) + 1
        BY <1>1
      <4>2. QED
        BY <3>1, <4>1, <2>2
    <3>2. CASE i <= k
      <4>1. k + 1 \in 1 .. Len(arr) + 1 /\ ~ (k + 1 < i) /\ k + 1 # i /\ (k + 1) - 1 = k
        BY <3>2, <1>1, <1>2
      <4>2. QED
        BY <4>1, <2>2
    <3>3. QED
      BY <3>1, <3>2, <1>2
  <2>6. Sorted(side, res)
    <3>1. \A j \in DOMAIN res : res[j].size # 0
      BY <2>2, <2>3, <2>4, <1>1, <1>9
    <3>2. \A j, k \in DOMAIN res : j < k => Before(side, res[j].price, res[k].price)
      <4> SUFFICES ASSUME NEW j \in 1 .. Len(arr) + 1, NEW k \in 1 .. Len(arr) + 1, j < k
                   PROVE  Before(side, res[j].price, res[k].price)
        BY <2>2
      <4>1. CASE k < i
        BY <4>1, <2>2, <1>1, <1>2
      <4>2. CASE k = i
        <5>1. res[j] = arr[j] /\ j \in 1 .. i - 1 /\ res[k] = lvl
          BY <4>2, <2>2, <1>2
        <5>2. QED
          BY <5>1, <1>2
      <4>3. CASE j < i /\ i < k
        <5>1. /\ res[j] = arr[j] /\ res[k] = arr[k - 1]
              /\ j \in 1 .. Len(arr) /\ k - 1 \in 1 .. Len(arr) /\ j < k - 1
          BY <4>3, <2>2, <1>1, <1>2
        <5>2. QED
          BY <5>1, <1>1
      <4>4. CASE j = i
        <5>1. res[j] = lvl /\ res[k] = arr[k - 1] /\ k - 1 \in 1 .. Len(arr) /\ i <= k - 1
          BY <4>4, <2>2, <1>1, <1>2
        <5>2. QED
          BY <5>1, <1>5, <1>9
      <4>5. CASE i < j
        <5>1. /\ res[j] = arr[j - 1] /\ res[k] = arr[k - 1]
              /\ j - 1 \in 1 .. Len(arr) /\ k - 1 \in 1 .. Len(arr) /\ j - 1 < k - 1
          BY <4>5, <2>2, <1>1, <1>2
        <5>2. QED
          BY <5>1, <1>1
      <4>6. i \in Int
        BY <1>2
      <4>7. QED
        BY <4>1, <4>2, <4>3, <4>4, <4>5, <4>6
    <3>3. QED
      BY <2>2, <3>1, <3>2 DEF Sorted
  <2>7. SizeAt(res, lvl.price) = lvl.size
    BY <2>3, <2>6, SortedSizes
  <2>8. \A p \in Price : p # lvl.price => SizeAt(res, p) = SizeAt(arr, p)
    <3> SUFFICES ASSUME NEW p \in Price, p # lvl.price PROVE SizeAt(res, p) = SizeAt(arr, p)
      OBVIOUS
    <3>1. \A k \in DOMAIN arr : \E j \in DOMAIN res : res[j] = arr[k]
      BY <2>2, <2>5, <1>1
    <3>2. \A j \in DOMAIN res : res[j].price = p => \E k \in DOMAIN arr : arr[k] = res[j]
      BY <2>2, <2>3, <2>4, <1>1
    <3>3. QED
      BY <2>6, <3>1, <3>2, SameSizes
  <2>9. QED
    BY <2>6, <2>7, <2>8 DEF res
<1>10. CASE ~found /\ lvl.size = 0
  <2>1. res = arr
    BY <1>4, <1>10, Zenon
  <2>2. SizeAt(arr, lvl.price) = 0
    <3>1. \A j \in DOMAIN arr : arr[j].price # lvl.price
      BY <1>1, <1>6, <1>10
    <3>2. QED
      BY <1>1, <3>1, SizeIsZero
  <2>3. QED
    BY <2>1, <2>2, <1>10 DEF res
<1>11. QED
  BY <1>7, <1>8, <1>9, <1>10

-------------------------------------------------------------------------------
(* The rows of a delta.                                                    *)

\* The levels after each row, if f has those after the row before.
AfterRows(side, arr, rows, f) ==
    [n \in 0 .. Len(rows) |-> IF n = 0 THEN arr ELSE ApplyLevel(side, f[n - 1], rows[n])]

\* The function that ApplyLevels defines by recursion exists.
LEMMA AfterIsDefined ==
  ASSUME NEW side, NEW arr, NEW rows \in Seq(Level)
  PROVE  \E f : f = AfterRows(side, arr, rows, f)
<1> DEFINE Upto(m, g) == g = [n \in 0 .. m |->
                                 IF n = 0 THEN arr ELSE ApplyLevel(side, g[n - 1], rows[n])]
           Bad == {m \in 0 .. Len(rows) : ~ \E g : Upto(m, g)}
<1>1. Len(rows) \in Nat
  OBVIOUS
<1>2. SUFFICES ASSUME Bad # {} PROVE FALSE
  <2>1. Len(rows) \in 0 .. Len(rows) /\ Len(rows) \notin Bad => \E f : Upto(Len(rows), f)
    OBVIOUS
  <2>3. \A f : Upto(Len(rows), f) <=> f = AfterRows(side, arr, rows, f)
    BY DEF AfterRows
  <2> HIDE DEF Upto, Bad
  <2>4. QED
    BY <1>1, <2>1, <2>3
<1>3. PICK m \in Bad : \A n \in Bad : m <= n
  <2>1. Bad \in SUBSET Nat
    BY <1>1
  <2> HIDE DEF Bad
  <2>2. QED
    BY <1>2, <2>1, LeastExists
<1>4. m \in 0 .. Len(rows) /\ ~ \E g : Upto(m, g)
  OBVIOUS
<1>5. CASE m = 0
  <2> DEFINE g == [n \in 0 .. 0 |-> arr]
  <2>1. Upto(0, g)
    OBVIOUS
  <2>2. QED
    BY <1>4, <1>5, <2>1
<1>6. CASE m # 0
  <2>1. m - 1 \in 0 .. Len(rows) /\ m - 1 \notin Bad /\ m \in Nat \ {0}
    <3> HIDE DEF Bad
    <3>1. m - 1 \in 0 .. Len(rows) /\ m \in Nat \ {0} /\ ~ (m <= m - 1)
      BY <1>1, <1>4, <1>6
    <3>2. QED
      BY <3>1, <1>3
  <2>2. PICK f : Upto(m - 1, f)
    BY <2>1
  <2> DEFINE g == [n \in 0 .. m |-> IF n = m THEN ApplyLevel(side, f[m - 1], rows[m]) ELSE f[n]]
  <2>3. \A n \in 0 .. m : g[n] = IF n = 0 THEN arr ELSE ApplyLevel(side, g[n - 1], rows[n])
    <3> TAKE n \in 0 .. m
    <3>1. CASE n = m
      <4>1. m - 1 \in 0 .. m /\ m - 1 # m
        BY <2>1
      <4>2. g[m - 1] = f[m - 1] /\ g[m] = ApplyLevel(side, f[m - 1], rows[m])
        BY <2>1, <4>1
      <4>3. QED
        BY <3>1, <4>2, <2>1
    <3>2. CASE n # m
      <4>1. n \in 0 .. m - 1 /\ (n # 0 => n - 1 \in 0 .. m - 1 /\ n - 1 \in 0 .. m /\ n - 1 # m)
        BY <3>2, <2>1
      <4>2. f[n] = IF n = 0 THEN arr ELSE ApplyLevel(side, f[n - 1], rows[n])
        BY <2>2, <4>1
      <4>3. g[n] = f[n] /\ (n # 0 => g[n - 1] = f[n - 1])
        BY <3>2, <4>1
      <4>4. QED
        BY <4>2, <4>3
    <3>3. QED
      BY <3>1, <3>2
  <2>4. Upto(m, g)
    <3>1. g = [n \in 0 .. m |-> g[n]]
      OBVIOUS
    <3> HIDE DEF g
    <3>2. QED
      BY <2>3, <3>1
  <2>5. QED
    BY <1>4, <2>4
<1>7. QED
  BY <1>5, <1>6

\* The rows override the sizes of their levels, the last one for a price counting.
LEMMA RowsAreApplied ==
  ASSUME NEW side, NEW arr, Sorted(side, arr), NEW rows \in Seq(Level)
  PROVE  /\ Sorted(side, ApplyLevels(side, arr, rows))
         /\ \A p \in Price :
               SizeAt(ApplyLevels(side, arr, rows), p)
                   = IF \E i \in DOMAIN rows : rows[i].price = p
                     THEN SizeAt(rows, p) ELSE SizeAt(arr, p)
<1> DEFINE after == CHOOSE f : f = AfterRows(side, arr, rows, f)
           Sized(n, p) == \/ \E i \in 1 .. n : /\ rows[i].price = p
                                               /\ \A j \in i + 1 .. n : rows[j].price # p
                                               /\ SizeAt(after[n], p) = rows[i].size
                          \/ /\ \A i \in 1 .. n : rows[i].price # p
                             /\ SizeAt(after[n], p) = SizeAt(arr, p)
           Good(n) == Sorted(side, after[n]) /\ \A p \in Price : Sized(n, p)
           Bad == {n \in 0 .. Len(rows) : ~ Good(n)}
<1>1. after = AfterRows(side, arr, rows, after)
  BY AfterIsDefined, Zenon
<1>2. ApplyLevels(side, arr, rows) = after[Len(rows)]
  BY DEF ApplyLevels, AfterRows
<1>3. Len(rows) \in Nat
  OBVIOUS
<1>4. /\ after[0] = arr
      /\ \A n \in 1 .. Len(rows) : after[n] = ApplyLevel(side, after[n - 1], rows[n])
  <2> HIDE DEF after
  <2>1. QED
    BY <1>1, <1>3 DEF AfterRows
<1> HIDE DEF after
<1>5. Good(0)
  BY <1>4
<1>6. ASSUME NEW n \in 1 .. Len(rows), Good(n - 1)
      PROVE  Good(n)
  <2>1. rows[n] \in Level /\ after[n] = ApplyLevel(side, after[n - 1], rows[n])
    BY <1>3, <1>4
  <2>2. /\ Sorted(side, after[n])
        /\ \A p \in Price : SizeAt(after[n], p)
                               = IF p = rows[n].price THEN rows[n].size ELSE SizeAt(after[n - 1], p)
    BY <2>1, <1>6, RowIsApplied
  <2>3. ASSUME NEW p \in Price PROVE Sized(n, p)
    <3>1. n \in 1 .. n /\ (\A j \in n + 1 .. n : FALSE) /\ n \in Nat
      BY <1>3
    <3>2. CASE p = rows[n].price
      BY <2>2, <3>1, <3>2
    <3>3. CASE p # rows[n].price
      <4>1. SizeAt(after[n], p) = SizeAt(after[n - 1], p)
        BY <2>2, <3>3
      <4>2. \A i \in 1 .. n : i \in 1 .. n - 1 \/ i = n
        BY <3>1
      <4>3. CASE \E i \in 1 .. n - 1 : /\ rows[i].price = p
                                       /\ \A j \in i + 1 .. n - 1 : rows[j].price # p
                                       /\ SizeAt(after[n - 1], p) = rows[i].size
        <5>1. PICK i \in 1 .. n - 1 : /\ rows[i].price = p
                                      /\ \A j \in i + 1 .. n - 1 : rows[j].price # p
                                      /\ SizeAt(after[n - 1], p) = rows[i].size
          BY <4>3
        <5>2. i \in 1 .. n /\ \A j \in i + 1 .. n : j = n \/ j \in i + 1 .. n - 1
          BY <3>1
        <5>3. \A j \in i + 1 .. n : rows[j].price # p
          BY <5>1, <5>2, <3>3
        <5>4. QED
          BY <4>1, <5>1, <5>2, <5>3
      <4>4. CASE /\ \A i \in 1 .. n - 1 : rows[i].price # p
                 /\ SizeAt(after[n - 1], p) = SizeAt(arr, p)
        BY <3>3, <4>1, <4>2, <4>4
      <4>5. QED
        BY <4>3, <4>4, <1>6
    <3>4. QED
      BY <3>2, <3>3
  <2>4. QED
    BY <2>2, <2>3
<1>7. Good(Len(rows))
  <2>1. SUFFICES ASSUME Bad # {} PROVE FALSE
    BY <1>3
  <2>2. PICK m \in Bad : \A n \in Bad : m <= n
    <3>1. Bad \in SUBSET Nat
      BY <1>3
    <3> HIDE DEF Bad
    <3>2. QED
      BY <2>1, <3>1, LeastExists
  <2>3. m \in 0 .. Len(rows) /\ ~ Good(m)
    OBVIOUS
  <2> HIDE DEF Good
  <2>4. m # 0
    BY <2>3, <1>5
  <2>5. m - 1 \in 0 .. Len(rows) /\ m \in 1 .. Len(rows) /\ ~ (m <= m - 1)
    BY <2>3, <2>4, <1>3
  <2>6. Good(m - 1)
    BY <2>2, <2>5
  <2>7. QED
    BY <2>3, <2>5, <2>6, <1>6
<1>8. ASSUME NEW p \in Price
      PROVE  SizeAt(after[Len(rows)], p) = IF \E i \in DOMAIN rows : rows[i].price = p
                                           THEN SizeAt(rows, p) ELSE SizeAt(arr, p)
  <2>1. Sized(Len(rows), p) /\ DOMAIN rows = 1 .. Len(rows)
    BY <1>7
  <2>2. CASE \E i \in 1 .. Len(rows) :
                 /\ rows[i].price = p
                 /\ \A j \in i + 1 .. Len(rows) : rows[j].price # p
                 /\ SizeAt(after[Len(rows)], p) = rows[i].size
    <3>1. PICK i \in 1 .. Len(rows) :
                 /\ rows[i].price = p
                 /\ \A j \in i + 1 .. Len(rows) : rows[j].price # p
                 /\ SizeAt(after[Len(rows)], p) = rows[i].size
      BY <2>2
    <3>2. \A j \in DOMAIN rows : rows[j].price = p => j <= i
      BY <3>1, <1>3
    <3>3. SizeAt(rows, p) = rows[i].size
      BY <2>1, <3>1, <3>2, SizeIsLast
    <3>4. QED
      BY <2>1, <3>1, <3>3
  <2>3. CASE /\ \A i \in 1 .. Len(rows) : rows[i].price # p
             /\ SizeAt(after[Len(rows)], p) = SizeAt(arr, p)
    BY <2>1, <2>3
  <2>4. QED
    BY <2>1, <2>2, <2>3
<1>9. QED
  BY <1>2, <1>7, <1>8

-------------------------------------------------------------------------------
(* What is cut off.                                                        *)

\* The first n levels of a slice, if there are more.
Cut(arr, n) == IF Len(arr) > n THEN SubSeq(arr, 1, n) ELSE arr

\* The levels of a slice that are better than a price.
AheadOf(side, arr, p) ==
    {m \in {side} \X Price : SizeAt(arr, m[2]) # 0 /\ Before(side, m[2], p)}

\* They are those that come first.
LEMMA AheadComesFirst ==
  ASSUME NEW side, NEW arr, Sorted(side, arr), NEW i \in DOMAIN arr
  PROVE  /\ IsFiniteSet(AheadOf(side, arr, arr[i].price))
         /\ Cardinality(AheadOf(side, arr, arr[i].price)) = i - 1
<1> DEFINE T == AheadOf(side, arr, arr[i].price)
           f == [j \in 1 .. i - 1 |-> <<side, arr[j].price>>]
<1>1. /\ arr \in Seq(Level) /\ DOMAIN arr = 1 .. Len(arr) /\ Len(arr) \in Nat /\ i \in Nat
      /\ \A j \in DOMAIN arr : arr[j].price \in Price /\ arr[j].price \in Int
  <2>1. arr \in Seq(Level)
    BY DEF Sorted
  <2>2. QED
    BY <2>1, LevelFields
<1>2. \A j \in 1 .. i - 1 : j \in DOMAIN arr /\ j < i
  BY <1>1
<1>3. \A j \in 1 .. i - 1 : f[j] \in T
  <2> TAKE j \in 1 .. i - 1
  <2>1. SizeAt(arr, arr[j].price) # 0 /\ Before(side, arr[j].price, arr[i].price)
    BY <1>2, SortedSizes DEF Sorted
  <2>2. <<side, arr[j].price>> \in {side} \X Price
    BY <1>1, <1>2
  <2>3. QED
    BY <2>1, <2>2 DEF AheadOf
<1>4. \A j, k \in 1 .. i - 1 : f[j] = f[k] => j = k
  BY <1>2, SortedSizes
<1>5. \A m \in T : \E j \in 1 .. i - 1 : f[j] = m
  <2> TAKE m \in T
  <2>1. /\ m = <<side, m[2]>> /\ m[2] \in Price /\ SizeAt(arr, m[2]) # 0
        /\ Before(side, m[2], arr[i].price)
    BY DEF AheadOf
  <2>2. PICK j \in DOMAIN arr : arr[j].price = m[2]
    BY <1>1, <2>1, SizeIsZero
  <2>3. j # i
    BY <1>1, <2>1, <2>2, PricesInOrder
  <2>4. ~ (i < j)
    <3> SUFFICES ASSUME i < j PROVE FALSE
      OBVIOUS
    <3>1. Before(side, arr[i].price, arr[j].price)
      BY DEF Sorted
    <3>2. QED
      BY <1>1, <2>1, <2>2, <3>1, PricesInOrder
  <2>5. j \in 1 .. i - 1
    BY <1>1, <2>3, <2>4
  <2>6. QED
    BY <2>1, <2>2, <2>5
<1> HIDE DEF T
<1>6. f \in [1 .. i - 1 -> T]
  BY <1>3
<1> HIDE DEF f
<1>7. f \in Bijection(1 .. i - 1, T)
  <2>1. f \in Injection(1 .. i - 1, T)
    BY <1>4, <1>6 DEF Injection, IsInjective
  <2>2. f \in Surjection(1 .. i - 1, T)
    BY <1>5, <1>6 DEF Surjection
  <2>3. QED
    BY <2>1, <2>2 DEF Bijection
<1>8. IsFiniteSet(1 .. i - 1) /\ Cardinality(1 .. i - 1) = i - 1
  <2> DEFINE last == i - 1
  <2>1. 1 \in Int /\ last \in Int /\ last >= 0
    BY <1>1
  <2>2. /\ 1 > last => last = 0
        /\ ~ (1 > last) => last - 1 + 1 = last
    BY <1>1, <2>1
  <2> HIDE DEF last
  <2>3. /\ IsFiniteSet(1 .. last)
        /\ Cardinality(1 .. last) = IF 1 > last THEN 0 ELSE last - 1 + 1
    BY <2>1, FS_Interval, Zenon
  <2>4. IsFiniteSet(1 .. last) /\ Cardinality(1 .. last) = last
    BY <2>2, <2>3, Zenon
  <2>5. QED
    BY <2>4 DEF last
<1>9. ExistsBijection(1 .. i - 1, T)
  BY <1>7 DEF ExistsBijection
<1>10. IsFiniteSet(T) /\ Cardinality(T) = i - 1
  BY <1>8, <1>9, FS_Bijection
<1>11. QED
  BY <1>10 DEF T

\* Cutting a sorted slice keeps the levels with few enough ahead of them.
LEMMA CutIsSorted ==
  ASSUME NEW side, NEW arr, Sorted(side, arr), NEW n \in Nat
  PROVE  /\ Sorted(side, Cut(arr, n)) /\ Len(Cut(arr, n)) <= n
         /\ \A p \in Price : SizeAt(Cut(arr, n), p)
                                = IF Cardinality(AheadOf(side, arr, p)) < n
                                  THEN SizeAt(arr, p) ELSE 0
<1> DEFINE cut == Cut(arr, n)
<1>1. /\ arr \in Seq(Level) /\ DOMAIN arr = 1 .. Len(arr) /\ Len(arr) \in Nat
  BY DEF Sorted
<1>2. \E k \in 0 .. Len(arr) :
          /\ cut \in Seq(Level) /\ Len(cut) = k /\ DOMAIN cut = 1 .. k
          /\ k <= n /\ (k = n \/ k = Len(arr))
          /\ \A i \in 1 .. k : cut[i] = arr[i]
  <2>1. CASE Len(arr) > n
    <3>1. n \in 0 .. Len(arr)
      BY <1>1, <2>1
    <3>2. cut = SubSeq(arr, 1, n)
      BY <2>1 DEF Cut
    <3> HIDE DEF cut
    <3>3. cut \in Seq(Level) /\ Len(cut) = n /\ \A i \in 1 .. n : cut[i] = arr[i]
      BY <1>1, <3>1, <3>2, PrefixOfLevels, Zenon
    <3>4. DOMAIN cut = 1 .. n /\ n <= n
      BY <3>3
    <3>5. QED
      BY <3>1, <3>3, <3>4, Zenon
  <2>2. CASE ~ (Len(arr) > n)
    <3>1. cut = arr /\ Len(arr) <= n /\ Len(arr) \in 0 .. Len(arr)
      BY <1>1, <2>2 DEF Cut
    <3> HIDE DEF cut
    <3>2. QED
      BY <1>1, <3>1, Zenon
  <2>3. QED
    BY <2>1, <2>2, Zenon
<1> HIDE DEF cut
<1>3. PICK k \in 0 .. Len(arr) :
          /\ cut \in Seq(Level) /\ Len(cut) = k /\ DOMAIN cut = 1 .. k
          /\ k <= n /\ (k = n \/ k = Len(arr))
          /\ \A i \in 1 .. k : cut[i] = arr[i]
  BY <1>2, Zenon
<1>4. \A i \in 1 .. k : i \in 1 .. Len(arr)
  BY <1>1
<1>5. Sorted(side, cut)
  <2>1. \A i \in 1 .. k : cut[i].size # 0
    BY <1>1, <1>3, <1>4, Zenon DEF Sorted
  <2>2. \A i, j \in 1 .. k : i < j => Before(side, cut[i].price, cut[j].price)
    BY <1>1, <1>3, <1>4, Zenon DEF Sorted
  <2>3. QED
    BY <1>3, <2>1, <2>2, Zenon DEF Sorted
<1>6. ASSUME NEW p \in Price
      PROVE  SizeAt(cut, p) = IF Cardinality(AheadOf(side, arr, p)) < n THEN SizeAt(arr, p) ELSE 0
  <2>1. CASE \E i \in DOMAIN arr : arr[i].price = p
    <3>1. PICK i \in DOMAIN arr : arr[i].price = p
      BY <2>1
    <3>2. Cardinality(AheadOf(side, arr, p)) = i - 1
      BY <3>1, AheadComesFirst
    <3>3. CASE i \in 1 .. k
      <4>1. cut[i] = arr[i]
        BY <1>3, <3>3, Zenon
      <4>2. SizeAt(cut, p) = SizeAt(arr, p)
        <5>1. i \in DOMAIN cut /\ cut[i].price = p
          BY <1>3, <3>1, <3>3, <4>1, Zenon
        <5>2. SizeAt(arr, p) = arr[i].size
          BY <3>1, SortedSizes, Zenon
        <5>3. SizeAt(cut, p) = cut[i].size
          BY <1>5, <5>1, SortedSizes, Zenon
        <5>4. QED
          BY <4>1, <5>2, <5>3, Zenon
      <4>3. i - 1 < n
        <5>1. k \in Int /\ k <= n
          <6>1. k <= n
            BY <1>3, Zenon
          <6>2. QED
            BY <1>1, <6>1
        <5>2. i \in Int /\ i <= k
          BY <3>3, <5>1
        <5>3. QED
          BY <5>1, <5>2
      <4>4. QED
        BY <3>2, <4>2, <4>3, Zenon
    <3>4. CASE i \notin 1 .. k
      <4>1. ~ (i - 1 < n)
        <5>1. i \in Int /\ 1 <= i /\ i <= Len(arr) /\ k \in Nat /\ Len(arr) \in Nat
          BY <1>1
        <5>2. i > k /\ k = n
          <6>1. k = n \/ k = Len(arr)
            BY <1>3
          <6>2. i > k
            BY <3>4, <5>1
          <6>3. QED
            BY <5>1, <6>1, <6>2
        <5>3. QED
          BY <5>1, <5>2
      <4>2. \A j \in 1 .. k : cut[j].price # p
        <5> TAKE j \in 1 .. k
        <5>1. j # i /\ j \in DOMAIN arr /\ cut[j] = arr[j]
          BY <1>1, <1>3, <1>4, <3>4, Zenon
        <5>2. QED
          BY <3>1, <5>1, SortedSizes, Zenon
      <4>3. SizeAt(cut, p) = 0
        BY <1>3, <4>2, SizeIsZero, Zenon
      <4>4. QED
        BY <3>2, <4>1, <4>3, Zenon
    <3>5. QED
      BY <3>3, <3>4, Zenon
  <2>2. CASE \A i \in DOMAIN arr : arr[i].price # p
    <3>1. \A j \in 1 .. k : cut[j].price # p
      BY <1>1, <1>3, <1>4, <2>2, Zenon
    <3>2. SizeAt(cut, p) = 0 /\ SizeAt(arr, p) = 0
      BY <1>1, <1>3, <2>2, <3>1, SizeIsZero, Zenon
    <3>3. QED
      BY <3>2, Zenon
  <2>3. QED
    BY <2>1, <2>2, Zenon
<1>7. QED
  <2>1. Len(cut) <= n
    BY <1>3, Zenon
  <2>2. QED
    BY <1>5, <1>6, <2>1, Zenon DEF cut

-------------------------------------------------------------------------------
(* The sort of a snapshot.                                                 *)

\* What is sorted, before it is cut.
InOrder(side, rows) ==
    [n \in 1 .. Cardinality(Kept(rows)) |->
        rows[CHOOSE i \in Kept(rows) : Rank(side, rows, i) = n - 1]]

LEMMA RowsInOrder ==
  ASSUME NEW side, NEW rows \in Seq(Level), NEW i \in Kept(rows), NEW j \in Kept(rows)
  PROVE  /\ i = j \/ GoesBefore(side, rows, i, j) \/ GoesBefore(side, rows, j, i)
         /\ ~ GoesBefore(side, rows, i, i)
         /\ \A k \in Kept(rows) : GoesBefore(side, rows, i, j) /\ GoesBefore(side, rows, j, k)
                                      => GoesBefore(side, rows, i, k)
<1>1. \A k \in Kept(rows) : k \in Int /\ rows[k].price \in Int
  BY LevelFields DEF Kept
<1>2. QED
  BY <1>1 DEF GoesBefore, Before

LEMMA KeptIsFinite ==
  ASSUME NEW rows \in Seq(Level)
  PROVE  IsFiniteSet(Kept(rows)) /\ Cardinality(Kept(rows)) \in Nat
<1>1. Kept(rows) \in SUBSET (1 .. Len(rows)) /\ Len(rows) \in Nat
  BY DEF Kept
<1>2. IsFiniteSet(1 .. Len(rows))
  BY <1>1, FS_Interval
<1>3. QED
  BY <1>1, <1>2, FS_Subset, FS_CardinalityType

\* A row has the rank of those before it, and none has as many as there are rows.
LEMMA RankGrows ==
  ASSUME NEW side, NEW rows \in Seq(Level), NEW i \in Kept(rows)
  PROVE  /\ Rank(side, rows, i) \in Nat /\ Rank(side, rows, i) < Cardinality(Kept(rows))
         /\ \A j \in Kept(rows) : GoesBefore(side, rows, i, j)
                                      => Rank(side, rows, i) < Rank(side, rows, j)
<1> DEFINE Goers(k) == {j \in Kept(rows) : GoesBefore(side, rows, j, k)}
<1>1. IsFiniteSet(Kept(rows))
  BY KeptIsFinite
<1>2. \A k \in Kept(rows) : IsFiniteSet(Goers(k)) /\ Cardinality(Goers(k)) \in Nat
  <2> TAKE k \in Kept(rows)
  <2>1. Goers(k) \in SUBSET Kept(rows)
    OBVIOUS
  <2> HIDE DEF Goers
  <2>2. QED
    BY <1>1, <2>1, FS_Subset, FS_CardinalityType
<1>3. \A k \in Kept(rows) : Rank(side, rows, k) = Cardinality(Goers(k))
  BY DEF Rank
<1>4. i \notin Goers(i)
  BY RowsInOrder
<1>5. Goers(i) \union {i} \in SUBSET Kept(rows)
  OBVIOUS
<1>6. \A j \in Kept(rows) : GoesBefore(side, rows, i, j) => Goers(i) \union {i} \in SUBSET Goers(j)
  BY RowsInOrder
<1> HIDE DEF Goers
<1>7. Cardinality(Goers(i) \union {i}) = Cardinality(Goers(i)) + 1
  BY <1>2, <1>4, FS_AddElement
<1>8. \A T : IsFiniteSet(T) /\ Goers(i) \union {i} \in SUBSET T
               => Cardinality(Goers(i)) + 1 <= Cardinality(T)
  <2> TAKE T
  <2> HAVE IsFiniteSet(T) /\ Goers(i) \union {i} \in SUBSET T
  <2>1. Cardinality(Goers(i) \union {i}) <= Cardinality(T)
    BY FS_Subset, Zenon
  <2>2. QED
    BY <1>7, <2>1, Zenon
<1>9. \A m \in Nat : \A n \in Nat : m + 1 <= n => m < n
  OBVIOUS
<1>10. Cardinality(Goers(i)) < Cardinality(Kept(rows))
  BY <1>1, <1>2, <1>5, <1>8, <1>9, KeptIsFinite, Zenon
<1>11. ASSUME NEW j \in Kept(rows), GoesBefore(side, rows, i, j)
       PROVE  Cardinality(Goers(i)) < Cardinality(Goers(j))
  BY <1>2, <1>6, <1>8, <1>9, <1>11, Zenon
<1>12. QED
  BY <1>2, <1>3, <1>10, <1>11, Zenon

\* Every position of the sorted slice has its row.
LEMMA RanksAreFilled ==
  ASSUME NEW side, NEW rows \in Seq(Level)
  PROVE  /\ \A i, j \in Kept(rows) : Rank(side, rows, i) = Rank(side, rows, j) => i = j
         /\ \A n \in 1 .. Cardinality(Kept(rows)) :
               \E i \in Kept(rows) : Rank(side, rows, i) = n - 1
<1> DEFINE K == Kept(rows)
           c == Cardinality(Kept(rows))
           T == 0 .. c - 1
           r == [i \in K |-> Rank(side, rows, i)]
<1>1. IsFiniteSet(K) /\ c \in Nat
  BY KeptIsFinite
<1>2. \A i \in K : Rank(side, rows, i) \in Nat /\ Rank(side, rows, i) < c
  BY RankGrows
<1>3. \A i, j \in K : Rank(side, rows, i) = Rank(side, rows, j) => i = j
  <2> SUFFICES ASSUME NEW i \in K, NEW j \in K, Rank(side, rows, i) = Rank(side, rows, j), i # j
               PROVE  FALSE
    OBVIOUS
  <2>1. GoesBefore(side, rows, i, j) \/ GoesBefore(side, rows, j, i)
    BY RowsInOrder
  <2>2. Rank(side, rows, i) < Rank(side, rows, j) \/ Rank(side, rows, j) < Rank(side, rows, i)
    BY <2>1, RankGrows
  <2>3. QED
    BY <1>2, <2>2
<1> HIDE DEF c
<1>4. IsFiniteSet(T) /\ Cardinality(T) = c
  <2>1. 0 \in Int /\ c - 1 \in Int /\ (0 > c - 1 => c = 0) /\ (~ (0 > c - 1) => (c - 1) - 0 + 1 = c)
    BY <1>1
  <2>2. IsFiniteSet(T) /\ Cardinality(T) = IF 0 > c - 1 THEN 0 ELSE (c - 1) - 0 + 1
    BY <2>1, FS_Interval, Zenon
  <2>3. QED
    BY <2>1, <2>2, Zenon
<1>5. r \in Injection(K, T)
  <2>1. r \in [K -> T]
    BY <1>1, <1>2
  <2>2. \A i, j \in K : r[i] = r[j] => i = j
    BY <1>3
  <2> HIDE DEF r, K, T
  <2>3. QED
    BY <2>1, <2>2 DEF Injection, IsInjective
<1>6. r \in Surjection(K, T)
  <2>1. Cardinality(K) = Cardinality(T)
    BY <1>4 DEF c
  <2> HIDE DEF r, K, T
  <2>2. QED
    BY <1>4, <1>5, <2>1, FS_Injection
<1>7. \A n \in 1 .. c : \E i \in K : Rank(side, rows, i) = n - 1
  <2> TAKE n \in 1 .. c
  <2>1. n - 1 \in T
    BY <1>1
  <2>2. \A t \in T : \E i \in K : r[i] = t
    <3> HIDE DEF r, K, T
    <3>1. QED
      BY <1>6 DEF Surjection
  <2> HIDE DEF T
  <2>3. QED
    BY <2>1, <2>2
<1>8. QED
  BY <1>3, <1>7 DEF c

\* A snapshot with distinct prices is sorted and keeps the sizes of its prices.
LEMMA SortedCopy ==
  ASSUME NEW side, NEW rows \in Seq(Level), DistinctPrices(rows)
  PROVE  /\ Sorted(side, InOrder(side, rows))
         /\ \A p \in Price : SizeAt(InOrder(side, rows), p) = SizeAt(rows, p)
<1> DEFINE K == Kept(rows)
           c == Cardinality(Kept(rows))
           row(n) == CHOOSE i \in Kept(rows) : Rank(side, rows, i) = n - 1
           arr == InOrder(side, rows)
<1>1. c \in Nat /\ (\A i \in K : i \in DOMAIN rows /\ rows[i] \in Level /\ rows[i].size # 0)
  <2>1. c \in Nat
    BY KeptIsFinite
  <2>2. \A i \in K : i \in DOMAIN rows /\ rows[i] \in Level /\ rows[i].size # 0
    BY DEF Kept
  <2>3. QED
    BY <2>1, <2>2, Zenon
<1>2. \A n \in 1 .. c : row(n) \in K /\ Rank(side, rows, row(n)) = n - 1
  BY RanksAreFilled, Zenon
<1>3. DOMAIN arr = 1 .. c /\ \A n \in 1 .. c : arr[n] = rows[row(n)]
  BY DEF InOrder
<1> HIDE DEF row, arr, c
<1>4. arr \in Seq(Level)
  <2>1. arr = [n \in 1 .. c |-> rows[row(n)]]
    BY DEF arr, InOrder, row, c
  <2>2. \A n \in 1 .. c : rows[row(n)] \in Level
    BY <1>1, <1>2, Zenon
  <2>3. QED
    BY <1>1, <2>1, <2>2
<1>5. \A m, n \in 1 .. c : m < n => Before(side, arr[m].price, arr[n].price)
  <2> SUFFICES ASSUME NEW m \in 1 .. c, NEW n \in 1 .. c, m < n
               PROVE  Before(side, arr[m].price, arr[n].price)
    OBVIOUS
  <2>1. /\ row(m) \in K /\ row(n) \in K
        /\ Rank(side, rows, row(m)) = m - 1 /\ Rank(side, rows, row(n)) = n - 1
    BY <1>2, Zenon
  <2>2. m - 1 # n - 1 /\ ~ (n - 1 < m - 1)
    BY <1>1
  <2>3. ~ GoesBefore(side, rows, row(n), row(m)) /\ row(m) # row(n)
    BY <2>1, <2>2, RankGrows, Zenon
  <2>4. GoesBefore(side, rows, row(m), row(n))
    BY <2>1, <2>3, RowsInOrder, Zenon
  <2>5. rows[row(m)].price # rows[row(n)].price
    BY <1>1, <2>1, <2>3, Zenon DEF DistinctPrices
  <2>6. Before(side, rows[row(m)].price, rows[row(n)].price)
    BY <2>4, <2>5, Zenon DEF GoesBefore
  <2>7. QED
    BY <1>3, <2>6, Zenon
<1>6. Sorted(side, arr)
  <2>1. \A n \in 1 .. c : arr[n].size # 0
    BY <1>1, <1>2, <1>3, Zenon
  <2>2. QED
    BY <1>3, <1>4, <1>5, <2>1, Zenon DEF Sorted
<1>7. ASSUME NEW p \in Price
      PROVE  SizeAt(arr, p) = SizeAt(rows, p)
  <2>1. ASSUME NEW i \in DOMAIN rows, rows[i].price = p
        PROVE  SizeAt(rows, p) = rows[i].size
    <3>1. \A j \in DOMAIN rows : rows[j].price = p => j <= i
      <4>1. \A j \in DOMAIN rows : rows[j].price = p => j = i
        BY <2>1, Zenon DEF DistinctPrices
      <4>2. i <= i
        OBVIOUS
      <4>3. QED
        BY <4>1, <4>2, Zenon
    <3>2. QED
      BY <2>1, <3>1, SizeIsLast, Zenon
  <2>2. CASE \E i \in K : rows[i].price = p
    <3>1. PICK i \in K : rows[i].price = p
      BY <2>2
    <3> DEFINE n == Rank(side, rows, i) + 1
    <3>2. n \in 1 .. c /\ n - 1 = Rank(side, rows, i)
      <4>1. Rank(side, rows, i) \in Nat /\ Rank(side, rows, i) < c
        BY RankGrows DEF c
      <4>2. QED
        BY <1>1, <4>1
    <3> HIDE DEF n
    <3>3. row(n) = i
      BY <1>2, <3>2, RanksAreFilled, Zenon
    <3>4. arr[n] = rows[i] /\ n \in DOMAIN arr
      BY <1>3, <3>2, <3>3, Zenon
    <3>5. SizeAt(arr, p) = arr[n].size
      BY <1>6, <3>1, <3>4, SortedSizes, Zenon
    <3>6. SizeAt(rows, p) = rows[i].size
      BY <1>1, <2>1, <3>1, Zenon
    <3>7. QED
      BY <3>4, <3>5, <3>6, Zenon
  <2>3. CASE \A i \in K : rows[i].price # p
    <3>1. SizeAt(arr, p) = 0
      <4>1. \A n \in DOMAIN arr : arr[n].price # p
        BY <1>2, <1>3, <2>3, Zenon
      <4>2. QED
        BY <1>4, <4>1, SizeIsZero, Zenon
    <3>2. SizeAt(rows, p) = 0
      <4>1. CASE \E i \in DOMAIN rows : rows[i].price = p
        <5>1. PICK i \in DOMAIN rows : rows[i].price = p
          BY <4>1
        <5>2. rows[i].size = 0
          BY <2>3, <5>1 DEF Kept
        <5>3. QED
          BY <2>1, <5>1, <5>2, Zenon
      <4>2. CASE \A i \in DOMAIN rows : rows[i].price # p
        BY <4>2, SizeIsZero, Zenon
      <4>3. QED
        BY <4>1, <4>2, Zenon
    <3>3. QED
      BY <3>1, <3>2, Zenon
  <2>4. QED
    BY <2>2, <2>3, Zenon
<1>8. QED
  BY <1>6, <1>7, Zenon DEF arr

-------------------------------------------------------------------------------
(* The slices as a book.                                                   *)

\* The slice of a side.
Slice(b, a, side) == IF side = "bid" THEN b ELSE a

LEMMA BookOfSlices ==
  ASSUME NEW b, NEW a
  PROVE  /\ DOMAIN AsBook(b, a) = BothSides \X Price
         /\ \A s \in BothSides : \A p \in Price : AsBook(b, a)[<<s, p>>] = SizeAt(Slice(b, a, s), p)
         /\ \A k \in BothSides \X Price : AsBook(b, a)[k] = SizeAt(Slice(b, a, k[1]), k[2])
         /\ AsBook(b, a) = [k \in BothSides \X Price |-> AsBook(b, a)[k]]
<1>1. AsBook(b, a) = [k \in BothSides \X Price |-> SizeAt(Slice(b, a, k[1]), k[2])]
  BY DEF AsBook, Slice, BothSides
<1>2. \A s \in BothSides : \A p \in Price :
          <<s, p>> \in BothSides \X Price /\ <<s, p>>[1] = s /\ <<s, p>>[2] = p
  OBVIOUS
<1>3. DOMAIN AsBook(b, a) = BothSides \X Price
  BY <1>1, Zenon
<1>4. \A k \in BothSides \X Price : AsBook(b, a)[k] = SizeAt(Slice(b, a, k[1]), k[2])
  BY <1>1, Zenon
<1>5. \A s \in BothSides : \A p \in Price : AsBook(b, a)[<<s, p>>] = SizeAt(Slice(b, a, s), p)
  <2> TAKE s \in BothSides
  <2> TAKE p \in Price
  <2>1. AsBook(b, a)[<<s, p>>] = SizeAt(Slice(b, a, <<s, p>>[1]), <<s, p>>[2])
    BY <1>2, <1>4, Zenon
  <2>2. QED
    BY <1>2, <2>1, Zenon
<1>6. AsBook(b, a) = [k \in BothSides \X Price |-> AsBook(b, a)[k]]
  BY <1>1, <1>4, Zenon
<1>7. QED
  BY <1>3, <1>4, <1>5, <1>6, Zenon

\* A function on the keys of the book.
OnKeys(f) == f = [k \in BothSides \X Price |-> f[k]]

\* Books are equal when every price of both sides has the same size.
LEMMA SameBook ==
  ASSUME NEW b, NEW a, NEW f, OnKeys(f),
         \A s \in BothSides : \A p \in Price : SizeAt(Slice(b, a, s), p) = f[<<s, p>>]
  PROVE  AsBook(b, a) = f
<1>1. \A k \in BothSides \X Price : AsBook(b, a)[k] = f[k]
  <2> TAKE k \in BothSides \X Price
  <2>1. k = <<k[1], k[2]>> /\ k[1] \in BothSides /\ k[2] \in Price
    OBVIOUS
  <2>2. AsBook(b, a)[k] = SizeAt(Slice(b, a, k[1]), k[2])
    BY BookOfSlices, Zenon
  <2>3. QED
    BY <2>1, <2>2, Zenon
<1>2. AsBook(b, a) = [k \in BothSides \X Price |-> AsBook(b, a)[k]]
  BY BookOfSlices, Zenon
<1>3. QED
  BY <1>1, <1>2, Zenon DEF OnKeys

LEMMA AheadInBook ==
  ASSUME NEW b, NEW a, NEW s \in BothSides, NEW p \in Price
  PROVE  Abstract!Ahead(AsBook(b, a), <<s, p>>) = AheadOf(s, Slice(b, a, s), p)
<1>1. \A m \in BothSides \X Price : AsBook(b, a)[m] = SizeAt(Slice(b, a, m[1]), m[2])
  BY BookOfSlices, Zenon
<1>2. \A m \in BothSides \X Price :
          Abstract!Better(m, <<s, p>>) <=> m[1] = s /\ Before(s, m[2], p)
  BY DEF Abstract!Better, Before
<1>3. Abstract!Ahead(AsBook(b, a), <<s, p>>)
          = {m \in BothSides \X Price : /\ SizeAt(Slice(b, a, m[1]), m[2]) # 0
                                        /\ m[1] = s /\ Before(s, m[2], p)}
  BY <1>1, <1>2 DEF Abstract!Ahead, Abstract!Key
<1>4. \A m : m \in {s} \X Price <=> m \in BothSides \X Price /\ m[1] = s
  OBVIOUS
<1>5. QED
  BY <1>3, <1>4 DEF AheadOf

\* The cardinalities of the two modules are one.
LEMMA SameCardinality ==
  ASSUME NEW S
  PROVE  Abstract!Cardinality(S) = Cardinality(S)
BY DEF Abstract!Cardinality, Abstract!IsFiniteSet, Cardinality, IsFiniteSet

\* Cutting both slices keeps the best levels of the book.
LEMMA CutKeepsBest ==
  ASSUME NEW b, NEW a, Sorted("bid", b), Sorted("ask", a), NEW n \in Nat
  PROVE  AsBook(Cut(b, n), Cut(a, n)) = Abstract!KeepBest(AsBook(b, a), n)
<1> DEFINE best == Abstract!KeepBest(AsBook(b, a), n)
<1>1. OnKeys(best)
  BY DEF OnKeys, Abstract!KeepBest, Abstract!Key
<1>2. ASSUME NEW s \in BothSides, NEW p \in Price
      PROVE  SizeAt(Slice(Cut(b, n), Cut(a, n), s), p) = best[<<s, p>>]
  <2>1. /\ Sorted(s, Slice(b, a, s))
        /\ Slice(Cut(b, n), Cut(a, n), s) = Cut(Slice(b, a, s), n)
    BY DEF BothSides, Slice
  <2>2. <<s, p>> \in BothSides \X Price
    OBVIOUS
  <2>3. best[<<s, p>>] = IF Cardinality(Abstract!Ahead(AsBook(b, a), <<s, p>>)) < n
                         THEN AsBook(b, a)[<<s, p>>] ELSE 0
    BY <2>2, SameCardinality DEF Abstract!KeepBest, Abstract!Key
  <2>4. AsBook(b, a)[<<s, p>>] = SizeAt(Slice(b, a, s), p)
    BY BookOfSlices
  <2>5. Abstract!Ahead(AsBook(b, a), <<s, p>>) = AheadOf(s, Slice(b, a, s), p)
    BY AheadInBook, Zenon
  <2>6. SizeAt(Cut(Slice(b, a, s), n), p)
            = IF Cardinality(AheadOf(s, Slice(b, a, s), p)) < n THEN SizeAt(Slice(b, a, s), p) ELSE 0
    BY <2>1, CutIsSorted, Zenon
  <2> HIDE DEF best
  <2>7. QED
    BY <2>1, <2>3, <2>4, <2>5, <2>6, Zenon
<1> HIDE DEF best
<1>3. AsBook(Cut(b, n), Cut(a, n)) = best
  BY <1>1, <1>2, SameBook
<1>4. QED
  BY <1>3 DEF best

LEMMA CallRowsAreLevels ==
  ASSUME NEW c \in Call
  PROVE  c.bids \in Seq(Level) /\ c.asks \in Seq(Level)
BY OrderBookAssumption

\* The rows of a call override the book.
LEMMA RowsOverride ==
  ASSUME NEW b, NEW a, Sorted("bid", b), Sorted("ask", a), NEW c \in Call
  PROVE  AsBook(ApplyLevels("bid", b, c.bids), ApplyLevels("ask", a, c.asks))
             = Abstract!Override(AsBook(b, a), RowsOf(c))
<1> DEFINE over == Abstract!Override(AsBook(b, a), RowsOf(c))
           rows(s) == Slice(c.bids, c.asks, s)
           D == {<<"bid", c.bids[i].price>> : i \in DOMAIN c.bids}
                  \union {<<"ask", c.asks[i].price>> : i \in DOMAIN c.asks}
<1>1. OnKeys(over)
  BY DEF OnKeys, Abstract!Override, Abstract!Key
<1>2. c.bids \in Seq(Level) /\ c.asks \in Seq(Level)
  BY CallRowsAreLevels
<1>3. DOMAIN RowsOf(c) = D /\ \A k \in D : RowsOf(c)[k] = SizeAt(rows(k[1]), k[2])
  BY DEF RowsOf, Slice
<1>4. ASSUME NEW s \in BothSides, NEW p \in Price
      PROVE  <<s, p>> \in D <=> \E i \in DOMAIN rows(s) : rows(s)[i].price = p
  <2>1. CASE s = "bid"
    BY <2>1 DEF Slice
  <2>2. CASE s = "ask"
    BY <2>2 DEF Slice
  <2>3. QED
    BY <2>1, <2>2 DEF BothSides
<1>5. ASSUME NEW s \in BothSides, NEW p \in Price
      PROVE  SizeAt(Slice(ApplyLevels("bid", b, c.bids), ApplyLevels("ask", a, c.asks), s), p)
                 = over[<<s, p>>]
  <2>1. /\ Sorted(s, Slice(b, a, s)) /\ rows(s) \in Seq(Level)
        /\ Slice(ApplyLevels("bid", b, c.bids), ApplyLevels("ask", a, c.asks), s)
              = ApplyLevels(s, Slice(b, a, s), rows(s))
    BY <1>2 DEF BothSides, Slice
  <2>2. <<s, p>> \in BothSides \X Price /\ <<s, p>>[1] = s /\ <<s, p>>[2] = p
    OBVIOUS
  <2>3. over[<<s, p>>] = IF <<s, p>> \in DOMAIN RowsOf(c)
                         THEN RowsOf(c)[<<s, p>>] ELSE AsBook(b, a)[<<s, p>>]
    BY <2>2 DEF Abstract!Override, Abstract!Key
  <2>4. AsBook(b, a)[<<s, p>>] = SizeAt(Slice(b, a, s), p)
    BY BookOfSlices
  <2> HIDE DEF rows, over, D
  <2>5. SizeAt(ApplyLevels(s, Slice(b, a, s), rows(s)), p)
            = IF \E i \in DOMAIN rows(s) : rows(s)[i].price = p
              THEN SizeAt(rows(s), p) ELSE SizeAt(Slice(b, a, s), p)
    BY <2>1, RowsAreApplied
  <2>6. CASE \E i \in DOMAIN rows(s) : rows(s)[i].price = p
    <3>1. <<s, p>> \in D
      BY <1>4, <2>6, Zenon
    <3>2. RowsOf(c)[<<s, p>>] = SizeAt(rows(s), p)
      BY <1>3, <2>2, <3>1
    <3>3. QED
      BY <1>3, <2>1, <2>3, <2>5, <2>6, <3>1, <3>2, Zenon
  <2>7. CASE ~ \E i \in DOMAIN rows(s) : rows(s)[i].price = p
    <3>1. <<s, p>> \notin D
      BY <1>4, <2>7, Zenon
    <3>2. QED
      BY <1>3, <2>1, <2>3, <2>4, <2>5, <2>7, <3>1, Zenon
  <2>8. QED
    BY <2>6, <2>7, Zenon
<1> HIDE DEF over
<1>6. AsBook(ApplyLevels("bid", b, c.bids), ApplyLevels("ask", a, c.asks)) = over
  BY <1>1, <1>5, SameBook
<1>7. QED
  BY <1>6 DEF over

-------------------------------------------------------------------------------
(* The methods.                                                            *)

LEMMA TrimIsCut ==
  ASSUME NEW side, NEW arr, Sorted(side, arr)
  PROVE  /\ Trim(arr) = Cut(arr, MaxDepth)
         /\ Trim(arr) \in Seq(Level) /\ SortedSide(side, Trim(arr))
<1>1. Trim(arr) = Cut(arr, MaxDepth) /\ MaxDepth \in Nat
  BY OrderBookAssumption DEF Trim, Cut
<1>2. Sorted(side, Cut(arr, MaxDepth)) /\ Len(Cut(arr, MaxDepth)) <= MaxDepth
  BY <1>1, CutIsSorted, Zenon
<1>3. QED
  BY <1>1, <1>2, Zenon DEF Sorted, SortedSide

LEMMA SidesAreSorted ==
  ASSUME TypeOK, SortedSides
  PROVE  Sorted("bid", bids) /\ Sorted("ask", asks)
BY Zenon DEF TypeOK, SortedSides, SortedSide, Sorted

\* The rows of a delta, the cut included.
LEMMA RowsAreMeant ==
  ASSUME TypeOK, SortedSides, NEW c \in Call
  PROVE  /\ ApplyRows("bid", bids, c.bids) \in Seq(Level)
         /\ ApplyRows("ask", asks, c.asks) \in Seq(Level)
         /\ SortedSide("bid", ApplyRows("bid", bids, c.bids))
         /\ SortedSide("ask", ApplyRows("ask", asks, c.asks))
         /\ AsBook(ApplyRows("bid", bids, c.bids), ApplyRows("ask", asks, c.asks))
               = Abstract!KeepBest(Abstract!Override(AsBook(bids, asks), RowsOf(c)), MaxDepth)
<1> DEFINE b == ApplyLevels("bid", bids, c.bids)
           a == ApplyLevels("ask", asks, c.asks)
<1>1. Sorted("bid", bids) /\ Sorted("ask", asks)
  BY SidesAreSorted
<1>2. Sorted("bid", b) /\ Sorted("ask", a)
  <2>1. c.bids \in Seq(Level) /\ c.asks \in Seq(Level)
    BY CallRowsAreLevels
  <2>2. QED
    BY <1>1, <2>1, RowsAreApplied, Zenon
<1>3. AsBook(b, a) = Abstract!Override(AsBook(bids, asks), RowsOf(c))
  BY <1>1, RowsOverride, Zenon
<1>4. /\ ApplyRows("bid", bids, c.bids) = Trim(b)
      /\ ApplyRows("ask", asks, c.asks) = Trim(a)
  BY DEF ApplyRows
<1> HIDE DEF b, a
<1>5. AsBook(Cut(b, MaxDepth), Cut(a, MaxDepth)) = Abstract!KeepBest(AsBook(b, a), MaxDepth)
  <2>1. MaxDepth \in Nat
    BY OrderBookAssumption
  <2>2. QED
    BY <1>2, <2>1, CutKeepsBest, Zenon
<1>6. /\ Trim(b) = Cut(b, MaxDepth) /\ Trim(b) \in Seq(Level) /\ SortedSide("bid", Trim(b))
      /\ Trim(a) = Cut(a, MaxDepth) /\ Trim(a) \in Seq(Level) /\ SortedSide("ask", Trim(a))
  BY <1>2, TrimIsCut, Zenon
<1>7. QED
  BY <1>3, <1>4, <1>5, <1>6, Zenon

\* The rows of a snapshot, sorted and cut.
LEMMA SnapshotIsMeant ==
  ASSUME NEW c \in Call, DistinctPrices(c.bids), DistinctPrices(c.asks)
  PROVE  /\ CopyLevelsSorted("bid", c.bids) \in Seq(Level)
         /\ CopyLevelsSorted("ask", c.asks) \in Seq(Level)
         /\ SortedSide("bid", CopyLevelsSorted("bid", c.bids))
         /\ SortedSide("ask", CopyLevelsSorted("ask", c.asks))
         /\ AsBook(CopyLevelsSorted("bid", c.bids), CopyLevelsSorted("ask", c.asks))
               = Abstract!KeepBest(AsBook(c.bids, c.asks), MaxDepth)
<1> DEFINE b == InOrder("bid", c.bids)
           a == InOrder("ask", c.asks)
<1>1. c.bids \in Seq(Level) /\ c.asks \in Seq(Level)
  BY CallRowsAreLevels
<1>2. /\ Sorted("bid", b) /\ \A p \in Price : SizeAt(b, p) = SizeAt(c.bids, p)
      /\ Sorted("ask", a) /\ \A p \in Price : SizeAt(a, p) = SizeAt(c.asks, p)
  BY <1>1, SortedCopy, Zenon
<1>3. /\ CopyLevelsSorted("bid", c.bids) = Trim(b)
      /\ CopyLevelsSorted("ask", c.asks) = Trim(a)
  BY DEF CopyLevelsSorted, InOrder
<1> HIDE DEF b, a
<1>4. AsBook(b, a) = AsBook(c.bids, c.asks)
  <2> DEFINE f == AsBook(c.bids, c.asks)
  <2>1. OnKeys(f)
    BY BookOfSlices, Zenon DEF OnKeys
  <2>2. \A s \in BothSides : \A p \in Price : SizeAt(Slice(b, a, s), p) = f[<<s, p>>]
    <3> TAKE s \in BothSides
    <3> TAKE p \in Price
    <3>1. f[<<s, p>>] = SizeAt(Slice(c.bids, c.asks, s), p)
      BY BookOfSlices
    <3>2. SizeAt(Slice(b, a, s), p) = SizeAt(Slice(c.bids, c.asks, s), p)
      BY <1>2, Zenon DEF Slice
    <3>3. QED
      BY <3>1, <3>2, Zenon
  <2> HIDE DEF f
  <2>3. AsBook(b, a) = f
    BY <2>1, <2>2, SameBook
  <2>4. QED
    BY <2>3 DEF f
<1>5. AsBook(Cut(b, MaxDepth), Cut(a, MaxDepth)) = Abstract!KeepBest(AsBook(b, a), MaxDepth)
  <2>1. MaxDepth \in Nat
    BY OrderBookAssumption
  <2>2. QED
    BY <1>2, <2>1, CutKeepsBest, Zenon
<1>6. /\ Trim(b) = Cut(b, MaxDepth) /\ Trim(b) \in Seq(Level) /\ SortedSide("bid", Trim(b))
      /\ Trim(a) = Cut(a, MaxDepth) /\ Trim(a) \in Seq(Level) /\ SortedSide("ask", Trim(a))
  BY <1>2, TrimIsCut, Zenon
<1>7. QED
  BY <1>3, <1>4, <1>5, <1>6, Zenon

\* What every method keeps: the types, and the order that the search relies on.
EngineInv == TypeOK /\ SortedSides

LEMMA EngineInvInit == Init => EngineInv
<1> SUFFICES ASSUME Init PROVE EngineInv
  OBVIOUS
<1>1. bids \in Seq(Level) /\ asks \in Seq(Level) /\ DOMAIN bids = {} /\ DOMAIN asks = {}
      /\ Len(bids) = 0 /\ Len(asks) = 0
  BY DEF Init
<1>2. 0 <= MaxDepth
  BY OrderBookAssumption
<1>3. TypeOK
  BY <1>1, Zenon DEF Init, TypeOK
<1>4. SortedSides
  BY <1>1, <1>2, Zenon DEF SortedSides, SortedSide
<1>5. QED
  BY <1>3, <1>4 DEF EngineInv

LEMMA EngineInvNext == EngineInv /\ [Next]_vars => EngineInv'
<1> SUFFICES ASSUME EngineInv, [Next]_vars PROVE EngineInv'
  OBVIOUS
<1>1. TypeOK /\ SortedSides
  BY DEF EngineInv
<1>2. ASSUME NEW u \in UpdateId, NEW c \in Call,
             DistinctPrices(c.bids), DistinctPrices(c.asks), ApplySnapshot(c, u)
      PROVE  EngineInv'
  <2>1. SortedSides'
    BY <1>2, SnapshotIsMeant, Zenon DEF ApplySnapshot, SortedSides, SortedSide
  <2>2. TypeOK'
    BY <1>2, SnapshotIsMeant, Zenon DEF ApplySnapshot, TypeOK
  <2>3. QED
    BY <2>1, <2>2 DEF EngineInv
<1>3. ASSUME NEW u \in UpdateId, NEW c \in Call, ApplyDelta(c, u)
      PROVE  EngineInv'
  <2>1. CASE dirty' = TRUE /\ UNCHANGED <<bids, asks, lastU, primed>>
    BY <1>1, <2>1 DEF EngineInv, TypeOK, SortedSides, SortedSide
  <2>2. CASE /\ bids' = ApplyRows("bid", bids, c.bids)
             /\ asks' = ApplyRows("ask", asks, c.asks)
             /\ lastU' = u
             /\ UNCHANGED <<primed, dirty>>
    <3>1. SortedSides'
      BY <1>1, <1>3, <2>2, RowsAreMeant, Zenon DEF SortedSides, SortedSide
    <3>2. TypeOK'
      <4>1. bids' \in Seq(Level) /\ asks' \in Seq(Level)
        BY <1>1, <1>3, <2>2, RowsAreMeant, Zenon
      <4>2. QED
        BY <1>1, <1>3, <2>2, <4>1 DEF TypeOK
    <3>3. QED
      BY <3>1, <3>2 DEF EngineInv
  <2>3. QED
    BY <1>3, <2>1, <2>2, Zenon DEF ApplyDelta
<1>4. ASSUME NEW u \in UpdateId, MarkResynced(u)
      PROVE  EngineInv'
  BY <1>1, <1>4 DEF MarkResynced, EngineInv, TypeOK, SortedSides, SortedSide
<1>5. CASE UNCHANGED vars
  BY <1>1, <1>5 DEF vars, EngineInv, TypeOK, SortedSides, SortedSide
<1>6. QED
  BY <1>2, <1>3, <1>4, <1>5, Zenon DEF Next

LEMMA EngineInvHolds == Spec => []EngineInv
BY EngineInvInit, EngineInvNext, PTL DEF Spec

-------------------------------------------------------------------------------
(* The theorems.                                                           *)

\* The slices hold levels and nothing else, and "u" is one that a call carried
\* (engine.go:183-280).
THEOREM EngineTypeCorrect == Spec => []TypeOK
<1>1. EngineInv => TypeOK
  BY DEF EngineInv
<1>2. QED
  BY <1>1, EngineInvHolds, PTL

\* Whatever snapshots, deltas and resyncs came, each side is sorted strictly, best
\* price first, holds no empty level and no more levels than it may: sort.Search
\* finds what is there, and TopLevels need not sort (engine.go:284-302, 321-397).
THEOREM SidesStaySorted == Spec => []SortedSides
<1>1. EngineInv => SortedSides
  BY DEF EngineInv
<1>2. QED
  BY <1>1, EngineInvHolds, PTL

\* In every state of the slices the rows of any call would do to them what they
\* mean for the book (engine.go:321-397).
THEOREM RowsAlwaysMeanBooks == Spec => []RowsMeanBooks
<1>1. EngineInv => RowsMeanBooks
  BY RowsAreMeant, SnapshotIsMeant, Zenon DEF EngineInv, RowsMeanBooks
<1>2. QED
  BY <1>1, EngineInvHolds, PTL

\* TopLevels hands out the best levels and no other (engine.go:284-302).
THEOREM TopLevelsAlwaysBest == Spec => []TopLevelsAreBest
<1>1. EngineInv => TopLevelsAreBest
  <2> SUFFICES ASSUME EngineInv, NEW n \in 1 .. MaxDepth + 1
               PROVE  AsBook(TopLevels(bids, n), TopLevels(asks, n))
                          = Abstract!KeepBest(AsBook(bids, asks), n)
    BY DEF TopLevelsAreBest
  <2>1. Sorted("bid", bids) /\ Sorted("ask", asks)
    BY SidesAreSorted, Zenon DEF EngineInv
  <2>2. n \in Nat /\ n > 0
    BY OrderBookAssumption
  <2>3. TopLevels(bids, n) = Cut(bids, n) /\ TopLevels(asks, n) = Cut(asks, n)
    <3>1. \A k \in Nat : n < k <=> k > n
      BY <2>2
    <3>2. Len(bids) \in Nat /\ Len(asks) \in Nat
      BY <2>1 DEF Sorted
    <3>3. QED
      BY <2>2, <3>1, <3>2, Zenon DEF TopLevels, Cut
  <2>4. QED
    BY <2>1, <2>2, <2>3, CutKeepsBest, Zenon
<1>2. QED
  BY <1>1, EngineInvHolds, PTL

\* The three gaps are what ApplyDelta refuses.
LEMMA GapOrNot ==
  ASSUME TypeOK, NEW u
  PROVE  Abstract!Gap(u) = "none" <=> primed /\ u # 1 /\ u = lastU + 1
<1>1. primed \in BOOLEAN
  BY DEF TypeOK
<1>2. CASE ~ primed
  BY <1>2, Zenon DEF Abstract!Gap
<1>3. CASE primed /\ u = 1
  BY <1>3, Zenon DEF Abstract!Gap
<1>4. CASE primed /\ u # 1 /\ u # lastU + 1
  BY <1>4, Zenon DEF Abstract!Gap
<1>5. CASE primed /\ u # 1 /\ u = lastU + 1
  BY <1>5, Zenon DEF Abstract!Gap
<1>6. QED
  BY <1>1, <1>2, <1>3, <1>4, <1>5, Zenon

LEMMA InitIsEngineInit == Init => Abstract!EngineInit
<1> SUFFICES ASSUME Init PROVE Abstract!EngineInit
  OBVIOUS
<1> DEFINE empty == Abstract!EmptyBook
<1>1. bids \in Seq(Level) /\ asks \in Seq(Level) /\ DOMAIN bids = {} /\ DOMAIN asks = {}
  BY DEF Init
<1>2. OnKeys(empty) /\ \A s \in BothSides : \A p \in Price : empty[<<s, p>>] = 0
  BY DEF OnKeys, Abstract!EmptyBook, Abstract!Key
<1>3. ASSUME NEW s \in BothSides, NEW p \in Price
      PROVE  SizeAt(Slice(bids, asks, s), p) = empty[<<s, p>>]
  <2>1. Slice(bids, asks, s) \in Seq(Level) /\ DOMAIN Slice(bids, asks, s) = {}
    BY <1>1 DEF Slice
  <2>2. SizeAt(Slice(bids, asks, s), p) = 0
    BY <2>1, SizeIsZero
  <2> HIDE DEF empty
  <2>3. QED
    BY <1>2, <2>2, Zenon
<1> HIDE DEF empty
<1>4. AsBook(bids, asks) = empty
  BY <1>2, <1>3, SameBook
<1>5. QED
  BY <1>4 DEF Init, Abstract!EngineInit, empty

\* Each method does to the book what BookEngine says.
LEMMA NextIsEngineNext ==
  EngineInv /\ [Next]_vars => [Abstract!EngineNext]_(Abstract!engineVars)
<1> SUFFICES ASSUME EngineInv, [Next]_vars
             PROVE  Abstract!EngineNext \/ UNCHANGED Abstract!engineVars
  OBVIOUS
<1>1. TypeOK /\ SortedSides
  BY DEF EngineInv
<1>2. ASSUME NEW u \in UpdateId, NEW c \in Call,
             DistinctPrices(c.bids), DistinctPrices(c.asks), ApplySnapshot(c, u)
      PROVE  Abstract!EngineNext
  <2>1. AsBook(bids, asks)' = Abstract!KeepBest(AsBook(c.bids, c.asks), MaxDepth)
    BY <1>2, SnapshotIsMeant, Zenon DEF ApplySnapshot
  <2>2. AsBook(c.bids, c.asks) \in CallBooks
    BY DEF CallBooks
  <2>3. Abstract!ApplySnapshot(AsBook(c.bids, c.asks), u)
    BY <1>2, <2>1, Zenon DEF ApplySnapshot, Abstract!ApplySnapshot
  <2>4. QED
    BY <2>2, <2>3, Zenon DEF Abstract!EngineNext
<1>3. ASSUME NEW u \in UpdateId, NEW c \in Call, ApplyDelta(c, u)
      PROVE  Abstract!EngineNext
  <2>1. CASE /\ ~primed \/ u = 1 \/ u # lastU + 1
             /\ dirty' = TRUE
             /\ UNCHANGED <<bids, asks, lastU, primed>>
    <3>1. Abstract!Gap(u) # "none"
      BY <1>1, <2>1, GapOrNot, Zenon
    <3>2. AsBook(bids, asks)' = AsBook(bids, asks)
      BY <2>1
    <3>3. Abstract!RejectDelta(u)
      BY <2>1, <3>1, <3>2 DEF Abstract!RejectDelta
    <3>4. RowsOf(c) \in CallRows
      BY DEF CallRows
    <3>5. QED
      BY <3>3, <3>4, Zenon DEF Abstract!EngineNext, Abstract!ApplyDelta
  <2>2. CASE /\ primed /\ u # 1 /\ u = lastU + 1
             /\ bids' = ApplyRows("bid", bids, c.bids)
             /\ asks' = ApplyRows("ask", asks, c.asks)
             /\ lastU' = u
             /\ UNCHANGED <<primed, dirty>>
    <3>1. Abstract!Gap(u) = "none"
      BY <1>1, <2>2, GapOrNot, Zenon
    <3>2. AsBook(bids, asks)'
              = Abstract!KeepBest(Abstract!Override(AsBook(bids, asks), RowsOf(c)), MaxDepth)
      BY <1>1, <2>2, RowsAreMeant, Zenon
    <3>3. Abstract!AcceptDelta(RowsOf(c), u)
      BY <2>2, <3>1, <3>2, Zenon DEF Abstract!AcceptDelta
    <3>4. RowsOf(c) \in CallRows
      BY DEF CallRows
    <3>5. QED
      BY <3>3, <3>4, Zenon DEF Abstract!EngineNext, Abstract!ApplyDelta
  <2>3. QED
    BY <1>3, <2>1, <2>2, Zenon DEF ApplyDelta
<1>4. ASSUME NEW u \in UpdateId, MarkResynced(u)
      PROVE  Abstract!EngineNext
  <2>1. AsBook(bids, asks)' = AsBook(bids, asks)
    BY <1>4 DEF MarkResynced
  <2>2. Abstract!MarkResynced(u)
    BY <1>4, <2>1 DEF MarkResynced, Abstract!MarkResynced
  <2>3. QED
    BY <2>2, Zenon DEF Abstract!EngineNext
<1>5. CASE UNCHANGED vars
  <2>1. AsBook(bids, asks)' = AsBook(bids, asks)
    BY <1>5 DEF vars
  <2>2. QED
    BY <1>5, <2>1 DEF vars, Abstract!engineVars
<1>6. QED
  BY <1>2, <1>3, <1>4, <1>5, Zenon DEF Next

\* The engine with its sorted slices does what BookEngine promises of the book:
\* ApplySnapshot replaces it, ApplyDelta leaves it alone on a gap and raises the
\* flag, and otherwise overrides the sizes of its levels and keeps the best ones
\* (engine.go:183-280).
THEOREM EngineRefinesBook == Spec => RefinesBookEngine
<1>1. Spec => Abstract!EngineInit /\ [][Abstract!EngineNext]_(Abstract!engineVars)
  BY InitIsEngineInit, NextIsEngineNext, EngineInvHolds, PTL DEF Spec
<1>2. QED
  BY <1>1 DEF RefinesBookEngine, Abstract!EngineSpec

===============================================================================
