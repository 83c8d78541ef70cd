---------------------------- MODULE HeaderProofs ----------------------------
(* Proofs about header synchronization, for every tree of blocks, target    *)
(* window, interval of checkpoints and size of a chunk: the cached          *)
(* checkpoints and totals are those of the chain, and what a session        *)
(* verifies piece by piece, with a bounded window of headers, is what the   *)
(* whole line determines (HeaderInv).                                       *)
(*                                                                          *)
(* The recursive functions of the model are reasoned about as functions     *)
(* that satisfy their equations (Sums, Added, Entries), by induction on     *)
(* sets of numbers (Induct).                                                *)
EXTENDS HeaderSync, WellFoundedInduction, TLAPS

(* A set of numbers that is not empty has a least element. *)
LEMMA Least ==
  ASSUME NEW S \in SUBSET Nat, S # {}
  PROVE  \E n \in S : \A m \in S : n <= m
<1> DEFINE R == OpToRel(<, Nat)
<1>1. IsWellFoundedOn(R, Nat)
  BY NatLessThanWellFounded, Zenon
<1>2. \A m, n \in Nat : m < n => <<m, n>> \in R
  BY Zenon DEF OpToRel
<1> HIDE DEF R
<1>3. PICK n \in S : \A m \in S : ~ (<<m, n>> \in R)
  BY <1>1, WFMin, Zenon
<1>4. \A m \in S : ~ (m < n)
  BY <1>2, <1>3, Zenon
<1>5. QED
  BY <1>4

(* A set of numbers that is bounded and not empty has a greatest element. *)
LEMMA Greatest ==
  ASSUME NEW S \in SUBSET Nat, S # {}, NEW top \in Nat, \A n \in S : n <= top
  PROVE  \E n \in S : \A m \in S : m <= n
<1> DEFINE T == {k \in Nat : \A n \in S : n <= k}
<1>1. T \in SUBSET Nat /\ T # {}
  <2>1. top \in T
    BY Zenon
  <2>2. QED
    BY <2>1, Zenon
<1> HIDE DEF T
<1>2. PICK t \in T : \A u \in T : t <= u
  BY <1>1, Least, Zenon
<1>3. t \in Nat /\ \A n \in S : n <= t
  BY Zenon DEF T
<1>4. t \in S
  <2> SUFFICES ASSUME t \notin S PROVE FALSE
    BY Zenon
  <2>1. PICK n \in S : TRUE
    BY Zenon
  <2>2. n \in Nat /\ n < t
    BY <1>3
  <2>3. t - 1 \in Nat
    BY <1>3, <2>2
  <2>4. \A m \in S : m <= t - 1
    BY <1>3
  <2>5. t - 1 \in T
    BY <2>3, <2>4, Zenon DEF T
  <2>6. QED
    BY <1>2, <1>3, <2>5
<1>5. QED
  BY <1>3, <1>4, Zenon

(* A set that has 0, and with a number below a bound the next one, has every *)
(* number up to the bound.                                                   *)
LEMMA Induct ==
  ASSUME NEW S, 0 \in S, NEW top \in Nat,
         \A n \in Nat : n \in S /\ n < top => n + 1 \in S
  PROVE  \A n \in 0 .. top : n \in S
<1> SUFFICES ASSUME NEW k \in 0 .. top, k \notin S PROVE FALSE
  BY Zenon
<1> DEFINE T == {n \in 0 .. top : n \notin S}
<1>1. T \in SUBSET Nat /\ T # {}
  OBVIOUS
<1> HIDE DEF T
<1>2. PICK t \in T : \A u \in T : t <= u
  BY <1>1, Least, Zenon
<1>3. t \in 0 .. top /\ t \notin S
  BY Zenon DEF T
<1>4. t # 0 /\ t - 1 \in 0 .. top
  BY <1>3
<1>5. t - 1 \in S
  BY <1>2, <1>3, <1>4 DEF T
<1>6. QED
  BY <1>3, <1>4, <1>5

(* The division of heights by the window. *)
LEMMA Quotient ==
  ASSUME NEW m \in Nat, NEW w \in Nat, w > 0
  PROVE  /\ m \div w \in Nat /\ (m \div w) * w <= m /\ m < (m \div w) * w + w
         /\ m = w * (m \div w) + (m % w) /\ m % w \in Nat
<1>1. m \div w \in Nat /\ m % w \in Nat
  OBVIOUS
<1>2. (m \div w) * w <= m
  OBVIOUS
<1>3. m < (m \div w) * w + w
  OBVIOUS
<1>4. m = w * (m \div w) + (m % w)
  OBVIOUS
<1>5. QED
  BY <1>1, <1>2, <1>3, <1>4, Zenon

(* The quotient is the number whose multiples enclose the dividend. *)
LEMMA QuotientIs ==
  ASSUME NEW m \in Nat, NEW w \in Nat, w > 0, NEW q \in Nat, q * w <= m, m < q * w + w
  PROVE  m \div w = q
OBVIOUS

(* Multiples of an interval, one after the other. *)
LEMMA MultipleStep ==
  ASSUME NEW p \in Nat, NEW w \in Nat
  PROVE  (p + 1) * w = p * w + w /\ p * w \in Nat
OBVIOUS

(* Multiples are ordered as their factors. *)
LEMMA MultipleOrder ==
  ASSUME NEW p \in Nat, NEW q \in Nat, NEW w \in Nat, p <= q
  PROVE  p * w <= q * w
OBVIOUS

(* Sequences that agree at every place are equal. *)
LEMMA SamePlaces ==
  ASSUME NEW D, NEW p \in Seq(D), NEW q \in Seq(D), Len(p) = Len(q),
         \A k \in 1 .. Len(p) : p[k] = q[k]
  PROVE  p = q
OBVIOUS

(* The places of the first part of a sequence. *)
LEMMA PrefixPlaces ==
  ASSUME NEW D, NEW q \in Seq(D), NEW n \in 0 .. Len(q)
  PROVE  /\ SubSeq(q, 1, n) \in Seq(D) /\ Len(SubSeq(q, 1, n)) = n
         /\ \A k \in 1 .. n : SubSeq(q, 1, n)[k] = q[k]
OBVIOUS

(* The places of a part of a sequence. *)
LEMMA RangePlaces ==
  ASSUME NEW D, NEW q \in Seq(D), NEW lo \in 1 .. Len(q) + 1, NEW hi \in lo - 1 .. Len(q)
  PROVE  /\ SubSeq(q, lo, hi) \in Seq(D) /\ Len(SubSeq(q, lo, hi)) = hi - lo + 1
         /\ \A k \in 1 .. hi - lo + 1 : SubSeq(q, lo, hi)[k] = q[lo + k - 1]
<1>1. Len(q) \in Nat /\ lo \in Nat /\ hi \in Nat
  OBVIOUS
<1>2. \A k \in lo .. hi : q[k] \in D
  OBVIOUS
<1>3. SubSeq(q, lo, hi) \in Seq(D)
  BY <1>1, <1>2
<1>4. Len(SubSeq(q, lo, hi)) = hi - lo + 1
  BY <1>1
<1>5. \A k \in 1 .. hi - lo + 1 : SubSeq(q, lo, hi)[k] = q[lo + k - 1]
  BY <1>1
<1>6. QED
  BY <1>3, <1>4, <1>5, Zenon

(* The places of two sequences in a row. *)
LEMMA JoinPlaces ==
  ASSUME NEW D, NEW p \in Seq(D), NEW q \in Seq(D)
  PROVE  /\ p \o q \in Seq(D) /\ Len(p \o q) = Len(p) + Len(q)
         /\ \A k \in 1 .. Len(p) : (p \o q)[k] = p[k]
         /\ \A k \in Len(p) + 1 .. Len(p) + Len(q) : (p \o q)[k] = q[k - Len(p)]
OBVIOUS

-----------------------------------------------------------------------------
(* A line starts with genesis and ends with its tip. *)
LEMMA LineShape ==
  ASSUME NEW t \in Block
  PROVE  /\ Line[t] \in Seq(Block) /\ Len(Line[t]) \in Nat \ {0}
         /\ Line[t][1] = Genesis /\ Line[t][Len(Line[t])] = t
<1>1. Line[t] \in Seq(Block) /\ Line[t] # <<>>
  BY BlockTreeAssumption, Zenon
<1>2. Line[t][1] = Genesis /\ Line[t][Len(Line[t])] = t
  BY BlockTreeAssumption, Zenon
<1>3. QED
  BY <1>1, <1>2

(* A block is on its own line, at its height. *)
LEMMA OwnLine ==
  ASSUME NEW t \in Block
  PROVE  /\ HeightOf(t) \in Nat /\ Len(Line[t]) = HeightOf(t) + 1
         /\ Line[t][HeightOf(t) + 1] = t
         /\ HeaderAt(t, HeightOf(t)) = t
BY LineShape DEF HeightOf, HeaderAt

(* Genesis is a block, at height 0. *)
LEMMA GenesisHeight == Genesis \in Block /\ HeightOf(Genesis) = 0
<1>1. Genesis \in Block /\ Line[Genesis] = <<Genesis>>
  BY BlockTreeAssumption, Zenon
<1>2. QED
  BY <1>1 DEF HeightOf

(* The line of a block on a line is the part of that line up to it. *)
LEMMA LinePrefix ==
  ASSUME NEW t \in Block, NEW i \in 1 .. Len(Line[t])
  PROVE  Line[t][i] \in Block /\ Line[Line[t][i]] = SubSeq(Line[t], 1, i)
<1>1. Line[t] \in Seq(Block) /\ Line[Line[t][i]] = SubSeq(Line[t], 1, i)
  BY BlockTreeAssumption, Zenon
<1>2. Line[t][i] \in Block
  BY <1>1
<1>3. QED
  BY <1>1, <1>2, Zenon

-----------------------------------------------------------------------------
(* A running sum over the places 1 .. n of a line. *)
Sums(f, line, value, n) ==
  f = [i \in 1 .. n |-> IF i = 1 THEN 0 ELSE f[i - 1] + value[line[i]]]

(* A running sum starts at 0: genesis counts for nothing. *)
LEMMA SumFirst ==
  ASSUME NEW f, NEW line, NEW value, NEW n \in Nat, Sums(f, line, value, n), n > 0
  PROVE  f[1] = 0
<1>1. 1 \in 1 .. n
  OBVIOUS
<1>2. QED
  BY <1>1, Zenon DEF Sums

(* Every line has its running sums. *)
LEMMA SumsExist ==
  ASSUME NEW line, NEW value, NEW n \in Nat
  PROVE  \E f : Sums(f, line, value, n)
<1> DEFINE S == {k \in Nat : \E f : Sums(f, line, value, k)}
           Rest(x, i) == x + value[line[i]]
<1>1. 0 \in S
  <2> DEFINE f == [i \in 1 .. 0 |-> 0]
  <2>1. f = [i \in 1 .. 0 |-> IF i = 1 THEN 0 ELSE Rest(f[i - 1], i)]
    <3> HIDE DEF Rest
    <3>1. QED
      OBVIOUS
  <2>2. Sums(f, line, value, 0)
    BY <2>1, Zenon DEF Sums
  <2>3. QED
    BY <2>2, Zenon
<1>2. ASSUME NEW k \in Nat, k \in S PROVE k + 1 \in S
  <2>1. PICK f : Sums(f, line, value, k)
    BY <1>2, Zenon
  <2>2. f = [i \in 1 .. k |-> IF i = 1 THEN 0 ELSE Rest(f[i - 1], i)]
    BY <2>1, Zenon DEF Sums
  <2> DEFINE g == [i \in 1 .. k + 1 |->
                     IF i = k + 1 THEN IF k = 0 THEN 0 ELSE Rest(f[k], k + 1) ELSE f[i]]
  <2> HIDE DEF Rest
  <2>3. ASSUME NEW i \in 1 .. k + 1
        PROVE  g[i] = IF i = 1 THEN 0 ELSE Rest(g[i - 1], i)
    <3>1. CASE i = k + 1
      <4>1. i - 1 = k /\ (k # 0 => i # 1 /\ g[i - 1] = f[k]) /\ (k = 0 => i = 1)
        BY <3>1
      <4>2. g[i] = IF k = 0 THEN 0 ELSE Rest(f[k], k + 1)
        BY <3>1, Zenon
      <4>3. QED
        BY <3>1, <4>1, <4>2, Zenon
    <3>2. CASE i # k + 1
      <4>1. i \in 1 .. k /\ g[i] = f[i] /\ (i # 1 => g[i - 1] = f[i - 1])
        BY <3>2
      <4>2. f[i] = IF i = 1 THEN 0 ELSE Rest(f[i - 1], i)
        BY <2>2, <4>1, Zenon
      <4>3. QED
        BY <4>1, <4>2, Zenon
    <3>3. QED
      BY <3>1, <3>2, Zenon
  <2>4. g = [i \in 1 .. k + 1 |-> IF i = 1 THEN 0 ELSE Rest(g[i - 1], i)]
    <3>1. g = [i \in 1 .. k + 1 |-> g[i]]
      BY Zenon
    <3> HIDE DEF g
    <3>2. QED
      BY <2>3, <3>1, Zenon
  <2> HIDE DEF g
  <2>5. Sums(g, line, value, k + 1)
    BY <2>4, Zenon DEF Sums, Rest
  <2>6. QED
    BY <2>5
<1> HIDE DEF S
<1>3. n \in S
  <2>1. \A k \in 0 .. n : k \in S
    BY <1>1, <1>2, Induct, Zenon
  <2>2. QED
    BY <2>1
<1>4. QED
  BY <1>3, Zenon DEF S

(* Along is the last running sum. *)
LEMMA AlongIs ==
  ASSUME NEW line, NEW value, Len(line) \in Nat
  PROVE  \E f : Sums(f, line, value, Len(line)) /\ Along(line, value) = f[Len(line)]
<1> DEFINE f == CHOOSE g : Sums(g, line, value, Len(line))
<1>1. Sums(f, line, value, Len(line))
  BY SumsExist, Zenon
<1>2. Along(line, value) = f[Len(line)]
  BY Zenon DEF Along, Sums
<1>3. QED
  BY <1>1, <1>2, Zenon

(* The sum over a line is that up to its last place but one, and the last. *)
LEMMA AlongStep ==
  ASSUME NEW D, NEW line \in Seq(D), NEW value \in [D -> Nat], Len(line) > 1,
         NEW front \in Seq(D), Len(front) = Len(line) - 1,
         \A i \in 1 .. Len(front) : front[i] = line[i]
  PROVE  Along(line, value) = Along(front, value) + value[line[Len(line)]]
<1> DEFINE n == Len(line)
<1>1. n \in Nat /\ n > 1 /\ Len(front) = n - 1 /\ n - 1 \in Nat
  OBVIOUS
<1>2. PICK f : Sums(f, line, value, n) /\ Along(line, value) = f[n]
  BY <1>1, AlongIs, Zenon
<1>3. PICK g : Sums(g, front, value, n - 1) /\ Along(front, value) = g[n - 1]
  BY <1>1, AlongIs, Zenon
<1>30. \A i \in 1 .. n - 1 : front[i] = line[i]
  BY <1>1, Zenon
<1> HIDE DEF n
<1>31. f[1] = 0 /\ \A i \in 2 .. n : f[i] = f[i - 1] + value[line[i]]
  <2>1. Sums(f, line, value, n) /\ n \in Nat /\ n > 0
    BY <1>1, <1>2
  <2>2. f[1] = 0
    BY <2>1, SumFirst, Zenon
  <2>3. ASSUME NEW i \in 2 .. n PROVE f[i] = f[i - 1] + value[line[i]]
    <3>1. i \in 1 .. n /\ i # 1
      BY <2>1
    <3>2. QED
      BY <2>1, <3>1, Zenon DEF Sums
  <2>4. QED
    BY <2>2, <2>3, Zenon
<1>32. g[1] = 0 /\ \A i \in 2 .. n - 1 : g[i] = g[i - 1] + value[front[i]]
  <2>1. Sums(g, front, value, n - 1) /\ n - 1 \in Nat /\ n - 1 > 0
    BY <1>1, <1>3
  <2>2. g[1] = 0
    BY <2>1, SumFirst, Zenon
  <2>3. ASSUME NEW i \in 2 .. n - 1 PROVE g[i] = g[i - 1] + value[front[i]]
    <3>1. i \in 1 .. n - 1 /\ i # 1
      BY <2>1
    <3>2. QED
      BY <2>1, <3>1, Zenon DEF Sums
  <2>4. QED
    BY <2>2, <2>3, Zenon
<1> DEFINE S == {k \in 0 .. n - 1 : k # 0 => f[k] = g[k]}
<1>4. 0 \in S
  BY <1>1
<1>5. ASSUME NEW k \in Nat, k \in S, k < n - 1 PROVE k + 1 \in S
  <2>1. k + 1 \in 0 .. n - 1 /\ k + 1 \in 1 .. n /\ (k + 1) - 1 = k
    BY <1>1, <1>5
  <2>2. CASE k = 0
    <3>1. QED
      BY <1>31, <1>32, <2>1, <2>2
  <2>3. CASE k # 0
    <3>1. k + 1 \in 2 .. n /\ k + 1 \in 2 .. n - 1
      BY <1>1, <1>5, <2>3
    <3>2. f[k + 1] = f[(k + 1) - 1] + value[line[k + 1]]
      BY <1>31, <3>1, Zenon
    <3>3. g[k + 1] = g[(k + 1) - 1] + value[front[k + 1]]
      BY <1>32, <3>1, Zenon
    <3>4. f[k] = g[k] /\ front[k + 1] = line[k + 1]
      <4>1. k + 1 \in 1 .. n - 1
        BY <1>1, <3>1
      <4>2. QED
        BY <1>30, <1>5, <2>3, <4>1, Zenon
    <3>5. f[k + 1] = g[k + 1]
      BY <2>1, <3>2, <3>3, <3>4, Zenon
    <3>6. QED
      BY <2>1, <3>5, Zenon
  <2>4. QED
    BY <2>2, <2>3, Zenon
<1> HIDE DEF S
<1>6. \A k \in 0 .. n - 1 : k \in S
  BY <1>1, <1>4, <1>5, Induct, Zenon
<1>7. f[n - 1] = g[n - 1]
  BY <1>1, <1>6 DEF S
<1>8. f[n] = f[n - 1] + value[line[n]]
  <2>1. n \in 2 .. n
    BY <1>1
  <2>2. QED
    BY <1>31, <2>1, Zenon
<1>9. QED
  BY <1>2, <1>3, <1>7, <1>8, Zenon DEF n

-----------------------------------------------------------------------------
(* The headers of a line: each has its own height, its parent before it, and *)
(* the line up to it.                                                        *)
LEMMA OnTheLine ==
  ASSUME NEW t \in Block, NEW k \in 0 .. HeightOf(t)
  PROVE  /\ HeaderAt(t, k) \in Block /\ HeightOf(HeaderAt(t, k)) = k
         /\ Line[HeaderAt(t, k)] = SubSeq(Line[t], 1, k + 1)
<1>1. Line[t] \in Seq(Block) /\ HeightOf(t) \in Nat /\ Len(Line[t]) = HeightOf(t) + 1
  BY LineShape, OwnLine, Zenon
<1>2. k + 1 \in 1 .. Len(Line[t]) /\ k \in Nat
  BY <1>1
<1>3. HeaderAt(t, k) \in Block /\ Line[HeaderAt(t, k)] = SubSeq(Line[t], 1, k + 1)
  BY <1>2, LinePrefix, Zenon DEF HeaderAt
<1>4. Len(SubSeq(Line[t], 1, k + 1)) = k + 1
  BY <1>1, <1>2
<1>5. QED
  BY <1>2, <1>3, <1>4 DEF HeightOf

(* Below a header of a line, its line and that line are the same. *)
LEMMA LowerHeaders ==
  ASSUME NEW t \in Block, NEW k \in 0 .. HeightOf(t), NEW j \in 0 .. k
  PROVE  HeaderAt(HeaderAt(t, k), j) = HeaderAt(t, j) /\ j \in 0 .. HeightOf(t)
<1>1. Line[t] \in Seq(Block) /\ HeightOf(t) \in Nat /\ Len(Line[t]) = HeightOf(t) + 1
  BY LineShape, OwnLine, Zenon
<1>2. k + 1 \in 0 .. Len(Line[t]) /\ j + 1 \in 1 .. k + 1 /\ j \in 0 .. HeightOf(t)
  BY <1>1
<1>3. SubSeq(Line[t], 1, k + 1)[j + 1] = Line[t][j + 1]
  BY <1>1, <1>2, PrefixPlaces, Zenon
<1>4. Line[HeaderAt(t, k)] = SubSeq(Line[t], 1, k + 1)
  BY OnTheLine, Zenon
<1>5. QED
  BY <1>2, <1>3, <1>4, Zenon DEF HeaderAt

(* The parent of a header of a line is the header before it. *)
LEMMA ParentOnLine ==
  ASSUME NEW t \in Block, NEW k \in 1 .. HeightOf(t)
  PROVE  Parent(HeaderAt(t, k)) = HeaderAt(t, k - 1)
<1>1. HeightOf(t) \in Nat /\ k \in 0 .. HeightOf(t) /\ k - 1 \in 0 .. k
  BY OwnLine
<1>2. HeaderAt(t, k) \in Block /\ HeightOf(HeaderAt(t, k)) = k
  BY <1>1, OnTheLine, Zenon
<1>3. Len(Line[HeaderAt(t, k)]) = k + 1
  BY <1>2, OwnLine, Zenon
<1>4. Parent(HeaderAt(t, k)) = HeaderAt(HeaderAt(t, k), k - 1)
  <2>1. (k + 1) - 1 = (k - 1) + 1
    OBVIOUS
  <2>2. QED
    BY <1>3, <2>1, Zenon DEF Parent, HeaderAt
<1>5. QED
  BY <1>1, <1>4, LowerHeaders, Zenon

(* A header other than genesis has a parent, one lower. *)
LEMMA ParentOf ==
  ASSUME NEW x \in Block, HeightOf(x) # 0
  PROVE  /\ Parent(x) \in Block /\ HeightOf(Parent(x)) = HeightOf(x) - 1 /\ HeightOf(x) - 1 \in Nat
         /\ Parent(x) = HeaderAt(x, HeightOf(x) - 1) /\ x # Genesis
<1>1. HeightOf(x) \in Nat /\ HeaderAt(x, HeightOf(x)) = x
  BY OwnLine, Zenon
<1>2. HeightOf(x) \in 1 .. HeightOf(x) /\ HeightOf(x) - 1 \in 0 .. HeightOf(x) /\ HeightOf(x) - 1 \in Nat
  BY <1>1
<1>3. Parent(x) = HeaderAt(x, HeightOf(x) - 1)
  BY <1>1, <1>2, ParentOnLine, Zenon
<1>4. HeaderAt(x, HeightOf(x) - 1) \in Block /\ HeightOf(HeaderAt(x, HeightOf(x) - 1)) = HeightOf(x) - 1
  BY <1>2, OnTheLine, Zenon
<1>5. x # Genesis
  BY GenesisHeight, Zenon
<1>6. QED
  BY <1>2, <1>3, <1>4, <1>5, Zenon

-----------------------------------------------------------------------------
(* The totals of the chain that ends in a header. *)
Totals(x) == [work |-> TotalWork[x], weight |-> TotalWeight[x]]

(* The total of a header is that of its parent and its own. *)
LEMMA AlongParent ==
  ASSUME NEW x \in Block, HeightOf(x) # 0, NEW value \in [Block -> Nat]
  PROVE  Along(Line[x], value) = Along(Line[Parent(x)], value) + value[x]
<1>1. /\ Line[x] \in Seq(Block) /\ HeightOf(x) \in Nat /\ Len(Line[x]) = HeightOf(x) + 1
      /\ Line[x][HeightOf(x) + 1] = x
  BY LineShape, OwnLine, Zenon
<1>2. HeightOf(x) - 1 \in 0 .. HeightOf(x) /\ (HeightOf(x) - 1) + 1 = HeightOf(x)
  BY <1>1
<1>3. Line[Parent(x)] = SubSeq(Line[x], 1, HeightOf(x))
  BY <1>2, ParentOf, OnTheLine, SMT, SMTT(30)
<1>4. HeightOf(x) \in 0 .. Len(Line[x])
  BY <1>1
<1>5. /\ Line[Parent(x)] \in Seq(Block) /\ Len(Line[Parent(x)]) = HeightOf(x)
      /\ \A i \in 1 .. HeightOf(x) : Line[Parent(x)][i] = Line[x][i]
  BY <1>1, <1>3, <1>4, PrefixPlaces
<1>6. Len(Line[x]) > 1 /\ Len(Line[Parent(x)]) = Len(Line[x]) - 1
  BY <1>1, <1>5
<1>7. \A i \in 1 .. Len(Line[Parent(x)]) : Line[Parent(x)][i] = Line[x][i]
  BY <1>5, Zenon
<1>8. Along(Line[x], value) = Along(Line[Parent(x)], value) + value[Line[x][Len(Line[x])]]
  BY <1>1, <1>5, <1>6, <1>7, AlongStep, Zenon
<1>9. QED
  BY <1>1, <1>8, Zenon

(* Genesis alone has no total. *)
LEMMA AlongGenesis ==
  ASSUME NEW value
  PROVE  Along(Line[Genesis], value) = 0
<1>1. Line[Genesis] = <<Genesis>>
  BY BlockTreeAssumption, Zenon
<1>2. Len(Line[Genesis]) = 1
  BY <1>1
<1>3. PICK f : Sums(f, Line[Genesis], value, Len(Line[Genesis]))
               /\ Along(Line[Genesis], value) = f[Len(Line[Genesis])]
  BY <1>2, AlongIs
<1>4. Sums(f, Line[Genesis], value, 1) /\ Along(Line[Genesis], value) = f[1]
  BY <1>2, <1>3, Zenon
<1>5. 1 \in Nat /\ 1 > 0
  OBVIOUS
<1>6. QED
  BY <1>4, <1>5, SumFirst, Zenon

(* A sum over a line is a number. *)
LEMMA AlongIsNatural ==
  ASSUME NEW x \in Block, NEW value \in [Block -> Nat]
  PROVE  Along(Line[x], value) \in Nat
<1> DEFINE S == {n \in Nat : \A y \in Block : HeightOf(y) = n => Along(Line[y], value) \in Nat}
<1>1. 0 \in S
  <2>1. ASSUME NEW y \in Block, HeightOf(y) = 0 PROVE y = Genesis
    BY <2>1, LineShape, OwnLine
  <2>2. \A y \in Block : HeightOf(y) = 0 => Along(Line[y], value) = 0
    BY <2>1, AlongGenesis, Zenon
  <2>3. QED
    BY <2>2
<1>2. ASSUME NEW n \in Nat, n \in S PROVE n + 1 \in S
  <2> SUFFICES ASSUME NEW y \in Block, HeightOf(y) = n + 1 PROVE Along(Line[y], value) \in Nat
    OBVIOUS
  <2>1. HeightOf(y) # 0 /\ HeightOf(y) - 1 = n
    OBVIOUS
  <2>2. Parent(y) \in Block /\ HeightOf(Parent(y)) = n
    BY <2>1, ParentOf, Zenon
  <2>3. Along(Line[Parent(y)], value) \in Nat /\ value[y] \in Nat
    BY <1>2, <2>2, Zenon
  <2>4. Along(Line[y], value) = Along(Line[Parent(y)], value) + value[y]
    BY <2>1, AlongParent, Zenon
  <2>5. QED
    BY <2>3, <2>4
<1> HIDE DEF S
<1>3. HeightOf(x) \in Nat
  BY OwnLine, Zenon
<1>4. HeightOf(x) \in S
  <2>1. \A n \in 0 .. HeightOf(x) : n \in S
    BY <1>1, <1>2, <1>3, Induct, Zenon
  <2>2. QED
    BY <1>3, <2>1
<1>5. QED
  BY <1>4, Zenon DEF S

(* Totals are numbers within the width the code gives them. *)
LEMMA TotalsTyped ==
  ASSUME NEW x \in Block
  PROVE  /\ TotalWork[x] \in Nat /\ TotalWeight[x] \in Nat
         /\ TotalWork[x] <= MaxWork /\ TotalWeight[x] <= MaxWeight
<1>1. Along(Line[x], WorkOf) \in Nat /\ Along(Line[x], BlockWeight) \in Nat
  BY AlongIsNatural, BlockTreeAssumption, Zenon
<1>2. QED
  BY <1>1, TotalsFit, Zenon DEF TotalWork, TotalWeight

(* Total work and weight grow by those of the header. *)
LEMMA TotalsStep ==
  ASSUME NEW x \in Block, HeightOf(x) # 0
  PROVE  /\ TotalWork[x] = TotalWork[Parent(x)] + BlockWork(Bits[x])
         /\ TotalWeight[x] = TotalWeight[Parent(x)] + BlockWeight[x]
<1>1. Parent(x) \in Block /\ x # Genesis
  BY ParentOf, Zenon
<1>2. WorkOf \in [Block -> Nat] /\ BlockWeight \in [Block -> Nat] /\ WorkOf[x] = BlockWork(Bits[x])
  BY <1>1, BlockTreeAssumption, HeaderSyncAssumption, Zenon
<1>3. /\ Along(Line[x], WorkOf) = Along(Line[Parent(x)], WorkOf) + WorkOf[x]
      /\ Along(Line[x], BlockWeight) = Along(Line[Parent(x)], BlockWeight) + BlockWeight[x]
  BY <1>2, AlongParent, Zenon
<1>4. QED
  BY <1>1, <1>2, <1>3, Zenon DEF TotalWork, TotalWeight

(* The totals of genesis. *)
LEMMA TotalsGenesis == TotalWork[Genesis] = 0 /\ TotalWeight[Genesis] = 0
BY GenesisHeight, AlongGenesis, Zenon DEF TotalWork, TotalWeight

(* The totals one header on. *)
NextTotals(x, header) ==
  [work   |-> SaturatingSum(x.work, BlockWork(Bits[header]), MaxWork),
   weight |-> SaturatingSum(x.weight, BlockWeight[header], MaxWeight)]

(* Totals after each header of a chunk, starting from given ones. *)
Added(f, totals, headers) ==
  f = [i \in 0 .. Len(headers) |-> IF i = 0 THEN totals ELSE NextTotals(f[i - 1], headers[i])]

(* Adding a header to the totals of its parent gives its totals: nothing    *)
(* saturates.                                                               *)
LEMMA NextTotalsIs ==
  ASSUME NEW x \in Block, HeightOf(x) # 0
  PROVE  NextTotals(Totals(Parent(x)), x) = Totals(x)
<1>1. Parent(x) \in Block
  BY ParentOf, Zenon
<1>2. /\ TotalWork[x] \in Nat /\ TotalWork[x] <= MaxWork
      /\ TotalWeight[x] \in Nat /\ TotalWeight[x] <= MaxWeight
  BY TotalsTyped, Zenon
<1>3. /\ TotalWork[x] = TotalWork[Parent(x)] + BlockWork(Bits[x])
      /\ TotalWeight[x] = TotalWeight[Parent(x)] + BlockWeight[x]
  BY TotalsStep, Zenon
<1>4. MaxWork \in Nat /\ MaxWeight \in Nat
  BY DifficultyAssumption, Zenon
<1>5. ~ (TotalWork[x] > MaxWork) /\ ~ (TotalWeight[x] > MaxWeight)
  BY <1>2, <1>4
<1>6. /\ SaturatingSum(TotalWork[Parent(x)], BlockWork(Bits[x]), MaxWork) = TotalWork[x]
      /\ SaturatingSum(TotalWeight[Parent(x)], BlockWeight[x], MaxWeight) = TotalWeight[x]
  BY <1>3, <1>5, Zenon DEF SaturatingSum
<1>7. QED
  BY <1>6, Zenon DEF NextTotals, Totals

(* A part of a line, from one height to another. *)
Part(t, h, k) == SubSeq(Line[t], h + 2, k + 1)

(* The headers of a part of a line. *)
LEMMA PartPlaces ==
  ASSUME NEW t \in Block, NEW h \in 0 .. HeightOf(t), NEW k \in h .. HeightOf(t)
  PROVE  /\ Part(t, h, k) \in Seq(Block) /\ Len(Part(t, h, k)) = k - h
         /\ \A i \in 1 .. k - h : Part(t, h, k)[i] = HeaderAt(t, h + i)
<1>1. Line[t] \in Seq(Block) /\ HeightOf(t) \in Nat /\ Len(Line[t]) = HeightOf(t) + 1
  BY LineShape, OwnLine, Zenon
<1> DEFINE line == Line[t]
           n    == HeightOf(t)
<1> HIDE DEF line, n
<1>2. line \in Seq(Block) /\ n \in Nat /\ Len(line) = n + 1 /\ h \in 0 .. n /\ k \in h .. n
  BY <1>1, Zenon DEF line, n
<1>3. /\ SubSeq(line, h + 2, k + 1) \in Seq(Block) /\ Len(SubSeq(line, h + 2, k + 1)) = k - h
      /\ \A i \in 1 .. k - h : SubSeq(line, h + 2, k + 1)[i] = line[(h + i) + 1]
  <2>1. h + 2 \in 1 .. Len(line) + 1 /\ k + 1 \in (h + 2) - 1 .. Len(line)
    BY <1>2
  <2>2. /\ (k + 1) - (h + 2) + 1 = k - h
        /\ \A i \in 1 .. k - h : (h + 2) + i - 1 = (h + i) + 1
    BY <1>2
  <2>3. /\ SubSeq(line, h + 2, k + 1) \in Seq(Block)
        /\ Len(SubSeq(line, h + 2, k + 1)) = (k + 1) - (h + 2) + 1
        /\ \A i \in 1 .. (k + 1) - (h + 2) + 1 :
             SubSeq(line, h + 2, k + 1)[i] = line[(h + 2) + i - 1]
    BY <1>2, <2>1, RangePlaces
  <2>4. QED
    BY <2>2, <2>3, Zenon
<1>4. QED
  BY <1>3, Zenon DEF Part, HeaderAt, line

(* Adding a part of a line to the totals below it gives the totals above. *)
LEMMA AddsUp ==
  ASSUME NEW t \in Block, NEW h \in 0 .. HeightOf(t), NEW k \in h .. HeightOf(t)
  PROVE  AddHeaders(Totals(HeaderAt(t, h)), Part(t, h, k)) = Totals(HeaderAt(t, k))
<1> DEFINE m == k - h
           part == Part(t, h, k)
           f == CHOOSE g : Added(g, Totals(HeaderAt(t, h)), part)
           upto == [i \in 0 .. m |-> Totals(HeaderAt(t, h + i))]
<1>1. HeightOf(t) \in Nat
  BY OwnLine, Zenon
<1>2. m \in Nat /\ h \in Nat /\ k \in Nat /\ h + m = k /\ h + 0 = h
  BY <1>1
<1>3. part \in Seq(Block) /\ Len(part) = m /\ \A i \in 1 .. m : part[i] = HeaderAt(t, h + i)
  BY PartPlaces, Zenon
<1>4. AddHeaders(Totals(HeaderAt(t, h)), part) = f[m]
  BY <1>3, Zenon DEF AddHeaders, Added, NextTotals
<1>5. ASSUME NEW i \in 1 .. m
      PROVE  NextTotals(Totals(HeaderAt(t, h + (i - 1))), HeaderAt(t, h + i)) = Totals(HeaderAt(t, h + i))
  <2>1. h + i \in 1 .. HeightOf(t) /\ (h + i) - 1 = h + (i - 1) /\ h + i \in 0 .. HeightOf(t) /\ h + i # 0
    BY <1>1, <1>2
  <2>2. HeaderAt(t, h + i) \in Block /\ HeightOf(HeaderAt(t, h + i)) = h + i
    BY <2>1, OnTheLine, Zenon
  <2>3. Parent(HeaderAt(t, h + i)) = HeaderAt(t, (h + i) - 1)
    BY <2>1, ParentOnLine, Zenon
  <2>4. HeightOf(HeaderAt(t, h + i)) # 0
    BY <2>1, <2>2, Zenon
  <2>5. NextTotals(Totals(Parent(HeaderAt(t, h + i))), HeaderAt(t, h + i)) = Totals(HeaderAt(t, h + i))
    BY <2>2, <2>4, NextTotalsIs, Zenon
  <2>6. QED
    BY <2>1, <2>3, <2>5, Zenon
<1>6. Added(upto, Totals(HeaderAt(t, h)), part)
  <2>1. ASSUME NEW i \in 0 .. m
        PROVE  upto[i] = IF i = 0 THEN Totals(HeaderAt(t, h)) ELSE NextTotals(upto[i - 1], part[i])
    <3>1. CASE i = 0
      BY <1>2, <3>1, Zenon
    <3>2. CASE i # 0
      <4>1. i \in 1 .. m /\ i - 1 \in 0 .. m
        BY <1>2, <3>2
      <4>2. QED
        BY <1>3, <1>5, <3>2, <4>1, Zenon
    <3>3. QED
      BY <3>1, <3>2, Zenon
  <2>2. upto = [i \in 0 .. m |-> upto[i]]
    BY Zenon
  <2> HIDE DEF upto
  <2>3. QED
    BY <1>3, <2>1, <2>2, Zenon DEF Added
<1>7. Added(f, Totals(HeaderAt(t, h)), part)
  BY <1>6, Zenon
<1> HIDE DEF f, upto, part
<1>8. /\ f[0] = Totals(HeaderAt(t, h))
      /\ \A i \in 1 .. m : f[i] = NextTotals(f[i - 1], HeaderAt(t, h + i))
  <2> HIDE DEF m
  <2>1. 0 \in 0 .. m /\ \A i \in 1 .. m : i \in 0 .. m /\ i # 0
    BY <1>2
  <2>2. f = [i \in 0 .. m |-> IF i = 0 THEN Totals(HeaderAt(t, h)) ELSE NextTotals(f[i - 1], part[i])]
    BY <1>3, <1>7, Zenon DEF Added
  <2>3. QED
    BY <1>3, <2>1, <2>2, Zenon
<1> HIDE DEF m
<1> DEFINE S == {i \in 0 .. m : f[i] = Totals(HeaderAt(t, h + i))}
<1>9. 0 \in S
  BY <1>2, <1>8
<1>10. ASSUME NEW i \in Nat, i \in S, i < m PROVE i + 1 \in S
  <2>1. i + 1 \in 1 .. m /\ i + 1 \in 0 .. m /\ (i + 1) - 1 = i
    BY <1>2, <1>10
  <2>2. f[i + 1] = NextTotals(f[(i + 1) - 1], HeaderAt(t, h + (i + 1)))
    BY <1>8, <2>1, Zenon
  <2>3. f[(i + 1) - 1] = Totals(HeaderAt(t, h + ((i + 1) - 1)))
    BY <1>10, <2>1, Zenon
  <2>4. f[i + 1] = Totals(HeaderAt(t, h + (i + 1)))
    BY <1>5, <2>1, <2>2, <2>3, Zenon
  <2>5. QED
    BY <2>1, <2>4, Zenon
<1> HIDE DEF S
<1>11. \A i \in 0 .. m : i \in S
  BY <1>2, <1>9, <1>10, Induct, Zenon
<1>12. m \in S
  BY <1>2, <1>11
<1>13. QED
  BY <1>2, <1>4, <1>12, Zenon DEF S, part

-----------------------------------------------------------------------------
(* The checkpoint of a chain at a height; a run of them from genesis up, at  *)
(* the multiples of the interval; and what the cached ledger owes its tip.   *)
CheckpointSet == [height : Nat, hash : Block, work : Nat, weight : Nat]

(* What the checkpoint of a chain at a height must be. *)
CheckpointOf(t, h) ==
  [height |-> h, hash |-> HeaderAt(t, h),
   work |-> TotalWork[HeaderAt(t, h)], weight |-> TotalWeight[HeaderAt(t, h)]]

(* Checkpoints of a chain from genesis up, one per interval. *)
Marked(t, points) ==
  /\ points \in Seq(CheckpointSet) /\ Len(points) > 0
  /\ (Len(points) - 1) * CheckpointInterval <= HeightOf(t)
  /\ \A i \in 1 .. Len(points) : points[i] = CheckpointOf(t, (i - 1) * CheckpointInterval)

(* A cache whose totals and checkpoints are those of its tip. *)
Follows(c) ==
  /\ c.tip \in Block /\ c.work = TotalWork[c.tip] /\ c.weight = TotalWeight[c.tip]
  /\ Marked(c.tip, c.checkpoints)
  /\ Len(c.checkpoints) = HeightOf(c.tip) \div CheckpointInterval + 1

(* The fields of a checkpoint. *)
LEMMA CheckpointFields ==
  ASSUME NEW t, NEW h
  PROVE  /\ CheckpointOf(t, h).height = h /\ CheckpointOf(t, h).hash = HeaderAt(t, h)
         /\ CheckpointOf(t, h).work = TotalWork[HeaderAt(t, h)]
         /\ CheckpointOf(t, h).weight = TotalWeight[HeaderAt(t, h)]
BY Zenon DEF CheckpointOf

(* A checkpoint has its type. *)
LEMMA CheckpointTyped ==
  ASSUME NEW t \in Block, NEW h \in 0 .. HeightOf(t)
  PROVE  CheckpointOf(t, h) \in CheckpointSet
<1>1. h \in Nat /\ HeaderAt(t, h) \in Block
  BY OnTheLine
<1>2. TotalWork[HeaderAt(t, h)] \in Nat /\ TotalWeight[HeaderAt(t, h)] \in Nat
  BY <1>1, TotalsTyped, Zenon
<1>3. QED
  BY <1>1, <1>2, Zenon DEF CheckpointOf, CheckpointSet

(* A checkpoint computed from one below it is the checkpoint of the chain. *)
LEMMA CheckpointIs ==
  ASSUME NEW t \in Block, NEW h \in 0 .. HeightOf(t), NEW k \in h .. HeightOf(t)
  PROVE  Checkpoint(t, k, h, Totals(HeaderAt(t, h))) = CheckpointOf(t, k)
<1>1. AddHeaders(Totals(HeaderAt(t, h)), SubSeq(Line[t], h + 2, k + 1)) = Totals(HeaderAt(t, k))
  BY AddsUp, Zenon DEF Part
<1>2. QED
  BY <1>1 DEF Checkpoint, CheckpointOf, Totals

(* What CacheFrom computes from an anchor of the chain is right for it. *)
LEMMA CacheFromFollows ==
  ASSUME NEW t \in Block, NEW points, Marked(t, points)
  PROVE  Follows(CacheFrom(t, points)) /\ CacheFrom(t, points).tip = t
<1> DEFINE n == Len(points)
           w == CheckpointInterval
           top == HeightOf(t)
           low == (n - 1) * w
           anchor == points[n]
           start == [work |-> anchor.work, weight |-> anchor.weight]
           more == CheckpointsAfter(t, anchor)
           m == top \div w - (n - 1)
<1>1. w \in Nat /\ w > 0
  BY HeaderSyncAssumption
<1>2. top \in Nat /\ HeaderAt(t, top) = t /\ Len(Line[t]) = top + 1
  BY OwnLine, Zenon
<1>3. /\ points \in Seq(CheckpointSet) /\ n > 0 /\ low <= top
      /\ \A i \in 1 .. n : points[i] = CheckpointOf(t, (i - 1) * w)
  BY Zenon DEF Marked
<1>30. n \in Nat /\ n > 0
  BY <1>3
<1>4. n \in 1 .. n /\ n - 1 \in Nat
  BY <1>30
<1>5. anchor = CheckpointOf(t, low)
  BY <1>3, <1>4, Zenon
<1>6. low \in Nat
  BY <1>1, <1>4, MultipleStep, Zenon
<1> HIDE DEF low, anchor, n, w, top
<1>7. low \in 0 .. top /\ top \in low .. top
  BY <1>2, <1>3, <1>6
<1>8. anchor.height = low /\ start = Totals(HeaderAt(t, low))
  BY <1>5, Zenon DEF CheckpointOf, Totals
<1>9. AddHeaders(start, HeadersAfter(t, anchor.height)) = Totals(t)
  <2>1. HeadersAfter(t, low) = Part(t, low, top)
    BY <1>2, Zenon DEF HeadersAfter, Part
  <2>2. AddHeaders(Totals(HeaderAt(t, low)), Part(t, low, top)) = Totals(HeaderAt(t, top))
    BY <1>7, AddsUp, Zenon DEF top
  <2>3. QED
    BY <1>2, <1>8, <2>1, <2>2, Zenon
<1>10. low \div w = n - 1
  <2>1. (n - 1) * w <= low /\ low < (n - 1) * w + w
    BY <1>1, <1>6 DEF low
  <2>2. QED
    BY <1>1, <1>4, <1>6, <2>1, QuotientIs, Zenon
<1>11. top \div w \in Nat /\ (top \div w) * w <= top /\ top < (top \div w) * w + w
  BY <1>1, <1>2, Quotient, Zenon
<1>12. m \in Nat
  <2> SUFFICES ASSUME top \div w < n - 1 PROVE FALSE
    BY <1>4, <1>11
  <2>1. top \div w + 1 <= n - 1 /\ top \div w + 1 \in Nat
    BY <1>4, <1>11
  <2>2. (top \div w + 1) * w <= (n - 1) * w
    BY <1>1, <1>4, <2>1, MultipleOrder, Zenon
  <2>3. (top \div w + 1) * w = (top \div w) * w + w /\ (top \div w) * w \in Nat
    BY <1>1, <1>11, MultipleStep, Zenon
  <2>4. QED
    BY <1>1, <1>2, <1>3, <1>6, <1>11, <2>2, <2>3 DEF low
<1>13. more = [i \in 1 .. m |-> Checkpoint(t, ((n - 1) + i) * w, low, start)]
  BY <1>8, <1>10, Zenon DEF CheckpointsAfter, w, top
<1>14. ASSUME NEW i \in 1 .. m
       PROVE  ((n - 1) + i) * w \in low .. top
  <2>1. (n - 1) + i \in Nat /\ n - 1 <= (n - 1) + i /\ (n - 1) + i <= top \div w
    BY <1>4, <1>11, <1>12
  <2>2. /\ (n - 1) * w <= ((n - 1) + i) * w
        /\ ((n - 1) + i) * w <= (top \div w) * w
    BY <1>1, <1>4, <1>11, <2>1, MultipleOrder, Zenon
  <2>3. ((n - 1) + i) * w \in Nat
    BY <1>1, <2>1, MultipleStep, Zenon
  <2>4. (top \div w) * w \in Nat
    BY <1>1, <1>11, MultipleStep, Zenon
  <2>5. QED
    BY <1>2, <1>6, <1>11, <2>2, <2>3, <2>4 DEF low
<1>15. \A i \in 1 .. m : /\ Checkpoint(t, ((n - 1) + i) * w, low, start) = CheckpointOf(t, ((n - 1) + i) * w)
                         /\ CheckpointOf(t, ((n - 1) + i) * w) \in CheckpointSet
  <2> SUFFICES ASSUME NEW i \in 1 .. m
               PROVE  /\ Checkpoint(t, ((n - 1) + i) * w, low, start) = CheckpointOf(t, ((n - 1) + i) * w)
                      /\ CheckpointOf(t, ((n - 1) + i) * w) \in CheckpointSet
    BY Zenon
  <2> DEFINE h == ((n - 1) + i) * w
  <2>1. h \in low .. top
    BY <1>14, Zenon
  <2> HIDE DEF h
  <2>2. h \in 0 .. top
    BY <1>6, <2>1
  <2>3. Checkpoint(t, h, low, start) = CheckpointOf(t, h)
    BY <1>7, <1>8, <2>1, CheckpointIs, Zenon DEF top
  <2>4. CheckpointOf(t, h) \in CheckpointSet
    BY <2>2, CheckpointTyped, Zenon DEF top
  <2>5. QED
    BY <2>3, <2>4, Zenon DEF h
<1> HIDE DEF m, more, start
<1>16. more \in Seq(CheckpointSet) /\ Len(more) = m /\ \A i \in 1 .. m : more[i] = CheckpointOf(t, ((n - 1) + i) * w)
  <2>1. \A i \in 1 .. m : more[i] = CheckpointOf(t, ((n - 1) + i) * w)
    BY <1>13, <1>15, Zenon
  <2>2. more \in [1 .. m -> CheckpointSet]
    BY <1>13, <1>15, Zenon
  <2>3. QED
    BY <1>12, <2>1, <2>2
<1> DEFINE all == points \o more
<1>17. /\ all \in Seq(CheckpointSet) /\ Len(all) = n + m
       /\ \A i \in 1 .. n : all[i] = points[i]
       /\ \A i \in n + 1 .. n + m : all[i] = more[i - n]
  BY <1>3, <1>16, JoinPlaces, ZenonT(40) DEF n
<1> HIDE DEF all
<1>18. n + m = top \div w + 1
  BY <1>4, <1>11, <1>12 DEF m
<1>19. ASSUME NEW i \in 1 .. n + m PROVE all[i] = CheckpointOf(t, (i - 1) * w)
  <2>1. CASE i \in 1 .. n
    BY <1>3, <1>17, <2>1, Zenon DEF w, n
  <2>2. CASE i \notin 1 .. n
    <3>1. i \in n + 1 .. n + m /\ i - n \in 1 .. m /\ (n - 1) + (i - n) = i - 1
      BY <1>4, <1>30, <1>12, <2>2
    <3>2. QED
      BY <1>16, <1>17, <3>1, Zenon
  <2>3. QED
    BY <2>1, <2>2, Zenon
<1>20. Marked(t, all)
  <2>1. Len(all) > 0 /\ Len(all) - 1 = top \div w
    BY <1>30, <1>11, <1>12, <1>17, <1>18
  <2>2. (Len(all) - 1) * w <= top
    BY <1>11, <2>1, Zenon
  <2>3. QED
    BY <1>17, <1>19, <2>1, <2>2, Zenon DEF Marked, w, top
<1>21. CacheFrom(t, points) = [tip |-> t, checkpoints |-> all,
                               work |-> TotalWork[t], weight |-> TotalWeight[t]]
  <2>1. /\ AddHeaders(start, HeadersAfter(t, anchor.height)).work = TotalWork[t]
        /\ AddHeaders(start, HeadersAfter(t, anchor.height)).weight = TotalWeight[t]
    BY <1>9 DEF Totals
  <2>2. QED
    BY <2>1, Zenon DEF CacheFrom, start, anchor, n, all, more
<1>22. Len(all) = top \div w + 1
  BY <1>17, <1>18, Zenon
<1>23. QED
  BY <1>20, <1>21, <1>22 DEF Follows, w, top

-----------------------------------------------------------------------------
(* Max of a bounded set of numbers is in it, and none is above it. *)
LEMMA MaxIs ==
  ASSUME NEW S \in SUBSET Nat, S # {}, NEW top \in Nat, \A n \in S : n <= top
  PROVE  Max(S) \in S /\ \A n \in S : Max(S) >= n
<1>1. PICK x \in S : \A n \in S : n <= x
  BY Greatest, Zenon
<1>2. \A n \in S : x >= n
  BY <1>1, Zenon
<1>3. QED
  BY <1>2, Zenon DEF Max

(* Chains that share a header share what is below it. *)
LEMMA SharedBelow ==
  ASSUME NEW t \in Block, NEW u \in Block, NEW h \in 0 .. HeightOf(t), h <= HeightOf(u),
         HeaderAt(t, h) = HeaderAt(u, h), NEW j \in 0 .. h
  PROVE  HeaderAt(t, j) = HeaderAt(u, j)
<1>1. HeightOf(u) \in Nat /\ h \in 0 .. HeightOf(u)
  BY OwnLine
<1>2. HeaderAt(HeaderAt(t, h), j) = HeaderAt(t, j)
  BY LowerHeaders, Zenon
<1>3. HeaderAt(HeaderAt(u, h), j) = HeaderAt(u, j)
  BY <1>1, LowerHeaders, Zenon
<1>4. QED
  BY <1>2, <1>3, Zenon

(* The checkpoint of genesis is one of every chain. *)
LEMMA GenesisMarked ==
  ASSUME NEW t \in Block
  PROVE  Marked(t, <<GenesisCheckpoint>>)
<1>1. HeightOf(t) \in Nat /\ HeaderAt(t, 0) = Genesis
  BY LineShape, OwnLine DEF HeaderAt
<1>2. GenesisCheckpoint = CheckpointOf(t, 0)
  BY <1>1, TotalsGenesis, Zenon DEF GenesisCheckpoint, CheckpointOf
<1>3. CheckpointOf(t, 0) \in CheckpointSet
  BY <1>1, CheckpointTyped
<1>4. CheckpointInterval \in Nat /\ 0 * CheckpointInterval = 0
  BY HeaderSyncAssumption
<1>5. QED
  BY <1>1, <1>2, <1>3, <1>4 DEF Marked

(* The checkpoints that a start builds from all headers are right. *)
LEMMA BuiltFollows ==
  ASSUME NEW t \in Block
  PROVE  Follows(BuildCheckpoints(t)) /\ BuildCheckpoints(t).tip = t
BY GenesisMarked, CacheFromFollows, Zenon DEF BuildCheckpoints

(* The checkpoints kept for another chain are checkpoints of that chain. *)
LEMMA KeptMarked ==
  ASSUME NEW t \in Block, NEW u \in Block, NEW points, Marked(u, points)
  PROVE  Marked(t, KeptCheckpoints(t, points))
<1> DEFINE w == CheckpointInterval
           n == Len(points)
           on == AnchorsOn(t, points)
           m == Max(on)
<1>1. w \in Nat /\ HeightOf(t) \in Nat /\ HeightOf(u) \in Nat
  BY OwnLine, HeaderSyncAssumption, Zenon
<1>2. /\ points \in Seq(CheckpointSet) /\ n > 0 /\ (n - 1) * w <= HeightOf(u)
      /\ \A i \in 1 .. n : points[i] = CheckpointOf(u, (i - 1) * w)
  BY Zenon DEF Marked
<1>3. n \in Nat
  BY <1>2
<1> HIDE DEF n, w
<1>4. ASSUME NEW i \in 1 .. n
      PROVE  points[i].height = (i - 1) * w /\ points[i].hash = HeaderAt(u, (i - 1) * w)
  <2>1. points[i] = CheckpointOf(u, (i - 1) * w)
    BY <1>2, Zenon
  <2>2. QED
    BY <2>1, CheckpointFields
<1>5. on = {i \in 1 .. n : /\ (i - 1) * w <= HeightOf(t)
                           /\ HeaderAt(t, (i - 1) * w) = HeaderAt(u, (i - 1) * w)}
  BY <1>4, Zenon DEF AnchorsOn, n
<1>6. 1 \in on
  <2>1. 1 \in 1 .. n /\ (1 - 1) * w = 0 /\ 0 <= HeightOf(t)
    BY <1>1, <1>2, <1>3
  <2>2. HeaderAt(t, 0) = HeaderAt(u, 0)
    BY LineShape DEF HeaderAt
  <2>3. QED
    BY <1>5, <2>1, <2>2, Zenon
<1>7. on \in SUBSET Nat /\ on # {} /\ \A i \in on : i <= n
  <2>1. on \subseteq 1 .. n
    BY <1>5, Zenon
  <2>2. \A i \in 1 .. n : i \in Nat /\ i <= n
    BY <1>3
  <2>3. QED
    BY <1>6, <2>1, <2>2, Zenon
<1> HIDE DEF on
<1>8. m \in on
  BY <1>3, <1>7, MaxIs, Zenon
<1> HIDE DEF m
<1>9. m \in 1 .. n /\ (m - 1) * w <= HeightOf(t) /\ HeaderAt(t, (m - 1) * w) = HeaderAt(u, (m - 1) * w)
  BY <1>5, <1>8, Zenon
<1> DEFINE kept == SubSeq(points, 1, m)
<1>10. KeptCheckpoints(t, points) = kept
  BY Zenon DEF KeptCheckpoints, m, on
<1>11. m \in 0 .. Len(points)
  BY <1>3, <1>9 DEF n
<1>12. kept \in Seq(CheckpointSet) /\ Len(kept) = m /\ \A i \in 1 .. m : kept[i] = points[i]
  BY <1>2, <1>11, PrefixPlaces, Zenon
<1> HIDE DEF kept
<1>13. ASSUME NEW i \in 1 .. m PROVE kept[i] = CheckpointOf(t, (i - 1) * w)
  <2>1. i \in 1 .. n /\ i - 1 \in Nat /\ m - 1 \in Nat /\ i - 1 <= m - 1 /\ n - 1 \in Nat /\ m - 1 <= n - 1
    BY <1>3, <1>9
  <2>2. /\ (i - 1) * w \in Nat /\ (m - 1) * w \in Nat /\ (i - 1) * w <= (m - 1) * w
        /\ (n - 1) * w \in Nat /\ (m - 1) * w <= (n - 1) * w
    BY <1>1, <2>1, MultipleOrder, MultipleStep, Zenon
  <2> DEFINE x == (i - 1) * w
             y == (m - 1) * w
             z == (n - 1) * w
  <2> HIDE DEF x, y, z
  <2>3. x \in Nat /\ y \in Nat /\ x <= y /\ y <= HeightOf(t) /\ z \in Nat /\ y <= z /\ z <= HeightOf(u)
    BY <1>2, <1>9, <2>2, Zenon DEF x, y, z
  <2>4. x \in 0 .. y /\ y \in 0 .. HeightOf(t) /\ y <= HeightOf(u)
    BY <1>1, <2>3
  <2>5. HeaderAt(t, x) = HeaderAt(u, x)
    <3>1. HeaderAt(t, y) = HeaderAt(u, y)
      BY <1>9, Zenon DEF y
    <3>2. QED
      BY <2>4, <3>1, SharedBelow, Zenon
  <2>6. kept[i] = CheckpointOf(u, x)
    BY <1>2, <1>12, <2>1, Zenon DEF x, n, w
  <2>7. QED
    BY <2>5, <2>6, Zenon DEF CheckpointOf, x
<1>14. Len(kept) > 0 /\ (Len(kept) - 1) * w <= HeightOf(t)
  BY <1>3, <1>9, <1>12
<1>15. QED
  BY <1>10, <1>12, <1>13, <1>14, Zenon DEF Marked, w

-----------------------------------------------------------------------------
(* The place a suffix of n of a sequence of the given length starts. *)
From(len, n) == IF len - n + 1 > 1 THEN len - n + 1 ELSE 1

(* The start of a suffix, which Suffix takes as a maximum. *)
LEMMA FromIs ==
  ASSUME NEW len \in Nat, NEW n \in Nat
  PROVE  /\ Max({1, len - n + 1}) = From(len, n)
         /\ From(len, n) \in Nat /\ From(len, n) >= 1 /\ From(len, n) <= len + 1
         /\ len - n + 1 > 1 => From(len, n) = len - n + 1
         /\ ~ (len - n + 1 > 1) => From(len, n) = 1
<1> DEFINE x == len - n + 1
<1>1. x \in Int /\ x <= len + 1
  OBVIOUS
<1> HIDE DEF x
<1>2. PICK y \in {1, x} : y = From(len, n) /\ \A z \in {1, x} : y >= z
  BY <1>1 DEF From, x
<1>3. \A v \in {1, x} : (\A z \in {1, x} : v >= z) => v = y
  BY <1>1, <1>2
<1>4. Max({1, x}) = y
  BY <1>2, <1>3, Zenon DEF Max
<1>5. From(len, n) \in Nat /\ From(len, n) >= 1 /\ From(len, n) <= len + 1
  BY <1>1 DEF From, x
<1>6. (x > 1 => From(len, n) = x) /\ (~ (x > 1) => From(len, n) = 1)
  BY Zenon DEF From, x
<1>7. QED
  BY <1>2, <1>4, <1>5, <1>6, Zenon DEF x

(* The places of a suffix. *)
LEMMA SuffixPlaces ==
  ASSUME NEW D, NEW q \in Seq(D), NEW n \in Nat
  PROVE  /\ Suffix(q, n) \in Seq(D) /\ Len(Suffix(q, n)) = Len(q) - From(Len(q), n) + 1
         /\ \A k \in 1 .. Len(q) - From(Len(q), n) + 1 :
              Suffix(q, n)[k] = q[From(Len(q), n) + k - 1]
<1>1. Len(q) \in Nat
  OBVIOUS
<1>2. /\ Max({1, Len(q) - n + 1}) = From(Len(q), n) /\ From(Len(q), n) \in Nat
      /\ From(Len(q), n) >= 1 /\ From(Len(q), n) <= Len(q) + 1
  BY <1>1, FromIs, Zenon
<1> DEFINE lo == From(Len(q), n)
           hi == Len(q)
<1>3. Suffix(q, n) = SubSeq(q, lo, hi)
  BY <1>2, Zenon DEF Suffix
<1> HIDE DEF lo
<1>4. lo \in 1 .. Len(q) + 1 /\ hi \in lo - 1 .. Len(q)
  BY <1>1, <1>2 DEF lo
<1>5. /\ SubSeq(q, lo, hi) \in Seq(D) /\ Len(SubSeq(q, lo, hi)) = hi - lo + 1
      /\ \A k \in 1 .. hi - lo + 1 : SubSeq(q, lo, hi)[k] = q[lo + k - 1]
  <2> HIDE DEF hi
  <2>1. QED
    BY <1>4, RangePlaces, Zenon
<1>6. QED
  BY <1>3, <1>5, Zenon DEF lo

(* What the end of a joined sequence keeps when only the end of its first   *)
(* part is joined.                                                          *)
EndKept(q, p, n) ==
  /\ Suffix(Suffix(q, n) \o p, n) = Suffix(q \o p, n)
  /\ Len(Suffix(q, n) \o p) > 0
  /\ (Suffix(q, n) \o p)[Len(Suffix(q, n) \o p)] = (q \o p)[Len(q \o p)]

(* Only the last headers of the window matter for those of a longer line. *)
LEMMA SuffixJoin ==
  ASSUME NEW D, NEW q \in Seq(D), NEW p \in Seq(D), NEW n \in Nat, n > 0, Len(q) > 0
  PROVE  EndKept(q, p, n)
<1> DEFINE x == Suffix(q, n) \o p
           y == q \o p
           u == Suffix(x, n)
           v == Suffix(y, n)
           lenq == Len(q)
           lenp == Len(p)
           d == From(lenq, n) - 1
<1>1. lenq \in Nat /\ lenp \in Nat /\ lenq > 0
  OBVIOUS
<1>2. /\ Suffix(q, n) \in Seq(D) /\ Len(Suffix(q, n)) = lenq - From(lenq, n) + 1
      /\ \A k \in 1 .. lenq - From(lenq, n) + 1 : Suffix(q, n)[k] = q[From(lenq, n) + k - 1]
  BY SuffixPlaces, Zenon
<1>3. /\ From(lenq, n) \in Nat /\ From(lenq, n) >= 1 /\ From(lenq, n) <= lenq + 1
      /\ lenq - n + 1 > 1 => From(lenq, n) = lenq - n + 1
      /\ ~ (lenq - n + 1 > 1) => From(lenq, n) = 1
  BY <1>1, FromIs, Zenon
<1> HIDE DEF lenq, lenp
<1>4. /\ d \in Nat /\ d < lenq /\ lenq - From(lenq, n) + 1 = lenq - d
      /\ d = 0 \/ lenq - d = n
  BY <1>1, <1>3
<1>5. \A k \in 1 .. lenq - d : From(lenq, n) + k - 1 = k + d
  BY <1>1, <1>3
<1>6. /\ Suffix(q, n) \in Seq(D) /\ Len(Suffix(q, n)) = lenq - d
      /\ \A k \in 1 .. lenq - d : Suffix(q, n)[k] = q[k + d]
  BY <1>2, <1>4, <1>5, Zenon
<1> HIDE DEF d
<1>7. /\ x \in Seq(D) /\ Len(x) = (lenq - d) + lenp
      /\ \A k \in 1 .. lenq - d : x[k] = q[k + d]
      /\ \A k \in (lenq - d) + 1 .. (lenq - d) + lenp : x[k] = p[k - (lenq - d)]
  <2>1. /\ x \in Seq(D) /\ Len(x) = Len(Suffix(q, n)) + Len(p)
        /\ \A k \in 1 .. Len(Suffix(q, n)) : x[k] = Suffix(q, n)[k]
        /\ \A k \in Len(Suffix(q, n)) + 1 .. Len(Suffix(q, n)) + Len(p) :
             x[k] = p[k - Len(Suffix(q, n))]
    BY <1>6, JoinPlaces, Zenon
  <2> HIDE DEF x
  <2>2. QED
    BY <1>6, <2>1, Zenon DEF lenp
<1>8. /\ y \in Seq(D) /\ Len(y) = lenq + lenp
      /\ \A k \in 1 .. lenq : y[k] = q[k]
      /\ \A k \in lenq + 1 .. lenq + lenp : y[k] = p[k - lenq]
  BY JoinPlaces, Zenon DEF lenq, lenp
<1> HIDE DEF x, y
<1>9. ASSUME NEW k \in 1 .. (lenq - d) + lenp PROVE x[k] = y[k + d]
  <2>1. CASE k \in 1 .. lenq - d
    <3>1. k + d \in 1 .. lenq
      BY <1>1, <1>4, <2>1
    <3>2. QED
      BY <1>7, <1>8, <2>1, <3>1, Zenon
  <2>2. CASE k \notin 1 .. lenq - d
    <3>1. /\ k \in (lenq - d) + 1 .. (lenq - d) + lenp /\ k + d \in lenq + 1 .. lenq + lenp
          /\ k - (lenq - d) = (k + d) - lenq
      BY <1>1, <1>4, <2>2
    <3>2. QED
      BY <1>7, <1>8, <3>1, Zenon
  <2>3. QED
    BY <2>1, <2>2, Zenon
<1>10. Len(x) \in Nat /\ Len(y) \in Nat /\ Len(y) = Len(x) + d /\ Len(x) > 0
  BY <1>1, <1>4, <1>7, <1>8, SMTT(30), SMTT(60)
<1>11. x[Len(x)] = y[Len(y)]
  <2>1. Len(x) \in 1 .. (lenq - d) + lenp
    BY <1>7, <1>10
  <2>2. QED
    BY <1>9, <1>10, <2>1, Zenon
<1> DEFINE lx == From(Len(x), n)
           ly == From(Len(y), n)
<1>12. /\ u \in Seq(D) /\ Len(u) = Len(x) - lx + 1
       /\ \A k \in 1 .. Len(x) - lx + 1 : u[k] = x[lx + k - 1]
  BY <1>7, SuffixPlaces, Zenon
<1>13. /\ v \in Seq(D) /\ Len(v) = Len(y) - ly + 1
       /\ \A k \in 1 .. Len(y) - ly + 1 : v[k] = y[ly + k - 1]
  <2>1. y \in Seq(D)
    BY <1>8, Zenon
  <2>2. QED
    BY <2>1, SuffixPlaces, Zenon
<1>14. ly = lx + d /\ lx \in Nat /\ lx >= 1 /\ lx <= Len(x) + 1
  <2>1. /\ lx \in Nat /\ lx >= 1 /\ lx <= Len(x) + 1
        /\ Len(x) - n + 1 > 1 => lx = Len(x) - n + 1
        /\ ~ (Len(x) - n + 1 > 1) => lx = 1
    BY <1>10, FromIs, Zenon
  <2>2. /\ Len(y) - n + 1 > 1 => ly = Len(y) - n + 1
        /\ ~ (Len(y) - n + 1 > 1) => ly = 1
    BY <1>10, FromIs, Zenon
  <2> HIDE DEF lx, ly
  <2>3. CASE d = 0
    BY <1>10, <2>1, <2>2, <2>3, SMT, SMTT(30)
  <2>4. CASE lenq - d = n
    BY <1>1, <1>4, <1>7, <1>10, <2>1, <2>2, <2>4, SMTT(30)
  <2>5. QED
    BY <1>4, <2>1, <2>3, <2>4, Zenon
<1> HIDE DEF lx, ly, u, v
<1>15. Len(x) - lx + 1 = Len(y) - ly + 1
  BY <1>4, <1>10, <1>14
<1>16. ASSUME NEW k \in 1 .. Len(u) PROVE u[k] = v[k]
  <2>1. k \in 1 .. Len(x) - lx + 1 /\ k \in 1 .. Len(y) - ly + 1
    BY <1>12, <1>15, Zenon
  <2>2. lx + k - 1 \in 1 .. Len(x) /\ (lx + k - 1) + d = ly + k - 1
    BY <1>4, <1>10, <1>14, <2>1
  <2>3. x[lx + k - 1] = y[(lx + k - 1) + d]
    BY <1>7, <1>9, <2>2, Zenon
  <2>4. QED
    BY <1>12, <1>13, <2>1, <2>2, <2>3, Zenon
<1>17. u = v
  BY <1>12, <1>13, <1>15, <1>16, SamePlaces, Zenon
<1>18. QED
  BY <1>10, <1>11, <1>17, Zenon DEF u, v, x, y, EndKept

-----------------------------------------------------------------------------
(* The validation state of the whole line that ends in a header. *)
StateOf(x) ==
  [header |-> x, work |-> TotalWork[x], weight |-> TotalWeight[x],
   recent |-> Suffix(Line[x], RecentWindow)]

(* The fields of a validation state. *)
LEMMA StateFields ==
  ASSUME NEW x
  PROVE  /\ StateOf(x).header = x
         /\ StateOf(x).work = TotalWork[x] /\ StateOf(x).weight = TotalWeight[x]
         /\ StateOf(x).recent = Suffix(Line[x], RecentWindow)
         /\ [work |-> StateOf(x).work, weight |-> StateOf(x).weight] = Totals(x)
BY Zenon DEF StateOf, Totals

(* Two windows of headers are kept, of at least one header each. *)
LEMMA WindowPositive == RecentWindow \in Nat /\ RecentWindow > 0 /\ WbdaWindow \in Nat
                        /\ WbdaWindow > 0 /\ RecentWindow = WbdaWindow + WbdaWindow
BY DifficultyAssumption DEF RecentWindow

(* A validation state has its type. *)
LEMMA StateTyped ==
  ASSUME NEW x \in Block
  PROVE  StateOf(x) \in [header : Block, work : Nat, weight : Nat, recent : Seq(Block)]
<1>1. TotalWork[x] \in Nat /\ TotalWeight[x] \in Nat
  BY TotalsTyped, Zenon
<1>2. Line[x] \in Seq(Block) /\ RecentWindow \in Nat
  BY LineShape, WindowPositive, Zenon
<1>3. Suffix(Line[x], RecentWindow) \in Seq(Block)
  BY <1>2, SuffixPlaces, Zenon
<1>4. QED
  BY <1>1, <1>3, Zenon DEF StateOf

(* A validation state is not an absent one. *)
LEMMA StateIsSome ==
  ASSUME NEW x \in Block
  PROVE  StateOf(x) # None
BY StateTyped, HeaderSyncAssumption, Zenon

(* A line is a lower one followed by the headers between. *)
LEMMA LineJoins ==
  ASSUME NEW t \in Block, NEW h \in 0 .. HeightOf(t), NEW k \in h .. HeightOf(t)
  PROVE  Line[HeaderAt(t, h)] \o Part(t, h, k) = Line[HeaderAt(t, k)]
<1> DEFINE p == Line[HeaderAt(t, h)]
           r == Part(t, h, k)
           q == Line[HeaderAt(t, k)]
           j == p \o r
<1>1. HeightOf(t) \in Nat
  BY OwnLine, Zenon
<1>2. h \in Nat /\ k \in Nat /\ h <= k /\ k \in 0 .. HeightOf(t) /\ h \in 0 .. k
  BY <1>1
<1>3. HeaderAt(t, h) \in Block /\ HeightOf(HeaderAt(t, h)) = h
  BY OnTheLine, Zenon
<1>4. HeaderAt(t, k) \in Block /\ HeightOf(HeaderAt(t, k)) = k
  BY <1>2, OnTheLine, Zenon
<1>5. p \in Seq(Block) /\ Len(p) = h + 1
  BY <1>3, LineShape, OwnLine, Zenon
<1>6. q \in Seq(Block) /\ Len(q) = k + 1
  BY <1>4, LineShape, OwnLine, Zenon
<1>7. r \in Seq(Block) /\ Len(r) = k - h /\ \A i \in 1 .. k - h : r[i] = HeaderAt(t, h + i)
  BY PartPlaces, Zenon
<1>8. ASSUME NEW i \in 0 .. h PROVE p[i + 1] = HeaderAt(t, i)
  BY LowerHeaders, Zenon DEF HeaderAt
<1>9. ASSUME NEW i \in 0 .. k PROVE q[i + 1] = HeaderAt(t, i)
  BY <1>2, LowerHeaders, Zenon DEF HeaderAt
<1> HIDE DEF p, q, r
<1>10. /\ j \in Seq(Block) /\ Len(j) = Len(p) + Len(r)
       /\ \A i \in 1 .. Len(p) : j[i] = p[i]
       /\ \A i \in Len(p) + 1 .. Len(p) + Len(r) : j[i] = r[i - Len(p)]
  BY <1>5, <1>7, JoinPlaces, Zenon
<1> HIDE DEF j
<1>11. Len(j) = Len(q) /\ Len(j) = k + 1
  BY <1>2, <1>5, <1>6, <1>7, <1>10
<1>12. ASSUME NEW i \in 1 .. Len(j) PROVE j[i] = q[i]
  <2>1. i - 1 \in 0 .. k /\ (i - 1) + 1 = i
    BY <1>2, <1>11
  <2>2. q[i] = HeaderAt(t, i - 1)
    BY <1>9, <2>1, Zenon
  <2>3. CASE i <= h + 1
    <3>1. i \in 1 .. Len(p) /\ i - 1 \in 0 .. h
      BY <1>2, <1>5, <2>1, <2>3
    <3>2. p[i] = HeaderAt(t, i - 1)
      BY <1>8, <2>1, <3>1, Zenon
    <3>3. QED
      BY <1>10, <2>2, <3>1, <3>2, Zenon
  <2>4. CASE ~ (i <= h + 1)
    <3>1. /\ i \in Len(p) + 1 .. Len(p) + Len(r) /\ i - Len(p) \in 1 .. k - h
          /\ h + (i - Len(p)) = i - 1
      BY <1>2, <1>5, <1>7, <1>11, <2>4
    <3>2. QED
      BY <1>7, <1>10, <2>2, <3>1, Zenon
  <2>5. QED
    BY <2>3, <2>4, Zenon
<1>13. j = q
  BY <1>6, <1>10, <1>11, <1>12, SamePlaces, Zenon
<1>14. QED
  BY <1>13, Zenon DEF j, p, q, r

(* Adding the headers of a line to the state of a lower one. *)
LEMMA StateAfterIs ==
  ASSUME NEW t \in Block, NEW h \in 0 .. HeightOf(t), NEW k \in h .. HeightOf(t)
  PROVE  StateAfter(StateOf(HeaderAt(t, h)), Part(t, h, k)) = StateOf(HeaderAt(t, k))
<1> DEFINE v == StateOf(HeaderAt(t, h))
           r == Part(t, h, k)
           low == Line[HeaderAt(t, h)]
           high == Line[HeaderAt(t, k)]
           line == v.recent \o r
<1>1. k \in 0 .. HeightOf(t)
  BY OwnLine
<1>2. HeaderAt(t, h) \in Block
  BY OnTheLine, Zenon
<1>3. HeaderAt(t, k) \in Block
  BY <1>1, OnTheLine, Zenon
<1>4. low \in Seq(Block) /\ Len(low) \in Nat \ {0}
  BY <1>2, LineShape, Zenon
<1>5. Len(low) > 0
  BY <1>4
<1>6. r \in Seq(Block)
  BY PartPlaces, Zenon
<1>7. low \o r = high
  BY LineJoins, Zenon
<1>8. high[Len(high)] = HeaderAt(t, k)
  BY <1>3, LineShape, Zenon
<1>9. AddHeaders(Totals(HeaderAt(t, h)), r) = Totals(HeaderAt(t, k))
  BY AddsUp, Zenon
<1>10. v.recent = Suffix(low, RecentWindow) /\ [work |-> v.work, weight |-> v.weight] = Totals(HeaderAt(t, h))
  BY StateFields, Zenon
<1> HIDE DEF v, r, low, high
<1>11. /\ Suffix(Suffix(low, RecentWindow) \o r, RecentWindow) = Suffix(low \o r, RecentWindow)
       /\ (Suffix(low, RecentWindow) \o r)[Len(Suffix(low, RecentWindow) \o r)] = (low \o r)[Len(low \o r)]
  <2>1. RecentWindow \in Nat /\ RecentWindow > 0 /\ low \in Seq(Block)
    BY <1>4, WindowPositive, Zenon
  <2>2. EndKept(low, r, RecentWindow)
    BY <1>5, <1>6, <2>1, SuffixJoin, Zenon
  <2>3. QED
    BY <2>2, Zenon DEF EndKept
<1>12. Suffix(line, RecentWindow) = Suffix(high, RecentWindow) /\ line[Len(line)] = HeaderAt(t, k)
  BY <1>7, <1>8, <1>10, <1>11, Zenon
<1>13. StateAfter(v, r) = [header |-> line[Len(line)],
                           work |-> AddHeaders([work |-> v.work, weight |-> v.weight], r).work,
                           weight |-> AddHeaders([work |-> v.work, weight |-> v.weight], r).weight,
                           recent |-> Suffix(line, RecentWindow)]
  BY Zenon DEF StateAfter
<1> HIDE DEF line
<1>14. Totals(HeaderAt(t, k)).work = TotalWork[HeaderAt(t, k)] /\ Totals(HeaderAt(t, k)).weight = TotalWeight[HeaderAt(t, k)]
  BY Zenon DEF Totals
<1>15. StateAfter(v, r) = StateOf(HeaderAt(t, k))
  BY <1>9, <1>10, <1>12, <1>13, <1>14, Zenon DEF StateOf, high
<1>16. QED
  BY <1>15, Zenon DEF v, r

(* The state rebuilt from the nearest checkpoint is that of the whole line, *)
(* and the checkpoint is on the chain.                                      *)
LEMMA StateAtHeightIs ==
  ASSUME NEW c, Follows(c), NEW h \in 0 .. HeightOf(c.tip)
  PROVE  StateAtHeight(c, h) = StateOf(HeaderAt(c.tip, h)) /\ CheckpointMatches(c, h)
<1> DEFINE t == c.tip
           points == c.checkpoints
           I == {i \in 1 .. Len(points) : points[i].height <= h}
           m == Max(I)
           y == (m - 1) * CheckpointInterval
           x == HeaderAt(t, h)
           below == CheckpointBelow(c, h)
           headers == SubSeq(Line[t], 1, h + 1)
<1>1. t \in Block /\ Marked(t, points)
  BY Zenon DEF Follows
<1>2. HeightOf(t) \in Nat /\ h \in Nat
  BY <1>1, OwnLine
<1>3. CheckpointInterval \in Nat /\ CheckpointInterval > 0
  BY HeaderSyncAssumption
<1>4. points \in Seq(CheckpointSet) /\ Len(points) > 0
  BY <1>1, Zenon DEF Marked
<1>5. \A i \in 1 .. Len(points) : points[i] = CheckpointOf(t, (i - 1) * CheckpointInterval)
  BY <1>1, Zenon DEF Marked
<1>6. \A i \in 1 .. Len(points) : points[i].height = (i - 1) * CheckpointInterval
  BY <1>5, CheckpointFields
<1>7. Len(points) \in Nat
  BY <1>4
<1>8. m \in I
  <2>1. 1 \in 1 .. Len(points) /\ (1 - 1) * CheckpointInterval = 0
    BY <1>3, <1>4, <1>7
  <2>2. 1 \in I
    BY <1>2, <1>6, <2>1
  <2>3. I \subseteq 1 .. Len(points)
    BY Zenon
  <2> HIDE DEF I
  <2>4. I \in SUBSET Nat /\ I # {} /\ \A n \in I : n <= Len(points)
    BY <1>7, <2>2, <2>3
  <2>5. QED
    BY <1>7, <2>4, MaxIs, Zenon
<1> HIDE DEF m
<1>9. m \in 1 .. Len(points) /\ points[m].height <= h
  BY <1>8, Zenon
<1>10. m - 1 \in Nat /\ y \in Nat /\ y <= h
  <2>1. m - 1 \in Nat
    BY <1>7, <1>9
  <2>2. QED
    BY <1>3, <1>6, <1>9, <2>1, MultipleStep, Zenon
<1> HIDE DEF y
<1>11. below = CheckpointOf(t, y)
  BY <1>5, <1>9, Zenon DEF CheckpointBelow, m, y
<1>12. below.height = y /\ below.hash = HeaderAt(t, y)
  BY <1>11, CheckpointFields
<1>13. y \in 0 .. HeightOf(t) /\ y \in 0 .. h
  BY <1>2, <1>10
<1>14. x \in Block /\ HeightOf(x) = h /\ Line[x] = headers
  BY <1>1, OnTheLine, Zenon
<1>15. HeaderAt(x, y) = HeaderAt(t, y) /\ HeaderAt(x, h) = x
  <2>1. HeaderAt(x, y) = HeaderAt(t, y)
    BY <1>1, <1>13, LowerHeaders, Zenon
  <2>2. HeaderAt(x, HeightOf(x)) = x
    BY <1>14, OwnLine, Zenon
  <2>3. QED
    BY <1>14, <2>1, <2>2, Zenon
<1> HIDE DEF below, x
<1>16. [work |-> below.work, weight |-> below.weight] = Totals(HeaderAt(x, y))
  BY <1>11, <1>15, Zenon DEF CheckpointOf, Totals
<1>17. AddHeaders(Totals(HeaderAt(x, y)), Part(x, y, h)) = Totals(x)
  <2>1. y \in 0 .. HeightOf(x) /\ h \in y .. HeightOf(x)
    BY <1>2, <1>10, <1>13, <1>14
  <2>2. AddHeaders(Totals(HeaderAt(x, y)), Part(x, y, h)) = Totals(HeaderAt(x, h))
    BY <1>14, <2>1, AddsUp, Zenon
  <2>3. QED
    BY <1>15, <2>2, Zenon
<1>18. SubSeq(headers, below.height + 2, h + 1) = Part(x, y, h)
  BY <1>12, <1>14, Zenon DEF Part
<1>19. CheckpointMatches(c, h)
  BY <1>12, Zenon DEF CheckpointMatches, below
<1>20. AddHeaders([work |-> below.work, weight |-> below.weight], SubSeq(headers, below.height + 2, h + 1)) = Totals(x)
  BY <1>16, <1>17, <1>18, Zenon
<1>21. Totals(x).work = TotalWork[x] /\ Totals(x).weight = TotalWeight[x]
  BY Zenon DEF Totals
<1>22. Suffix(headers, RecentWindow) = Suffix(Line[x], RecentWindow)
  BY <1>14, Zenon
<1>23. StateAtHeight(c, h) = StateOf(x)
  BY <1>20, <1>21, <1>22, Zenon DEF StateAtHeight, StateOf, below, x
<1>24. QED
  BY <1>19, <1>23, Zenon DEF x

-----------------------------------------------------------------------------
(* The first boundary of an epoch is a whole window above genesis. *)
LEMMA FirstBoundary ==
  ASSUME NEW n \in Nat, NEW w \in Nat, w > 0, n > 0, n % w = 0
  PROVE  n >= w
OBVIOUS

(* The window of a boundary lies above genesis and below it. *)
LEMMA WindowAboveGenesis ==
  ASSUME NEW n \in Nat, IsEpochBoundary(n), NEW k \in n - WbdaWindow .. n - 1
  PROVE  k \in 1 .. n - 1 /\ k >= n - WbdaWindow
<1>1. n > 1 /\ (n - 1) % WbdaWindow = 0
  BY Zenon DEF IsEpochBoundary
<1>2. n - 1 \in Nat /\ n - 1 > 0
  BY <1>1
<1>3. n - 1 >= WbdaWindow
  BY <1>1, <1>2, WindowPositive, FirstBoundary, Zenon
<1>4. QED
  BY <1>3, WindowPositive

(* The target depends on the weights of one window only. *)
LEMMA SameTarget ==
  ASSUME NEW n \in Nat, NEW bits, NEW v, NEW w,
         \A k \in 1 .. n - 1 : k >= n - WbdaWindow => v[k] = w[k]
  PROVE  ExpectedDifficulty(n, bits, v) = ExpectedDifficulty(n, bits, w)
<1>1. CASE IsEpochBoundary(n)
  <2>1. ASSUME NEW i \in 1 .. WbdaWindow
        PROVE  v[n - WbdaWindow + i - 1] = w[n - WbdaWindow + i - 1]
    <3>1. n - WbdaWindow + i - 1 \in n - WbdaWindow .. n - 1
      BY WindowPositive
    <3>2. /\ n - WbdaWindow + i - 1 \in 1 .. n - 1
          /\ n - WbdaWindow + i - 1 >= n - WbdaWindow
      BY <1>1, <3>1, WindowAboveGenesis, Zenon
    <3>3. QED
      BY <3>2, Zenon
  <2>2. [i \in 1 .. WbdaWindow |-> v[n - WbdaWindow + i - 1]]
          = [i \in 1 .. WbdaWindow |-> w[n - WbdaWindow + i - 1]]
    BY <2>1, Zenon
  <2>3. QED
    BY <2>2, Zenon DEF ExpectedDifficulty
<1>2. CASE ~ IsEpochBoundary(n)
  BY <1>2, Zenon DEF ExpectedDifficulty
<1>3. QED
  BY <1>1, <1>2, Zenon

(* The weights along a line, and what makes one header valid on its own     *)
(* line.                                                                    *)
Weights(t) == [h \in 0 .. HeightOf(t) |-> BlockWeight[HeaderAt(t, h)]]

(* A header that is valid on the line that ends in it. *)
ValidHeader(x) ==
  /\ ValidWeight(BlockWeight[x])
  /\ x \notin WithoutPow
  /\ Bits[x] = ExpectedDifficulty(HeightOf(x), Bits[Parent(x)], Weights(x))

(* The target of a header of a line, from the weights of the whole line. *)
LEMMA TargetOnLine ==
  ASSUME NEW t \in Block, NEW k \in 1 .. HeightOf(t)
  PROVE  ExpectedDifficulty(k, Bits[Parent(HeaderAt(t, k))], Weights(t))
           = ExpectedDifficulty(k, Bits[Parent(HeaderAt(t, k))], Weights(HeaderAt(t, k)))
<1>1. HeightOf(t) \in Nat /\ k \in Nat /\ k \in 0 .. HeightOf(t)
  BY OwnLine
<1>2. HeightOf(HeaderAt(t, k)) = k
  BY <1>1, OnTheLine, Zenon
<1>3. ASSUME NEW j \in 1 .. k - 1
      PROVE  Weights(t)[j] = Weights(HeaderAt(t, k))[j]
  <2>1. j \in 0 .. HeightOf(t) /\ j \in 0 .. k
    BY <1>1
  <2>2. HeaderAt(HeaderAt(t, k), j) = HeaderAt(t, j)
    BY <1>1, <2>1, LowerHeaders, Zenon
  <2>3. QED
    BY <1>2, <2>1, <2>2, Zenon DEF Weights
<1> DEFINE v == Weights(t)
           w == Weights(HeaderAt(t, k))
           bits == Bits[Parent(HeaderAt(t, k))]
<1> HIDE DEF v, w, bits
<1>4. \A j \in 1 .. k - 1 : j >= k - WbdaWindow => v[j] = w[j]
  BY <1>3, Zenon DEF v, w
<1>5. ExpectedDifficulty(k, bits, v) = ExpectedDifficulty(k, bits, w)
  BY <1>1, <1>4, SameTarget
<1>6. QED
  BY <1>5, Zenon DEF v, w, bits

(* A line is valid when each of its headers is, on the line up to it. *)
LEMMA ValidLineIs ==
  ASSUME NEW t \in Block
  PROVE  ValidLine(t) <=> \A k \in 1 .. HeightOf(t) : ValidHeader(HeaderAt(t, k))
<1>1. HeightOf(t) \in Nat /\ Len(Line[t]) = HeightOf(t) + 1 /\ Line[t] \in Seq(Block)
  BY OwnLine, LineShape, Zenon
<1>2. Range(Line[t]) = {Line[t][i] : i \in 1 .. Len(Line[t])}
  <2>1. DOMAIN Line[t] = 1 .. Len(Line[t])
    BY <1>1
  <2>2. QED
    BY <2>1, Zenon DEF Range
<1>3. ASSUME NEW x
      PROVE  x \in Range(Line[t]) \ {Genesis} <=> \E k \in 1 .. HeightOf(t) : x = HeaderAt(t, k)
  <2>1. ASSUME x \in Range(Line[t]) \ {Genesis} PROVE \E k \in 1 .. HeightOf(t) : x = HeaderAt(t, k)
    <3>1. PICK i \in 1 .. Len(Line[t]) : x = Line[t][i]
      BY <1>2, <2>1, Zenon
    <3>2. i # 1
      BY <2>1, <3>1, LineShape, Zenon
    <3>3. i - 1 \in 1 .. HeightOf(t) /\ (i - 1) + 1 = i
      BY <1>1, <3>2
    <3>4. x = HeaderAt(t, i - 1)
      BY <3>1, <3>3, Zenon DEF HeaderAt
    <3>5. QED
      BY <3>3, <3>4, Zenon
  <2>2. ASSUME NEW k \in 1 .. HeightOf(t), x = HeaderAt(t, k) PROVE x \in Range(Line[t]) \ {Genesis}
    <3>1. k \in 0 .. HeightOf(t) /\ k # 0 /\ k + 1 \in 1 .. Len(Line[t])
      BY <1>1
    <3>2. HeightOf(x) # 0
      BY <2>2, <3>1, OnTheLine, Zenon
    <3>3. x # Genesis
      BY <3>2, GenesisHeight, Zenon
    <3>4. QED
      BY <1>2, <2>2, <3>1, <3>3, Zenon DEF HeaderAt
  <2>3. QED
    BY <2>1, <2>2, Zenon
<1>4. ASSUME NEW k \in 1 .. HeightOf(t)
      PROVE  ValidHeader(HeaderAt(t, k)) <=>
               /\ ValidWeight(BlockWeight[HeaderAt(t, k)])
               /\ HeaderAt(t, k) \notin WithoutPow
               /\ Bits[HeaderAt(t, k)]
                    = ExpectedDifficulty(HeightOf(HeaderAt(t, k)), Bits[Parent(HeaderAt(t, k))], Weights(t))
  <2>1. k \in 0 .. HeightOf(t)
    BY <1>1
  <2>2. HeightOf(HeaderAt(t, k)) = k
    BY <2>1, OnTheLine, Zenon
  <2>3. ExpectedDifficulty(k, Bits[Parent(HeaderAt(t, k))], Weights(t))
          = ExpectedDifficulty(k, Bits[Parent(HeaderAt(t, k))], Weights(HeaderAt(t, k)))
    BY TargetOnLine, Zenon
  <2>4. QED
    BY <2>2, <2>3, Zenon DEF ValidHeader
<1> DEFINE Good(x) == /\ ValidWeight(BlockWeight[x])
                      /\ x \notin WithoutPow
                      /\ Bits[x] = ExpectedDifficulty(HeightOf(x), Bits[Parent(x)], Weights(t))
<1>5. ValidLine(t) <=> \A x \in Range(Line[t]) \ {Genesis} : Good(x)
  BY Zenon DEF ValidLine, Weights
<1>6. \A k \in 1 .. HeightOf(t) : ValidHeader(HeaderAt(t, k)) <=> Good(HeaderAt(t, k))
  BY <1>4, Zenon
<1> HIDE DEF Good
<1>7. QED
  BY <1>3, <1>5, <1>6, Zenon

(* The recent headers name the weights of the last RecentWindow heights. *)
LEMMA RecentWeightIs ==
  ASSUME NEW x \in Block, NEW h \in 0 .. HeightOf(x), h > HeightOf(x) - RecentWindow
  PROVE  /\ h \in DOMAIN RecentWeights(Suffix(Line[x], RecentWindow))
         /\ RecentWeights(Suffix(Line[x], RecentWindow))[h] = BlockWeight[HeaderAt(x, h)]
<1> DEFINE q == Line[x]
           s2 == Suffix(q, RecentWindow)
           lo == From(Len(q), RecentWindow)
<1>1. HeightOf(x) \in Nat /\ Len(q) = HeightOf(x) + 1 /\ q \in Seq(Block)
  BY OwnLine, LineShape, Zenon
<1>2. Len(q) \in Nat /\ RecentWindow \in Nat
  BY <1>1, WindowPositive
<1>3. /\ s2 \in Seq(Block) /\ Len(s2) = Len(q) - lo + 1
      /\ \A k \in 1 .. Len(q) - lo + 1 : s2[k] = q[lo + k - 1]
  BY <1>1, <1>2, SuffixPlaces, Zenon
<1>4. /\ lo \in Nat /\ lo >= 1 /\ lo <= Len(q) + 1
      /\ Len(q) - RecentWindow + 1 > 1 => lo = Len(q) - RecentWindow + 1
      /\ ~ (Len(q) - RecentWindow + 1 > 1) => lo = 1
  BY <1>2, FromIs, Zenon
<1> HIDE DEF lo
<1>5. Range(s2) = {s2[i] : i \in 1 .. Len(s2)}
  <2>1. DOMAIN s2 = 1 .. Len(s2)
    BY <1>3
  <2>2. QED
    BY <2>1, Zenon DEF Range
<1> HIDE DEF s2
<1>6. ASSUME NEW y \in Range(s2)
      PROVE  y \in Block /\ HeaderAt(x, HeightOf(y)) = y
  <2>1. PICK i \in 1 .. Len(s2) : y = s2[i]
    BY <1>5, Zenon
  <2>2. i \in 1 .. Len(q) - lo + 1 /\ lo + i - 1 \in 1 .. Len(q)
    BY <1>2, <1>3, <1>4, <2>1
  <2>3. y = q[lo + i - 1]
    BY <1>3, <2>1, <2>2, Zenon
  <2>4. lo + i - 2 \in 0 .. HeightOf(x) /\ (lo + i - 2) + 1 = lo + i - 1
    BY <1>1, <1>4, <2>2
  <2>5. y = HeaderAt(x, lo + i - 2)
    BY <2>3, <2>4, Zenon DEF HeaderAt
  <2>6. HeaderAt(x, lo + i - 2) \in Block /\ HeightOf(HeaderAt(x, lo + i - 2)) = lo + i - 2
    BY <2>4, OnTheLine, Zenon
  <2>7. QED
    BY <2>5, <2>6, Zenon
<1>7. HeaderAt(x, h) \in Range(s2)
  <2>0. HeightOf(x) \in Nat /\ Len(q) = HeightOf(x) + 1 /\ Len(s2) = Len(q) - lo + 1
    BY <1>1, <1>3, Zenon
  <2>1. h + 2 - lo \in 1 .. Len(q) - lo + 1 /\ lo + (h + 2 - lo) - 1 = h + 1
    BY <1>2, <1>4, <2>0, SMTT(30), SMTT(60)
  <2>2. s2[h + 2 - lo] = HeaderAt(x, h)
    BY <1>3, <2>1, Zenon DEF HeaderAt
  <2>3. QED
    BY <1>5, <2>0, <2>1, <2>2, Zenon
<1>8. HeightOf(HeaderAt(x, h)) = h
  BY OnTheLine, Zenon
<1> DEFINE z == CHOOSE y \in Range(s2) : HeightOf(y) = h
<1>9. z \in Range(s2) /\ HeightOf(z) = h
  BY <1>7, <1>8, Zenon
<1>10. z = HeaderAt(x, h)
  BY <1>6, <1>9, Zenon
<1>11. h \in {HeightOf(y) : y \in Range(s2)}
  BY <1>7, <1>8, Zenon
<1>12. /\ h \in DOMAIN RecentWeights(s2)
       /\ RecentWeights(s2)[h] = BlockWeight[z]
  BY <1>11, Zenon DEF RecentWeights
<1>13. QED
  BY <1>10, <1>12, Zenon DEF s2

(* The window suffices: judged by the recent headers of its parent's state, *)
(* a header is accepted exactly when it is valid on its whole line.         *)
LEMMA AcceptsIs ==
  ASSUME NEW x \in Block, HeightOf(x) # 0
  PROVE  AcceptsHeader(StateOf(Parent(x)), x) <=> ValidHeader(x)
<1> DEFINE n == HeightOf(x)
           p == Parent(x)
           seen == RecentWeights(Suffix(Line[p], RecentWindow))
           w == Weights(x)
           bits == Bits[p]
<1>1. /\ p \in Block /\ HeightOf(p) = n - 1 /\ n - 1 \in Nat /\ n \in Nat
      /\ p = HeaderAt(x, n - 1)
  BY ParentOf, OwnLine, Zenon
<1>2. StateOf(p).header = p /\ StateOf(p).recent = Suffix(Line[p], RecentWindow)
  BY StateFields, Zenon
<1>3. ASSUME NEW k \in 1 .. n - 1, k >= n - WbdaWindow
      PROVE  k \in DOMAIN seen /\ seen[k] = w[k]
  <2>1. k \in 0 .. HeightOf(p) /\ k > HeightOf(p) - RecentWindow
    BY <1>1, <1>3, WindowPositive
  <2>2. k \in DOMAIN seen /\ seen[k] = BlockWeight[HeaderAt(p, k)]
    BY <1>1, <2>1, RecentWeightIs, Zenon
  <2>3. n - 1 \in 0 .. HeightOf(x) /\ k \in 0 .. n - 1 /\ k \in 0 .. HeightOf(x)
    BY <1>1
  <2>4. HeaderAt(HeaderAt(x, n - 1), k) = HeaderAt(x, k)
    BY <2>3, LowerHeaders, Zenon
  <2>5. w[k] = BlockWeight[HeaderAt(x, k)]
    BY <2>3, Zenon DEF Weights
  <2>6. QED
    BY <1>1, <2>2, <2>4, <2>5, Zenon
<1> HIDE DEF seen, w, bits, p
<1>4. ExpectedDifficulty(n, bits, seen) = ExpectedDifficulty(n, bits, w)
  <2>1. \A k \in 1 .. n - 1 : k >= n - WbdaWindow => seen[k] = w[k]
    BY <1>3, Zenon
  <2> HIDE DEF n
  <2>2. QED
    BY <1>1, <2>1, SameTarget
<1>5. WindowVisible(n, seen)
  <2>1. ASSUME IsEpochBoundary(n), NEW k \in n - WbdaWindow .. n - 1 PROVE k \in DOMAIN seen
    <3>1. k \in 1 .. n - 1 /\ k >= n - WbdaWindow
      BY <1>1, <2>1, WindowAboveGenesis, Zenon
    <3>2. QED
      BY <1>3, <3>1, Zenon
  <2>2. QED
    BY <2>1, Zenon DEF WindowVisible, WindowHeights
<1>6. AcceptsHeader(StateOf(p), x) <=>
        /\ ValidWeight(BlockWeight[x])
        /\ WindowVisible(n, seen)
        /\ Bits[x] = ExpectedDifficulty(n, bits, seen)
        /\ x \notin WithoutPow
  BY <1>2, Zenon DEF AcceptsHeader, seen, bits, p
<1>7. ValidHeader(x) <=>
        /\ ValidWeight(BlockWeight[x])
        /\ x \notin WithoutPow
        /\ Bits[x] = ExpectedDifficulty(n, bits, w)
  BY Zenon DEF ValidHeader, bits, w, p
<1>8. QED
  BY <1>4, <1>5, <1>6, <1>7, Zenon DEF p

(* The first headers of a part of a line, and parts that meet. *)
LEMMA PartPrefix ==
  ASSUME NEW t \in Block, NEW h \in 0 .. HeightOf(t), NEW k \in h .. HeightOf(t),
         NEW n \in 0 .. k - h
  PROVE  SubSeq(Part(t, h, k), 1, n) = Part(t, h, h + n) /\ h + n \in h .. HeightOf(t)
<1> DEFINE r == Part(t, h, k)
           p == SubSeq(r, 1, n)
           q == Part(t, h, h + n)
<1>1. HeightOf(t) \in Nat /\ h \in Nat /\ k \in Nat /\ h <= k /\ n \in Nat
  BY OwnLine
<1>2. r \in Seq(Block) /\ Len(r) = k - h /\ \A i \in 1 .. k - h : r[i] = HeaderAt(t, h + i)
  BY PartPlaces, Zenon
<1>3. n \in 0 .. Len(r) /\ (h + n) - h = n /\ h + n \in h .. HeightOf(t)
  BY <1>1, <1>2
<1> HIDE DEF r
<1>4. p \in Seq(Block) /\ Len(p) = n /\ \A j \in 1 .. n : p[j] = r[j]
  BY <1>2, <1>3, PrefixPlaces, Zenon
<1>5. /\ q \in Seq(Block) /\ Len(q) = (h + n) - h
      /\ \A j \in 1 .. (h + n) - h : q[j] = HeaderAt(t, h + j)
  BY <1>3, PartPlaces, Zenon
<1> HIDE DEF p, q
<1>6. ASSUME NEW j \in 1 .. Len(p) PROVE p[j] = q[j]
  <2>1. j \in 1 .. n /\ j \in 1 .. k - h
    BY <1>1, <1>4
  <2>2. QED
    BY <1>2, <1>3, <1>4, <1>5, <2>1, Zenon
<1>7. p = q
  BY <1>3, <1>4, <1>5, <1>6, SamePlaces, Zenon
<1>8. QED
  BY <1>3, <1>7, Zenon DEF p, q, r

(* Two parts of a line in a row. *)
LEMMA PartsMeet ==
  ASSUME NEW t \in Block, NEW h \in 0 .. HeightOf(t), NEW m \in h .. HeightOf(t),
         NEW k \in m .. HeightOf(t)
  PROVE  Part(t, h, m) \o Part(t, m, k) = Part(t, h, k)
<1> DEFINE p == Part(t, h, m)
           r == Part(t, m, k)
           q == Part(t, h, k)
           j == p \o r
<1>1. /\ HeightOf(t) \in Nat /\ h \in Nat /\ m \in Nat /\ k \in Nat /\ h <= m /\ m <= k
      /\ m \in 0 .. HeightOf(t) /\ k \in h .. HeightOf(t)
  BY OwnLine
<1>2. p \in Seq(Block) /\ Len(p) = m - h /\ \A i \in 1 .. m - h : p[i] = HeaderAt(t, h + i)
  BY PartPlaces, Zenon
<1>3. r \in Seq(Block) /\ Len(r) = k - m /\ \A i \in 1 .. k - m : r[i] = HeaderAt(t, m + i)
  BY <1>1, PartPlaces, Zenon
<1>4. q \in Seq(Block) /\ Len(q) = k - h /\ \A i \in 1 .. k - h : q[i] = HeaderAt(t, h + i)
  BY <1>1, PartPlaces, Zenon
<1> HIDE DEF p, q, r
<1>5. /\ j \in Seq(Block) /\ Len(j) = Len(p) + Len(r)
      /\ \A i \in 1 .. Len(p) : j[i] = p[i]
      /\ \A i \in Len(p) + 1 .. Len(p) + Len(r) : j[i] = r[i - Len(p)]
  BY <1>2, <1>3, JoinPlaces, Zenon
<1> HIDE DEF j
<1>6. Len(j) = k - h
  BY <1>1, <1>2, <1>3, <1>5
<1>7. ASSUME NEW i \in 1 .. Len(j) PROVE j[i] = q[i]
  <2>1. i \in 1 .. k - h
    BY <1>6, Zenon
  <2>2. CASE i <= m - h
    <3>1. i \in 1 .. m - h
      BY <1>1, <2>1, <2>2
    <3>2. QED
      BY <1>2, <1>4, <1>5, <2>1, <3>1, Zenon
  <2>3. CASE ~ (i <= m - h)
    <3>1. /\ i \in Len(p) + 1 .. Len(p) + Len(r) /\ i - Len(p) \in 1 .. k - m
          /\ m + (i - Len(p)) = h + i
      BY <1>1, <1>2, <1>3, <2>1, <2>3
    <3>2. QED
      BY <1>3, <1>4, <1>5, <2>1, <3>1, Zenon
  <2>4. QED
    BY <2>2, <2>3, Zenon
<1>8. j = q
  BY <1>4, <1>5, <1>6, <1>7, SamePlaces, Zenon
<1>9. QED
  BY <1>8, Zenon DEF j, p, q, r

(* A chunk of a line on top of the state below it: accepted exactly when    *)
(* all of its headers are valid, and then the state is that of its tip.     *)
LEMMA AdvanceIs ==
  ASSUME NEW t \in Block, NEW h \in 0 .. HeightOf(t), NEW k \in h .. HeightOf(t)
  PROVE  Advance(StateOf(HeaderAt(t, h)), Part(t, h, k))
           = IF \A j \in h + 1 .. k : ValidHeader(HeaderAt(t, j))
             THEN {StateOf(HeaderAt(t, k))} ELSE {}
<1> DEFINE v == StateOf(HeaderAt(t, h))
           r == Part(t, h, k)
           Yes(i) == AcceptsHeader(StateAfter(v, SubSeq(r, 1, i - 1)), r[i])
<1>1. HeightOf(t) \in Nat /\ h \in Nat /\ k \in Nat /\ h <= k
  BY OwnLine
<1>2. r \in Seq(Block) /\ Len(r) = k - h /\ \A i \in 1 .. k - h : r[i] = HeaderAt(t, h + i)
  BY PartPlaces, Zenon
<1>3. StateAfter(v, r) = StateOf(HeaderAt(t, k))
  BY StateAfterIs, Zenon
<1>4. ASSUME NEW i \in 1 .. k - h PROVE Yes(i) <=> ValidHeader(HeaderAt(t, h + i))
  <2>1. /\ h + (i - 1) \in h .. HeightOf(t) /\ h + i \in 1 .. HeightOf(t) /\ h + i \in 0 .. HeightOf(t)
        /\ (h + i) - 1 = h + (i - 1) /\ h + i # 0
    BY <1>1
  <2>2. SubSeq(r, 1, i - 1) = Part(t, h, h + (i - 1))
    <3>1. i - 1 \in 0 .. k - h
      BY <1>1
    <3>2. QED
      BY <3>1, PartPrefix, Zenon
  <2>3. StateAfter(v, Part(t, h, h + (i - 1))) = StateOf(HeaderAt(t, h + (i - 1)))
    BY <2>1, StateAfterIs, Zenon
  <2>4. HeaderAt(t, h + i) \in Block /\ HeightOf(HeaderAt(t, h + i)) = h + i
    BY <2>1, OnTheLine, Zenon
  <2>5. Parent(HeaderAt(t, h + i)) = HeaderAt(t, (h + i) - 1)
    BY <2>1, ParentOnLine, Zenon
  <2>6. HeightOf(HeaderAt(t, h + i)) # 0
    BY <2>1, <2>4, Zenon
  <2>7. AcceptsHeader(StateOf(Parent(HeaderAt(t, h + i))), HeaderAt(t, h + i)) <=> ValidHeader(HeaderAt(t, h + i))
    BY <2>4, <2>6, AcceptsIs, Zenon
  <2>8. StateAfter(v, SubSeq(r, 1, i - 1)) = StateOf(Parent(HeaderAt(t, h + i))) /\ r[i] = HeaderAt(t, h + i)
    BY <1>2, <2>1, <2>2, <2>3, <2>5, Zenon
  <2>9. QED
    BY <2>7, <2>8, Zenon
<1>5. Advance(v, r) = IF \A i \in 1 .. k - h : Yes(i) THEN {StateAfter(v, r)} ELSE {}
  BY <1>2, Zenon DEF Advance
<1> HIDE DEF Yes, v, r
<1>6. (\A i \in 1 .. k - h : Yes(i)) <=> (\A j \in h + 1 .. k : ValidHeader(HeaderAt(t, j)))
  <2>1. ASSUME \A i \in 1 .. k - h : Yes(i), NEW j \in h + 1 .. k PROVE ValidHeader(HeaderAt(t, j))
    <3>1. j - h \in 1 .. k - h /\ h + (j - h) = j
      BY <1>1
    <3>2. Yes(j - h) <=> ValidHeader(HeaderAt(t, h + (j - h)))
      BY <1>4, <3>1, Zenon
    <3>3. QED
      BY <2>1, <3>1, <3>2, Zenon
  <2>2. ASSUME \A j \in h + 1 .. k : ValidHeader(HeaderAt(t, j)), NEW i \in 1 .. k - h PROVE Yes(i)
    <3>1. h + i \in h + 1 .. k
      BY <1>1
    <3>2. QED
      BY <1>4, <2>2, <3>1, Zenon
  <2>3. QED
    BY <2>1, <2>2, Zenon
<1>7. QED
  BY <1>3, <1>5, <1>6, Zenon DEF v, r

-----------------------------------------------------------------------------
(* The entries of a locator, place by place. *)
NextEntry(e, i) ==
  [height |-> Max({0, e.height - e.step}),
   step   |-> IF i - 1 >= DenseLocator THEN 2 * e.step ELSE e.step]

(* The first entry of a locator, and all of them. *)
FirstEntry(t) == [height |-> HeightOf(t), step |-> 1]

(* The checkpoints of a chain, built one after the other. *)
Entries(f, t, n) ==
  f = [i \in 1 .. n |-> IF i = 1 THEN FirstEntry(t) ELSE NextEntry(f[i - 1], i)]

(* There is such a list of entries. *)
LEMMA EntriesExist ==
  ASSUME NEW t, NEW n \in Nat
  PROVE  \E f : Entries(f, t, n)
<1> DEFINE S == {k \in Nat : \E f : Entries(f, t, k)}
<1>1. 0 \in S
  <2> DEFINE f == [i \in 1 .. 0 |-> 0]
  <2>1. f = [i \in 1 .. 0 |-> IF i = 1 THEN FirstEntry(t) ELSE NextEntry(f[i - 1], i)]
    OBVIOUS
  <2>2. Entries(f, t, 0)
    BY <2>1, Zenon DEF Entries
  <2>3. QED
    BY <2>2, Zenon
<1>2. ASSUME NEW k \in Nat, k \in S PROVE k + 1 \in S
  <2>1. PICK f : Entries(f, t, k)
    BY <1>2, Zenon
  <2>2. f = [i \in 1 .. k |-> IF i = 1 THEN FirstEntry(t) ELSE NextEntry(f[i - 1], i)]
    BY <2>1, Zenon DEF Entries
  <2> DEFINE g == [i \in 1 .. k + 1 |->
                     IF i = k + 1 THEN IF k = 0 THEN FirstEntry(t) ELSE NextEntry(f[k], k + 1) ELSE f[i]]
  <2>3. ASSUME NEW i \in 1 .. k + 1
        PROVE  g[i] = IF i = 1 THEN FirstEntry(t) ELSE NextEntry(g[i - 1], i)
    <3>1. CASE i = k + 1
      <4>1. i - 1 = k /\ (k # 0 => i # 1 /\ g[i - 1] = f[k]) /\ (k = 0 => i = 1)
        BY <3>1
      <4>2. g[i] = IF k = 0 THEN FirstEntry(t) ELSE NextEntry(f[k], k + 1)
        BY <3>1, Zenon
      <4>3. QED
        BY <3>1, <4>1, <4>2, Zenon
    <3>2. CASE i # k + 1
      <4>1. i \in 1 .. k /\ g[i] = f[i] /\ (i # 1 => g[i - 1] = f[i - 1])
        BY <3>2
      <4>2. f[i] = IF i = 1 THEN FirstEntry(t) ELSE NextEntry(f[i - 1], i)
        BY <2>2, <4>1, Zenon
      <4>3. QED
        BY <4>1, <4>2, Zenon
    <3>3. QED
      BY <3>1, <3>2, Zenon
  <2>4. g = [i \in 1 .. k + 1 |-> IF i = 1 THEN FirstEntry(t) ELSE NextEntry(g[i - 1], i)]
    <3>1. g = [i \in 1 .. k + 1 |-> g[i]]
      BY Zenon
    <3> HIDE DEF g
    <3>2. QED
      BY <2>3, <3>1, Zenon
  <2> HIDE DEF g
  <2>5. Entries(g, t, k + 1)
    BY <2>4, Zenon DEF Entries
  <2>6. QED
    BY <2>5
<1> HIDE DEF S
<1>3. n \in S
  <2>1. \A k \in 0 .. n : k \in S
    BY <1>1, <1>2, Induct, Zenon
  <2>2. QED
    BY <2>1
<1>4. QED
  BY <1>3, Zenon DEF S

(* A height that does not go below 0. *)
LEMMA MaxWithZero ==
  ASSUME NEW y \in Int, NEW top \in Nat, y <= top
  PROVE  Max({0, y}) \in 0 .. top
<1>1. CASE y <= 0
  <2>1. \A v \in {0, y} : (\A z \in {0, y} : v >= z) => v = 0
    BY <1>1
  <2>2. \A z \in {0, y} : 0 >= z
    BY <1>1
  <2>3. Max({0, y}) = 0
    BY <2>1, <2>2, Zenon DEF Max
  <2>4. QED
    BY <2>3
<1>2. CASE ~ (y <= 0)
  <2>1. \A v \in {0, y} : (\A z \in {0, y} : v >= z) => v = y
    BY <1>2, Zenon
  <2>2. \A z \in {0, y} : y >= z
    BY <1>2
  <2>3. Max({0, y}) = y
    BY <2>1, <2>2, Zenon DEF Max
  <2>4. QED
    BY <1>2, <2>3
<1>3. QED
  BY <1>1, <1>2, Zenon

(* Every entry of a locator is a height of the line. *)
LEMMA EntryHeights ==
  ASSUME NEW t \in Block, NEW n \in Nat, NEW f, Entries(f, t, n), NEW i \in 1 .. n
  PROVE  f[i].height \in 0 .. HeightOf(t)
<1> DEFINE Fits(e) == e.height \in 0 .. HeightOf(t) /\ e.step \in Nat
           S == {k \in Nat : k + 1 \in 1 .. n => Fits(f[k + 1])}
<1>1. HeightOf(t) \in Nat
  BY OwnLine, Zenon
<1>2. \A k \in 1 .. n : f[k] = IF k = 1 THEN FirstEntry(t) ELSE NextEntry(f[k - 1], k)
  BY Zenon DEF Entries
<1>3. Fits(FirstEntry(t))
  BY <1>1 DEF FirstEntry
<1>4. ASSUME NEW e, Fits(e), NEW k \in Nat PROVE Fits(NextEntry(e, k))
  <2>1. e.height - e.step \in Int /\ e.height - e.step <= HeightOf(t)
    BY <1>1, <1>4
  <2>2. Max({0, e.height - e.step}) \in 0 .. HeightOf(t)
    BY <1>1, <2>1, MaxWithZero, Zenon
  <2>3. 2 * e.step \in Nat /\ e.step \in Nat
    BY <1>4
  <2>4. /\ NextEntry(e, k).height = Max({0, e.height - e.step})
        /\ NextEntry(e, k).step = IF k - 1 >= DenseLocator THEN 2 * e.step ELSE e.step
    BY Zenon DEF NextEntry
  <2>5. NextEntry(e, k).step \in Nat
    BY <2>3, <2>4, Zenon
  <2>6. QED
    BY <2>2, <2>4, <2>5, Zenon
<1> HIDE DEF Fits
<1>5. 0 \in S
  <2>1. 0 + 1 = 1
    OBVIOUS
  <2>2. QED
    BY <1>2, <1>3, <2>1, Zenon
<1>6. ASSUME NEW k \in Nat, k \in S PROVE k + 1 \in S
  <2> SUFFICES ASSUME (k + 1) + 1 \in 1 .. n PROVE Fits(f[(k + 1) + 1])
    OBVIOUS
  <2>1. k + 1 \in 1 .. n /\ (k + 1) + 1 # 1 /\ ((k + 1) + 1) - 1 = k + 1 /\ (k + 1) + 1 \in Nat
    OBVIOUS
  <2>2. Fits(f[k + 1])
    BY <1>6, <2>1, Zenon
  <2>3. f[(k + 1) + 1] = NextEntry(f[k + 1], (k + 1) + 1)
    BY <1>2, <2>1, Zenon
  <2>4. QED
    BY <1>4, <2>1, <2>2, <2>3, ZenonT(40)
<1> HIDE DEF S
<1>7. \A k \in 0 .. n : k \in S
  BY <1>5, <1>6, Induct, Zenon
<1>8. i - 1 \in 0 .. n /\ (i - 1) + 1 = i
  OBVIOUS
<1>9. i - 1 \in S
  BY <1>7, <1>8, Zenon
<1>10. Fits(f[i])
  BY <1>8, <1>9, Zenon DEF S
<1>11. QED
  BY <1>10, Zenon DEF Fits

(* The headers of a line are on it. *)
LEMMA OnLineAt ==
  ASSUME NEW t \in Block, NEW k \in 0 .. HeightOf(t)
  PROVE  HeaderAt(t, k) \in Block /\ OnLine(HeaderAt(t, k), t)
<1>1. HeaderAt(t, k) \in Block /\ HeightOf(HeaderAt(t, k)) = k /\ k <= HeightOf(t)
  BY OnTheLine, OwnLine
<1>2. QED
  BY <1>1, Zenon DEF OnLine

(* A header on a line is there at its own height. *)
LEMMA OnLinePlace ==
  ASSUME NEW t \in Block, NEW x \in Block, OnLine(x, t)
  PROVE  HeightOf(x) \in 0 .. HeightOf(t) /\ HeaderAt(t, HeightOf(x)) = x
<1>1. HeightOf(x) \in Nat /\ HeightOf(t) \in Nat
  BY OwnLine, Zenon
<1>2. QED
  BY <1>1 DEF OnLine

(* Genesis is on every line. *)
LEMMA GenesisOnLine ==
  ASSUME NEW t \in Block
  PROVE  OnLine(Genesis, t) /\ HeaderAt(t, 0) = Genesis
<1>1. HeightOf(t) \in Nat /\ Line[t][1] = Genesis
  BY OwnLine, LineShape, Zenon
<1>2. HeaderAt(t, 0) = Genesis
  BY <1>1 DEF HeaderAt
<1>3. 0 \in 0 .. HeightOf(t)
  BY <1>1
<1>4. QED
  BY <1>2, <1>3, OnLineAt, Zenon

(* A locator names headers of the line it is made for, genesis among them. *)
LEMMA LocatorIs ==
  ASSUME NEW t \in Block
  PROVE  /\ Genesis \in Locator(t)
         /\ \A x \in Locator(t) : x \in Block /\ OnLine(x, t)
<1> DEFINE n == MaxLocator - 1
           f == CHOOSE g : Entries(g, t, n)
<1>1. n \in Nat
  BY HeaderSyncAssumption
<1>2. Entries(f, t, n)
  BY <1>1, EntriesExist, Zenon
<1>3. Locator(t) = {HeaderAt(t, f[i].height) : i \in 1 .. n} \cup {Genesis}
  BY Zenon DEF Locator, Entries, FirstEntry, NextEntry
<1> HIDE DEF f, n
<1>4. ASSUME NEW i \in 1 .. n PROVE f[i].height \in 0 .. HeightOf(t)
  BY <1>1, <1>2, EntryHeights, Zenon
<1>5. ASSUME NEW x \in Locator(t) PROVE x \in Block /\ OnLine(x, t)
  <2>1. CASE x = Genesis
    BY <2>1, GenesisOnLine, GenesisHeight, Zenon
  <2>2. CASE x # Genesis
    <3>1. PICK i \in 1 .. n : x = HeaderAt(t, f[i].height)
      BY <1>3, <2>2, Zenon
    <3>2. QED
      BY <1>4, <3>1, OnLineAt, Zenon
  <2>3. QED
    BY <2>1, <2>2, Zenon
<1>6. QED
  BY <1>3, <1>5, Zenon

(* The ancestor a peer names is on its chain and in the locator. *)
LEMMA ServedAncestorIs ==
  ASSUME NEW t \in Block, NEW L, Genesis \in L
  PROVE  /\ ServedAncestor(t, L) \in Block /\ ServedAncestor(t, L) \in L
         /\ OnLine(ServedAncestor(t, L), t)
         /\ \A x \in Block : x \in L /\ OnLine(x, t) => HeightOf(x) <= HeightOf(ServedAncestor(t, L))
<1> DEFINE S == {h \in 0 .. HeightOf(t) : HeaderAt(t, h) \in L}
           m == Max(S)
<1>1. HeightOf(t) \in Nat
  BY OwnLine, Zenon
<1>2. 0 \in S
  BY <1>1, GenesisOnLine
<1>3. S \in SUBSET Nat /\ \A n \in S : n <= HeightOf(t)
  BY <1>1
<1>4. S # {}
  BY <1>2, Zenon
<1>5. m \in S /\ \A n \in S : m >= n
  <2> HIDE DEF S
  <2>1. QED
    BY <1>1, <1>3, <1>4, MaxIs, Zenon
<1>6. ServedAncestor(t, L) = HeaderAt(t, m)
  BY Zenon DEF ServedAncestor
<1> HIDE DEF m
<1>7. m \in 0 .. HeightOf(t) /\ HeaderAt(t, m) \in L
  BY <1>5, Zenon
<1>8. HeaderAt(t, m) \in Block /\ OnLine(HeaderAt(t, m), t) /\ HeightOf(HeaderAt(t, m)) = m
  BY <1>7, OnLineAt, OnTheLine, Zenon
<1>9. ASSUME NEW x \in Block, x \in L, OnLine(x, t) PROVE HeightOf(x) <= m
  <2>1. HeightOf(x) \in 0 .. HeightOf(t) /\ HeaderAt(t, HeightOf(x)) = x
    BY <1>9, OnLinePlace, Zenon
  <2>2. HeightOf(x) \in S
    BY <1>9, <2>1, Zenon
  <2>3. m >= HeightOf(x)
    BY <1>5, <2>2, Zenon
  <2>4. QED
    BY <1>7, <2>1, <2>3, Zenon
<1>10. QED
  BY <1>6, <1>7, <1>8, <1>9, Zenon

(* Asked after a header of its own chain, a peer answers from there. *)
LEMMA ServedFromTip ==
  ASSUME NEW t \in Block, NEW x \in Block, OnLine(x, t)
  PROVE  ServedAncestor(t, {x, Genesis}) = x
<1> DEFINE L == {x, Genesis}
           y == ServedAncestor(t, L)
<1>1. /\ y \in Block /\ y \in L /\ OnLine(y, t)
      /\ \A z \in Block : z \in L /\ OnLine(z, t) => HeightOf(z) <= HeightOf(y)
  BY ServedAncestorIs, Zenon
<1> HIDE DEF y
<1>2. HeightOf(x) <= HeightOf(y) /\ (y = x \/ y = Genesis)
  BY <1>1, Zenon
<1>3. CASE y = Genesis
  <2>1. HeightOf(x) \in Nat /\ HeightOf(y) = 0
    BY <1>3, OwnLine, GenesisHeight, Zenon
  <2>2. HeightOf(x) = 0
    BY <1>2, <2>1
  <2>3. x = Genesis
    BY <2>2, OnLinePlace, GenesisOnLine, Zenon
  <2>4. QED
    BY <1>3, <2>3, Zenon DEF y
<1>4. QED
  BY <1>2, <1>3, Zenon DEF y

(* A chunk is the part of the peer's chain above the ancestor, empty only   *)
(* when the ancestor is its tip.                                            *)
LEMMA ServedHeadersIs ==
  ASSUME NEW t \in Block, NEW x \in Block, OnLine(x, t)
  PROVE  \E k \in HeightOf(x) .. HeightOf(t) :
           /\ ServedHeaders(t, x) = Part(t, HeightOf(x), k)
           /\ ServedHeaders(t, x) = <<>> <=> x = t
<1> DEFINE h == HeightOf(x)
           top == HeightOf(t)
           after == HeadersAfter(t, h)
           n == IF Len(after) > MaxChunk THEN MaxChunk ELSE Len(after)
<1>1. h \in 0 .. top /\ HeaderAt(t, h) = x /\ HeaderAt(t, top) = t /\ top \in Nat /\ Len(Line[t]) = top + 1
  BY OnLinePlace, OwnLine, Zenon
<1>2. after = Part(t, h, top)
  BY <1>1, Zenon DEF HeadersAfter, Part
<1>3. top \in h .. top
  BY <1>1
<1>4. Len(after) = top - h
  BY <1>1, <1>2, <1>3, PartPlaces, ZenonT(40)
<1>5. n \in 0 .. top - h /\ (n = 0 <=> h = top)
  BY <1>1, <1>4, HeaderSyncAssumption, SMTT(30), SMTT(60)
<1>6. ServedHeaders(t, x) = SubSeq(after, 1, n)
  BY Zenon DEF ServedHeaders
<1> HIDE DEF after, n
<1>7. SubSeq(Part(t, h, top), 1, n) = Part(t, h, h + n) /\ h + n \in h .. top
  BY <1>1, <1>3, <1>5, PartPrefix, Zenon
<1>8. Len(Part(t, h, h + n)) = (h + n) - h /\ Part(t, h, h + n) \in Seq(Block)
  BY <1>1, <1>7, PartPlaces, Zenon
<1>9. Part(t, h, h + n) = <<>> <=> n = 0
  BY <1>1, <1>5, <1>8
<1>10. h = top <=> x = t
  BY <1>1, Zenon
<1>11. QED
  BY <1>2, <1>5, <1>6, <1>7, <1>9, <1>10, Zenon

(* Validity of a line goes down to its headers and up over valid ones. *)
LEMMA ValidBelow ==
  ASSUME NEW t \in Block, NEW x \in Block, OnLine(x, t), ValidLine(t)
  PROVE  ValidLine(x)
<1>1. HeightOf(x) \in 0 .. HeightOf(t) /\ HeaderAt(t, HeightOf(x)) = x /\ HeightOf(t) \in Nat
  BY OnLinePlace, OwnLine, Zenon
<1>2. ASSUME NEW k \in 1 .. HeightOf(x) PROVE ValidHeader(HeaderAt(x, k))
  <2>1. k \in 1 .. HeightOf(t) /\ k \in 0 .. HeightOf(x)
    BY <1>1
  <2>2. HeaderAt(HeaderAt(t, HeightOf(x)), k) = HeaderAt(t, k)
    BY <1>1, <2>1, LowerHeaders, Zenon
  <2>3. ValidHeader(HeaderAt(t, k))
    BY <2>1, ValidLineIs, Zenon
  <2>4. QED
    BY <1>1, <2>2, <2>3, Zenon
<1>3. QED
  BY <1>2, ValidLineIs, Zenon

(* A valid line with valid headers on top is valid. *)
LEMMA ValidAbove ==
  ASSUME NEW t \in Block, NEW h \in 0 .. HeightOf(t), NEW k \in h .. HeightOf(t),
         ValidLine(HeaderAt(t, h)), \A j \in h + 1 .. k : ValidHeader(HeaderAt(t, j))
  PROVE  ValidLine(HeaderAt(t, k))
<1>1. HeightOf(t) \in Nat /\ h \in Nat /\ k \in Nat /\ h <= k /\ k \in 0 .. HeightOf(t)
  BY OwnLine
<1>2. HeaderAt(t, k) \in Block /\ HeightOf(HeaderAt(t, k)) = k
  BY <1>1, OnTheLine, Zenon
<1>3. HeaderAt(t, h) \in Block /\ HeightOf(HeaderAt(t, h)) = h
  BY <1>1, OnTheLine, Zenon
<1>4. ASSUME NEW j \in 1 .. k PROVE ValidHeader(HeaderAt(HeaderAt(t, k), j))
  <2>1. j \in 0 .. k
    BY <1>1
  <2>2. HeaderAt(HeaderAt(t, k), j) = HeaderAt(t, j)
    BY <1>1, <2>1, LowerHeaders, Zenon
  <2>3. CASE j <= h
    <3>1. j \in 1 .. h /\ j \in 0 .. h
      BY <1>1, <2>3
    <3>2. ValidHeader(HeaderAt(HeaderAt(t, h), j))
      BY <1>3, <3>1, ValidLineIs, Zenon
    <3>3. HeaderAt(HeaderAt(t, h), j) = HeaderAt(t, j)
      BY <3>1, LowerHeaders, Zenon
    <3>4. QED
      BY <2>2, <3>2, <3>3, Zenon
  <2>4. CASE ~ (j <= h)
    <3>1. j \in h + 1 .. k
      BY <1>1, <2>4
    <3>2. QED
      BY <2>2, <3>1, Zenon
  <2>5. QED
    BY <2>3, <2>4, Zenon
<1>5. QED
  BY <1>2, <1>4, ValidLineIs, Zenon

-----------------------------------------------------------------------------
(* The inductive invariant.  The cache is right for a verified chain.       *)
CacheInv == Follows(cache) /\ ValidLine(cache.tip)

(* The fields of a session. *)
IsSession(s) ==
  s = [status |-> s.status, local |-> s.local, peer |-> s.peer, claim |-> s.claim,
       served |-> s.served, locator |-> s.locator, state |-> s.state,
       ancestor |-> s.ancestor, headers |-> s.headers]

(* What a session took when it began: a cache that was right, and totals    *)
(* that are those of the advertised chain and reach the minimums.           *)
Pinned(s) ==
  /\ Follows(s.local) /\ ValidLine(s.local.tip)
  /\ s.peer \in Block /\ s.served \in Block
  /\ s.claim = Totals(s.peer) /\ Allowed(TotalWork[s.peer], TotalWeight[s.peer])

(* The branch taken from an ancestor up to a header of the served chain. *)
Taken(s, base, x) ==
  /\ base \in Block /\ OnLine(base, s.local.tip) /\ OnLine(base, s.served)
  /\ x \in Block /\ OnLine(x, s.served) /\ ValidLine(x) /\ HeightOf(base) <= HeightOf(x)
  /\ s.headers = Part(s.served, HeightOf(base), HeightOf(x))

(* Nothing taken yet, or a verified state whose header the locator names. *)
Progress(s) ==
  \/ /\ s.state = None /\ s.ancestor = None /\ s.headers = <<>>
     /\ s.locator = Locator(s.local.tip)
  \/ \E x \in Block :
       /\ s.state = StateOf(x) /\ s.locator = {x, Genesis}
       /\ Taken(s, s.ancestor, x)

(* A finished session verified the advertised chain and asked fork choice. *)
Finished(s) ==
  /\ s.state = StateOf(s.peer) /\ s.served = s.peer
  /\ Taken(s, s.ancestor, s.peer)
  /\ s.status = "preferred" <=> Better(s.peer, s.local.tip)

(* What may have been wrong with the peer of a refused session. *)
RefusedFor(s) ==
  \/ ~ ValidLine(s.peer)
  \/ s.served # s.peer
  \/ HeightOf(s.peer) > MaxSyncHeaders

(* A session is not begun, under way, finished or refused, and each for its *)
(* reason.                                                                  *)
SessionInv(s) ==
  \/ s = NoSession
  \/ /\ IsSession(s) /\ Pinned(s)
     /\ \/ s.status = "asking" /\ Progress(s)
        \/ s.status \in {"preferred", "not preferred"} /\ Finished(s)
        \/ s.status = "refused" /\ RefusedFor(s)

(* The inductive invariant of header synchronization. *)
HeaderInv == CacheInv /\ SessionInv(session)

(* Where a session stands when a peer names the ancestor: the one state it  *)
(* goes on from is that of the ancestor, the branch so far reaches it.      *)
LEMMA StandsAt ==
  ASSUME NEW s2, Pinned(s2), Progress(s2), NEW x, x = ServedAncestor(s2.served, s2.locator),
         NEW base, base = IF s2.ancestor = None THEN x ELSE s2.ancestor
  PROVE  CurrentState(s2, x) = {StateOf(x)} /\ Taken(s2, base, x)
<1>1. /\ Follows(s2.local) /\ ValidLine(s2.local.tip) /\ s2.local.tip \in Block
      /\ s2.served \in Block /\ None \notin Block
  BY HeaderSyncAssumption, Zenon DEF Pinned, Follows
<1>2. CASE /\ s2.state = None /\ s2.ancestor = None /\ s2.headers = <<>>
           /\ s2.locator = Locator(s2.local.tip)
  <2>1. /\ Genesis \in s2.locator
        /\ \A y \in s2.locator : y \in Block /\ OnLine(y, s2.local.tip)
    BY <1>1, <1>2, LocatorIs, Zenon
  <2>2. x \in Block /\ x \in s2.locator /\ OnLine(x, s2.served)
    BY <1>1, <2>1, ServedAncestorIs, Zenon
  <2>3. OnLine(x, s2.local.tip) /\ base = x
    BY <1>2, <2>1, <2>2, Zenon
  <2>4. ValidLine(x)
    BY <1>1, <2>2, <2>3, ValidBelow, Zenon
  <2>5. HeightOf(x) \in 0 .. HeightOf(s2.local.tip) /\ HeaderAt(s2.local.tip, HeightOf(x)) = x
    BY <1>1, <2>2, <2>3, OnLinePlace, Zenon
  <2>6. StateAtHeight(s2.local, HeightOf(x)) = StateOf(x) /\ CheckpointMatches(s2.local, HeightOf(x))
    <3> DEFINE c == s2.local
    <3>1. Follows(c) /\ HeightOf(x) \in 0 .. HeightOf(c.tip) /\ HeaderAt(c.tip, HeightOf(x)) = x
      BY <1>1, <2>5, Zenon
    <3> HIDE DEF c
    <3>2. StateAtHeight(c, HeightOf(x)) = StateOf(HeaderAt(c.tip, HeightOf(x))) /\ CheckpointMatches(c, HeightOf(x))
      BY <3>1, StateAtHeightIs, Zenon
    <3>3. QED
      BY <3>1, <3>2, Zenon DEF c
  <2>7. CurrentState(s2, x)
          = {StateAtHeight(s2.local, HeightOf(y)) :
               y \in {y \in s2.locator : y = x /\ CheckpointMatches(s2.local, HeightOf(y))}}
    BY <1>2, Zenon DEF CurrentState
  <2>8. CurrentState(s2, x) = {StateOf(x)}
    BY <2>2, <2>6, <2>7, Zenon
  <2>9. HeightOf(x) \in Nat
    BY <2>2, OwnLine, Zenon
  <2>10. s2.headers = Part(s2.served, HeightOf(x), HeightOf(x))
    <3> DEFINE t == s2.served
               h == HeightOf(x)
    <3>1. h \in 0 .. HeightOf(t) /\ h \in h .. HeightOf(t) /\ t \in Block
      BY <1>1, <2>2, <2>9, OnLinePlace, SMTT(30)
    <3> HIDE DEF t, h
    <3>2. Part(t, h, h) \in Seq(Block) /\ Len(Part(t, h, h)) = h - h
      BY <3>1, PartPlaces, Zenon
    <3>3. h - h = 0
      BY <3>1
    <3>4. Part(t, h, h) = <<>>
      BY <3>2, <3>3
    <3>5. QED
      BY <1>2, <3>4, ZenonT(40) DEF t, h
  <2>11. HeightOf(x) <= HeightOf(x)
    BY <2>9
  <2>12. QED
    BY <2>2, <2>3, <2>4, <2>8, <2>10, <2>11, Zenon DEF Taken
<1>3. CASE \E y \in Block : /\ s2.state = StateOf(y) /\ s2.locator = {y, Genesis}
                            /\ Taken(s2, s2.ancestor, y)
  <2>1. PICK y \in Block : /\ s2.state = StateOf(y) /\ s2.locator = {y, Genesis}
                           /\ Taken(s2, s2.ancestor, y)
    BY <1>3, Zenon
  <2>2. OnLine(y, s2.served) /\ s2.ancestor \in Block
    BY <2>1, Zenon DEF Taken
  <2>3. x = y
    BY <1>1, <2>1, <2>2, ServedFromTip, Zenon
  <2>4. base = s2.ancestor
    BY <1>1, <2>2, Zenon
  <2>5. s2.state # None /\ s2.state.header = x
    <3>1. StateOf(y) # None
      BY StateIsSome, Zenon
    <3>2. StateOf(y).header = y
      BY StateFields, Zenon
    <3>3. QED
      BY <2>1, <2>3, <3>1, <3>2, Zenon
  <2>6. CurrentState(s2, x) = {StateOf(x)}
    BY <2>1, <2>3, <2>5, Zenon DEF CurrentState
  <2>7. QED
    BY <2>1, <2>3, <2>4, <2>6, Zenon
<1>4. QED
  BY <1>2, <1>3, Zenon DEF Progress

(* A verified chunk takes the branch further. *)
LEMMA TakenFurther ==
  ASSUME NEW s2, Pinned(s2), NEW base, NEW x, Taken(s2, base, x),
         NEW k \in HeightOf(x) .. HeightOf(s2.served), NEW v,
         v \in Advance(StateOf(x), Part(s2.served, HeightOf(x), k))
  PROVE  LET y == HeaderAt(s2.served, k)
         IN  /\ v = StateOf(y) /\ y \in Block /\ OnLine(y, s2.served) /\ ValidLine(y)
             /\ HeightOf(base) <= HeightOf(y)
             /\ s2.headers \o Part(s2.served, HeightOf(x), k)
                  = Part(s2.served, HeightOf(base), HeightOf(y))
<1> DEFINE t == s2.served
           h == HeightOf(x)
           low == HeightOf(base)
           y == HeaderAt(t, k)
           good == \A j \in h + 1 .. k : ValidHeader(HeaderAt(t, j))
<1>1. t \in Block /\ x \in Block /\ base \in Block /\ OnLine(x, t) /\ OnLine(base, t) /\ ValidLine(x)
  BY Zenon DEF Pinned, Taken
<1>2. h \in 0 .. HeightOf(t) /\ HeaderAt(t, h) = x /\ HeightOf(t) \in Nat
  BY <1>1, OnLinePlace, OwnLine, Zenon
<1>3. low \in Nat /\ low <= h
  BY <1>1, OwnLine, Zenon DEF Taken
<1>4. k \in 0 .. HeightOf(t) /\ low \in 0 .. HeightOf(t) /\ h \in low .. HeightOf(t) /\ low <= k
  BY <1>2, <1>3
<1>5. y \in Block /\ OnLine(y, t) /\ HeightOf(y) = k
  BY <1>1, <1>4, OnLineAt, OnTheLine, Zenon
<1>6. Advance(StateOf(HeaderAt(t, h)), Part(t, h, k)) = IF good THEN {StateOf(y)} ELSE {}
  BY <1>1, <1>2, AdvanceIs, Zenon
<1>7. good /\ v = StateOf(y)
  <2> HIDE DEF good
  <2>1. QED
    BY <1>2, <1>6, Zenon
<1>8. ValidLine(y)
  <2>1. ValidLine(HeaderAt(t, h)) /\ \A j \in h + 1 .. k : ValidHeader(HeaderAt(t, j))
    BY <1>1, <1>2, <1>7, ZenonT(40)
  <2> HIDE DEF t, h
  <2>2. k \in h .. HeightOf(t)
    BY Zenon DEF t, h
  <2>3. QED
    BY <1>1, <1>2, <2>1, <2>2, ValidAbove, Zenon
<1>9. Part(t, low, h) \o Part(t, h, k) = Part(t, low, k)
  BY <1>1, <1>4, PartsMeet, Zenon
<1>10. s2.headers = Part(t, low, h)
  BY Zenon DEF Taken
<1>11. QED
  BY <1>4, <1>5, <1>7, <1>8, <1>9, <1>10, ZenonT(40)

(* The fields that the steps of a session change, and those they keep. *)
Moved(s, v, base, more, names) ==
  [s EXCEPT !.state = v, !.ancestor = base, !.headers = more, !.locator = names]

(* The same for a step that ends the session, and for one that refuses it. *)
Ended(s, how, v, base) == [s EXCEPT !.status = how, !.state = v, !.ancestor = base]

(* The session is refused. *)
Failed(s) == [s EXCEPT !.status = "refused"]

(* The fields after a chunk. *)
LEMMA MovedFields ==
  ASSUME NEW s2, IsSession(s2), NEW v, NEW base, NEW more, NEW names
  PROVE  LET r == Moved(s2, v, base, more, names)
         IN  /\ IsSession(r) /\ r.status = s2.status /\ r.local = s2.local /\ r.peer = s2.peer
             /\ r.claim = s2.claim /\ r.served = s2.served
             /\ r.state = v /\ r.ancestor = base /\ r.headers = more /\ r.locator = names
<1> DEFINE r == Moved(s2, v, base, more, names)
<1>1. r = [s2 EXCEPT !.state = v, !.ancestor = base, !.headers = more, !.locator = names]
  BY Zenon DEF Moved
<1> HIDE DEF r
<1>2. /\ IsSession(r) /\ r.local = s2.local /\ r.peer = s2.peer
      /\ r.claim = s2.claim /\ r.served = s2.served
  BY <1>1, Zenon DEF IsSession
<1>3. /\ r.status = s2.status /\ r.headers = more /\ r.locator = names
      /\ r.state = v /\ r.ancestor = base
  BY <1>1, Zenon DEF IsSession
<1>4. QED
  BY <1>2, <1>3, Zenon DEF r

(* The fields after the last answer. *)
LEMMA EndedFields ==
  ASSUME NEW s2, IsSession(s2), NEW how, NEW v, NEW base
  PROVE  LET r == Ended(s2, how, v, base)
         IN  /\ IsSession(r) /\ r.status = how /\ r.local = s2.local /\ r.peer = s2.peer
             /\ r.claim = s2.claim /\ r.served = s2.served
             /\ r.state = v /\ r.ancestor = base /\ r.headers = s2.headers
<1> DEFINE r == Ended(s2, how, v, base)
<1>1. r = [s2 EXCEPT !.status = how, !.state = v, !.ancestor = base]
  BY Zenon DEF Ended
<1> HIDE DEF r
<1>2. /\ IsSession(r) /\ r.local = s2.local /\ r.peer = s2.peer
      /\ r.claim = s2.claim /\ r.served = s2.served
  BY <1>1, Zenon DEF IsSession
<1>3. /\ r.status = how /\ r.headers = s2.headers
      /\ r.state = v /\ r.ancestor = base
  BY <1>1, Zenon DEF IsSession
<1>4. QED
  BY <1>2, <1>3, Zenon DEF r

(* The fields after a refusal. *)
LEMMA FailedFields ==
  ASSUME NEW s2, IsSession(s2)
  PROVE  LET r == Failed(s2)
         IN  /\ IsSession(r) /\ r.status = "refused" /\ r.local = s2.local /\ r.peer = s2.peer
             /\ r.claim = s2.claim /\ r.served = s2.served
BY DEF IsSession, Failed

(* The invariants read the fields only. *)
LEMMA SamePinned ==
  ASSUME NEW s2, Pinned(s2), NEW r, r.local = s2.local, r.peer = s2.peer,
         r.claim = s2.claim, r.served = s2.served
  PROVE  Pinned(r)
BY Zenon DEF Pinned

(* A session that asks has its state verified so far. *)
LEMMA AskingIs ==
  ASSUME SessionInv(session), session.status = "asking"
  PROVE  IsSession(session) /\ Pinned(session) /\ Progress(session)
<1>1. NoSession.status = "idle"
  BY Zenon DEF NoSession
<1>2. session # NoSession
  BY <1>1, Zenon
<1>3. QED
  BY <1>2, Zenon DEF SessionInv

(* A chunk of headers, whether accepted or refused, keeps the session       *)
(* sound.                                                                   *)
LEMMA ChunkKeeps ==
  ASSUME SessionInv(session), ReceiveChunk
  PROVE  SessionInv(session')
<1> DEFINE x == ServedAncestor(session.served, session.locator)
           chunk == ServedHeaders(session.served, x)
           base == IF session.ancestor = None THEN x ELSE session.ancestor
           t == session.served
<1>1. session.status = "asking"
  BY Zenon DEF ReceiveChunk
<1>2. IsSession(session) /\ Pinned(session) /\ Progress(session)
  BY <1>1, AskingIs, Zenon
<1>3. CurrentState(session, x) = {StateOf(x)} /\ Taken(session, base, x)
  BY <1>2, StandsAt, Zenon
<1>4. t \in Block /\ x \in Block /\ OnLine(x, t)
  BY <1>2, <1>3, Zenon DEF Pinned, Taken
<1>5. PICK k \in HeightOf(x) .. HeightOf(t) :
        /\ chunk = Part(t, HeightOf(x), k)
        /\ chunk = <<>> <=> x = t
  BY <1>4, ServedHeadersIs, Zenon
<1>6. \/ \E v \in CurrentState(session, x) : AcceptChunk(v, x, chunk)
      \/ /\ \A v \in CurrentState(session, x) :
              \/ Advance(v, chunk) = {}
              \/ Len(session.headers) + Len(chunk) > MaxSyncHeaders
         /\ Fail
  BY Zenon DEF ReceiveChunk
<1> HIDE DEF x, chunk, base, t
<1>7. CASE \E v \in CurrentState(session, x) : AcceptChunk(v, x, chunk)
  <2>1. AcceptChunk(StateOf(x), x, chunk)
    BY <1>3, <1>7, Zenon
  <2>2. PICK next \in Advance(StateOf(x), chunk) :
          session' = [session EXCEPT
            !.state    = next,
            !.ancestor = IF @ = None THEN x ELSE @,
            !.headers  = Branch(@, chunk),
            !.locator  = {next.header, Genesis}]
    BY <2>1, Zenon DEF AcceptChunk
  <2>3. session' = Moved(session, next, base, session.headers \o chunk, {next.header, Genesis})
    BY <2>2, Zenon DEF Branch, base, Moved
  <2>4. /\ IsSession(session') /\ session'.status = session.status /\ session'.local = session.local
        /\ session'.peer = session.peer /\ session'.claim = session.claim
        /\ session'.served = session.served /\ session'.state = next
        /\ session'.ancestor = base /\ session'.headers = session.headers \o chunk
        /\ session'.locator = {next.header, Genesis}
    <3> DEFINE more == session.headers \o chunk
               names == {next.header, Genesis}
               r == Moved(session, next, base, more, names)
    <3> HIDE DEF more, names
    <3>1. /\ IsSession(r) /\ r.status = session.status /\ r.local = session.local
          /\ r.peer = session.peer /\ r.claim = session.claim
          /\ r.served = session.served /\ r.state = next
          /\ r.ancestor = base /\ r.headers = more /\ r.locator = names
      BY <1>2, MovedFields, SMTT(30)
    <3>2. session' = r
      BY <2>3, Zenon DEF more, names
    <3> HIDE DEF r
    <3>3. QED
      BY <3>1, <3>2, ZenonT(40) DEF more, names
  <2> DEFINE y == HeaderAt(t, k)
  <2>5. next \in Advance(StateOf(x), Part(session.served, HeightOf(x), k))
    BY <1>5, <2>2, Zenon DEF t
  <2>6. /\ next = StateOf(y) /\ y \in Block /\ OnLine(y, t) /\ ValidLine(y)
        /\ HeightOf(base) <= HeightOf(y)
        /\ session.headers \o chunk = Part(t, HeightOf(base), HeightOf(y))
    <3>1. k \in HeightOf(x) .. HeightOf(session.served)
      BY <1>5, Zenon DEF t
    <3>2. QED
      BY <1>2, <1>3, <1>5, <2>5, <3>1, TakenFurther, ZenonT(40) DEF t
  <2> HIDE DEF y
  <2>7. next.header = y
    BY <2>6, StateFields, Zenon
  <2>8. base \in Block /\ OnLine(base, session.local.tip) /\ OnLine(base, session.served)
    BY <1>3, Zenon DEF Taken
  <2>9. Taken(session', session'.ancestor, y)
    BY <2>4, <2>6, <2>8, Zenon DEF Taken, t
  <2>10. Progress(session')
    BY <2>4, <2>6, <2>7, <2>9, ZenonT(40) DEF Progress
  <2>11. Pinned(session')
    BY <1>2, <2>4, SamePinned, ZenonT(40)
  <2>12. QED
    BY <1>1, <2>4, <2>10, <2>11, Zenon DEF SessionInv
<1>8. CASE /\ \A v \in CurrentState(session, x) :
                \/ Advance(v, chunk) = {}
                \/ Len(session.headers) + Len(chunk) > MaxSyncHeaders
           /\ Fail
  <2>1. \/ Advance(StateOf(x), chunk) = {}
        \/ Len(session.headers) + Len(chunk) > MaxSyncHeaders
    BY <1>3, <1>8, Zenon
  <2>2. session' = Failed(session)
    BY <1>8, Zenon DEF Fail, Failed
  <2>3. /\ IsSession(session') /\ session'.status = "refused" /\ session'.local = session.local
        /\ session'.peer = session.peer /\ session'.claim = session.claim
        /\ session'.served = session.served
    BY <1>2, <2>2, FailedFields, Zenon
  <2>4. Pinned(session')
    BY <1>2, <2>3, SamePinned, Zenon
  <2>5. ASSUME ValidLine(session.peer), t = session.peer, ~ (HeightOf(session.peer) > MaxSyncHeaders)
        PROVE  FALSE
    <3> DEFINE h == HeightOf(x)
               low == HeightOf(base)
    <3>1. h \in 0 .. HeightOf(t) /\ HeaderAt(t, h) = x /\ HeightOf(t) \in Nat
      BY <1>4, OnLinePlace, OwnLine, Zenon
    <3>2. base \in Block /\ low <= h /\ session.headers = Part(t, low, h)
      BY <1>3, Zenon DEF Taken, t
    <3>3. low \in Nat
      BY <3>2, OwnLine, ZenonT(40)
    <3>4. low \in 0 .. HeightOf(t) /\ h \in low .. HeightOf(t) /\ k \in h .. HeightOf(t)
      BY <1>5, <3>1, <3>2, <3>3, SMTT(30), SMTT(60)
    <3> HIDE DEF h, low
    <3>5. Len(session.headers) = h - low
      BY <1>4, <3>2, <3>4, PartPlaces, ZenonT(40)
    <3>6. Len(chunk) = k - h
      <4>1. chunk = Part(t, h, k)
        BY <1>5, Zenon DEF h
      <4>2. QED
        BY <1>4, <3>1, <3>4, <4>1, PartPlaces, Zenon
    <3>7. ~ (Len(session.headers) + Len(chunk) > MaxSyncHeaders)
      <4>1. HeightOf(t) <= MaxSyncHeaders /\ MaxSyncHeaders \in Nat
        BY <2>5, <3>1, HeaderSyncAssumption
      <4>2. QED
        BY <3>1, <3>3, <3>4, <3>5, <3>6, <4>1, SMT, SMTT(30)
    <3>8. \A j \in h + 1 .. k : ValidHeader(HeaderAt(t, j))
      <4>1. \A j \in 1 .. HeightOf(t) : ValidHeader(HeaderAt(t, j))
        BY <1>4, <2>5, ValidLineIs, Zenon
      <4>2. \A j \in h + 1 .. k : j \in 1 .. HeightOf(t)
        BY <3>1, <3>4, SMTT(30)
      <4>3. QED
        BY <4>1, <4>2, Zenon
    <3>9. Advance(StateOf(HeaderAt(t, h)), Part(t, h, k)) = {StateOf(HeaderAt(t, k))}
      <4>1. Advance(StateOf(HeaderAt(t, h)), Part(t, h, k))
              = IF \A j \in h + 1 .. k : ValidHeader(HeaderAt(t, j))
                THEN {StateOf(HeaderAt(t, k))} ELSE {}
        BY <1>4, <3>1, <3>4, AdvanceIs, Zenon
      <4>2. QED
        BY <3>8, <4>1, ZenonT(40)
    <3>10. Advance(StateOf(x), chunk) # {}
      BY <1>5, <3>1, <3>9, Zenon DEF h
    <3>11. QED
      BY <2>1, <3>7, <3>10, Zenon
  <2>6. RefusedFor(session')
    BY <2>3, <2>5, Zenon DEF RefusedFor, t
  <2>7. QED
    BY <2>3, <2>4, <2>6, Zenon DEF SessionInv
<1>9. QED
  BY <1>6, <1>7, <1>8, Zenon

(* The answer that completes a session leaves it finished or refused for a  *)
(* reason.                                                                  *)
LEMMA CompleteKeeps ==
  ASSUME SessionInv(session), ReceiveComplete
  PROVE  SessionInv(session')
<1> DEFINE x == ServedAncestor(session.served, session.locator)
           base == IF session.ancestor = None THEN x ELSE session.ancestor
           t == session.served
           v == StateOf(x)
<1>1. session.status = "asking"
  BY ZenonT(40) DEF ReceiveComplete
<1>2. IsSession(session) /\ Pinned(session) /\ Progress(session)
  BY <1>1, AskingIs, Zenon
<1>3. CurrentState(session, x) = {v} /\ Taken(session, base, x)
  BY <1>2, StandsAt, Zenon
<1>4. t \in Block /\ x \in Block /\ OnLine(x, t)
  BY <1>2, <1>3, Zenon DEF Pinned, Taken
<1>5. x = t
  <2>1. ServedHeaders(t, x) = <<>>
    BY Zenon DEF ReceiveComplete
  <2>2. \E k \in HeightOf(x) .. HeightOf(t) :
          /\ ServedHeaders(t, x) = Part(t, HeightOf(x), k)
          /\ ServedHeaders(t, x) = <<>> <=> x = t
    BY <1>4, ServedHeadersIs, Zenon
  <2>3. QED
    BY <2>1, <2>2, Zenon
<1>6. \/ \E u \in {u \in CurrentState(session, x) : Completes(u)} :
           session' = [session EXCEPT
             !.status   = Outcome(u),
             !.state    = u,
             !.ancestor = IF @ = None THEN x ELSE @]
      \/ /\ \A u \in CurrentState(session, x) : ~ Completes(u)
         /\ Fail
  BY Zenon DEF ReceiveComplete
<1>7. v.header = x /\ v.work = TotalWork[x] /\ v.weight = TotalWeight[x] /\ [work |-> v.work, weight |-> v.weight] = Totals(x)
  BY StateFields, Zenon
<1>8. /\ session.claim = Totals(session.peer) /\ session.local.tip \in Block
      /\ session.local.work = TotalWork[session.local.tip]
      /\ session.local.weight = TotalWeight[session.local.tip]
      /\ Allowed(TotalWork[session.peer], TotalWeight[session.peer])
  BY <1>2, Zenon DEF Pinned, Follows
<1> HIDE DEF x, base, t, v
<1>9. CASE \E u \in {u \in CurrentState(session, x) : Completes(u)} :
             session' = [session EXCEPT
               !.status   = Outcome(u),
               !.state    = u,
               !.ancestor = IF @ = None THEN x ELSE @]
  <2>1. /\ Completes(v)
        /\ session' = [session EXCEPT
             !.status   = Outcome(v),
             !.state    = v,
             !.ancestor = IF @ = None THEN x ELSE @]
    BY <1>3, <1>9, Zenon
  <2>2. session' = Ended(session, Outcome(v), v, base)
    BY <2>1, Zenon DEF base, Ended
  <2>3. /\ IsSession(session') /\ session'.status = Outcome(v) /\ session'.local = session.local
        /\ session'.peer = session.peer /\ session'.claim = session.claim
        /\ session'.served = session.served /\ session'.state = v
        /\ session'.ancestor = base /\ session'.headers = session.headers
    <3> DEFINE how == Outcome(v)
               r == Ended(session, how, v, base)
    <3> HIDE DEF how
    <3>1. /\ IsSession(r) /\ r.status = how /\ r.local = session.local
          /\ r.peer = session.peer /\ r.claim = session.claim
          /\ r.served = session.served /\ r.state = v
          /\ r.ancestor = base /\ r.headers = session.headers
      BY <1>2, EndedFields
    <3>2. session' = r
      BY <2>2, Zenon DEF how
    <3> HIDE DEF r
    <3>3. QED
      BY <3>1, <3>2, Zenon DEF how
  <2>4. x = session.peer
    BY <1>7, <2>1, Zenon DEF Completes
  <2>5. Outcome(v) \in {"preferred", "not preferred"}
    BY Zenon DEF Outcome
  <2>6. Outcome(v) = "preferred" <=> Better(session.peer, session.local.tip)
    <3>1. "preferred" # "not preferred"
      BY Zenon
    <3>2. QED
      BY <1>7, <1>8, <2>4, <3>1, ZenonT(40) DEF Outcome, Better
  <2>7. Taken(session', session'.ancestor, session'.peer)
    BY <1>3, <2>3, <2>4, Zenon DEF Taken
  <2>8. Finished(session')
    BY <1>5, <2>3, <2>4, <2>6, <2>7, ZenonT(40) DEF Finished, v, t
  <2>9. Pinned(session')
    BY <1>2, <2>3, SamePinned, Zenon
  <2>10. QED
    BY <2>3, <2>5, <2>8, <2>9, ZenonT(40) DEF SessionInv
<1>10. CASE (\A u \in CurrentState(session, x) : ~ Completes(u)) /\ Fail
  <2>1. ~ Completes(v)
    BY <1>3, <1>10, Zenon
  <2>2. session' = Failed(session)
    BY <1>10, Zenon DEF Fail, Failed
  <2>3. /\ IsSession(session') /\ session'.status = "refused" /\ session'.local = session.local
        /\ session'.peer = session.peer /\ session'.claim = session.claim
        /\ session'.served = session.served
    BY <1>2, <2>2, FailedFields, Zenon
  <2>4. Pinned(session')
    BY <1>2, <2>3, SamePinned, Zenon
  <2>5. session.served # session.peer
    BY <1>5, <1>7, <1>8, <2>1, Zenon DEF Completes, t
  <2>6. RefusedFor(session')
    BY <2>3, <2>5, Zenon DEF RefusedFor
  <2>7. QED
    BY <2>3, <2>4, <2>6, Zenon DEF SessionInv
<1>11. QED
  BY <1>6, <1>9, <1>10, Zenon

(* A session begins with the cache of the moment and nothing taken. *)
LEMMA BeginKeeps ==
  ASSUME CacheInv, NEW peer \in Block, NEW served \in Block, BeginSession(peer, served)
  PROVE  SessionInv(session')
<1> DEFINE c == BuildCheckpoints(peer)
<1>1. Follows(c) /\ c.tip = peer
  BY BuiltFollows, Zenon
<1> HIDE DEF c
<1>2. c.work = TotalWork[peer] /\ c.weight = TotalWeight[peer]
  BY <1>1, Zenon DEF Follows
<1>3. /\ Allowed(c.work, c.weight)
      /\ session' = [status   |-> "asking",
                     local    |-> cache,
                     peer     |-> peer,
                     claim    |-> [work |-> c.work, weight |-> c.weight],
                     served   |-> served,
                     locator  |-> Locator(cache.tip),
                     state    |-> None,
                     ancestor |-> None,
                     headers  |-> <<>>]
  BY Zenon DEF BeginSession, c
<1>4. /\ IsSession(session') /\ session'.status = "asking" /\ session'.local = cache
      /\ session'.peer = peer /\ session'.claim = [work |-> c.work, weight |-> c.weight]
      /\ session'.served = served /\ session'.locator = Locator(cache.tip)
      /\ session'.state = None /\ session'.ancestor = None /\ session'.headers = <<>>
  BY <1>3, Zenon DEF IsSession
<1>5. Progress(session')
  BY <1>4, Zenon DEF Progress
<1>6. Pinned(session')
  BY <1>2, <1>3, <1>4, Zenon DEF Pinned, Totals, CacheInv
<1>7. QED
  BY <1>4, <1>5, <1>6, Zenon DEF SessionInv

(* The cache follows an appended block or a replaced branch. *)
LEMMA AdoptKeeps ==
  ASSUME CacheInv, NEW t \in LocalTip, Adopt(t)
  PROVE  CacheInv'
<1>1. t \in Block /\ ValidLine(t)
  BY LocalTipsValid, HeaderSyncAssumption, Zenon
<1>2. cache.tip \in Block /\ Marked(cache.tip, cache.checkpoints)
  BY Zenon DEF CacheInv, Follows
<1> DEFINE kept == KeptCheckpoints(t, cache.checkpoints)
<1>3. Marked(t, kept)
  BY <1>1, <1>2, KeptMarked, Zenon
<1>4. cache' = CacheFrom(t, kept)
  BY Zenon DEF Adopt
<1> HIDE DEF kept
<1>5. Follows(CacheFrom(t, kept)) /\ CacheFrom(t, kept).tip = t
  BY <1>1, <1>3, CacheFromFollows, Zenon
<1>6. Follows(cache') /\ cache'.tip = t
  BY <1>4, <1>5, Zenon
<1>7. QED
  BY <1>1, <1>6, Zenon DEF CacheInv

(* The cache is right after a restart. *)
LEMMA RestartKeeps ==
  ASSUME CacheInv, Restart
  PROVE  CacheInv'
<1>1. cache.tip \in Block /\ ValidLine(cache.tip)
  BY Zenon DEF CacheInv, Follows
<1>2. Follows(BuildCheckpoints(cache.tip)) /\ BuildCheckpoints(cache.tip).tip = cache.tip
  BY <1>1, BuiltFollows, Zenon
<1>3. cache' = BuildCheckpoints(cache.tip)
  BY Zenon DEF Restart
<1>4. Follows(cache') /\ cache'.tip = cache.tip
  BY <1>2, <1>3, Zenon
<1>5. QED
  BY <1>1, <1>4, Zenon DEF CacheInv

(* The invariant holds at the start. *)
LEMMA InitHolds ==
  ASSUME Init
  PROVE  HeaderInv
<1>1. Genesis \in Block /\ HeightOf(Genesis) = 0
  BY GenesisHeight, Zenon
<1>2. Follows(BuildCheckpoints(Genesis)) /\ BuildCheckpoints(Genesis).tip = Genesis
  BY <1>1, BuiltFollows, Zenon
<1>3. cache = BuildCheckpoints(Genesis) /\ session = NoSession
  BY Zenon DEF Init
<1>4. ValidLine(Genesis)
  <2>1. 1 .. HeightOf(Genesis) = {}
    BY <1>1
  <2>2. QED
    BY <1>1, <2>1, ValidLineIs, Zenon
<1>5. Follows(cache) /\ cache.tip = Genesis
  BY <1>2, <1>3, Zenon
<1>6. CacheInv
  BY <1>4, <1>5, Zenon DEF CacheInv
<1>7. QED
  BY <1>3, <1>6, Zenon DEF HeaderInv, SessionInv

(* The cache is right for its chain and the session is sound in every state: *)
(* whatever chains the node adopts between two answers of the peer, however  *)
(* the peer cuts its headers into chunks, whatever it advertised and serves. *)
THEOREM HeaderInvariance == Spec => []HeaderInv
<1>1. Init => HeaderInv
  BY InitHolds, Zenon
<1>2. ASSUME HeaderInv, [Next]_vars PROVE HeaderInv'
  <2> USE <1>2
  <2>1. CacheInv /\ SessionInv(session)
    BY Zenon DEF HeaderInv
  <2>2. ASSUME NEW t \in LocalTip, Adopt(t) PROVE HeaderInv'
    <3>1. CacheInv'
      BY <2>1, <2>2, AdoptKeeps, Zenon
    <3>2. session' = session
      BY <2>2, Zenon DEF Adopt
    <3>3. QED
      BY <2>1, <3>1, <3>2, Zenon DEF HeaderInv
  <2>3. CASE Restart
    <3>1. CacheInv'
      BY <2>1, <2>3, RestartKeeps, Zenon
    <3>2. session' = NoSession
      BY <2>3, Zenon DEF Restart
    <3>3. QED
      BY <3>1, <3>2, Zenon DEF HeaderInv, SessionInv
  <2>4. ASSUME NEW offer \in Offer, BeginSession(offer[1], offer[2]) PROVE HeaderInv'
    <3>1. offer[1] \in Block /\ offer[2] \in Block
      <4>1. offer \in Block \X Block
        BY HeaderSyncAssumption, Zenon
      <4>2. QED
        BY <4>1, Zenon
    <3>2. SessionInv(session')
      BY <2>1, <2>4, <3>1, BeginKeeps, Zenon
    <3>3. cache' = cache
      BY <2>4, Zenon DEF BeginSession
    <3>4. QED
      BY <2>1, <3>2, <3>3, Zenon DEF HeaderInv, CacheInv
  <2>5. CASE ReceiveChunk
    <3>1. SessionInv(session')
      BY <2>1, <2>5, ChunkKeeps, Zenon
    <3>2. cache' = cache
      BY <2>5, ZenonT(40) DEF ReceiveChunk
    <3>3. QED
      BY <2>1, <3>1, <3>2, Zenon DEF HeaderInv, CacheInv
  <2>6. CASE ReceiveComplete
    <3>1. SessionInv(session')
      BY <2>1, <2>6, CompleteKeeps, Zenon
    <3>2. cache' = cache
      BY <2>6, Zenon DEF ReceiveComplete
    <3>3. QED
      BY <2>1, <3>1, <3>2, Zenon DEF HeaderInv, CacheInv
  <2>7. CASE Disconnect
    <3>1. session' = NoSession /\ cache' = cache
      BY <2>7, Zenon DEF Disconnect
    <3>2. QED
      BY <2>1, <3>1, Zenon DEF HeaderInv, CacheInv, SessionInv
  <2>8. CASE UNCHANGED vars
    <3>1. session' = session /\ cache' = cache
      BY <2>8, Zenon DEF vars
    <3>2. QED
      BY <2>1, <3>1, Zenon DEF HeaderInv, CacheInv
  <2>9. QED
    BY <2>2, <2>3, <2>4, <2>5, <2>6, <2>7, <2>8, ZenonT(40) DEF Next
<1>3. QED
  BY <1>1, <1>2, PTL DEF Spec

(* The outcome of a session, read off the invariant. *)
LEMMA NotIdle ==
  ASSUME SessionInv(session), session.status # "idle"
  PROVE  /\ IsSession(session) /\ Pinned(session)
         /\ \/ session.status = "asking" /\ Progress(session)
            \/ session.status \in {"preferred", "not preferred"} /\ Finished(session)
            \/ session.status = "refused" /\ RefusedFor(session)
<1>1. NoSession.status = "idle"
  BY Zenon DEF NoSession
<1>2. session # NoSession
  BY <1>1, Zenon
<1>3. QED
  BY <1>2, Zenon DEF SessionInv

(* The totals and checkpoints that the node caches are those of its current *)
(* chain after any appends, reorganizations and restarts.                   *)
THEOREM CachesFollowChain == Spec => []CacheFollowsChain
<1>1. HeaderInv => CacheFollowsChain
  <2> SUFFICES ASSUME HeaderInv PROVE CacheFollowsChain
    BY Zenon
  <2>1. /\ cache.work = TotalWork[cache.tip] /\ cache.weight = TotalWeight[cache.tip]
        /\ Len(cache.checkpoints) = HeightOf(cache.tip) \div CheckpointInterval + 1
        /\ Marked(cache.tip, cache.checkpoints)
    BY Zenon DEF HeaderInv, CacheInv, Follows
  <2>2. ASSUME NEW i \in 1 .. Len(cache.checkpoints)
        PROVE  LET c == cache.checkpoints[i]
               IN  /\ c.height = (i - 1) * CheckpointInterval
                   /\ c.hash = HeaderAt(cache.tip, c.height)
                   /\ c.work = TotalWork[c.hash] /\ c.weight = TotalWeight[c.hash]
    <3> DEFINE c == cache.checkpoints[i]
               h == (i - 1) * CheckpointInterval
    <3>1. c = CheckpointOf(cache.tip, h)
      BY <2>1, ZenonT(40) DEF Marked
    <3> HIDE DEF c, h
    <3>2. /\ c.height = h /\ c.hash = HeaderAt(cache.tip, h)
          /\ c.work = TotalWork[HeaderAt(cache.tip, h)]
          /\ c.weight = TotalWeight[HeaderAt(cache.tip, h)]
      BY <3>1, CheckpointFields, SMTT(30), SMTT(60)
    <3>3. QED
      BY <3>2, Zenon DEF c, h
  <2>3. QED
    BY <2>1, <2>2, Zenon DEF CacheFollowsChain
<1>2. QED
  BY <1>1, HeaderInvariance, PTL

(* The verified state is that of the whole valid line up to its header,     *)
(* wherever the session started and however the headers were cut.           *)
THEOREM StatesIndependentOfChunks == Spec => []StateIndependentOfChunks
<1>1. HeaderInv => StateIndependentOfChunks
  <2> SUFFICES ASSUME HeaderInv, Verified PROVE
        /\ session.state.work = TotalWork[session.state.header]
        /\ session.state.weight = TotalWeight[session.state.header]
        /\ session.state.recent = Suffix(Line[session.state.header], RecentWindow)
        /\ ValidLine(session.state.header)
    BY Zenon DEF StateIndependentOfChunks
  <2>1. session.status # "idle" /\ session.status # "refused" /\ session.state # None
    BY Zenon DEF Verified
  <2>2. \/ Progress(session)
        \/ Finished(session)
    BY <2>1, NotIdle, Zenon DEF HeaderInv
  <2>3. \E x \in Block : session.state = StateOf(x) /\ ValidLine(x)
    BY <2>1, <2>2, Zenon DEF Progress, Finished, Taken
  <2>4. PICK x \in Block : session.state = StateOf(x) /\ ValidLine(x)
    BY <2>3, Zenon
  <2>5. /\ StateOf(x).header = x
        /\ StateOf(x).work = TotalWork[x] /\ StateOf(x).weight = TotalWeight[x]
        /\ StateOf(x).recent = Suffix(Line[x], RecentWindow)
    BY StateFields, Zenon
  <2>6. QED
    BY <2>4, <2>5, Zenon
<1>2. QED
  BY <1>1, HeaderInvariance, PTL

(* A peer that serves the valid chain it advertised is not refused. *)
THEOREM ValidPeersNotRefused == Spec => []ValidPeerNotRefused
<1>1. HeaderInv => ValidPeerNotRefused
  <2> SUFFICES ASSUME HeaderInv, session.status = "refused" PROVE RefusedFor(session)
    BY Zenon DEF ValidPeerNotRefused, RefusedFor
  <2>1. session.status # "idle" /\ session.status # "asking"
        /\ session.status \notin {"preferred", "not preferred"}
    BY Zenon
  <2>2. QED
    BY <2>1, NotIdle, Zenon DEF HeaderInv
<1>2. QED
  BY <1>1, HeaderInvariance, PTL

(* A finished session, read off the invariant. *)
LEMMA FinishedIs ==
  ASSUME HeaderInv, session.status \in {"preferred", "not preferred"}
  PROVE  Pinned(session) /\ Finished(session)
<1>1. session.status # "idle" /\ session.status # "asking" /\ session.status # "refused"
  BY Zenon
<1>2. QED
  BY <1>1, NotIdle, Zenon DEF HeaderInv

(* A finished session holds the peer's headers above a header of both       *)
(* chains.                                                                  *)
THEOREM BranchesAttach == Spec => []BranchAttaches
<1>1. HeaderInv => BranchAttaches
  <2> SUFFICES ASSUME HeaderInv, session.status \in {"preferred", "not preferred"} PROVE
        /\ OnLine(session.ancestor, session.local.tip)
        /\ OnLine(session.ancestor, session.peer)
        /\ session.headers = HeadersAfter(session.peer, HeightOf(session.ancestor))
    BY Zenon DEF BranchAttaches
  <2>1. Pinned(session) /\ Finished(session)
    BY FinishedIs, Zenon
  <2>2. /\ OnLine(session.ancestor, session.local.tip) /\ OnLine(session.ancestor, session.peer)
        /\ session.headers = Part(session.peer, HeightOf(session.ancestor), HeightOf(session.peer))
        /\ session.peer \in Block
    BY <2>1, Zenon DEF Finished, Taken, Pinned
  <2>3. Len(Line[session.peer]) = HeightOf(session.peer) + 1
    BY <2>2, OwnLine, Zenon
  <2>4. QED
    BY <2>2, <2>3, Zenon DEF HeadersAfter, Part
<1>2. QED
  BY <1>1, HeaderInvariance, PTL

(* The branch is wanted exactly when fork choice prefers its tip to the tip *)
(* the session started from.                                                *)
THEOREM PreferencesFollowForkChoice == Spec => []PreferenceFollowsForkChoice
<1>1. HeaderInv => PreferenceFollowsForkChoice
  BY FinishedIs, Zenon DEF PreferenceFollowsForkChoice, Finished
<1>2. QED
  BY <1>1, HeaderInvariance, PTL

=============================================================================
