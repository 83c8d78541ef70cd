-------------------------- MODULE NodeStateProofs ---------------------------
(***************************************************************************)
(* The node of NodeState: that it is the abstract CanonicalChain, and that *)
(* its caches, stored snapshots and receipts follow the chain through      *)
(* reorgs and restarts.                                                    *)
(*                                                                         *)
(* First what the proofs need of numbers and of the block tree: least and  *)
(* greatest elements, induction over the numbers up to a bound, and the    *)
(* positions of a line and of its ancestors, and the totals of its blocks. *)
(***************************************************************************)
EXTENDS NodeState, WellFoundedInduction, TLAPS

(* A set of numbers that is not empty has a least element. *)
LEMMA Least ==
  ASSUME NEW S \in SUBSET Nat, S # {}
  PROVE  \E n \in S : \A m \in S : n <= m
<1> DEFINE R == OpToRel(<, Nat)
<1>1. IsWellFoundedOn(R, Nat)
  BY NatLessThanWellFounded, Zenon
<1>2. \A m, n \in Nat : m < n => <<m, n>> \in R
  BY Zenon DEF OpToRel
<1> HIDE DEF R
<1>3. PICK n \in S : \A m \in S : ~ (<<m, n>> \in R)
  BY <1>1, WFMin, Zenon
<1>4. \A m \in S : ~ (m < n)
  BY <1>2, <1>3, Zenon
<1>5. QED
  BY <1>4

(* A set of numbers that is bounded and not empty has a greatest element. *)
LEMMA Greatest ==
  ASSUME NEW S \in SUBSET Nat, S # {}, NEW top \in Nat, \A n \in S : n <= top
  PROVE  \E n \in S : \A m \in S : m <= n
<1> DEFINE T == {k \in Nat : \A n \in S : n <= k}
<1>1. T \in SUBSET Nat /\ T # {}
  <2>1. top \in T
    BY Zenon
  <2>2. QED
    BY <2>1, Zenon
<1> HIDE DEF T
<1>2. PICK t \in T : \A u \in T : t <= u
  BY <1>1, Least, Zenon
<1>3. t \in Nat /\ \A n \in S : n <= t
  BY Zenon DEF T
<1>4. t \in S
  <2> SUFFICES ASSUME t \notin S PROVE FALSE
    BY Zenon
  <2>1. PICK n \in S : TRUE
    BY Zenon
  <2>2. n \in Nat /\ n < t
    BY <1>3
  <2>3. t - 1 \in Nat
    BY <1>3, <2>2
  <2>4. \A m \in S : m <= t - 1
    BY <1>3
  <2>5. t - 1 \in T
    BY <2>3, <2>4, Zenon DEF T
  <2>6. QED
    BY <1>2, <1>3, <2>5
<1>5. QED
  BY <1>3, <1>4, Zenon

(* A set that has 0, and with a number below a bound the next one, has every *)
(* number up to the bound.                                                   *)
LEMMA Induct ==
  ASSUME NEW S, 0 \in S, NEW top \in Nat,
         \A n \in Nat : n \in S /\ n < top => n + 1 \in S
  PROVE  \A n \in 0 .. top : n \in S
<1> SUFFICES ASSUME NEW k \in 0 .. top, k \notin S PROVE FALSE
  BY Zenon
<1> DEFINE T == {n \in 0 .. top : n \notin S}
<1>1. T \in SUBSET Nat /\ T # {}
  OBVIOUS
<1> HIDE DEF T
<1>2. PICK t \in T : \A u \in T : t <= u
  BY <1>1, Least, Zenon
<1>3. t \in 0 .. top /\ t \notin S
  BY Zenon DEF T
<1>4. t # 0 /\ t - 1 \in 0 .. top
  BY <1>3
<1>5. t - 1 \in S
  BY <1>2, <1>3, <1>4 DEF T
<1>6. QED
  BY <1>3, <1>4, <1>5

-----------------------------------------------------------------------------
(* A line starts with genesis and ends with its tip. *)
LEMMA LineShape ==
  ASSUME NEW t \in Block
  PROVE  /\ Line[t] \in Seq(Block) /\ Len(Line[t]) \in Nat \ {0}
         /\ Line[t][1] = Genesis /\ Line[t][Len(Line[t])] = t
<1>1. Line[t] \in Seq(Block) /\ Line[t] # <<>>
  BY BlockTreeAssumption, Zenon
<1>2. Line[t][1] = Genesis /\ Line[t][Len(Line[t])] = t
  BY BlockTreeAssumption, Zenon
<1>3. QED
  BY <1>1, <1>2

(* A block is on its own line, at its height. *)
LEMMA OwnLine ==
  ASSUME NEW t \in Block
  PROVE  /\ HeightOf(t) \in Nat /\ Len(Line[t]) = HeightOf(t) + 1
         /\ Line[t][HeightOf(t) + 1] = t
         /\ HeaderAt(t, HeightOf(t)) = t
BY LineShape DEF HeightOf, HeaderAt

(* Genesis is a block, at height 0. *)
LEMMA GenesisHeight == Genesis \in Block /\ HeightOf(Genesis) = 0
<1>1. Genesis \in Block /\ Line[Genesis] = <<Genesis>>
  BY BlockTreeAssumption, Zenon
<1>2. QED
  BY <1>1 DEF HeightOf

(* The blocks of a line are those at its positions. *)
LEMMA LineRange ==
  ASSUME NEW t \in Block
  PROVE  Range(Line[t]) = {Line[t][i] : i \in 1 .. HeightOf(t) + 1}
<1>1. DOMAIN Line[t] = 1 .. HeightOf(t) + 1
  BY LineShape, OwnLine
<1>2. QED
  BY <1>1, Zenon DEF Range

(* The line of a block on a line is the part of that line up to it. *)
LEMMA LinePrefix ==
  ASSUME NEW t \in Block, NEW i \in 1 .. Len(Line[t])
  PROVE  Line[t][i] \in Block /\ Line[Line[t][i]] = SubSeq(Line[t], 1, i)
<1>1. Line[t] \in Seq(Block) /\ Line[Line[t][i]] = SubSeq(Line[t], 1, i)
  BY BlockTreeAssumption, Zenon
<1>2. Line[t][i] \in Block
  BY <1>1
<1>3. QED
  BY <1>1, <1>2, Zenon

(* The block at a height of a line has that height. *)
LEMMA AtHeight ==
  ASSUME NEW t \in Block, NEW h \in 0 .. HeightOf(t)
  PROVE  HeaderAt(t, h) \in Block /\ HeightOf(HeaderAt(t, h)) = h
<1>1. h + 1 \in 1 .. Len(Line[t])
  BY OwnLine
<1>2. Len(SubSeq(Line[t], 1, h + 1)) = h + 1
  BY <1>1, LineShape
<1>3. QED
  BY <1>1, <1>2, LinePrefix DEF HeaderAt, HeightOf

(* The positions of the line of an ancestor are those of the line itself. *)
LEMMA AncestorLine ==
  ASSUME NEW t \in Block, NEW a \in Block, OnLine(a, t)
  PROVE  /\ HeightOf(a) <= HeightOf(t)
         /\ \A i \in 1 .. HeightOf(a) + 1 : Line[a][i] = Line[t][i]
<1>1. HeightOf(a) + 1 \in 1 .. Len(Line[t]) /\ Line[t][HeightOf(a) + 1] = a
  BY OwnLine DEF OnLine, HeaderAt
<1>2. Line[a] = SubSeq(Line[t], 1, HeightOf(a) + 1)
  BY <1>1, LinePrefix, Zenon
<1>3. QED
  BY <1>1, <1>2, OwnLine, LineShape, SMTT(30), SMTT(60)

-----------------------------------------------------------------------------
(* A running sum over the places 1 .. n of a line, as Along computes it. *)
Sums(f, line, value, n) ==
  f = [i \in 1 .. n |-> IF i = 1 THEN 0 ELSE f[i - 1] + value[line[i]]]

(* Every line has its running sums. *)
LEMMA SumsExist ==
  ASSUME NEW line, NEW value, NEW n \in Nat
  PROVE  \E f : Sums(f, line, value, n)
<1> DEFINE S == {k \in Nat : \E f : Sums(f, line, value, k)}
           Plus(x, i) == x + value[line[i]]
<1>1. 0 \in S
  <2> DEFINE f == [i \in 1 .. 0 |-> 0]
  <2>1. f = [i \in 1 .. 0 |-> IF i = 1 THEN 0 ELSE Plus(f[i - 1], i)]
    <3> HIDE DEF Plus
    <3>1. QED
      OBVIOUS
  <2>2. Sums(f, line, value, 0)
    BY <2>1, Zenon DEF Sums
  <2>3. QED
    BY <2>2, Zenon
<1>2. ASSUME NEW k \in Nat, k \in S PROVE k + 1 \in S
  <2>1. PICK f : Sums(f, line, value, k)
    BY <1>2, Zenon
  <2>2. f = [i \in 1 .. k |-> IF i = 1 THEN 0 ELSE Plus(f[i - 1], i)]
    BY <2>1, Zenon DEF Sums
  <2> DEFINE g == [i \in 1 .. k + 1 |->
                     IF i = k + 1 THEN IF k = 0 THEN 0 ELSE Plus(f[k], k + 1) ELSE f[i]]
  <2> HIDE DEF Plus
  <2>3. ASSUME NEW i \in 1 .. k + 1
        PROVE  g[i] = IF i = 1 THEN 0 ELSE Plus(g[i - 1], i)
    <3>1. CASE i = k + 1
      <4>1. i - 1 = k /\ (k # 0 => i # 1 /\ g[i - 1] = f[k]) /\ (k = 0 => i = 1)
        BY <3>1
      <4>2. g[i] = IF k = 0 THEN 0 ELSE Plus(f[k], k + 1)
        BY <3>1, Zenon
      <4>3. QED
        BY <3>1, <4>1, <4>2, Zenon
    <3>2. CASE i # k + 1
      <4>1. i \in 1 .. k /\ g[i] = f[i] /\ (i # 1 => g[i - 1] = f[i - 1])
        BY <3>2
      <4>2. f[i] = IF i = 1 THEN 0 ELSE Plus(f[i - 1], i)
        BY <2>2, <4>1, Zenon
      <4>3. QED
        BY <4>1, <4>2, Zenon
    <3>3. QED
      BY <3>1, <3>2, Zenon
  <2>4. g = [i \in 1 .. k + 1 |-> IF i = 1 THEN 0 ELSE Plus(g[i - 1], i)]
    <3>1. g = [i \in 1 .. k + 1 |-> g[i]]
      BY Zenon
    <3> HIDE DEF g
    <3>2. QED
      BY <2>3, <3>1, Zenon
  <2> HIDE DEF g
  <2>5. Sums(g, line, value, k + 1)
    BY <2>4, Zenon DEF Sums, Plus
  <2>6. QED
    BY <2>5
<1> HIDE DEF S
<1>3. n \in S
  <2>1. \A k \in 0 .. n : k \in S
    BY <1>1, <1>2, Induct, Zenon
  <2>2. QED
    BY <2>1
<1>4. QED
  BY <1>3, Zenon DEF S

(* Along is the last running sum. *)
LEMMA AlongIs ==
  ASSUME NEW line, NEW value, Len(line) \in Nat
  PROVE  \E f : Sums(f, line, value, Len(line)) /\ Along(line, value) = f[Len(line)]
<1> DEFINE f == CHOOSE g : Sums(g, line, value, Len(line))
<1>1. Sums(f, line, value, Len(line))
  BY SumsExist, Zenon
<1>2. Along(line, value) = f[Len(line)]
  BY Zenon DEF Along, Sums
<1>3. QED
  BY <1>1, <1>2, Zenon

(* The same as equations. *)
Placed(f, line, value, n) == f[1] = 0 /\ \A i \in 2 .. n : f[i] = f[i - 1] + value[line[i]]

(* A running sum place by place: genesis counts for nothing. *)
LEMMA SumPlaces ==
  ASSUME NEW f, NEW line, NEW value, NEW n \in Nat, n > 0, Sums(f, line, value, n)
  PROVE  Placed(f, line, value, n)
<1>1. 1 \in 1 .. n /\ \A i \in 2 .. n : i \in 1 .. n /\ i # 1
  OBVIOUS
<1>2. QED
  BY <1>1, Zenon DEF Sums, Placed

(* Two lines have the same blocks up to a place. *)
Agree(line, other, m) == \A i \in 1 .. m : other[i] = line[i]

(* Lines that agree up to a place have the same sum there. *)
LEMMA SumsAgree ==
  ASSUME NEW line, NEW other, NEW value, NEW n \in Nat, NEW m \in 1 .. n, NEW f, NEW g,
         Sums(f, line, value, n), Sums(g, other, value, m),
         Agree(line, other, m)
  PROVE  g[m] = f[m]
<1> DEFINE S == {k \in Nat : k < m => f[k + 1] = g[k + 1]}
<1>0. n > 0 /\ m \in Nat /\ m > 0 /\ m - 1 \in Nat /\ m <= n
  OBVIOUS
<1>1. /\ f[1] = 0 /\ \A i \in 2 .. n : f[i] = f[i - 1] + value[line[i]]
      /\ g[1] = 0 /\ \A i \in 2 .. m : g[i] = g[i - 1] + value[other[i]]
  <2>1. Placed(f, line, value, n)
    BY <1>0, SumPlaces, Zenon
  <2>2. Placed(g, other, value, m)
    BY <1>0, SumPlaces, Zenon
  <2>3. QED
    BY <2>1, <2>2, Zenon DEF Placed
<1>2. 0 \in S
  <2>1. 0 + 1 = 1
    OBVIOUS
  <2>2. QED
    BY <1>1, <2>1, Zenon
<1>3. ASSUME NEW k \in Nat, k \in S, k < m - 1 PROVE k + 1 \in S
  <2>1. /\ k + 2 \in 2 .. n /\ k + 2 \in 2 .. m /\ k + 2 \in 1 .. m /\ (k + 2) - 1 = k + 1
        /\ k < m /\ (k + 1) + 1 = k + 2 /\ k + 1 \in Nat
    BY <1>0, <1>3
  <2>2. f[k + 1] = g[k + 1] /\ other[k + 2] = line[k + 2]
    BY <1>3, <2>1, Zenon DEF Agree
  <2>3. f[k + 2] = f[k + 1] + value[line[k + 2]] /\ g[k + 2] = g[k + 1] + value[other[k + 2]]
    BY <1>1, <2>1, Zenon
  <2>4. f[k + 2] = g[k + 2]
    BY <2>2, <2>3, Zenon
  <2>5. QED
    BY <2>1, <2>4, Zenon
<1> HIDE DEF S
<1>4. \A k \in 0 .. m - 1 : k \in S
  BY <1>0, <1>2, <1>3, Induct, Zenon
<1>5. m - 1 \in 0 .. m - 1 /\ m - 1 < m /\ (m - 1) + 1 = m
  BY <1>0
<1>6. QED
  BY <1>4, <1>5, Zenon DEF S

(* The sums are numbers. *)
LEMMA SumsNatural ==
  ASSUME NEW line, NEW value, NEW n \in Nat, NEW f, Sums(f, line, value, n),
         \A i \in 1 .. n : value[line[i]] \in Nat
  PROVE  \A k \in 1 .. n : f[k] \in Nat
<1> SUFFICES ASSUME NEW k \in 1 .. n PROVE f[k] \in Nat
  BY Zenon
<1> DEFINE S == {j \in Nat : j < n => f[j + 1] \in Nat}
<1>1. n > 0 /\ n - 1 \in Nat
  OBVIOUS
<1>2. f[1] = 0 /\ \A i \in 2 .. n : f[i] = f[i - 1] + value[line[i]]
  <2>1. Placed(f, line, value, n)
    BY <1>1, SumPlaces, Zenon
  <2>2. QED
    BY <2>1, Zenon DEF Placed
<1>3. 0 \in S
  BY <1>2
<1>4. ASSUME NEW j \in Nat, j \in S, j < n - 1 PROVE j + 1 \in S
  <2>1. /\ j + 2 \in 2 .. n /\ j + 2 \in 1 .. n /\ (j + 2) - 1 = j + 1 /\ j < n
        /\ (j + 1) + 1 = j + 2 /\ j + 1 \in Nat
    BY <1>4
  <2>2. f[j + 1] \in Nat /\ value[line[j + 2]] \in Nat /\ f[j + 2] = f[j + 1] + value[line[j + 2]]
    BY <1>2, <1>4, <2>1, Zenon
  <2>3. f[j + 2] \in Nat
    BY <2>2
  <2>4. QED
    BY <2>1, <2>3, Zenon
<1> HIDE DEF S
<1>5. \A j \in 0 .. n - 1 : j \in S
  BY <1>1, <1>3, <1>4, Induct, Zenon
<1>6. k - 1 \in 0 .. n - 1 /\ k - 1 < n /\ (k - 1) + 1 = k
  OBVIOUS
<1>7. QED
  BY <1>5, <1>6, Zenon DEF S

(* Where every block but the first counts for something, the sums grow. *)
LEMMA SumsGrow ==
  ASSUME NEW line, NEW value, NEW n \in Nat, NEW f, Sums(f, line, value, n),
         \A i \in 1 .. n : value[line[i]] \in Nat,
         \A i \in 2 .. n : value[line[i]] >= 1,
         NEW b \in 1 .. n, b < n
  PROVE  f[b] < f[n]
<1> DEFINE S == {j \in Nat : b < j /\ j <= n => f[b] < f[j]}
<1>1. n > 0 /\ b \in Nat
  OBVIOUS
<1>2. \A i \in 2 .. n : f[i] = f[i - 1] + value[line[i]]
  <2>1. Placed(f, line, value, n)
    BY <1>1, SumPlaces, Zenon
  <2>2. QED
    BY <2>1, Zenon DEF Placed
<1>3. \A i \in 1 .. n : f[i] \in Nat
  BY SumsNatural, Zenon
<1>4. 0 \in S
  BY <1>1
<1>5. ASSUME NEW j \in Nat, j \in S, j < n PROVE j + 1 \in S
  <2> SUFFICES ASSUME b < j + 1 PROVE f[b] < f[j + 1]
    <3>1. j + 1 \in Nat
      OBVIOUS
    <3>2. QED
      BY <3>1, Zenon
  <2>1. /\ j + 1 \in 2 .. n /\ j + 1 \in 1 .. n /\ j \in 1 .. n /\ (j + 1) - 1 = j /\ j <= n
        /\ (b = j \/ b < j)
    BY <1>1, <1>5
  <2>2. /\ f[b] \in Nat /\ f[j] \in Nat /\ f[j + 1] = f[j] + value[line[j + 1]]
        /\ value[line[j + 1]] \in Nat /\ value[line[j + 1]] >= 1
    BY <1>2, <1>3, <2>1, Zenon
  <2>3. f[b] = f[j] \/ f[b] < f[j]
    BY <1>5, <2>1, Zenon
  <2>4. QED
    BY <2>2, <2>3
<1> HIDE DEF S
<1>6. \A j \in 0 .. n : j \in S
  BY <1>4, <1>5, Induct, Zenon
<1>7. n \in 0 .. n /\ n <= n
  OBVIOUS
<1>8. QED
  BY <1>6, <1>7, Zenon DEF S

(* One running sum has the totals of every block of a line. *)
LEMMA TotalsAlong ==
  ASSUME NEW c \in Block, NEW value
  PROVE  \E f : /\ Sums(f, Line[c], value, Len(Line[c]))
                /\ \A i \in 1 .. Len(Line[c]) : Along(Line[Line[c][i]], value) = f[i]
<1>1. Line[c] \in Seq(Block) /\ Len(Line[c]) \in Nat
  BY LineShape
<1>2. PICK f : Sums(f, Line[c], value, Len(Line[c]))
  BY <1>1, AlongIs, Zenon
<1>3. ASSUME NEW i \in 1 .. Len(Line[c])
      PROVE  Along(Line[Line[c][i]], value) = f[i]
  <2>1. Line[Line[c][i]] = SubSeq(Line[c], 1, i)
    BY LinePrefix, Zenon
  <2>2. /\ Len(SubSeq(Line[c], 1, i)) = i /\ i \in Nat
        /\ \A j \in 1 .. i : SubSeq(Line[c], 1, i)[j] = Line[c][j]
    BY <1>1
  <2> DEFINE front == SubSeq(Line[c], 1, i)
  <2>3. Line[Line[c][i]] = front /\ Len(front) = i /\ \A j \in 1 .. i : front[j] = Line[c][j]
    BY <2>1, <2>2, Zenon
  <2> HIDE DEF front
  <2>4. Len(front) \in Nat
    BY <2>2, <2>3, Zenon
  <2>5. PICK g : Sums(g, front, value, Len(front)) /\ Along(front, value) = g[Len(front)]
    BY <2>4, AlongIs, Zenon
  <2>6. Sums(g, front, value, i) /\ Along(front, value) = g[i]
    BY <2>3, <2>5, Zenon
  <2>7. g[i] = f[i]
    <3> DEFINE line == Line[c]
               n == Len(Line[c])
    <3>1. Sums(f, line, value, n) /\ Sums(g, front, value, i) /\ n \in Nat /\ i \in 1 .. n
      BY <1>1, <1>2, <2>6, Zenon
    <3>2. Agree(line, front, i)
      BY <2>3, Zenon DEF Agree
    <3> HIDE DEF line, n
    <3>3. QED
      BY <3>1, <3>2, SumsAgree
  <2>8. QED
    BY <2>3, <2>6, <2>7, Zenon
<1>4. QED
  BY <1>2, <1>3, Zenon

(* Totals are numbers. *)
LEMMA TotalNatural ==
  ASSUME NEW value \in [Block -> Nat], NEW c \in Block
  PROVE  Along(Line[c], value) \in Nat
<1>1. /\ Line[c] \in Seq(Block) /\ Len(Line[c]) \in Nat /\ Len(Line[c]) \in 1 .. Len(Line[c])
      /\ Line[c][Len(Line[c])] = c
  BY LineShape
<1>2. \A i \in 1 .. Len(Line[c]) : value[Line[c][i]] \in Nat
  BY <1>1
<1>3. PICK f : /\ Sums(f, Line[c], value, Len(Line[c]))
               /\ \A i \in 1 .. Len(Line[c]) : Along(Line[Line[c][i]], value) = f[i]
  BY TotalsAlong, Zenon
<1>4. \A i \in 1 .. Len(Line[c]) : f[i] \in Nat
  BY <1>1, <1>2, <1>3, SumsNatural, Zenon
<1>5. QED
  BY <1>1, <1>3, <1>4, Zenon

(* Only the first block of a line is genesis. *)
LEMMA NotGenesis ==
  ASSUME NEW c \in Block, NEW i \in 2 .. Len(Line[c])
  PROVE  Line[c][i] \in Block \ {Genesis}
<1>1. i \in 1 .. Len(Line[c]) /\ i - 1 \in 0 .. HeightOf(c) /\ (i - 1) + 1 = i /\ i - 1 # 0
  BY OwnLine
<1>2. HeightOf(Line[c][i]) = i - 1 /\ Line[c][i] \in Block
  BY <1>1, AtHeight, Zenon DEF HeaderAt
<1>3. QED
  BY <1>1, <1>2, GenesisHeight, Zenon

(* A chain has more work than any part of it, since every block above genesis *)
(* has some: what lets a node prefer a chain to the ones it extends.          *)
LEMMA WorkGrows ==
  /\ TotalWork \in [Block -> Nat] /\ TotalWeight \in [Block -> Nat]
  /\ \A c \in Block : \A b \in Range(Line[c]) \ {c} : TotalWork[b] < TotalWork[c]
<1>1. WorkOf \in [Block -> Nat] /\ BlockWeight \in [Block -> Nat]
  BY BlockTreeAssumption, Zenon
<1>2. \A c \in Block : Along(Line[c], WorkOf) \in Nat /\ Along(Line[c], BlockWeight) \in Nat
  BY <1>1, TotalNatural, Zenon
<1>3. ASSUME NEW c \in Block, NEW b \in Range(Line[c]) \ {c}
      PROVE  TotalWork[b] < TotalWork[c]
  <2> DEFINE n == Len(Line[c])
  <2>1. n \in Nat /\ n \in 1 .. n /\ Line[c] \in Seq(Block) /\ Line[c][n] = c
    BY LineShape
  <2>2. DOMAIN Line[c] = 1 .. n /\ \A i \in 1 .. n : Line[c][i] \in Block
    BY <2>1
  <2> HIDE DEF n
  <2>3. PICK i \in 1 .. n : b = Line[c][i]
    BY <2>2, Zenon DEF Range
  <2>4. i # n
    BY <2>1, <2>3, Zenon
  <2>5. i < n
    BY <2>1, <2>4
  <2>6. \A j \in 1 .. n : WorkOf[Line[c][j]] \in Nat
    BY <1>1, <2>2
  <2>7. \A j \in 2 .. n : WorkOf[Line[c][j]] >= 1
    BY WorkAssumption, NotGenesis, Zenon DEF n
  <2>8. PICK f : /\ Sums(f, Line[c], WorkOf, n)
                 /\ \A j \in 1 .. n : Along(Line[Line[c][j]], WorkOf) = f[j]
    BY TotalsAlong, Zenon DEF n
  <2>9. f[i] < f[n]
    BY <2>1, <2>5, <2>6, <2>7, <2>8, SumsGrow, Zenon
  <2>10. TotalWork[b] = f[i] /\ TotalWork[c] = f[n]
    BY <2>1, <2>2, <2>3, <2>8, Zenon DEF TotalWork
  <2>11. QED
    BY <2>9, <2>10, Zenon
<1>4. QED
  BY <1>2, <1>3, Zenon DEF TotalWork, TotalWeight

-----------------------------------------------------------------------------
(* The journals of a ledger reach back from its tip. *)
LedgerOK(ledger) == ledger \in Ledgers /\ ledger.base <= HeightOf(ledger.tip)

(* So do those of a snapshot. *)
SnapshotOK(s) == s \in Snapshots /\ s.base <= HeightOf(s.tip)

(* A branch has blocks above its ancestor, on one line. *)
BranchOK(branch) ==
  /\ branch \in Branches
  /\ OnLine(branch.ancestor, branch.tip) /\ branch.ancestor # branch.tip

(* The holder of the lock has the ledger of the stored chain to publish, or *)
(* has published it.                                                        *)
LockOK ==
  \/ lock.phase = "finish" /\ cache # None /\ cache.tip = chain
  \/ lock.phase \in {"publish", "pool"} /\ LedgerOK(lock.ledger) /\ lock.ledger.tip = chain

(* A recovery works on snapshots at or below the ancestor, on a ledger      *)
(* restored from one, and ends with that of the branch.                     *)
RecoveryOK ==
  /\ recovery \in Recoveries
  /\ session[recovery.session] # None
  /\ \A s \in recovery.table :
       SnapshotOK(s) /\ HeightOf(s.tip) <= HeightOf(session[recovery.session].ancestor)
  /\ recovery.phase = "restored" =>
       /\ LedgerOK(recovery.ledger)
       /\ HeightOf(recovery.ledger.tip) <= HeightOf(session[recovery.session].ancestor)
  /\ recovery.phase = "replayed" =>
       /\ LedgerOK(recovery.ledger)
       /\ recovery.ledger.tip = session[recovery.session].tip
       /\ BranchExecutes(session[recovery.session])

(* The stored chain. *)
ChainInv == chain \in Block /\ ValidChain(chain) /\ \A s \in snapshots : SnapshotOK(s)

(* The published ledger and what the holder of the lock still has to do. *)
CacheInv ==
  /\ cache = None \/ LedgerOK(cache)
  /\ lock \in Locks \cup {None}
  /\ lock # None => LockOK
  /\ Unlocked => cache.tip = chain

(* Sessions hold branches. *)
SessionInv ==
  /\ session \in [Session -> Branches \cup {None}]
  /\ \A s \in Session : session[s] # None => BranchOK(session[s])

(* A recovery in flight is one of a session. *)
RecoveryInv == recovery # None => RecoveryOK

(* The inductive invariant of the node. *)
IndInv == ChainInv /\ CacheInv /\ SessionInv /\ RecoveryInv

-----------------------------------------------------------------------------
(* An ancestor other than the tip is below it and has less work. *)
LEMMA Below ==
  ASSUME NEW t \in Block, NEW a \in Block, OnLine(a, t), a # t
  PROVE  HeightOf(a) < HeightOf(t) /\ TotalWork[a] < TotalWork[t]
<1>1. HeightOf(a) # HeightOf(t)
  BY OwnLine, Zenon DEF OnLine
<1>2. a \in Range(Line[t]) \ {t}
  <2>1. HeightOf(a) + 1 \in 1 .. HeightOf(t) + 1 /\ Line[t][HeightOf(a) + 1] = a
    BY OwnLine DEF OnLine, HeaderAt
  <2>2. QED
    BY <2>1, LineRange, Zenon
<1>3. QED
  BY <1>1, <1>2, OwnLine, WorkGrows DEF OnLine

(* A chain executes when the block at every position of its line does. *)
LEMMA ValidByPosition ==
  ASSUME NEW t \in Block
  PROVE  ValidChain(t) <=> \A i \in 1 .. HeightOf(t) + 1 : Executes(Line[t][i])
BY LineRange, Zenon DEF ValidChain

(* A part of a chain that executes executes. *)
LEMMA PrefixValid ==
  ASSUME NEW t \in Block, NEW a \in Block, OnLine(a, t), ValidChain(t)
  PROVE  ValidChain(a)
<1>1. HeightOf(a) \in Nat /\ HeightOf(t) \in Nat /\ HeightOf(a) <= HeightOf(t)
  BY AncestorLine, OwnLine, Zenon
<1>2. \A i \in 1 .. HeightOf(a) + 1 : Executes(Line[t][i])
  BY <1>1, ValidByPosition
<1>3. \A i \in 1 .. HeightOf(a) + 1 : Executes(Line[a][i])
  BY <1>2, AncestorLine, Zenon
<1>4. QED
  BY <1>3, ValidByPosition, Zenon

(* The blocks of a line above an ancestor. *)
LEMMA AboveShape ==
  ASSUME NEW t \in Block, NEW a \in Block, OnLine(a, t)
  PROVE  /\ DOMAIN Above(t, a) = 1 .. HeightOf(t) - HeightOf(a)
         /\ \A i \in 1 .. HeightOf(t) - HeightOf(a) :
              Above(t, a)[i] = Line[t][i + HeightOf(a) + 1]
<1> DEFINE h == HeightOf(a)
           line == Line[t]
           n == HeightOf(t)
<1>1. h \in Nat /\ n \in Nat /\ h <= n /\ Len(line) = n + 1
  BY OwnLine, Zenon DEF OnLine
<1>2. Above(t, a) = SubSeq(line, h + 2, n + 1)
  BY <1>1, Zenon DEF Above
<1>3. line \in Seq(Block)
  BY LineShape, Zenon
<1> HIDE DEF h, line, n
<1>4. /\ DOMAIN SubSeq(line, h + 2, n + 1) = 1 .. n - h
      /\ \A i \in 1 .. n - h : SubSeq(line, h + 2, n + 1)[i] = line[i + h + 1]
  BY <1>1, <1>3, SMTT(30), SMTT(60)
<1>5. QED
  BY <1>2, <1>4, Zenon DEF h, line, n

(* Blocks that execute, on a chain that executes, make a chain that does. *)
LEMMA BranchValid ==
  ASSUME NEW t \in Block, NEW a \in Block, OnLine(a, t), ValidChain(a),
         \A b \in Range(Above(t, a)) : Executes(b)
  PROVE  ValidChain(t)
<1>1. HeightOf(a) \in Nat /\ HeightOf(t) \in Nat
  BY OwnLine, Zenon
<1>2. \A i \in 1 .. HeightOf(a) + 1 : Executes(Line[t][i])
  BY AncestorLine, ValidByPosition
<1>3. \A i \in 1 .. HeightOf(t) - HeightOf(a) : Executes(Line[t][i + HeightOf(a) + 1])
  <2>1. /\ DOMAIN Above(t, a) = 1 .. HeightOf(t) - HeightOf(a)
        /\ \A i \in 1 .. HeightOf(t) - HeightOf(a) :
             Above(t, a)[i] = Line[t][i + HeightOf(a) + 1]
    BY AboveShape, Zenon
  <2>2. \A i \in 1 .. HeightOf(t) - HeightOf(a) : Above(t, a)[i] \in Range(Above(t, a))
    BY <2>1, Zenon DEF Range
  <2>3. QED
    BY <2>1, <2>2, Zenon
<1>4. ASSUME NEW i \in 1 .. HeightOf(t) + 1, i > HeightOf(a) + 1
      PROVE  Executes(Line[t][i])
  <2>1. i - HeightOf(a) - 1 \in 1 .. HeightOf(t) - HeightOf(a)
    BY <1>1, <1>4
  <2>2. (i - HeightOf(a) - 1) + HeightOf(a) + 1 = i
    BY <1>1
  <2>3. QED
    BY <1>3, <2>1, <2>2, Zenon
<1>5. QED
  BY <1>1, <1>2, <1>4, ValidByPosition

(* A child has its parent on its line and is preferred to it. *)
LEMMA ChildBetter ==
  ASSUME NEW b \in Block \ {Genesis}
  PROVE  /\ Parent(b) \in Block /\ OnLine(Parent(b), b)
         /\ HeightOf(b) = HeightOf(Parent(b)) + 1 /\ Better(b, Parent(b))
<1>1. Len(Line[b]) # 1
  BY LineShape, Zenon
<1>2. HeightOf(b) \in Nat \ {0}
  <2>1. HeightOf(b) \in Nat /\ Len(Line[b]) = HeightOf(b) + 1
    BY OwnLine, Zenon
  <2>2. QED
    BY <1>1, <2>1
<1>3. Parent(b) = HeaderAt(b, HeightOf(b) - 1)
  BY <1>2, OwnLine DEF Parent, HeaderAt
<1>4. Parent(b) \in Block /\ HeightOf(Parent(b)) = HeightOf(b) - 1
  BY <1>2, <1>3, AtHeight
<1>5. OnLine(Parent(b), b) /\ Parent(b) # b
  BY <1>2, <1>3, <1>4 DEF OnLine
<1>6. TotalWork[b] > TotalWork[Parent(b)]
  BY <1>4, <1>5, Below, WorkGrows, Zenon
<1>7. QED
  BY <1>2, <1>4, <1>5, <1>6 DEF Better, TipGreater

(* A block that executes extends a chain that does. *)
LEMMA ChildValid ==
  ASSUME NEW b \in Block \ {Genesis}, ValidChain(Parent(b)), Executes(b)
  PROVE  ValidChain(b)
<1>1. \A i \in 1 .. HeightOf(b) - HeightOf(Parent(b)) :
        Line[b][i + HeightOf(Parent(b)) + 1] = b
  BY ChildBetter, OwnLine, SMTT(30)
<1>2. \A c \in Range(Above(b, Parent(b))) : c = b
  <2>1. /\ DOMAIN Above(b, Parent(b)) = 1 .. HeightOf(b) - HeightOf(Parent(b))
        /\ \A i \in 1 .. HeightOf(b) - HeightOf(Parent(b)) :
             Above(b, Parent(b))[i] = Line[b][i + HeightOf(Parent(b)) + 1]
    BY ChildBetter, AboveShape, Zenon
  <2>2. QED
    BY <1>1, <2>1 DEF Range
<1>3. QED
  BY <1>2, ChildBetter, BranchValid, Zenon

(* No chain is preferred to one that contains it. *)
LEMMA NotBetterThanOwn ==
  ASSUME NEW t \in Block, NEW a \in Block, OnLine(a, t)
  PROVE  ~ Better(a, t)
<1>1. TotalWork[a] \in Nat /\ TotalWork[t] \in Nat /\ TotalWeight[a] \in Nat
  BY WorkGrows, Zenon
<1>2. a \in Nat /\ t \in Nat
  BY BlockTreeAssumption, Zenon
<1>3. CASE a = t
  BY <1>1, <1>2, <1>3 DEF Better, TipGreater
<1>4. CASE a # t
  BY <1>1, <1>4, Below DEF Better, TipGreater
<1>5. QED
  BY <1>3, <1>4, Zenon

-----------------------------------------------------------------------------
(* Pruning journals keeps the tip, and the tip can still be rolled back. *)
LEMMA PruningOK ==
  ASSUME NEW ledger \in Ledgers, ledger.base <= HeightOf(ledger.tip)
  PROVE  LedgerOK(Pruned(ledger)) /\ Pruned(ledger).tip = ledger.tip
<1>1. HeightOf(ledger.tip) \in Nat /\ ledger.base \in Nat
  BY OwnLine, Zenon DEF Ledgers
<1>2. FirstKept(ledger.tip) \in Nat /\ FirstKept(ledger.tip) <= HeightOf(ledger.tip)
  BY <1>1, NodeStateAssumption DEF FirstKept, AtLeast
<1>3. /\ AtLeast(FirstKept(ledger.tip), ledger.base) \in Nat
      /\ AtLeast(FirstKept(ledger.tip), ledger.base) <= HeightOf(ledger.tip)
  BY <1>1, <1>2, Zenon DEF AtLeast
<1>4. Pruned(ledger) = [tip |-> ledger.tip,
                        base |-> AtLeast(FirstKept(ledger.tip), ledger.base)]
  BY DEF Pruned, Ledgers
<1>5. QED
  BY <1>3, <1>4 DEF LedgerOK, Ledgers

(* A ledger moved to a block no lower than its base. *)
LEMMA MovedOK ==
  ASSUME NEW ledger \in Ledgers, NEW b \in Block, ledger.base <= HeightOf(b)
  PROVE  LedgerOK([ledger EXCEPT !.tip = b]) /\ [ledger EXCEPT !.tip = b].tip = b
BY Zenon DEF LedgerOK, Ledgers

(* A snapshot of a ledger that can be rolled back. *)
LEMMA SnapshotFromLedger ==
  ASSUME NEW ledger, LedgerOK(ledger), NEW checked \in BOOLEAN
  PROVE  SnapshotOK(SnapshotOf(ledger, checked))
BY Zenon DEF LedgerOK, SnapshotOK, SnapshotOf, Ledgers, Snapshots

(* Where a replay starts. *)
LEMMA StartOK ==
  ASSUME NEW table, \A s \in table : SnapshotOK(s), NEW start \in StartFrom(table)
  PROVE  /\ LedgerOK(start)
         /\ \/ start = GenesisLedger
            \/ \E s \in table : start.tip = s.tip
<1>1. CASE table = {}
  <2>1. start = GenesisLedger
    BY <1>1, Zenon DEF StartFrom
  <2>2. Genesis \in Block /\ HeightOf(Genesis) \in Nat
    BY BlockTreeAssumption, OwnLine, Zenon
  <2>3. QED
    BY <2>1, <2>2 DEF GenesisLedger, LedgerOK, Ledgers
<1>2. CASE table # {}
  <2>1. PICK s \in table : start = [tip |-> s.tip, base |-> s.base]
    BY <1>2, Zenon DEF StartFrom
  <2>2. QED
    BY <2>1, Zenon DEF SnapshotOK, Snapshots, LedgerOK, Ledgers
<1>3. QED
  BY <1>1, <1>2, Zenon

(* What the holder of the lock has to publish. *)
LEMMA PublishingOK ==
  ASSUME NEW ledger, LedgerOK(ledger), NEW large \in BOOLEAN
  PROVE  /\ Publishing(ledger, large) \in Locks
         /\ Publishing(ledger, large) # None
         /\ Publishing(ledger, large).phase = "publish"
         /\ Publishing(ledger, large).ledger = ledger
<1>1. (large \/ Due(ledger.tip)) \in BOOLEAN
  BY Zenon
<1>2. ledger \in Ledgers
  BY Zenon DEF LedgerOK
<1>3. Publishing(ledger, large)
        \in [phase : {"publish"}, ledger : Ledgers, snapshot : BOOLEAN]
  BY <1>1, <1>2, Zenon DEF Publishing
<1>4. QED
  BY <1>3, NoneAssumption, Zenon DEF Publishing, Locks

(* Only sound snapshots are kept. *)
LEMMA WithSnapshotOK ==
  ASSUME NEW table, \A s \in table : SnapshotOK(s), NEW ledger, LedgerOK(ledger)
  PROVE  \A s \in WithSnapshot(table, ledger) : SnapshotOK(s)
BY SnapshotFromLedger, Zenon DEF WithSnapshot, TwoNewest

-----------------------------------------------------------------------------
(* A branch that executes on a block of the chain and is still better makes *)
(* a chain that may replace it.                                             *)
LEMMA BranchAccepted ==
  ASSUME IndInv, Unlocked, NEW branch, BranchOK(branch),
         Attaches(branch), StillBetter(branch), BranchExecutes(branch)
  PROVE  branch.tip \in Block /\ ValidChain(branch.tip) /\ Better(branch.tip, chain)
<1>1. branch.tip \in Block /\ branch.ancestor \in Block
  BY Zenon DEF BranchOK, Branches
<1>2. chain \in Block /\ ValidChain(chain) /\ cache.tip = chain
  BY Zenon DEF IndInv, ChainInv, CacheInv
<1>3. ValidChain(branch.ancestor)
  BY <1>1, <1>2, PrefixValid, Zenon DEF Attaches
<1>4. ValidChain(branch.tip)
  BY <1>1, <1>3, BranchValid, Zenon DEF BranchOK, BranchExecutes
<1>5. QED
  BY <1>1, <1>2, <1>4, Zenon DEF StillBetter

(* A block appended to the tip. *)
LEMMA AppendKeeps ==
  ASSUME IndInv, Unlocked, NEW b \in Block \ {Genesis}, Parent(b) = cache.tip,
         Executes(b), CommitAppend(b), UNCHANGED <<snapshots, cache, session, recovery>>
  PROVE  /\ IndInv'
         /\ chain' \in Block /\ ValidChain(chain') /\ Better(chain', chain)
<1>1. cache.tip = chain /\ ValidChain(chain) /\ LedgerOK(cache) /\ cache # None
  BY Zenon DEF IndInv, ChainInv, CacheInv, Unlocked, Running
<1>2. b \in Block /\ ValidChain(b) /\ Better(b, chain)
  BY <1>1, ChildBetter, ChildValid, Zenon
<1>3. chain' = b /\ lock' = Publishing([cache EXCEPT !.tip = b], FALSE)
  BY Zenon DEF CommitAppend
<1>4. cache \in Ledgers /\ cache.base <= HeightOf(b)
  <2>1. cache \in Ledgers /\ cache.base <= HeightOf(cache.tip)
    BY <1>1, Zenon DEF LedgerOK
  <2>2. HeightOf(b) = HeightOf(cache.tip) + 1
    BY ChildBetter, Zenon
  <2>3. cache.base \in Nat /\ HeightOf(cache.tip) \in Nat
    BY <2>1, OwnLine, Zenon DEF Ledgers
  <2>4. QED
    BY <2>1, <2>2, <2>3
<1>5. LedgerOK([cache EXCEPT !.tip = b]) /\ [cache EXCEPT !.tip = b].tip = b
  BY <1>2, <1>4, MovedOK, Zenon
<1>6. /\ lock' \in Locks /\ lock' # None /\ lock'.phase = "publish"
      /\ LedgerOK(lock'.ledger) /\ lock'.ledger.tip = chain'
  BY <1>3, <1>5, PublishingOK, Zenon
<1>7. CacheInv'
  BY <1>1, <1>6, Zenon DEF CacheInv, LockOK, Unlocked
<1>8. ChainInv'
  BY <1>2, <1>3, SMTT(30) DEF IndInv, ChainInv
<1>9. SessionInv' /\ RecoveryInv'
  BY SMTT(30), SMTT(60) DEF IndInv, SessionInv, RecoveryInv, RecoveryOK
<1>10. QED
  BY <1>2, <1>3, <1>7, <1>8, <1>9, Zenon DEF IndInv

(* A branch committed under the lock, with the ledger to be published. *)
LEMMA BranchKeeps ==
  ASSUME IndInv, Unlocked, NEW branch, BranchOK(branch),
         Attaches(branch), StillBetter(branch), BranchExecutes(branch),
         NEW extra, \A s \in extra : SnapshotOK(s), CommitBranch(branch, extra),
         NEW ledger, LedgerOK(ledger), ledger.tip = branch.tip,
         NEW large \in BOOLEAN, lock' = Publishing(ledger, large), UNCHANGED cache
  PROVE  /\ ChainInv' /\ CacheInv'
         /\ chain' \in Block /\ ValidChain(chain') /\ Better(chain', chain)
<1>1. branch.tip \in Block /\ ValidChain(branch.tip) /\ Better(branch.tip, chain)
  BY BranchAccepted, Zenon
<1>2. chain' = branch.tip /\ snapshots' \subseteq snapshots \cup extra
  BY SMTT(30) DEF CommitBranch, SnapshotsThrough
<1>3. ChainInv'
  BY <1>1, <1>2, SMTT(30) DEF IndInv, ChainInv
<1>4. /\ lock' \in Locks /\ lock' # None /\ lock'.phase = "publish"
      /\ LedgerOK(lock'.ledger) /\ lock'.ledger.tip = chain'
  BY <1>2, PublishingOK, Zenon
<1>5. CacheInv'
  BY <1>4, Zenon DEF IndInv, CacheInv, LockOK, Unlocked
<1>6. QED
  BY <1>1, <1>2, <1>3, <1>5, SMTT(30)

(* A session that ends and is not the one in recovery. *)
LEMMA SessionEnds ==
  ASSUME IndInv, NEW s \in Session, ~ InRecovery(s),
         session' = [session EXCEPT ![s] = None], UNCHANGED recovery
  PROVE  SessionInv' /\ RecoveryInv'
<1>1. SessionInv'
  BY SMTT(30) DEF IndInv, SessionInv
<1>2. recovery # None => session'[recovery.session] = session[recovery.session]
  BY SMTT(30) DEF IndInv, SessionInv, RecoveryInv, RecoveryOK, Recoveries, InRecovery
<1>3. RecoveryInv'
  BY <1>2, Zenon DEF IndInv, RecoveryInv, RecoveryOK
<1>4. QED
  BY <1>1, <1>3, Zenon

(* A recovery that ends, with its session. *)
LEMMA RecoveryEnds ==
  ASSUME IndInv, EndRecovery
  PROVE  SessionInv' /\ RecoveryInv'
BY Zenon DEF IndInv, EndRecovery, SessionInv, RecoveryInv

(* apply_verified_branch_stream, when it applies the branch. *)
LEMMA ApplyBranchKeeps ==
  ASSUME IndInv, NEW s \in Session, ApplyBranch(s)
  PROVE  IndInv' /\ chain' \in Block /\ ValidChain(chain') /\ Better(chain', chain)
<1> DEFINE branch == session[s]
           staged == [cache EXCEPT !.tip = branch.tip]
           large == Len(Above(branch.tip, branch.ancestor)) >= SnapshotInterval
<1>1. /\ Unlocked /\ branch # None /\ ~ InRecovery(s)
      /\ StillBetter(branch) /\ Attaches(branch) /\ CanRollbackTo(cache, branch.ancestor)
      /\ BranchExecutes(branch) /\ CommitBranch(branch, {})
      /\ lock' = Publishing(Pruned(staged), large)
      /\ session' = [session EXCEPT ![s] = None]
      /\ UNCHANGED <<cache, recovery>>
  BY Zenon DEF ApplyBranch
<1>2. BranchOK(branch)
  BY <1>1, Zenon DEF IndInv, SessionInv
<1>3. large \in BOOLEAN
  OBVIOUS
<1>4. LedgerOK(Pruned(staged)) /\ Pruned(staged).tip = branch.tip
  <2>1. branch.tip \in Block /\ branch.ancestor \in Block
    BY <1>2, Zenon DEF BranchOK, Branches
  <2>2. /\ HeightOf(branch.ancestor) < HeightOf(branch.tip)
        /\ HeightOf(branch.ancestor) \in Nat /\ HeightOf(branch.tip) \in Nat
    BY <1>2, <2>1, Below, OwnLine, Zenon DEF BranchOK
  <2>3. cache \in Ledgers
    BY <1>1, Zenon DEF IndInv, CacheInv, LedgerOK, Unlocked, Running
  <2>4. cache.base \in Nat /\ cache.base <= HeightOf(branch.tip)
    BY <1>1, <2>2, <2>3 DEF CanRollbackTo, Ledgers
  <2>5. LedgerOK(staged) /\ staged.tip = branch.tip
    BY <2>1, <2>3, <2>4, MovedOK, SMTT(30)
  <2>6. QED
    BY <2>5, PruningOK, Zenon DEF LedgerOK
<1> HIDE DEF branch, staged, large
<1>5. ChainInv' /\ CacheInv' /\ chain' \in Block /\ ValidChain(chain') /\ Better(chain', chain)
  BY <1>1, <1>2, <1>3, <1>4, BranchKeeps, Zenon
<1>6. SessionInv' /\ RecoveryInv'
  BY <1>1, SessionEnds, Zenon
<1>7. QED
  BY <1>5, <1>6, Zenon DEF IndInv

(* recover_branch, when it publishes or finds the branch overtaken. *)
LEMMA RecoverPublishKeeps ==
  ASSUME IndInv, RecoverPublish
  PROVE  /\ IndInv'
         /\ \/ UNCHANGED chain
            \/ chain' \in Block /\ ValidChain(chain') /\ Better(chain', chain)
<1> DEFINE branch == session[recovery.session]
<1>1. /\ Unlocked /\ recovery # None /\ recovery.phase = "replayed" /\ EndRecovery
      /\ UNCHANGED cache
      /\ \/ /\ Attaches(branch) /\ StillBetter(branch)
            /\ CommitBranch(branch, {SnapshotOf(recovery.ledger, FALSE)})
            /\ lock' = Publishing(recovery.ledger, FALSE)
         \/ UNCHANGED <<chain, snapshots, lock>>
  BY Zenon DEF RecoverPublish, RecoveryBranch
<1>2. /\ LedgerOK(recovery.ledger) /\ recovery.ledger.tip = branch.tip
      /\ BranchExecutes(branch) /\ BranchOK(branch)
  BY <1>1, SMTT(30) DEF IndInv, RecoveryInv, RecoveryOK, Recoveries, SessionInv
<1>3. SessionInv' /\ RecoveryInv'
  BY <1>1, RecoveryEnds, Zenon
<1> HIDE DEF branch
<1>4. CASE /\ Attaches(branch) /\ StillBetter(branch)
           /\ CommitBranch(branch, {SnapshotOf(recovery.ledger, FALSE)})
           /\ lock' = Publishing(recovery.ledger, FALSE)
  <2>1. \A s \in {SnapshotOf(recovery.ledger, FALSE)} : SnapshotOK(s)
    BY <1>2, SnapshotFromLedger, Zenon
  <2>2. ChainInv' /\ CacheInv' /\ chain' \in Block /\ ValidChain(chain') /\ Better(chain', chain)
    BY <1>1, <1>2, <1>4, <2>1, BranchKeeps, Zenon
  <2>3. QED
    BY <1>3, <2>2, Zenon DEF IndInv
<1>5. CASE UNCHANGED <<chain, snapshots, lock>>
  <2>1. ChainInv' /\ CacheInv'
    BY <1>1, <1>5, Zenon DEF IndInv, ChainInv, CacheInv, LockOK, Unlocked, Running
  <2>2. QED
    BY <1>3, <1>5, <2>1, Zenon DEF IndInv
<1>6. QED
  BY <1>1, <1>4, <1>5, Zenon

(* update_ledger_cache *)
LEMMA PublishKeeps ==
  ASSUME IndInv, Publish
  PROVE  IndInv' /\ UNCHANGED chain
<1>1. /\ lock # None /\ lock.phase = "publish" /\ cache' = Pruned(lock.ledger)
      /\ lock' = [phase |-> "finish", snapshot |-> lock.snapshot]
      /\ UNCHANGED <<chain, snapshots, session, recovery>>
  BY Zenon DEF Publish
<1>2. LedgerOK(lock.ledger) /\ lock.ledger.tip = chain /\ lock \in Locks
  BY <1>1, Zenon DEF IndInv, CacheInv, LockOK
<1>3. LedgerOK(cache') /\ cache'.tip = chain'
  BY <1>1, <1>2, PruningOK, Zenon DEF LedgerOK
<1>4. cache' # None
  BY <1>3, NoneAssumption, Zenon DEF LedgerOK
<1>5. lock' \in Locks /\ lock' # None /\ lock'.phase = "finish"
  <2>1. lock.snapshot \in BOOLEAN
    BY <1>1, <1>2, Zenon DEF Locks
  <2>2. lock' \in [phase : {"finish"}, snapshot : BOOLEAN]
    BY <1>1, <2>1, Zenon
  <2>3. QED
    BY <1>1, <2>2, NoneAssumption, Zenon DEF Locks
<1>6. CacheInv'
  BY <1>3, <1>4, <1>5, SMTT(30) DEF CacheInv, LockOK, Unlocked
<1>7. ChainInv' /\ SessionInv' /\ RecoveryInv'
  BY <1>1, Zenon DEF IndInv, ChainInv, SessionInv, RecoveryInv, RecoveryOK
<1>8. QED
  BY <1>1, <1>6, <1>7, Zenon DEF IndInv

(* write_if_due and the release of the lock *)
LEMMA FinishKeeps ==
  ASSUME IndInv, Finish
  PROVE  IndInv' /\ UNCHANGED chain
<1>1. /\ lock # None /\ lock.phase = "finish" /\ lock' = None
      /\ snapshots' = IF lock.snapshot THEN WithSnapshot(snapshots, cache) ELSE snapshots
      /\ UNCHANGED <<chain, cache, session, recovery>>
  BY Zenon DEF Finish
<1>2. cache # None /\ cache.tip = chain /\ LedgerOK(cache)
  BY <1>1, Zenon DEF IndInv, CacheInv, LockOK
<1>3. \A s \in snapshots' : SnapshotOK(s)
  BY <1>1, <1>2, WithSnapshotOK, Zenon DEF IndInv, ChainInv
<1>4. ChainInv' /\ CacheInv'
  BY <1>1, <1>2, <1>3, SMTT(30) DEF IndInv, ChainInv, CacheInv, Unlocked
<1>5. SessionInv' /\ RecoveryInv'
  BY <1>1, Zenon DEF IndInv, SessionInv, RecoveryInv, RecoveryOK
<1>6. QED
  BY <1>1, <1>4, <1>5, Zenon DEF IndInv

(* A session begins with a branch that leaves the chain below its tip. *)
LEMMA BeginSessionKeeps ==
  ASSUME IndInv, NEW s \in Session, NEW tip \in PeerTip, BeginSession(s, tip)
  PROVE  IndInv' /\ UNCHANGED chain
<1>1. PICK ancestor \in Block :
        /\ OnLine(ancestor, tip) /\ OnLine(ancestor, cache.tip)
        /\ session' = [session EXCEPT ![s] = [ancestor |-> ancestor, tip |-> tip]]
  BY Zenon DEF BeginSession
<1>2. /\ cache # None /\ session[s] = None /\ Better(tip, cache.tip)
      /\ UNCHANGED <<chain, snapshots, cache, lock, recovery>>
  BY Zenon DEF BeginSession, Running
<1>3. tip \in Block /\ cache.tip \in Block
  BY <1>2, NodeStateAssumption, Zenon DEF IndInv, CacheInv, LedgerOK, Ledgers
<1>4. ancestor # tip
  BY <1>1, <1>2, <1>3, NotBetterThanOwn, Zenon
<1>5. BranchOK([ancestor |-> ancestor, tip |-> tip])
  BY <1>1, <1>3, <1>4, SMTT(30) DEF BranchOK, Branches
<1>6. SessionInv'
  BY <1>1, <1>5, Zenon DEF IndInv, SessionInv, BranchOK
<1>7. recovery # None => session'[recovery.session] = session[recovery.session]
  BY <1>1, <1>2, SMTT(30), SMTT(60) DEF IndInv, SessionInv, RecoveryInv, RecoveryOK, Recoveries
<1>8. RecoveryInv'
  BY <1>2, <1>7, SMTT(30) DEF IndInv, RecoveryInv, RecoveryOK
<1>9. ChainInv' /\ CacheInv'
  BY <1>2, SMTT(30) DEF IndInv, ChainInv, CacheInv, LockOK, Unlocked, Running
<1>10. QED
  BY <1>2, <1>6, <1>8, <1>9, Zenon DEF IndInv

(* recover_branch takes the recovery slot, or gives the session up. *)
LEMMA BeginRecoveryKeeps ==
  ASSUME IndInv, NEW s \in Session, BeginRecovery(s)
  PROVE  IndInv' /\ UNCHANGED chain
<1>1. /\ Unlocked /\ session[s] # None /\ ~ InRecovery(s)
      /\ \/ session' = [session EXCEPT ![s] = None] /\ UNCHANGED recovery
         \/ /\ recovery' = [session |-> s, phase |-> "begun", captured |-> cache,
                            table |-> {}, ledger |-> GenesisLedger]
            /\ UNCHANGED session
      /\ UNCHANGED <<chain, snapshots, cache, lock>>
  BY SMTT(30) DEF BeginRecovery
<1>2. ChainInv' /\ CacheInv'
  BY <1>1, Zenon DEF IndInv, ChainInv, CacheInv, LockOK, Unlocked, Running
<1>3. CASE session' = [session EXCEPT ![s] = None] /\ UNCHANGED recovery
  BY <1>1, <1>2, <1>3, SessionEnds, ZenonT(40) DEF IndInv
<1>4. CASE /\ recovery' = [session |-> s, phase |-> "begun", captured |-> cache,
                           table |-> {}, ledger |-> GenesisLedger]
           /\ UNCHANGED session
  <2>1. cache \in Ledgers /\ GenesisLedger \in Ledgers
    BY <1>1, BlockTreeAssumption, SMTT(30)
       DEF IndInv, CacheInv, LedgerOK, Ledgers, GenesisLedger, Unlocked, Running
  <2>2. recovery' \in Recoveries
    BY <1>4, <2>1, SMTT(30) DEF Recoveries
  <2>3. RecoveryInv'
    BY <1>1, <1>4, <2>2, Zenon DEF RecoveryInv, RecoveryOK
  <2>4. QED
    BY <1>1, <1>2, <1>4, <2>3, SMTT(30), SMTT(60) DEF IndInv, SessionInv
<1>5. QED
  BY <1>1, <1>3, <1>4, SMTT(30), SMTT(60)

(* The steps of a recovery up to its replay: the snapshots it read ... *)
LEMMA RecoverReadSnapshotsKeeps ==
  ASSUME IndInv, RecoverReadSnapshots
  PROVE  IndInv' /\ UNCHANGED chain
<1> DEFINE branch == session[recovery.session]
           table == {s \in snapshots : SnapshotHeight(s) <= HeightOf(branch.ancestor)}
<1>1. /\ recovery # None
      /\ recovery' = [recovery EXCEPT !.phase = "read", !.table = table]
      /\ UNCHANGED <<chain, snapshots, cache, lock, session>>
  BY Zenon DEF RecoverReadSnapshots, RecoveryBranch
<1>2. \A s \in table : SnapshotOK(s) /\ HeightOf(s.tip) <= HeightOf(branch.ancestor)
  BY Zenon DEF IndInv, ChainInv, SnapshotHeight
<1>3. table \in SUBSET Snapshots
  BY <1>2, Zenon DEF SnapshotOK
<1> HIDE DEF table
<1>4. recovery \in Recoveries /\ session[recovery.session] # None
  BY <1>1, Zenon DEF IndInv, RecoveryInv, RecoveryOK
<1>5. /\ recovery' \in Recoveries /\ recovery'.session = recovery.session
      /\ recovery'.phase = "read" /\ recovery'.table = table
  BY <1>1, <1>3, <1>4, Zenon DEF Recoveries
<1>6. RecoveryInv'
  BY <1>1, <1>2, <1>4, <1>5, Zenon DEF RecoveryInv, RecoveryOK
<1>7. ChainInv' /\ CacheInv' /\ SessionInv'
  BY <1>1, Zenon DEF IndInv, ChainInv, CacheInv, LockOK, Unlocked, Running, SessionInv
<1>8. QED
  BY <1>1, <1>6, <1>7, Zenon DEF IndInv

(* ... the newest usable snapshot, if it is of the captured chain ... *)
LEMMA RecoverRestoreKeeps ==
  ASSUME IndInv, RecoverRestore
  PROVE  IndInv' /\ UNCHANGED chain
<1> DEFINE branch == session[recovery.session]
           table == Usable(recovery.table, chain)
<1>1. /\ recovery # None /\ UNCHANGED <<chain, snapshots, cache, lock>>
      /\ \/ /\ UNCHANGED session
            /\ \E start \in StartFrom(table) :
                 recovery' = [recovery EXCEPT !.phase = "restored", !.ledger = start,
                                              !.table = {}]
         \/ EndRecovery
  BY Zenon DEF RecoverRestore
<1>2. ChainInv' /\ CacheInv'
  BY <1>1, Zenon DEF IndInv, ChainInv, CacheInv, LockOK, Unlocked, Running
<1>3. CASE EndRecovery
  BY <1>1, <1>2, <1>3, RecoveryEnds, Zenon DEF IndInv
<1>4. ASSUME UNCHANGED session, NEW start \in StartFrom(table),
             recovery' = [recovery EXCEPT !.phase = "restored", !.ledger = start,
                                          !.table = {}]
      PROVE  IndInv'
  <2>1. recovery \in Recoveries /\ branch # None /\ BranchOK(branch)
    BY <1>1, Zenon DEF IndInv, RecoveryInv, RecoveryOK, Recoveries, SessionInv
  <2>2. \A s \in table : SnapshotOK(s) /\ HeightOf(s.tip) <= HeightOf(branch.ancestor)
    BY <1>1, Zenon DEF IndInv, RecoveryInv, RecoveryOK, Usable
  <2> HIDE DEF table
  <2>3. LedgerOK(start) /\ (start = GenesisLedger \/ \E s \in table : start.tip = s.tip)
    BY <1>4, <2>2, StartOK, SMTT(30), SMTT(60)
  <2>4. HeightOf(Genesis) = 0 /\ HeightOf(branch.ancestor) \in Nat
    BY <2>1, GenesisHeight, OwnLine, SMTT(30), SMTT(60) DEF BranchOK, Branches
  <2>5. HeightOf(start.tip) <= HeightOf(branch.ancestor)
    BY <2>2, <2>3, <2>4 DEF GenesisLedger
  <2>6. /\ recovery' \in Recoveries /\ recovery'.session = recovery.session
        /\ recovery'.phase = "restored" /\ recovery'.table = {} /\ recovery'.ledger = start
    BY <1>4, <2>1, <2>3, Zenon DEF Recoveries, LedgerOK
  <2>7. RecoveryInv'
    BY <1>4, <2>1, <2>3, <2>5, <2>6, Zenon DEF RecoveryInv, RecoveryOK
  <2>8. SessionInv'
    BY <1>4, Zenon DEF IndInv, SessionInv
  <2>9. QED
    BY <1>2, <2>7, <2>8, Zenon DEF IndInv
<1>5. QED
  BY <1>1, <1>3, <1>4, Zenon

(* ... and the replay of the branch on it. *)
LEMMA RecoverReplayKeeps ==
  ASSUME IndInv, RecoverReplay
  PROVE  IndInv' /\ UNCHANGED chain
<1> DEFINE branch == session[recovery.session]
           moved == [recovery.ledger EXCEPT !.tip = branch.tip]
<1>1. /\ recovery # None /\ recovery.phase = "restored"
      /\ UNCHANGED <<chain, snapshots, cache, lock>>
      /\ \/ /\ UNCHANGED session /\ BranchExecutes(branch)
            /\ recovery' = [recovery EXCEPT !.phase = "replayed",
                 !.ledger = Pruned([@ EXCEPT !.tip = branch.tip])]
         \/ EndRecovery
  BY Zenon DEF RecoverReplay, RecoveryBranch
<1>2. ChainInv' /\ CacheInv'
  BY <1>1, Zenon DEF IndInv, ChainInv, CacheInv, LockOK, Unlocked, Running
<1>3. CASE EndRecovery
  BY <1>1, <1>2, <1>3, RecoveryEnds, Zenon DEF IndInv
<1>4. CASE /\ UNCHANGED session /\ BranchExecutes(branch)
           /\ recovery' = [recovery EXCEPT !.phase = "replayed",
                !.ledger = Pruned([@ EXCEPT !.tip = branch.tip])]
  <2>1. /\ recovery \in Recoveries /\ branch # None /\ BranchOK(branch)
        /\ LedgerOK(recovery.ledger)
        /\ HeightOf(recovery.ledger.tip) <= HeightOf(branch.ancestor)
    BY <1>1, SMTT(30), SMTT(60) DEF IndInv, RecoveryInv, RecoveryOK, Recoveries, SessionInv
  <2>2. /\ branch.tip \in Block /\ branch.ancestor \in Block
        /\ HeightOf(branch.ancestor) < HeightOf(branch.tip)
    BY <2>1, Below, SMTT(30) DEF BranchOK, Branches
  <2>3. recovery.ledger \in Ledgers /\ recovery.ledger.base <= HeightOf(branch.tip)
    BY <2>1, <2>2, OwnLine DEF LedgerOK, Ledgers
  <2>4. LedgerOK(moved) /\ moved.tip = branch.tip
    BY <2>2, <2>3, MovedOK, Zenon
  <2>5. LedgerOK(Pruned(moved)) /\ Pruned(moved).tip = branch.tip
    BY <2>4, PruningOK, Zenon DEF LedgerOK
  <2>6. recovery' = [recovery EXCEPT !.phase = "replayed", !.ledger = Pruned(moved)]
    BY <1>4, <2>1, Zenon DEF Recoveries
  <2> HIDE DEF moved
  <2>7. /\ recovery' \in Recoveries /\ recovery'.session = recovery.session
        /\ recovery'.phase = "replayed" /\ recovery'.table = recovery.table
        /\ recovery'.ledger = Pruned(moved)
    BY <2>1, <2>5, <2>6, Zenon DEF Recoveries, LedgerOK
  <2>8. RecoveryInv'
    BY <1>1, <1>4, <2>1, <2>5, <2>7, Zenon DEF IndInv, RecoveryInv, RecoveryOK
  <2>9. SessionInv'
    BY <1>4, Zenon DEF IndInv, SessionInv
  <2>10. QED
    BY <1>2, <2>8, <2>9, <1>1, Zenon DEF IndInv
<1>5. QED
  BY <1>1, <1>3, <1>4, Zenon

(* A replay of stored blocks. *)
LEMMA ReplayOK ==
  ASSUME chain \in Block, NEW start, LedgerOK(start),
         NEW h \in HeightOf(start.tip) .. HeightOf(chain)
  PROVE  LedgerOK(ReplayedTo(start, h)) /\ ReplayedTo(start, h).tip = HeaderAt(chain, h)
<1>1. /\ start \in Ledgers /\ start.base <= HeightOf(start.tip) /\ start.base \in Nat
      /\ HeightOf(start.tip) \in Nat /\ HeightOf(chain) \in Nat
  BY OwnLine, Zenon DEF LedgerOK, Ledgers
<1>2. HeaderAt(chain, h) \in Block /\ HeightOf(HeaderAt(chain, h)) = h
  BY <1>1, AtHeight
<1>3. start.base <= HeightOf(HeaderAt(chain, h))
  BY <1>1, <1>2
<1> DEFINE moved == [start EXCEPT !.tip = HeaderAt(chain, h)]
<1>4. LedgerOK(moved) /\ moved.tip = HeaderAt(chain, h)
  BY <1>1, <1>2, <1>3, MovedOK, Zenon
<1>5. LedgerOK(Pruned(moved)) /\ Pruned(moved).tip = moved.tip
  BY <1>4, PruningOK, Zenon DEF LedgerOK
<1>6. QED
  BY <1>4, <1>5, Zenon DEF ReplayedTo

(* The ledger a restart starts from, on the stored chain. *)
LEMMA VouchedOK ==
  ASSUME IndInv, NEW start \in StartFrom(Vouched)
  PROVE  LedgerOK(start) /\ HeightOf(start.tip) <= HeightOf(chain)
<1>1. \A s \in Vouched : SnapshotOK(s) /\ OnLine(s.tip, chain)
  BY Zenon DEF IndInv, ChainInv, Vouched, Usable
<1>2. LedgerOK(start) /\ (start = GenesisLedger \/ \E s \in Vouched : start.tip = s.tip)
  BY <1>1, StartOK, Zenon
<1>3. HeightOf(chain) \in Nat
  BY OwnLine, Zenon DEF IndInv, ChainInv
<1>4. QED
  BY <1>1, <1>2, <1>3, GenesisHeight DEF GenesisLedger, OnLine

(* The snapshots written during a replay. *)
LEMMA SnapshotsToOK ==
  ASSUME IndInv, NEW start, LedgerOK(start), NEW height \in Nat, height <= HeightOf(chain)
  PROVE  \A s \in SnapshotsTo(start, height) : SnapshotOK(s)
<1>1. chain \in Block /\ HeightOf(chain) \in Nat /\ HeightOf(start.tip) \in Nat
  BY OwnLine, Zenon DEF IndInv, ChainInv, LedgerOK, Ledgers
<1>2. \A h \in HeightOf(start.tip) + 1 .. height :
        h \in HeightOf(start.tip) .. HeightOf(chain)
  BY <1>1
<1>3. \A h \in HeightOf(start.tip) + 1 .. height :
        SnapshotOK(SnapshotOf(ReplayedTo(start, h), TRUE))
  BY <1>1, <1>2, ReplayOK, SnapshotFromLedger, Zenon
<1>4. QED
  BY <1>3, Zenon DEF IndInv, ChainInv, SnapshotsTo, TwoNewest

(* load_existing *)
LEMMA RestartKeeps ==
  ASSUME IndInv, Restart
  PROVE  IndInv' /\ UNCHANGED chain
<1>1. PICK start \in StartFrom(Vouched) :
        /\ snapshots' = FinalSnapshots(start)
        /\ lock' = [phase |-> "pool", ledger |-> ReplayedTo(start, HeightOf(chain))]
  BY Zenon DEF Restart
<1>2. cache = None /\ UNCHANGED <<chain, cache, session, recovery>>
  BY Zenon DEF Restart, Running
<1>3. LedgerOK(start) /\ HeightOf(start.tip) <= HeightOf(chain)
  BY VouchedOK, Zenon
<1>4. chain \in Block /\ HeightOf(chain) \in Nat /\ HeightOf(start.tip) \in Nat
  BY <1>3, OwnLine, SMTT(30) DEF IndInv, ChainInv, LedgerOK, Ledgers
<1> DEFINE ledger == ReplayedTo(start, HeightOf(chain))
<1>5. LedgerOK(ledger) /\ ledger.tip = chain
  BY <1>3, <1>4, ReplayOK, OwnLine, SMTT(30)
<1> HIDE DEF ledger
<1>6. \A s \in snapshots' : SnapshotOK(s)
  <2>1. \A s \in SnapshotsTo(start, HeightOf(chain)) : SnapshotOK(s)
    BY <1>3, <1>4, SnapshotsToOK
  <2>2. \A s \in WithSnapshot(SnapshotsTo(start, HeightOf(chain)), ledger) : SnapshotOK(s)
    BY <1>5, <2>1, WithSnapshotOK, Zenon
  <2>3. QED
    BY <1>1, <2>2, Zenon DEF FinalSnapshots, IndInv, ChainInv, ledger
<1>7. lock' \in Locks /\ lock' # None
  <2>1. lock' \in [phase : {"pool"}, ledger : Ledgers]
    BY <1>1, <1>5, Zenon DEF LedgerOK, ledger
  <2>2. QED
    BY <2>1, NoneAssumption, Zenon DEF Locks
<1>8. lock'.phase = "pool" /\ LedgerOK(lock'.ledger) /\ lock'.ledger.tip = chain'
  BY <1>1, <1>2, <1>5, SMTT(30), SMTT(60) DEF ledger
<1>9. ChainInv' /\ CacheInv'
  BY <1>2, <1>6, <1>7, <1>8, SMTT(30) DEF IndInv, ChainInv, CacheInv, LockOK, Unlocked
<1>10. SessionInv' /\ RecoveryInv'
  BY <1>2, Zenon DEF IndInv, SessionInv, RecoveryInv, RecoveryOK
<1>11. QED
  BY <1>2, <1>9, <1>10, Zenon DEF IndInv

(* replay_body_reader, interrupted. *)
LEMMA RestartInterruptedKeeps ==
  ASSUME IndInv, NEW height \in 0 .. HeightOf(chain), RestartInterrupted(height)
  PROVE  IndInv' /\ UNCHANGED chain
<1>1. PICK start \in StartFrom(Vouched) : snapshots' = SnapshotsTo(start, height)
  BY Zenon DEF RestartInterrupted
<1>2. UNCHANGED <<chain, cache, lock, session, recovery>>
  BY Zenon DEF RestartInterrupted
<1>3. \A s \in snapshots' : SnapshotOK(s)
  BY <1>1, VouchedOK, SnapshotsToOK
<1>4. ChainInv' /\ CacheInv'
  BY <1>2, <1>3, SMTT(30) DEF IndInv, ChainInv, CacheInv, LockOK, Unlocked, Running
<1>5. SessionInv' /\ RecoveryInv'
  BY <1>2, Zenon DEF IndInv, SessionInv, RecoveryInv, RecoveryOK
<1>6. QED
  BY <1>2, <1>4, <1>5, Zenon DEF IndInv

(* recover_mempool *)
LEMMA RecoverPoolKeeps ==
  ASSUME IndInv, RecoverPool
  PROVE  IndInv' /\ UNCHANGED chain
<1>1. /\ lock # None /\ lock.phase = "pool" /\ lock' = Publishing(lock.ledger, FALSE)
      /\ UNCHANGED <<chain, snapshots, cache, session, recovery>>
  BY Zenon DEF RecoverPool
<1>2. LedgerOK(lock.ledger) /\ lock.ledger.tip = chain
  BY <1>1, Zenon DEF IndInv, CacheInv, LockOK
<1>3. /\ lock' \in Locks /\ lock' # None /\ lock'.phase = "publish"
      /\ LedgerOK(lock'.ledger) /\ lock'.ledger.tip = chain'
  BY <1>1, <1>2, PublishingOK, Zenon
<1>4. ChainInv' /\ CacheInv'
  BY <1>1, <1>3, ZenonT(40) DEF IndInv, ChainInv, CacheInv, LockOK, Unlocked
<1>5. SessionInv' /\ RecoveryInv'
  BY <1>1, Zenon DEF IndInv, SessionInv, RecoveryInv, RecoveryOK
<1>6. QED
  BY <1>1, <1>4, <1>5, Zenon DEF IndInv

(* Steps that change neither the chain, its ledger nor its sessions. *)
LEMMA OthersKeep ==
  ASSUME IndInv, UNCHANGED <<chain, snapshots, cache, lock, session, recovery>>
  PROVE  IndInv'
<1>1. ChainInv' /\ CacheInv'
  BY SMTT(30) DEF IndInv, ChainInv, CacheInv, LockOK, Unlocked, Running
<1>2. SessionInv' /\ RecoveryInv'
  BY Zenon DEF IndInv, SessionInv, RecoveryInv, RecoveryOK
<1>3. QED
  BY <1>1, <1>2, Zenon DEF IndInv

(* A session that gives its branch up. *)
LEMMA SessionGivenUp ==
  ASSUME IndInv, NEW s \in Session, AbandonSession(s) \/ RefuseBranch(s)
  PROVE  IndInv' /\ UNCHANGED chain
<1>1. /\ ~ InRecovery(s) /\ session' = [session EXCEPT ![s] = None]
      /\ UNCHANGED <<chain, snapshots, cache, lock, recovery>>
  BY Zenon DEF AbandonSession, RefuseBranch
<1>2. ChainInv' /\ CacheInv'
  BY <1>1, Zenon DEF IndInv, ChainInv, CacheInv, LockOK, Unlocked, Running
<1>3. QED
  BY <1>1, <1>2, SessionEnds, Zenon DEF IndInv

(* The end of the process. *)
LEMMA CrashKeeps ==
  ASSUME IndInv, Crash
  PROVE  IndInv' /\ UNCHANGED chain
<1>1. /\ cache' = None /\ lock' = None /\ recovery' = None
      /\ session' = [s \in Session |-> None] /\ UNCHANGED <<chain, snapshots>>
  BY Zenon DEF Crash, disk
<1>2. ChainInv' /\ CacheInv' /\ SessionInv' /\ RecoveryInv'
  BY <1>1, Zenon DEF IndInv, ChainInv, CacheInv, Unlocked, Running, SessionInv, RecoveryInv
<1>3. QED
  BY <1>1, <1>2, Zenon DEF IndInv

-----------------------------------------------------------------------------
(* What a step may do to the stored chain. *)
ChainStep ==
  \/ UNCHANGED chain
  \/ chain' \in Block /\ ValidChain(chain') /\ Better(chain', chain)

(* Initially: genesis, published. *)
LEMMA InitEstablishes == Init => IndInv
<1> SUFFICES ASSUME Init PROVE IndInv
  BY Zenon
<1>1. Genesis \in Executable
  BY GenesisHeight, SMTT(30), SMTT(60) DEF Executable
<1>2. ValidChain(Genesis)
  BY <1>1, BlockTreeAssumption, GenesisHeight, ValidByPosition DEF Executes
<1>3. LedgerOK(GenesisLedger) /\ GenesisLedger.tip = Genesis
  BY GenesisHeight DEF LedgerOK, Ledgers, GenesisLedger
<1>4. ChainInv
  BY <1>2, GenesisHeight, Zenon DEF Init, ChainInv
<1>5. CacheInv
  BY <1>3, Zenon DEF Init, CacheInv
<1>6. SessionInv /\ RecoveryInv
  BY SMTT(30), SMTT(60) DEF Init, SessionInv, RecoveryInv
<1>7. QED
  BY <1>4, <1>5, <1>6, Zenon DEF IndInv

(* Every step of every thread keeps the invariant, and replaces the chain   *)
(* only by a better one that executes.                                      *)
LEMMA StepKeeps == IndInv /\ [Next]_vars => IndInv' /\ ChainStep
<1> SUFFICES ASSUME IndInv, [Next]_vars PROVE IndInv' /\ ChainStep
  BY Zenon
<1>1. CASE Publish
  BY <1>1, PublishKeeps, Zenon DEF ChainStep
<1>2. CASE Finish
  BY <1>2, FinishKeeps, Zenon DEF ChainStep
<1>3. ASSUME NEW b \in Relayed \cup Offered, ExtendTip(b)
      PROVE  IndInv' /\ ChainStep
  <2>1. b \in Block \ {Genesis}
    BY NodeStateAssumption, Zenon
  <2>2. QED
    BY <1>3, <2>1, AppendKeeps, Zenon DEF ExtendTip, ChainStep
<1>4. ASSUME NEW op \in Submitted, Insert(op)
      PROVE  IndInv' /\ ChainStep
  BY <1>4, OthersKeep, Zenon DEF Insert, ChainStep
<1>5. CASE MinerStart \/ MinerReadLedger \/ MinerReadPool \/ MinerBuild \/ MinerCancel
  BY <1>5, OthersKeep, Zenon
     DEF MinerStart, MinerReadLedger, MinerReadPool, MinerBuild, MinerCancel, ChainStep
<1>6. ASSUME NEW b \in Mined, MinerFind(b)
      PROVE  IndInv' /\ ChainStep
  <2>1. b \in Block \ {Genesis}
    BY NodeStateAssumption, Zenon
  <2>2. /\ Unlocked /\ UNCHANGED <<snapshots, cache, session, recovery>>
        /\ \/ Parent(b) = cache.tip /\ Executes(b) /\ CommitAppend(b)
           \/ UNCHANGED <<chain, lock>>
    BY <1>6, Zenon DEF MinerFind
  <2>3. CASE Parent(b) = cache.tip /\ Executes(b) /\ CommitAppend(b)
    BY <2>1, <2>2, <2>3, AppendKeeps, Zenon DEF ChainStep
  <2>4. CASE UNCHANGED <<chain, lock>>
    BY <2>2, <2>4, OthersKeep, Zenon DEF ChainStep
  <2>5. QED
    BY <2>2, <2>3, <2>4, Zenon
<1>7. ASSUME NEW s \in Session, NEW tip \in PeerTip, BeginSession(s, tip)
      PROVE  IndInv' /\ ChainStep
  BY <1>7, BeginSessionKeeps, Zenon DEF ChainStep
<1>8. ASSUME NEW s \in Session, AbandonSession(s) \/ RefuseBranch(s)
      PROVE  IndInv' /\ ChainStep
  BY <1>8, SessionGivenUp, Zenon DEF ChainStep
<1>9. ASSUME NEW s \in Session, ApplyBranch(s)
      PROVE  IndInv' /\ ChainStep
  BY <1>9, ApplyBranchKeeps, Zenon DEF ChainStep
<1>10. ASSUME NEW s \in Session, BeginRecovery(s)
       PROVE  IndInv' /\ ChainStep
  BY <1>10, BeginRecoveryKeeps, SMTT(30), SMTT(60) DEF ChainStep
<1>11. CASE RecoverReadSnapshots
  BY <1>11, RecoverReadSnapshotsKeeps, Zenon DEF ChainStep
<1>12. CASE RecoverRestore
  BY <1>12, RecoverRestoreKeeps, Zenon DEF ChainStep
<1>13. CASE RecoverReplay
  BY <1>13, RecoverReplayKeeps, Zenon DEF ChainStep
<1>14. CASE RecoverPublish
  BY <1>14, RecoverPublishKeeps, SMTT(30), SMTT(60) DEF ChainStep
<1>15. CASE Crash
  BY <1>15, CrashKeeps, Zenon DEF ChainStep
<1>16. CASE Restart
  BY <1>16, RestartKeeps, Zenon DEF ChainStep
<1>17. ASSUME NEW height \in 0 .. HeightOf(chain), RestartInterrupted(height)
       PROVE  IndInv' /\ ChainStep
  BY <1>17, RestartInterruptedKeeps, Zenon DEF ChainStep
<1>18. CASE RecoverPool
  BY <1>18, RecoverPoolKeeps, Zenon DEF ChainStep
<1>19. CASE UNCHANGED vars
  BY <1>19, OthersKeep, Zenon DEF vars, ChainStep
<1>20. QED
  BY <1>1, <1>2, <1>3, <1>4, <1>5, <1>6, <1>7, <1>8, <1>9, <1>10, <1>11, <1>12,
     <1>13, <1>14, <1>15, <1>16, <1>17, <1>18, <1>19, SMTT(30), SMTT(60)
     DEF Next, AcceptRelayed, SubmitBlock

(* IndInv holds throughout. *)
LEMMA Invariance == Spec => []IndInv
BY InitEstablishes, StepKeeps, PTL DEF Spec

(* With the state mutation lock free, the published ledger is that of the   *)
(* stored chain, and its tip can always be rolled back.                     *)
THEOREM CacheIsCurrent == Spec => []CacheMatchesDisk
<1>1. IndInv => CacheMatchesDisk
  BY Zenon DEF IndInv, CacheInv, CacheMatchesDisk, LedgerOK, Running
<1>2. QED
  BY <1>1, Invariance, PTL

(* The node implements CanonicalChain: whatever relayed, submitted and      *)
(* mined blocks, sessions, recoveries and crashes do, the stored chain      *)
(* executes and only gives way to one that fork choice prefers.             *)
THEOREM ImplementsChain == Spec => ImplementsCanonicalChain
<1>1. Init => Canonical!Init
  BY Zenon DEF Init, Canonical!Init
<1>2. IndInv /\ [Next]_vars => [Canonical!Next]_chain
  BY StepKeeps, SMTT(30), SMTT(60) DEF ChainStep, Canonical!Next
<1>3. QED
  BY <1>1, <1>2, Invariance, PTL DEF Spec, ImplementsCanonicalChain, Canonical!Spec

-----------------------------------------------------------------------------
(* Every block of a ledger's chain has its receipts, in a journal or in the *)
(* archive.                                                                 *)
Covers(archive, l) ==
  \A b \in Range(Line[l.tip]) :
    OpsOf[b] = <<>> \/ HeightOf(b) >= l.base \/ b \in archive

(* The snapshots are of the stored chain; they, the published ledger and    *)
(* the one about to be published have all their receipts.                   *)
StoreInv ==
  /\ \A s \in snapshots : OnLine(s.tip, chain) /\ Covers(receipts, s)
  /\ cache # None => Covers(receipts, cache)
  /\ lock # None /\ lock.phase \in {"publish", "pool"} => Covers(receipts, lock.ledger)

-----------------------------------------------------------------------------
(* An ancestor of an ancestor is an ancestor. *)
LEMMA OnLineTransitive ==
  ASSUME NEW a \in Block, NEW b \in Block, NEW t \in Block, OnLine(a, b), OnLine(b, t)
  PROVE  OnLine(a, t)
<1>1. /\ HeightOf(a) \in Nat /\ HeightOf(b) \in Nat /\ HeightOf(t) \in Nat
      /\ HeightOf(a) <= HeightOf(b) /\ HeightOf(b) <= HeightOf(t)
  BY OwnLine, SMTT(30) DEF OnLine
<1>2. Line[b][HeightOf(a) + 1] = Line[t][HeightOf(a) + 1]
  BY <1>1, AncestorLine, SMTT(30)
<1>3. QED
  BY <1>1, <1>2, SMTT(30), SMTT(60) DEF OnLine, HeaderAt

(* The block at a height of a line is on the line. *)
LEMMA AtHeightOnLine ==
  ASSUME NEW t \in Block, NEW h \in 0 .. HeightOf(t)
  PROVE  HeaderAt(t, h) \in Block /\ HeightOf(HeaderAt(t, h)) = h /\ OnLine(HeaderAt(t, h), t)
BY AtHeight, OwnLine DEF OnLine

(* The blocks of a line are those on it. *)
LEMMA RangeOnLine ==
  ASSUME NEW t \in Block, NEW b \in Range(Line[t])
  PROVE  b \in Block /\ OnLine(b, t)
<1>1. PICK i \in 1 .. HeightOf(t) + 1 : b = Line[t][i]
  BY LineRange, Zenon
<1>2. i - 1 \in 0 .. HeightOf(t) /\ HeaderAt(t, i - 1) = b
  BY <1>1, OwnLine DEF HeaderAt
<1>3. QED
  BY <1>2, AtHeightOnLine, Zenon

(* ... and conversely. *)
LEMMA OnLineRange ==
  ASSUME NEW t \in Block, NEW b \in Block, OnLine(b, t)
  PROVE  b \in Range(Line[t])
<1>1. HeightOf(b) + 1 \in 1 .. HeightOf(t) + 1 /\ Line[t][HeightOf(b) + 1] = b
  BY OwnLine, SMTT(30) DEF OnLine, HeaderAt
<1>2. QED
  BY <1>1, LineRange, Zenon

(* Genesis is on every line. *)
LEMMA GenesisOnLine ==
  ASSUME NEW t \in Block
  PROVE  OnLine(Genesis, t)
BY GenesisHeight, LineShape, OwnLine, SMTT(30), SMTT(60) DEF OnLine, HeaderAt

(* Two blocks of one line: the lower one is an ancestor of the higher. *)
LEMMA SameLine ==
  ASSUME NEW t \in Block, NEW a \in Block, NEW b \in Block, OnLine(a, t), OnLine(b, t),
         HeightOf(a) <= HeightOf(b)
  PROVE  OnLine(a, b)
<1>1. /\ HeightOf(a) \in Nat /\ HeightOf(b) \in Nat /\ HeightOf(t) \in Nat
      /\ HeightOf(b) <= HeightOf(t)
  BY OwnLine, SMTT(30) DEF OnLine
<1>2. Line[b][HeightOf(a) + 1] = Line[t][HeightOf(a) + 1]
  BY <1>1, AncestorLine, SMTT(30)
<1>3. QED
  BY <1>1, <1>2, SMTT(30) DEF OnLine, HeaderAt

(* Chains agree up to their common height. *)
LEMMA CommonPrefix ==
  ASSUME NEW t \in Block, NEW u \in Block, NEW a \in Block, OnLine(a, t),
         HeightOf(a) <= CommonHeight(t, u)
  PROVE  OnLine(a, u)
<1> DEFINE S == {h \in 0 .. HeightOf(t) : h <= HeightOf(u) /\ HeaderAt(t, h) = HeaderAt(u, h)}
           n == CommonHeight(t, u)
<1>1. HeightOf(t) \in Nat /\ HeightOf(u) \in Nat /\ HeightOf(a) \in Nat
  BY OwnLine, SMTT(30)
<1>2. 0 \in S
  BY <1>1, LineShape, SMTT(30) DEF HeaderAt
<1>3. S \in SUBSET Nat /\ S # {} /\ \A h \in S : h <= HeightOf(t)
  BY <1>1, <1>2
<1>4. n = CHOOSE x \in S : \A y \in S : x >= y
  BY Zenon DEF CommonHeight, Max
<1> HIDE DEF S, n
<1>5. \E x \in S : \A y \in S : y <= x
  BY <1>1, <1>3, Greatest, Zenon
<1>6. n \in S
  <2>1. \E x \in S : \A y \in S : x >= y
    BY <1>3, <1>5, Zenon
  <2>2. QED
    BY <1>4, <2>1, Zenon
<1>7. n \in 0 .. HeightOf(t) /\ n \in 0 .. HeightOf(u) /\ HeaderAt(t, n) = HeaderAt(u, n)
  BY <1>1, <1>6, SMTT(30), SMTT(60) DEF S
<1>8. OnLine(a, HeaderAt(t, n))
  BY <1>7, AtHeightOnLine, SameLine DEF n
<1>9. QED
  BY <1>7, <1>8, AtHeightOnLine, OnLineTransitive, SMTT(30), SMTT(60)

-----------------------------------------------------------------------------
(* A larger archive covers no less. *)
LEMMA ArchiveGrows ==
  ASSUME NEW archive, NEW larger, archive \subseteq larger, NEW l, Covers(archive, l)
  PROVE  Covers(larger, l)
BY Zenon DEF Covers

(* What a snapshot or a ledger covers depends on its tip and its base. *)
LEMMA SameCover ==
  ASSUME NEW archive, NEW l, NEW m, l.tip = m.tip, l.base = m.base, Covers(archive, l)
  PROVE  Covers(archive, m)
BY Zenon DEF Covers

(* prune_journals archives the receipts whose journals it drops. *)
LEMMA PruningCovers ==
  ASSUME NEW archive, NEW l, LedgerOK(l), Covers(archive, l)
  PROVE  Covers(archive \cup Archived(l), Pruned(l))
<1>1. l \in Ledgers /\ l.tip \in Block /\ l.base \in Nat /\ HeightOf(l.tip) \in Nat
  BY OwnLine, SMTT(30) DEF LedgerOK, Ledgers
<1>2. FirstKept(l.tip) \in Nat /\ FirstKept(l.tip) <= HeightOf(l.tip)
  BY <1>1, NodeStateAssumption DEF FirstKept, AtLeast
<1>3. Pruned(l) = [tip |-> l.tip, base |-> AtLeast(FirstKept(l.tip), l.base)]
  BY <1>1, SMTT(30), SMTT(60) DEF Pruned, Ledgers
<1> SUFFICES ASSUME NEW b \in Range(Line[l.tip]), OpsOf[b] # <<>>, b \notin archive,
                    ~ (HeightOf(b) >= AtLeast(FirstKept(l.tip), l.base))
             PROVE  b \in Archived(l)
  BY <1>3, SMTT(30), SMTT(60) DEF Covers
<1>4. b \in Block /\ HeightOf(b) \in Nat /\ HeaderAt(l.tip, HeightOf(b)) = b
  BY <1>1, RangeOnLine, OwnLine, SMTT(30), SMTT(60) DEF OnLine
<1>5. HeightOf(b) >= l.base
  BY SMTT(30), SMTT(60) DEF Covers
<1>6. HeightOf(b) \in l.base .. FirstKept(l.tip) - 1
  BY <1>1, <1>2, <1>4, <1>5, SMTT(30), SMTT(60) DEF AtLeast
<1>7. QED
  BY <1>4, <1>6, ZenonT(40) DEF Archived, WithReceipt

(* A ledger moved to another chain, by blocks it has journals for. *)
LEMMA MovingCovers ==
  ASSUME NEW archive, NEW l \in Ledgers, Covers(archive, l),
         NEW a \in Block, NEW t \in Block, OnLine(a, l.tip), OnLine(a, t),
         l.base <= HeightOf(a) + 1
  PROVE  Covers(archive, [l EXCEPT !.tip = t])
<1>1. l.tip \in Block /\ l.base \in Nat /\ HeightOf(a) \in Nat
  BY OwnLine, Zenon DEF Ledgers
<1>2. [l EXCEPT !.tip = t] = [tip |-> t, base |-> l.base]
  BY DEF Ledgers
<1> SUFFICES ASSUME NEW b \in Range(Line[t]), OpsOf[b] # <<>>, b \notin archive
             PROVE  HeightOf(b) >= l.base
  BY <1>2, SMTT(30), SMTT(60) DEF Covers
<1>3. b \in Block /\ OnLine(b, t) /\ HeightOf(b) \in Nat
  BY RangeOnLine, OwnLine, SMTT(30), SMTT(60)
<1>4. CASE HeightOf(b) <= HeightOf(a)
  <2>1. OnLine(b, l.tip)
    BY <1>1, <1>3, <1>4, SameLine, OnLineTransitive, SMTT(30), SMTT(60)
  <2>2. b \in Range(Line[l.tip])
    BY <1>1, <1>3, <2>1, OnLineRange, SMTT(30), SMTT(60)
  <2>3. QED
    BY <2>2, SMTT(30), SMTT(60) DEF Covers
<1>5. CASE HeightOf(b) > HeightOf(a)
  BY <1>1, <1>3, <1>5, SMTT(30)
<1>6. QED
  BY <1>1, <1>3, <1>4, <1>5, SMTT(30)

(* Where a replay starts is covered if the snapshots are. *)
LEMMA StartCovers ==
  ASSUME NEW archive, NEW table, \A s \in table : Covers(archive, s),
         NEW start \in StartFrom(table)
  PROVE  Covers(archive, start)
<1>1. CASE table = {}
  <2>1. start = [tip |-> Genesis, base |-> 0]
    BY <1>1, SMTT(30) DEF StartFrom, GenesisLedger
  <2>2. \A b \in Range(Line[Genesis]) : HeightOf(b) >= 0
    BY GenesisHeight, RangeOnLine, OwnLine, SMTT(30), SMTT(60)
  <2>3. QED
    BY <2>1, <2>2, SMTT(30) DEF Covers
<1>2. CASE table # {}
  <2>1. PICK s \in table : start = [tip |-> s.tip, base |-> s.base]
    BY <1>2, Zenon DEF StartFrom
  <2>2. QED
    BY <2>1, SameCover, SMTT(30)
<1>3. QED
  BY <1>1, <1>2, SMTT(30), SMTT(60)

-----------------------------------------------------------------------------
(* A replay that goes further archives no less. *)
LEMMA ArchivedGrows ==
  ASSUME NEW start \in Ledgers, NEW t \in Block, NEW top \in 0 .. HeightOf(t), NEW h \in 0 .. top
  PROVE  Archived([start EXCEPT !.tip = HeaderAt(t, h)])
           \subseteq Archived([start EXCEPT !.tip = HeaderAt(t, top)])
<1> DEFINE low == HeaderAt(t, h)
           high == HeaderAt(t, top)
<1>1. HeightOf(t) \in Nat /\ start.base \in Nat
  BY OwnLine, SMTT(30) DEF Ledgers
<1>2. /\ low \in Block /\ HeightOf(low) = h /\ OnLine(low, t)
      /\ high \in Block /\ HeightOf(high) = top /\ OnLine(high, t)
  BY <1>1, AtHeightOnLine, SMT, SMTT(30)
<1>3. /\ [start EXCEPT !.tip = low] = [tip |-> low, base |-> start.base]
      /\ [start EXCEPT !.tip = high] = [tip |-> high, base |-> start.base]
  BY SMTT(30) DEF Ledgers
<1> HIDE DEF low, high
<1>4. /\ FirstKept(low) \in Nat /\ FirstKept(high) \in Nat
      /\ FirstKept(low) <= FirstKept(high) /\ FirstKept(low) <= h
  BY <1>1, <1>2, NodeStateAssumption, SMTT(30), SMTT(60) DEF FirstKept, AtLeast
<1>5. OnLine(low, high)
  BY <1>1, <1>2, SameLine, SMTT(30), SMTT(60)
<1>6. ASSUME NEW k \in start.base .. FirstKept(low) - 1
      PROVE  k \in start.base .. FirstKept(high) - 1 /\ HeaderAt(low, k) = HeaderAt(high, k)
  <2>1. k \in start.base .. FirstKept(high) - 1 /\ k + 1 \in 1 .. h + 1
    BY <1>1, <1>4
  <2>2. QED
    BY <1>2, <1>5, <2>1, AncestorLine, SMTT(30), SMTT(60) DEF HeaderAt
<1>7. {HeaderAt(low, k) : k \in start.base .. FirstKept(low) - 1}
        \subseteq {HeaderAt(high, k) : k \in start.base .. FirstKept(high) - 1}
  BY <1>6, Zenon
<1>8. /\ Archived([start EXCEPT !.tip = low])
           = WithReceipt({HeaderAt(low, k) : k \in start.base .. FirstKept(low) - 1})
      /\ Archived([start EXCEPT !.tip = high])
           = WithReceipt({HeaderAt(high, k) : k \in start.base .. FirstKept(high) - 1})
  BY <1>3, Zenon DEF Archived
<1>9. QED
  BY <1>7, <1>8, Zenon DEF WithReceipt, low, high

(* What a restart replays is covered, at every height on the way. *)
LEMMA ReplayCovers ==
  ASSUME chain \in Block, NEW archive, NEW start, LedgerOK(start), OnLine(start.tip, chain),
         Covers(archive, start), NEW top \in HeightOf(start.tip) .. HeightOf(chain),
         NEW h \in HeightOf(start.tip) .. top
  PROVE  Covers(archive \cup Archived([start EXCEPT !.tip = HeaderAt(chain, top)]),
                ReplayedTo(start, h))
<1> DEFINE moved == [start EXCEPT !.tip = HeaderAt(chain, h)]
           written == Archived([start EXCEPT !.tip = HeaderAt(chain, top)])
<1>1. /\ start \in Ledgers /\ start.tip \in Block /\ start.base \in Nat
      /\ start.base <= HeightOf(start.tip)
      /\ HeightOf(start.tip) \in Nat /\ HeightOf(chain) \in Nat
  BY OwnLine, Zenon DEF LedgerOK, Ledgers
<1>2. /\ HeaderAt(chain, h) \in Block /\ HeightOf(HeaderAt(chain, h)) = h
      /\ OnLine(HeaderAt(chain, h), chain)
  BY <1>1, AtHeightOnLine, SMTT(30)
<1>3. OnLine(start.tip, HeaderAt(chain, h)) /\ OnLine(start.tip, start.tip)
  <2>1. ASSUME NEW low \in Nat, NEW n \in low .. top
        PROVE  low <= n /\ low <= low
    OBVIOUS
  <2>2. /\ HeightOf(start.tip) <= HeightOf(HeaderAt(chain, h))
        /\ HeightOf(start.tip) <= HeightOf(start.tip)
    BY <1>1, <1>2, <2>1, Zenon
  <2>3. OnLine(start.tip, HeaderAt(chain, h))
    BY <1>1, <1>2, <2>2, SameLine, Zenon
  <2>4. QED
    BY <1>1, <2>2, <2>3, OwnLine, Zenon DEF OnLine
<1>4. Covers(archive, moved)
  BY <1>1, <1>2, <1>3, MovingCovers, SMT, SMTT(30)
<1>5. LedgerOK(moved)
  BY <1>1, <1>2, MovedOK
<1>6. Archived(moved) \subseteq written
  BY <1>1, ArchivedGrows
<1>7. ReplayedTo(start, h) = Pruned(moved)
  BY Zenon DEF ReplayedTo
<1> HIDE DEF moved, written
<1>8. Covers(archive \cup Archived(moved), Pruned(moved))
  BY <1>4, <1>5, PruningCovers, Zenon
<1>9. QED
  BY <1>6, <1>7, <1>8, ArchiveGrows, SMTT(30) DEF written

(* The ledger a restart starts from, with its receipts. *)
LEMMA VouchedCovers ==
  ASSUME IndInv, StoreInv, NEW start \in StartFrom(Vouched)
  PROVE  OnLine(start.tip, chain) /\ Covers(receipts, start)
<1>1. \A s \in Vouched : SnapshotOK(s) /\ OnLine(s.tip, chain) /\ Covers(receipts, s)
  BY Zenon DEF IndInv, ChainInv, Vouched, Usable, StoreInv
<1>2. start = GenesisLedger \/ \E s \in Vouched : start.tip = s.tip
  BY <1>1, StartOK, SMTT(30)
<1>3. OnLine(start.tip, chain)
  BY <1>1, <1>2, GenesisOnLine DEF GenesisLedger, IndInv, ChainInv
<1>4. QED
  BY <1>1, <1>3, StartCovers, ZenonT(40)

(* The snapshots a replay writes on the way. *)
LEMMA SnapshotsToCovered ==
  ASSUME IndInv, StoreInv, NEW start \in StartFrom(Vouched),
         NEW top \in HeightOf(start.tip) .. HeightOf(chain),
         NEW archive, archive = receipts \cup Archived([start EXCEPT !.tip = HeaderAt(chain, top)])
  PROVE  \A s \in SnapshotsTo(start, top) : OnLine(s.tip, chain) /\ Covers(archive, s)
<1>1. /\ LedgerOK(start) /\ OnLine(start.tip, chain) /\ Covers(receipts, start)
      /\ chain \in Block /\ HeightOf(start.tip) \in Nat /\ HeightOf(chain) \in Nat
  BY VouchedOK, VouchedCovers, OwnLine, Zenon DEF IndInv, ChainInv, LedgerOK, Ledgers
<1>2. ASSUME NEW h \in HeightOf(start.tip) + 1 .. top
      PROVE  LET s == SnapshotOf(ReplayedTo(start, h), TRUE)
             IN  OnLine(s.tip, chain) /\ Covers(archive, s)
  <2>1. h \in HeightOf(start.tip) .. top /\ h \in HeightOf(start.tip) .. HeightOf(chain)
    BY <1>1
  <2>2. Covers(archive, ReplayedTo(start, h))
    BY <1>1, <2>1, ReplayCovers, Zenon
  <2>3. ReplayedTo(start, h).tip = HeaderAt(chain, h)
    BY <1>1, <2>1, ReplayOK, Zenon
  <2>4. OnLine(HeaderAt(chain, h), chain)
    BY <1>1, <2>1, AtHeightOnLine
  <2>5. QED
    BY <2>2, <2>3, <2>4, SameCover DEF SnapshotOf
<1>3. \A s \in snapshots : OnLine(s.tip, chain) /\ Covers(archive, s)
  BY ArchiveGrows, Zenon DEF StoreInv
<1>4. QED
  BY <1>2, <1>3, Zenon DEF SnapshotsTo, TwoNewest

-----------------------------------------------------------------------------
(* Steps that may archive receipts and change nothing else of this. *)
LEMMA StoreUnchanged ==
  ASSUME StoreInv, receipts \subseteq receipts', UNCHANGED <<chain, snapshots, cache, lock>>
  PROVE  StoreInv'
<1>1. \A l : Covers(receipts, l) => Covers(receipts', l)
  BY ArchiveGrows, SMTT(30), SMTT(60)
<1>2. QED
  BY <1>1, Zenon DEF StoreInv

(* update_ledger_cache *)
LEMMA PublishStores ==
  ASSUME IndInv, StoreInv, Publish
  PROVE  StoreInv'
<1>1. /\ lock # None /\ lock.phase = "publish" /\ cache' = Pruned(lock.ledger)
      /\ receipts' = receipts \cup Archived(lock.ledger) /\ lock'.phase = "finish"
      /\ UNCHANGED <<chain, snapshots>>
  BY Zenon DEF Publish
<1>2. LedgerOK(lock.ledger) /\ Covers(receipts, lock.ledger)
  BY <1>1, Zenon DEF IndInv, CacheInv, LockOK, StoreInv
<1>3. Covers(receipts', cache')
  BY <1>1, <1>2, PruningCovers, SMTT(30), SMTT(60)
<1>4. \A s \in snapshots' : OnLine(s.tip, chain') /\ Covers(receipts', s)
  BY <1>1, ArchiveGrows, SMTT(30) DEF StoreInv
<1>5. QED
  BY <1>1, <1>3, <1>4, SMTT(30) DEF StoreInv

(* write_if_due and the release of the lock *)
LEMMA FinishStores ==
  ASSUME IndInv, StoreInv, Finish
  PROVE  StoreInv'
<1>1. /\ lock # None /\ lock.phase = "finish" /\ lock' = None
      /\ snapshots' = IF lock.snapshot THEN WithSnapshot(snapshots, cache) ELSE snapshots
      /\ UNCHANGED <<chain, receipts, cache>>
  BY Zenon DEF Finish
<1>2. cache # None /\ cache.tip = chain /\ chain \in Block
  BY <1>1, SMTT(30), SMTT(60) DEF IndInv, ChainInv, CacheInv, LockOK
<1> DEFINE new == SnapshotOf(cache, TRUE)
<1>3. OnLine(new.tip, chain) /\ Covers(receipts, new)
  BY <1>2, OwnLine, SameCover DEF OnLine, SnapshotOf, StoreInv
<1> HIDE DEF new
<1>4. \A s \in WithSnapshot(snapshots, cache) : s \in snapshots \/ s = new
  BY Zenon DEF WithSnapshot, TwoNewest, new
<1>5. \A s \in snapshots' : OnLine(s.tip, chain') /\ Covers(receipts', s)
  BY <1>1, <1>3, <1>4, Zenon DEF StoreInv
<1>6. QED
  BY <1>1, <1>5, Zenon DEF StoreInv

(* A block appended to the tip. *)
LEMMA AppendStores ==
  ASSUME IndInv, StoreInv, Unlocked, NEW b \in Block \ {Genesis}, Parent(b) = cache.tip,
         CommitAppend(b), UNCHANGED <<snapshots, receipts, cache>>
  PROVE  StoreInv'
<1> DEFINE moved == [cache EXCEPT !.tip = b]
<1>1. /\ cache # None /\ cache.tip = chain /\ cache \in Ledgers /\ chain \in Block
      /\ cache.base <= HeightOf(chain) /\ Covers(receipts, cache)
  BY SMTT(30), SMTT(60) DEF IndInv, ChainInv, CacheInv, LedgerOK, Unlocked, Running, StoreInv
<1>2. OnLine(chain, b) /\ OnLine(chain, chain)
  BY <1>1, ChildBetter, OwnLine, SMTT(30), SMTT(60) DEF OnLine
<1>3. cache.base <= HeightOf(chain) + 1
  BY <1>1, OwnLine, SMTT(30) DEF Ledgers
<1>4. Covers(receipts, moved)
  BY <1>1, <1>2, <1>3, MovingCovers, SMTT(30), SMTT(60)
<1>5. \A s \in snapshots : OnLine(s.tip, b)
  BY <1>1, <1>2, OnLineTransitive, Zenon DEF IndInv, ChainInv, SnapshotOK, Snapshots, StoreInv
<1>6. chain' = b /\ lock'.ledger = moved
  BY Zenon DEF CommitAppend, Publishing
<1> HIDE DEF moved
<1>7. QED
  BY <1>4, <1>5, <1>6, SMTT(30), SMTT(60) DEF StoreInv

(* A branch committed under the lock: the snapshots of the chain it leaves  *)
(* go, and what is added is of the branch.                                  *)
LEMMA BranchStores ==
  ASSUME IndInv, StoreInv, Unlocked, NEW branch, BranchOK(branch), NEW extra,
         CommitBranch(branch, extra), receipts \subseteq receipts',
         \A s \in extra : s.tip = branch.tip /\ Covers(receipts', s),
         Covers(receipts', lock'.ledger), UNCHANGED cache
  PROVE  StoreInv'
<1>1. chain \in Block /\ branch.tip \in Block /\ chain' = branch.tip
  BY ZenonT(40) DEF IndInv, ChainInv, BranchOK, Branches, CommitBranch
<1>2. ASSUME NEW s \in SnapshotsThrough(snapshots, branch.tip)
      PROVE  OnLine(s.tip, branch.tip) /\ Covers(receipts', s)
  <2>1. s \in snapshots /\ HeightOf(s.tip) <= CommonHeight(chain, branch.tip)
    BY <1>2, ZenonT(40) DEF SnapshotsThrough, SnapshotHeight
  <2>2. s.tip \in Block /\ OnLine(s.tip, chain) /\ Covers(receipts, s)
    BY <2>1, SMTT(30) DEF IndInv, ChainInv, SnapshotOK, Snapshots, StoreInv
  <2>3. QED
    BY <1>1, <2>1, <2>2, CommonPrefix, ArchiveGrows, SMTT(30), SMTT(60)
<1>3. OnLine(branch.tip, branch.tip)
  <2>1. \A n \in Nat : n <= n
    BY SMT, SMTT(30)
  <2>2. QED
    BY <1>1, <2>1, OwnLine, Zenon DEF OnLine
<1>4. \A s \in snapshots' : OnLine(s.tip, chain') /\ Covers(receipts', s)
  BY <1>1, <1>2, <1>3, SMTT(30), SMTT(60) DEF CommitBranch
<1>5. cache' # None => Covers(receipts', cache')
  BY ArchiveGrows, SMTT(30) DEF StoreInv
<1>6. QED
  BY <1>4, <1>5, SMTT(30) DEF StoreInv

(* apply_verified_branch_stream *)
LEMMA ApplyBranchStores ==
  ASSUME IndInv, StoreInv, NEW s \in Session, ApplyBranch(s)
  PROVE  StoreInv'
<1> DEFINE branch == session[s]
           staged == [cache EXCEPT !.tip = branch.tip]
<1>1. /\ Unlocked /\ branch # None /\ Attaches(branch) /\ CanRollbackTo(cache, branch.ancestor)
      /\ CommitBranch(branch, {}) /\ receipts' = receipts \cup Archived(staged)
      /\ lock'.ledger = Pruned(staged) /\ UNCHANGED cache
  BY Zenon DEF ApplyBranch, Publishing
<1>2. BranchOK(branch)
  BY <1>1, SMTT(30) DEF IndInv, SessionInv
<1>3. /\ branch.tip \in Block /\ branch.ancestor \in Block /\ OnLine(branch.ancestor, branch.tip)
      /\ HeightOf(branch.ancestor) < HeightOf(branch.tip)
      /\ HeightOf(branch.ancestor) \in Nat /\ HeightOf(branch.tip) \in Nat
  BY <1>2, Below, OwnLine, Zenon DEF BranchOK, Branches
<1>4. /\ cache \in Ledgers /\ cache.base \in Nat /\ Covers(receipts, cache)
      /\ OnLine(branch.ancestor, cache.tip) /\ cache.base <= HeightOf(branch.ancestor) + 1
  BY <1>1, Zenon DEF IndInv, CacheInv, LedgerOK, Ledgers, Unlocked, Running, StoreInv,
              Attaches, CanRollbackTo
<1>5. LedgerOK(staged)
  BY <1>3, <1>4, MovedOK
<1>6. Covers(receipts, staged)
  BY <1>3, <1>4, MovingCovers, SMTT(30)
<1> HIDE DEF staged, branch
<1>7. Covers(receipts', lock'.ledger)
  BY <1>1, <1>5, <1>6, PruningCovers, Zenon
<1>8. /\ receipts \subseteq receipts' /\ cache' = cache
      /\ \A q \in {} : q.tip = branch.tip /\ Covers(receipts', q)
  BY <1>1, Zenon
<1>9. QED
  <2> DEFINE none == {}
  <2>1. CommitBranch(branch, none) /\ \A q \in none : q.tip = branch.tip /\ Covers(receipts', q)
    BY <1>1, <1>8, Zenon
  <2> HIDE DEF none
  <2>2. QED
    BY <1>1, <1>2, <1>7, <1>8, <2>1, BranchStores, ZenonT(40)

(* recover_branch archives the receipts of the whole chain it publishes. *)
LEMMA RecoverPublishStores ==
  ASSUME IndInv, StoreInv, RecoverPublish
  PROVE  StoreInv'
<1> DEFINE branch == session[recovery.session]
           new == SnapshotOf(recovery.ledger, FALSE)
<1>1. /\ Unlocked /\ recovery # None /\ recovery.phase = "replayed" /\ UNCHANGED cache
      /\ \/ /\ CommitBranch(branch, {new})
            /\ receipts' = receipts \cup WithReceipt(Range(Line[branch.tip]))
            /\ lock' = Publishing(recovery.ledger, FALSE)
         \/ receipts \subseteq receipts' /\ UNCHANGED <<chain, snapshots, lock>>
  BY Zenon DEF RecoverPublish, RecoveryBranch
<1>2. recovery.ledger.tip = branch.tip /\ BranchOK(branch)
  BY <1>1, Zenon DEF IndInv, RecoveryInv, RecoveryOK, Recoveries, SessionInv
<1>3. CASE /\ CommitBranch(branch, {new})
           /\ receipts' = receipts \cup WithReceipt(Range(Line[branch.tip]))
           /\ lock' = Publishing(recovery.ledger, FALSE)
  <2>1. \A l : l.tip = branch.tip => Covers(receipts', l)
    <3>1. \A b \in Range(Line[branch.tip]) : OpsOf[b] = <<>> \/ b \in receipts'
      BY <1>3, Zenon DEF WithReceipt
    <3>2. QED
      BY <3>1, Zenon DEF Covers
  <2>2. new.tip = branch.tip /\ lock'.ledger = recovery.ledger
    BY <1>2, <1>3, Zenon DEF SnapshotOf, Publishing
  <2> DEFINE extra == {new}
  <2>3. \A s \in extra : s.tip = branch.tip /\ Covers(receipts', s)
    BY <2>1, <2>2, Zenon
  <2>4. Covers(receipts', lock'.ledger)
    BY <1>2, <2>1, <2>2, Zenon
  <2>5. receipts \subseteq receipts'
    BY <1>3, Zenon
  <2>6. Unlocked /\ UNCHANGED cache /\ CommitBranch(branch, extra)
    BY <1>1, <1>3, Zenon
  <2> HIDE DEF branch, extra
  <2>7. QED
    BY <1>2, <2>3, <2>4, <2>5, <2>6, BranchStores, ZenonT(40)
<1>4. CASE receipts \subseteq receipts' /\ UNCHANGED <<chain, snapshots, lock>>
  BY <1>1, <1>4, StoreUnchanged, Zenon
<1>5. QED
  BY <1>1, <1>3, <1>4, Zenon

(* load_existing *)
LEMMA RestartStores ==
  ASSUME IndInv, StoreInv, Restart
  PROVE  StoreInv'
<1>1. PICK start \in StartFrom(Vouched) :
        /\ snapshots' = FinalSnapshots(start)
        /\ receipts' = receipts \cup Archived([start EXCEPT !.tip = chain])
        /\ lock' = [phase |-> "pool", ledger |-> ReplayedTo(start, HeightOf(chain))]
  BY Zenon DEF Restart
<1>2. cache = None /\ UNCHANGED <<chain, cache>>
  BY Zenon DEF Restart, Running
<1>3. /\ LedgerOK(start) /\ HeightOf(start.tip) <= HeightOf(chain)
      /\ OnLine(start.tip, chain) /\ Covers(receipts, start)
  BY VouchedOK, VouchedCovers, ZenonT(40)
<1>4. /\ chain \in Block /\ HeightOf(chain) \in Nat /\ HeightOf(start.tip) \in Nat
      /\ HeaderAt(chain, HeightOf(chain)) = chain /\ OnLine(chain, chain)
  BY <1>3, OwnLine, SMTT(30), SMTT(60) DEF IndInv, ChainInv, LedgerOK, Ledgers, OnLine
<1> DEFINE ledger == ReplayedTo(start, HeightOf(chain))
           new == SnapshotOf(ledger, TRUE)
<1>5. HeightOf(chain) \in HeightOf(start.tip) .. HeightOf(chain)
  BY <1>3, <1>4, SMTT(30)
<1>6. /\ receipts' = receipts \cup Archived([start EXCEPT !.tip = HeaderAt(chain, HeightOf(chain))])
      /\ ledger.tip = chain
  BY <1>1, <1>3, <1>4, <1>5, ReplayOK, ZenonT(40)
<1>7. Covers(receipts', ledger)
  BY <1>3, <1>4, <1>5, <1>6, ReplayCovers, Zenon
<1> HIDE DEF ledger
<1>8. OnLine(new.tip, chain) /\ Covers(receipts', new)
  BY <1>4, <1>6, <1>7, SameCover, SMTT(30), SMTT(60) DEF SnapshotOf
<1>9. \A s \in SnapshotsTo(start, HeightOf(chain)) : OnLine(s.tip, chain) /\ Covers(receipts', s)
  BY <1>5, <1>6, SnapshotsToCovered, Zenon
<1> HIDE DEF new
<1>10. \A s \in WithSnapshot(SnapshotsTo(start, HeightOf(chain)), ledger) :
         OnLine(s.tip, chain) /\ Covers(receipts', s)
  BY <1>8, <1>9, Zenon DEF WithSnapshot, TwoNewest, new
<1>11. \A s \in snapshots : OnLine(s.tip, chain) /\ Covers(receipts', s)
  BY <1>6, ArchiveGrows, Zenon DEF StoreInv
<1>12. \A s \in snapshots' : OnLine(s.tip, chain') /\ Covers(receipts', s)
  BY <1>1, <1>2, <1>10, <1>11, Zenon DEF FinalSnapshots, ledger
<1>13. QED
  BY <1>1, <1>2, <1>7, <1>12, Zenon DEF StoreInv, ledger

(* replay_body_reader, interrupted. *)
LEMMA RestartInterruptedStores ==
  ASSUME IndInv, StoreInv, NEW height \in 0 .. HeightOf(chain), RestartInterrupted(height)
  PROVE  StoreInv'
<1>1. PICK start \in StartFrom(Vouched) :
        /\ height \in HeightOf(start.tip) .. HeightOf(chain)
        /\ snapshots' = SnapshotsTo(start, height)
        /\ receipts' = receipts \cup Archived([start EXCEPT !.tip = HeaderAt(chain, height)])
  BY Zenon DEF RestartInterrupted
<1>2. cache = None /\ lock = None /\ UNCHANGED <<chain, cache, lock>>
  BY Zenon DEF RestartInterrupted, Running
<1>3. \A s \in snapshots' : OnLine(s.tip, chain') /\ Covers(receipts', s)
  BY <1>1, <1>2, SnapshotsToCovered, Zenon
<1>4. QED
  BY <1>2, <1>3, Zenon DEF StoreInv

(* recover_mempool, and the end of the process. *)
LEMMA OthersStore ==
  ASSUME StoreInv, RecoverPool \/ Crash
  PROVE  StoreInv'
<1>1. CASE RecoverPool
  BY <1>1, Zenon DEF RecoverPool, Publishing, StoreInv
<1>2. CASE Crash
  BY <1>2, Zenon DEF Crash, disk, StoreInv
<1>3. QED
  BY <1>1, <1>2, Zenon

-----------------------------------------------------------------------------
(* Initially there are no snapshots, and genesis needs no receipts. *)
LEMMA InitStores == Init => StoreInv
<1> SUFFICES ASSUME Init PROVE StoreInv
  BY Zenon
<1>1. GenesisLedger \in StartFrom({})
  BY Zenon DEF StartFrom
<1>2. Covers(receipts, GenesisLedger)
  BY <1>1, StartCovers, Zenon
<1>3. QED
  BY <1>2, Zenon DEF Init, StoreInv

(* Every step keeps the snapshots and the archive right. *)
LEMMA StepStores == IndInv /\ StoreInv /\ [Next]_vars => StoreInv'
<1> SUFFICES ASSUME IndInv, StoreInv, [Next]_vars PROVE StoreInv'
  BY Zenon
<1>1. CASE Publish
  BY <1>1, PublishStores, Zenon
<1>2. CASE Finish
  BY <1>2, FinishStores, Zenon
<1>3. ASSUME NEW b \in Relayed \cup Offered, ExtendTip(b)
      PROVE  StoreInv'
  BY <1>3, NodeStateAssumption, AppendStores, Zenon DEF ExtendTip
<1>4. ASSUME NEW op \in Submitted, Insert(op)
      PROVE  StoreInv'
  BY <1>4, StoreUnchanged, Zenon DEF Insert
<1>5. CASE MinerStart \/ MinerReadLedger \/ MinerReadPool \/ MinerBuild \/ MinerCancel
  <2>1. UNCHANGED <<chain, snapshots, receipts, cache, lock>>
    BY <1>5, Zenon DEF MinerStart, MinerReadLedger, MinerReadPool, MinerBuild, MinerCancel
  <2>2. QED
    BY <2>1, StoreUnchanged, Zenon
<1>6. ASSUME NEW b \in Mined, MinerFind(b)
      PROVE  StoreInv'
  <2>1. /\ Unlocked /\ UNCHANGED <<snapshots, receipts, cache>>
        /\ \/ Parent(b) = cache.tip /\ CommitAppend(b)
           \/ UNCHANGED <<chain, lock>>
    BY <1>6, Zenon DEF MinerFind
  <2>2. CASE Parent(b) = cache.tip /\ CommitAppend(b)
    BY <2>1, <2>2, NodeStateAssumption, AppendStores, Zenon
  <2>3. CASE UNCHANGED <<chain, lock>>
    BY <2>1, <2>3, StoreUnchanged, Zenon
  <2>4. QED
    BY <2>1, <2>2, <2>3, Zenon
<1>7. ASSUME NEW s \in Session, NEW tip \in PeerTip, BeginSession(s, tip)
      PROVE  StoreInv'
  BY <1>7, StoreUnchanged, Zenon DEF BeginSession
<1>8. ASSUME NEW s \in Session, AbandonSession(s) \/ RefuseBranch(s) \/ BeginRecovery(s)
      PROVE  StoreInv'
  <2>1. receipts \subseteq receipts' /\ UNCHANGED <<chain, snapshots, cache, lock>>
    BY <1>8, Zenon DEF AbandonSession, RefuseBranch, BeginRecovery
  <2>2. QED
    BY <2>1, StoreUnchanged, Zenon
<1>9. ASSUME NEW s \in Session, ApplyBranch(s)
      PROVE  StoreInv'
  BY <1>9, ApplyBranchStores, ZenonT(40)
<1>10. CASE RecoverReadSnapshots \/ RecoverRestore \/ RecoverReplay
  <2>1. UNCHANGED <<chain, snapshots, receipts, cache, lock>>
    BY <1>10, ZenonT(40) DEF RecoverReadSnapshots, RecoverRestore, RecoverReplay
  <2>2. QED
    BY <2>1, StoreUnchanged, Zenon
<1>11. CASE RecoverPublish
  BY <1>11, RecoverPublishStores, Zenon
<1>12. CASE Restart
  BY <1>12, RestartStores, Zenon
<1>13. ASSUME NEW height \in 0 .. HeightOf(chain), RestartInterrupted(height)
       PROVE  StoreInv'
  BY <1>13, RestartInterruptedStores, Zenon
<1>14. CASE RecoverPool \/ Crash
  BY <1>14, OthersStore, Zenon
<1>15. CASE UNCHANGED vars
  BY <1>15, StoreUnchanged, Zenon DEF vars
<1>16. QED
  BY <1>1, <1>2, <1>3, <1>4, <1>5, <1>6, <1>7, <1>8, <1>9, <1>10, <1>11, <1>12, <1>13,
     <1>14, <1>15, ZenonT(40)
     DEF Next, AcceptRelayed, SubmitBlock

(* Every stored snapshot is of the stored chain and can be rolled back,      *)
(* whatever reorganisations, recoveries, crashes and interrupted replays     *)
(* there were.                                                               *)
THEOREM SnapshotsStayOnChain == Spec => []SnapshotsOnChain
<1>1. IndInv /\ StoreInv => SnapshotsOnChain
  BY Zenon DEF IndInv, ChainInv, SnapshotOK, StoreInv, SnapshotsOnChain
<1>2. QED
  BY <1>1, Invariance, InitStores, StepStores, PTL DEF Spec

(* No pruning, reorganisation or restart loses the execution receipts of a   *)
(* block of the published chain.                                             *)
THEOREM ReceiptsStayAvailable == Spec => []ReceiptsAvailable
<1>1. StoreInv => ReceiptsAvailable
  BY Zenon DEF StoreInv, Covers, ReceiptsAvailable, HasReceipt, Running
<1>2. QED
  BY <1>1, Invariance, InitStores, StepStores, PTL DEF Spec

=============================================================================
