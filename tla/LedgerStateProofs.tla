------------------------- MODULE LedgerStateProofs --------------------------
(***************************************************************************)
(* What holds of single states and histories of the ledger, before any     *)
(* step is taken.                                                          *)
(*                                                                         *)
(* First how an appended block, a dropped tip and pruning affect the       *)
(* history of journals the invariant IInv is about.  Then what applying    *)
(* and undoing operations does to a state of LedgerState.  An operation    *)
(* replaces coins twice, once for its program and once for its payment,    *)
(* and its journal is undone in one pass over both; TwoPhase is that       *)
(* situation.  Last what one operation or a block's emission does to a     *)
(* good state.                                                             *)
(***************************************************************************)
EXTENDS LedgerInv, TLAPS, FiniteSetTheorems

(* Sequences. *)

(* Append, index by index. *)
LEMMA SeqAppend ==
  ASSUME NEW q, IsSeq(q), NEW x
  PROVE  /\ IsSeq(Append(q, x))
         /\ Len(q) \in Nat /\ Len(Append(q, x)) = Len(q) + 1
         /\ \A i \in 1 .. Len(q) : Append(q, x)[i] = q[i]
         /\ Append(q, x)[Len(q) + 1] = x
<1> DEFINE S == Range(q) \cup {x}
           z == Append(q, x)
<1>1. q \in Seq(S)
  BY DEF IsSeq
<1>2. /\ Len(q) \in Nat /\ Len(z) = Len(q) + 1 /\ z \in Seq(S)
      /\ \A i \in 1 .. Len(q) : z[i] = q[i]
      /\ z[Len(q) + 1] = x
  BY <1>1
<1> HIDE DEF z
<1>3. \A i \in 1 .. Len(z) : z[i] \in Range(z)
  BY <1>2 DEF Range
<1>4. z \in Seq(Range(z))
  BY <1>2, <1>3
<1> QED
  BY <1>2, <1>4, Zenon DEF IsSeq, z

(* A prefix, index by index. *)
LEMMA SeqFront ==
  ASSUME NEW q, IsSeq(q), NEW n \in 0 .. Len(q)
  PROVE  /\ IsSeq(SubSeq(q, 1, n))
         /\ Len(SubSeq(q, 1, n)) = n
         /\ \A i \in 1 .. n : SubSeq(q, 1, n)[i] = q[i]
<1> DEFINE S == Range(q)
           z == SubSeq(q, 1, n)
<1>1. q \in Seq(S)
  BY Zenon DEF IsSeq
<1>2. /\ Len(z) = n /\ z \in Seq(S) /\ \A i \in 1 .. n : z[i] = q[i]
  BY <1>1
<1> HIDE DEF z
<1>3. \A i \in 1 .. Len(z) : z[i] \in Range(z)
  BY <1>2 DEF Range
<1>4. z \in Seq(Range(z))
  BY <1>2, <1>3
<1> QED
  BY <1>2, <1>4, Zenon DEF IsSeq, z

(* Sequences with equal elements are equal. *)
LEMMA SameSeq ==
  ASSUME NEW q, IsSeq(q), NEW r, IsSeq(r), Len(q) = Len(r),
         \A i \in 1 .. Len(q) : q[i] = r[i]
  PROVE  q = r
<1> DEFINE S == Range(q) \cup Range(r)
<1>1. q \in Seq(S) /\ r \in Seq(S)
  BY DEF IsSeq
<1>2. q = r
  BY <1>1
<1> QED
  BY <1>2, Zenon

(* The empty sequence is a sequence: a genesis block has no journals. *)
LEMMA SeqEmpty == IsSeq(<< >>) /\ Len(<< >>) = 0
BY DEF IsSeq

(* A one-element sequence, such as the journals of a block without          *)
(* operations.                                                              *)
LEMMA SeqSingle ==
  ASSUME NEW x
  PROVE  IsSeq(<<x>>) /\ Len(<<x>>) = 1 /\ <<x>>[1] = x
BY DEF IsSeq, Range

-----------------------------------------------------------------------------
(* Dropping the journals of the oldest blocks leaves those of a suffix. *)
LEMMA HistoryPruned ==
  ASSUME NEW chain, NEW js, NEW tr, HistoryOK(chain, js, tr), NEW first \in Int,
         NEW kept, kept = {h \in DOMAIN js : h >= first}
  PROVE  HistoryOK(chain, Restrict(js, kept), Restrict(tr, kept))
<1>1. /\ DOMAIN Restrict(js, kept) = kept /\ DOMAIN Restrict(tr, kept) = kept
      /\ \A h \in kept : Restrict(js, kept)[h] = js[h] /\ Restrict(tr, kept)[h] = tr[h]
  BY Zenon DEF Restrict
<1>2. ASSUME NEW h \in kept
      PROVE  h .. Len(chain) - 1 \subseteq kept
  <2>1. /\ h .. Len(chain) - 1 \subseteq DOMAIN js /\ h \in 0 .. Len(chain) - 1
        /\ h >= first
    BY Zenon DEF HistoryOK
  <2>2. Len(chain) \in Nat
    BY DEF HistoryOK, IsSeq
  <2> QED
    BY <2>1, <2>2
<1>3. ASSUME NEW h \in kept
      PROVE  /\ Len(js[h]) = JournalCount(chain[h + 1], h)
             /\ Undoable(tr[h], js[h])
             /\ StateRoot(tr[h][1]) = RootAt(SubSeq(chain, 1, h))
             /\ StateRoot(tr[h][Len(tr[h])]) = chain[h + 1].root
  BY Zenon DEF HistoryOK
<1>4. IsSeq(chain) /\ kept \subseteq 0 .. Len(chain) - 1
  BY Zenon DEF HistoryOK
<1> QED
  BY <1>1, <1>2, <1>3, <1>4, Zenon DEF HistoryOK

-----------------------------------------------------------------------------
(* Prefixes of a chain survive appending to it and dropping its tip. *)
LEMMA PrefixOfAppend ==
  ASSUME NEW chain, IsSeq(chain), NEW hd, NEW h \in 0 .. Len(chain)
  PROVE  SubSeq(Append(chain, hd), 1, h) = SubSeq(chain, 1, h)
<1> DEFINE longer == Append(chain, hd)
<1>1. /\ IsSeq(longer) /\ Len(chain) \in Nat /\ Len(longer) = Len(chain) + 1
      /\ \A i \in 1 .. Len(chain) : longer[i] = chain[i]
  BY SeqAppend
<1> HIDE DEF longer
<1>2. h \in 0 .. Len(longer)
  BY <1>1
<1>3. /\ IsSeq(SubSeq(longer, 1, h)) /\ Len(SubSeq(longer, 1, h)) = h
      /\ \A i \in 1 .. h : SubSeq(longer, 1, h)[i] = longer[i]
  BY <1>1, <1>2, SeqFront, Zenon
<1>4. /\ IsSeq(SubSeq(chain, 1, h)) /\ Len(SubSeq(chain, 1, h)) = h
      /\ \A i \in 1 .. h : SubSeq(chain, 1, h)[i] = chain[i]
  BY SeqFront, Zenon
<1>5. \A i \in 1 .. h : SubSeq(longer, 1, h)[i] = SubSeq(chain, 1, h)[i]
  BY <1>1, <1>3, <1>4
<1>6. SubSeq(longer, 1, h) = SubSeq(chain, 1, h)
  BY <1>3, <1>4, <1>5, SameSeq, Zenon
<1> QED
  BY <1>6, Zenon DEF longer

(* A prefix of the chain below the tip is a prefix of the chain. *)
LEMMA PrefixOfPrefix ==
  ASSUME NEW chain, IsSeq(chain), NEW n \in 0 .. Len(chain), NEW h \in 0 .. n
  PROVE  SubSeq(SubSeq(chain, 1, n), 1, h) = SubSeq(chain, 1, h)
<1> DEFINE shorter == SubSeq(chain, 1, n)
<1>1. /\ IsSeq(shorter) /\ Len(shorter) = n
      /\ \A i \in 1 .. n : shorter[i] = chain[i]
  BY SeqFront, Zenon
<1>2. Len(chain) \in Nat /\ h \in 0 .. Len(chain)
  BY DEF IsSeq
<1> HIDE DEF shorter
<1>3. /\ IsSeq(SubSeq(shorter, 1, h)) /\ Len(SubSeq(shorter, 1, h)) = h
      /\ \A i \in 1 .. h : SubSeq(shorter, 1, h)[i] = shorter[i]
  BY <1>1, SeqFront, Zenon
<1>4. /\ IsSeq(SubSeq(chain, 1, h)) /\ Len(SubSeq(chain, 1, h)) = h
      /\ \A i \in 1 .. h : SubSeq(chain, 1, h)[i] = chain[i]
  BY <1>2, SeqFront, Zenon
<1>5. \A i \in 1 .. h : SubSeq(shorter, 1, h)[i] = SubSeq(chain, 1, h)[i]
  BY <1>1, <1>3, <1>4
<1>6. SubSeq(shorter, 1, h) = SubSeq(chain, 1, h)
  BY <1>3, <1>4, <1>5, SameSeq, Zenon
<1> QED
  BY <1>6, Zenon DEF shorter

(* The whole chain is its own longest prefix. *)
LEMMA WholePrefix ==
  ASSUME NEW chain, IsSeq(chain)
  PROVE  SubSeq(chain, 1, Len(chain)) = chain
<1>1. Len(chain) \in Nat
  BY DEF IsSeq
<1>2. /\ IsSeq(SubSeq(chain, 1, Len(chain))) /\ Len(SubSeq(chain, 1, Len(chain))) = Len(chain)
      /\ \A i \in 1 .. Len(chain) : SubSeq(chain, 1, Len(chain))[i] = chain[i]
  BY <1>1, SeqFront
<1> QED
  BY <1>2, SameSeq, Zenon

(* What the invariant says of one height of a chain. *)
HeightOK(chain, h, js, states) ==
  /\ Len(js) = JournalCount(chain[h + 1], h)
  /\ Undoable(states, js)
  /\ StateRoot(states[1]) = RootAt(SubSeq(chain, 1, h))
  /\ StateRoot(states[Len(states)]) = chain[h + 1].root

(* HistoryOK stated with one predicate per height. *)
LEMMA HistoryByHeight ==
  ASSUME NEW chain, NEW js, NEW tr
  PROVE  HistoryOK(chain, js, tr) <=>
           /\ IsSeq(chain)
           /\ DOMAIN tr = DOMAIN js
           /\ DOMAIN js \subseteq 0 .. Len(chain) - 1
           /\ \A h \in DOMAIN js :
                h .. Len(chain) - 1 \subseteq DOMAIN js /\ HeightOK(chain, h, js[h], tr[h])
BY Zenon DEF HistoryOK, HeightOK

(* The journals and states js2 and tr2 add those of header hd to js and tr. *)
Extends(chain, js, tr, hd, js2, tr2) ==
  LET n == Len(chain)
  IN  /\ DOMAIN js2 = DOMAIN js \cup {n} /\ DOMAIN tr2 = DOMAIN js \cup {n}
      /\ \A h \in DOMAIN js : js2[h] = js[h] /\ tr2[h] = tr[h]
      /\ Len(js2[n]) = JournalCount(hd, n)
      /\ Undoable(tr2[n], js2[n])
      /\ StateRoot(tr2[n][1]) = RootAt(chain)
      /\ StateRoot(tr2[n][Len(tr2[n])]) = hd.root

(* A block appended with its journals extends the history. *)
LEMMA HistoryExtended ==
  ASSUME NEW chain, NEW js, NEW tr, HistoryOK(chain, js, tr), NEW hd, NEW js2, NEW tr2,
         Extends(chain, js, tr, hd, js2, tr2)
  PROVE  /\ HistoryOK(Append(chain, hd), js2, tr2)
         /\ RootAt(Append(chain, hd)) = hd.root
<1> DEFINE n == Len(chain)
           longer == Append(chain, hd)
<1> USE DEF Extends
<1>1. /\ IsSeq(chain) /\ DOMAIN js \subseteq 0 .. n - 1
      /\ \A h \in DOMAIN js :
           h .. n - 1 \subseteq DOMAIN js /\ HeightOK(chain, h, js[h], tr[h])
  BY HistoryByHeight, Zenon
<1>2. /\ IsSeq(longer) /\ n \in Nat /\ Len(longer) = n + 1
      /\ \A i \in 1 .. n : longer[i] = chain[i]
      /\ longer[n + 1] = hd
  BY <1>1, SeqAppend, ZenonT(40)
<1>3. \A h \in 0 .. n : SubSeq(longer, 1, h) = SubSeq(chain, 1, h)
  BY <1>1, PrefixOfAppend, Zenon
<1>4. SubSeq(chain, 1, n) = chain
  BY <1>1, WholePrefix, Zenon
<1> HIDE DEF longer, n
<1>5. ASSUME NEW h \in DOMAIN js
      PROVE  HeightOK(longer, h, js2[h], tr2[h])
  <2>1. h \in 0 .. n /\ longer[h + 1] = chain[h + 1]
    BY <1>1, <1>2, SMTT(30)
  <2>2. HeightOK(chain, h, js[h], tr[h])
    BY <1>1, Zenon
  <2> QED
    BY <1>3, <2>1, <2>2, Zenon DEF HeightOK, JournalCount
<1>6. HeightOK(longer, n, js2[n], tr2[n])
  <2>1. longer[n + 1] = hd /\ SubSeq(longer, 1, n) = chain
    BY <1>2, <1>3, <1>4, SMTT(30)
  <2>2. /\ Len(js2[n]) = JournalCount(hd, n) /\ Undoable(tr2[n], js2[n])
        /\ StateRoot(tr2[n][1]) = RootAt(chain)
        /\ StateRoot(tr2[n][Len(tr2[n])]) = hd.root
    BY Zenon DEF n
  <2> QED
    BY <2>1, <2>2, Zenon DEF HeightOK
<1>7. /\ DOMAIN js2 \subseteq 0 .. Len(longer) - 1
      /\ \A h \in DOMAIN js2 : h .. Len(longer) - 1 \subseteq DOMAIN js2
  BY <1>1, <1>2, SMT, SMTT(30) DEF n
<1>8. HistoryOK(longer, js2, tr2)
  <2>1. \A h \in DOMAIN js2 : HeightOK(longer, h, js2[h], tr2[h])
    BY <1>5, <1>6, Zenon DEF n
  <2>2. DOMAIN tr2 = DOMAIN js2
    BY Zenon
  <2> QED
    BY <1>2, <1>7, <2>1, <2>2, HistoryByHeight, ZenonT(40)
<1>9. RootAt(longer) = hd.root
  <2>1. longer # << >>
    BY <1>2
  <2> QED
    BY <1>2, <2>1, Zenon DEF RootAt
<1> QED
  BY <1>8, <1>9, Zenon DEF longer

(* Dropping the tip with its journals leaves the history of its parent. *)
LEMMA HistoryDropped ==
  ASSUME NEW chain, NEW js, NEW tr, HistoryOK(chain, js, tr), chain # << >>,
         NEW kept, kept = DOMAIN js \ {Len(chain) - 1}
  PROVE  HistoryOK(SubSeq(chain, 1, Len(chain) - 1), Restrict(js, kept), Restrict(tr, kept))
<1> DEFINE n == Len(chain)
           shorter == SubSeq(chain, 1, n - 1)
<1>1. /\ IsSeq(chain) /\ DOMAIN js \subseteq 0 .. n - 1
      /\ \A h \in DOMAIN js :
           h .. n - 1 \subseteq DOMAIN js /\ HeightOK(chain, h, js[h], tr[h])
  BY HistoryByHeight, Zenon
<1>2. n \in Nat /\ n # 0 /\ n - 1 \in 0 .. Len(chain)
  BY <1>1 DEF IsSeq
<1>3. /\ IsSeq(shorter) /\ Len(shorter) = n - 1
      /\ \A i \in 1 .. n - 1 : shorter[i] = chain[i]
  BY <1>1, <1>2, SeqFront, Zenon
<1>4. \A h \in 0 .. n - 1 : SubSeq(shorter, 1, h) = SubSeq(chain, 1, h)
  BY <1>1, <1>2, PrefixOfPrefix, Zenon
<1>5. /\ DOMAIN Restrict(js, kept) = kept /\ DOMAIN Restrict(tr, kept) = kept
      /\ \A h \in kept : Restrict(js, kept)[h] = js[h] /\ Restrict(tr, kept)[h] = tr[h]
  BY Zenon DEF Restrict
<1> HIDE DEF shorter
<1>6. kept \subseteq 0 .. n - 2 /\ kept = DOMAIN js \ {n - 1}
  BY <1>1, <1>2
<1> HIDE DEF n
<1>7. ASSUME NEW h \in kept
      PROVE  /\ h .. Len(shorter) - 1 \subseteq kept
             /\ HeightOK(shorter, h, js[h], tr[h])
  <2>1. /\ h \in DOMAIN js /\ h \in 0 .. n - 2
        /\ h .. n - 1 \subseteq DOMAIN js /\ HeightOK(chain, h, js[h], tr[h])
    BY <1>1, <1>6, Zenon
  <2>2. h .. Len(shorter) - 1 \subseteq kept
    BY <1>2, <1>3, <1>6, <2>1, SMTT(30)
  <2>3. shorter[h + 1] = chain[h + 1] /\ SubSeq(shorter, 1, h) = SubSeq(chain, 1, h)
    BY <1>2, <1>3, <1>4, <2>1, SMTT(30)
  <2>4. HeightOK(shorter, h, js[h], tr[h])
    BY <2>1, <2>3, Zenon DEF HeightOK
  <2> QED
    BY <2>2, <2>4, Zenon
<1>8. kept \subseteq 0 .. Len(shorter) - 1
  BY <1>2, <1>3, <1>6, SMTT(30)
<1>9. HistoryOK(shorter, Restrict(js, kept), Restrict(tr, kept))
  BY <1>3, <1>5, <1>7, <1>8, HistoryByHeight, Zenon
<1> QED
  BY <1>9, Zenon DEF shorter, n

(* One more state and journal at the end of an undoable sequence. *)
LEMMA UndoableExtended ==
  ASSUME NEW states, NEW js, Undoable(states, js), NEW t, Good(t), NEW j,
         Undoes(t, j, states[Len(states)])
  PROVE  Undoable(Append(states, t), Append(js, j))
<1> DEFINE n == Len(js)
           states2 == Append(states, t)
           js2 == Append(js, j)
<1>1. /\ IsSeq(states) /\ IsSeq(js) /\ Len(states) = n + 1
      /\ \A i \in 1 .. Len(states) : Good(states[i])
      /\ \A i \in 1 .. Len(js) : Undoes(states[i + 1], js[i], states[i])
  BY Zenon DEF Undoable
<1>2. /\ IsSeq(states2) /\ Len(states2) = Len(states) + 1
      /\ \A i \in 1 .. Len(states) : states2[i] = states[i]
      /\ states2[Len(states) + 1] = t
  BY <1>1, SeqAppend
<1>3. /\ IsSeq(js2) /\ n \in Nat /\ Len(js2) = n + 1
      /\ \A i \in 1 .. n : js2[i] = js[i]
      /\ js2[n + 1] = j
  BY <1>1, SeqAppend, SMTT(30)
<1> HIDE DEF states2, js2
<1>4. ASSUME NEW i \in 1 .. Len(states2)
      PROVE  Good(states2[i])
  BY <1>1, <1>2, <1>3, SMTT(30)
<1>5. ASSUME NEW i \in 1 .. Len(js2)
      PROVE  Undoes(states2[i + 1], js2[i], states2[i])
  <2>1. CASE i \in 1 .. n
    <3>1. /\ i \in 1 .. Len(states) /\ i + 1 \in 1 .. Len(states)
          /\ js2[i] = js[i] /\ Undoes(states[i + 1], js[i], states[i])
      BY <1>1, <1>3, <2>1
    <3>2. states2[i] = states[i] /\ states2[i + 1] = states[i + 1]
      BY <1>2, <3>1, Zenon
    <3> QED
      BY <3>1, <3>2, Zenon
  <2>2. CASE i = n + 1
    <3>1. states2[i] = states[Len(states)] /\ states2[i + 1] = t /\ js2[i] = j
      BY <1>1, <1>2, <1>3, <2>2, Zenon
    <3> QED
      BY <3>1, Zenon
  <2> QED
    BY <1>3, <2>1, <2>2, SMTT(30)
<1>6. Undoable(states2, js2)
  BY <1>1, <1>2, <1>3, <1>4, <1>5, Zenon DEF Undoable
<1> QED
  BY <1>6, Zenon DEF states2, js2

(* A good state with no journals: what the genesis block leaves. *)
LEMMA UndoableSingle ==
  ASSUME NEW s, Good(s)
  PROVE  Undoable(<<s>>, << >>)
<1>1. /\ IsSeq(<<s>>) /\ Len(<<s>>) = 1 /\ <<s>>[1] = s
      /\ IsSeq(<< >>) /\ Len(<< >>) = 0
  BY SeqSingle, SeqEmpty, Zenon
<1> QED
  BY <1>1 DEF Undoable

-----------------------------------------------------------------------------
(* A finite function from shares to coins. *)
CoinMap(c) == IsFiniteSet(DOMAIN c) /\ c \in [DOMAIN c -> Coin]

(* A finite set of coins has finitely many units, so the coin total kept    *)
(* by UtxoSet is a natural number.                                          *)
LEMMA UnitsFinite ==
  ASSUME NEW c, CoinMap(c)
  PROVE  IsFiniteSet(Units(c)) /\ Value(c) \in Nat
<1>1. IsFiniteSet(1 .. MaxZeno)
  BY EmissionAssumption, FS_Interval
<1>2. IsFiniteSet((DOMAIN c) \X (1 .. MaxZeno))
  BY <1>1, FS_Product, Zenon DEF CoinMap
<1>3. Units(c) \subseteq (DOMAIN c) \X (1 .. MaxZeno)
  BY EmissionAssumption DEF Units, CoinMap, Coin, Zeno
<1>4. IsFiniteSet(Units(c))
  BY <1>2, <1>3, FS_Subset, Zenon
<1> QED
  BY <1>4, FS_CardinalityType, Zenon DEF Value

(* The value of a set of coins is the sum of the values of two parts of     *)
(* it.                                                                      *)
LEMMA ValueSplit ==
  ASSUME NEW c, CoinMap(c), NEW A, NEW B,
         A \cup B = DOMAIN c, A \cap B = {}
  PROVE  /\ CoinMap(Restrict(c, A)) /\ CoinMap(Restrict(c, B))
         /\ Value(c) = Value(Restrict(c, A)) + Value(Restrict(c, B))
<1>1. CoinMap(Restrict(c, A)) /\ CoinMap(Restrict(c, B))
  BY FS_Subset, Zenon DEF CoinMap, Restrict
<1>2. Units(c) = Units(Restrict(c, A)) \cup Units(Restrict(c, B))
  BY Zenon DEF Units, Restrict
<1>3. Units(Restrict(c, A)) \cap Units(Restrict(c, B)) = {}
  BY DEF Units, Restrict
<1> QED
  BY <1>1, <1>2, <1>3, UnitsFinite, FS_Union, FS_EmptySet DEF Value

(* No coins are worth nothing. *)
LEMMA EmptyValue ==
  ASSUME NEW c, DOMAIN c = {}
  PROVE  Value(c) = 0
<1>1. Units(c) = {}
  BY Zenon DEF Units
<1> QED
  BY <1>1, FS_EmptySet, Zenon DEF Value

(* A single coin is worth its amount, as insert_coin adds it. *)
LEMMA SingletonValue ==
  ASSUME NEW x, NEW coin \in Coin
  PROVE  /\ CoinMap([id \in {x} |-> coin])
         /\ Value([id \in {x} |-> coin]) = coin.amount
<1> DEFINE c == [id \in {x} |-> coin]
<1>1. CoinMap(c)
  BY FS_Singleton, Zenon DEF CoinMap
<1>2. Units(c) = {x} \X (1 .. coin.amount)
  BY Zenon DEF Units
<1>3. coin.amount \in Nat
  BY EmissionAssumption DEF Coin, Zeno
<1>4. IsFiniteSet(1 .. coin.amount) /\ Cardinality(1 .. coin.amount) = coin.amount
  <2> DEFINE n == coin.amount
  <2>1. n \in Nat /\ n \in Int /\ 1 \in Int
    BY <1>3
  <2> HIDE DEF n
  <2>2. /\ IsFiniteSet(1 .. n)
        /\ Cardinality(1 .. n) = IF 1 > n THEN 0 ELSE n - 1 + 1
    BY <2>1, FS_Interval, Zenon
  <2>3. (IF 1 > n THEN 0 ELSE n - 1 + 1) = n
    BY <2>1
  <2>4. IsFiniteSet(1 .. n) /\ Cardinality(1 .. n) = n
    BY <2>2, <2>3
  <2> QED
    BY <2>4, Zenon DEF n
<1>5. IsFiniteSet({x}) /\ Cardinality({x}) = 1
  BY FS_Singleton, Zenon
<1>6. Cardinality({x} \X (1 .. coin.amount)) = 1 * coin.amount
  BY <1>4, <1>5, FS_Product, ZenonT(40)
<1>7. 1 * coin.amount = coin.amount
  BY <1>3
<1>8. Value(c) = coin.amount
  BY <1>2, <1>6, <1>7, Zenon DEF Value
<1> QED
  BY <1>1, <1>8, Zenon

(* Coins that may be replaced by new ones. *)
Replaceable(c, gone, new) ==
  /\ CoinMap(c) /\ gone \subseteq DOMAIN c
  /\ CoinMap(new) /\ DOMAIN new \cap (DOMAIN c \ gone) = {}

(* consume_coin and insert_coin keep the coin set well formed. *)
LEMMA ReplaceCoinMap ==
  ASSUME NEW c, NEW gone, NEW new, Replaceable(c, gone, new)
  PROVE  CoinMap(ReplaceCoins(c, gone, new))
<1>1. DOMAIN ReplaceCoins(c, gone, new) = (DOMAIN c \ gone) \cup DOMAIN new
  BY Zenon DEF ReplaceCoins
<1>2. IsFiniteSet(DOMAIN ReplaceCoins(c, gone, new))
  BY <1>1, FS_Subset, FS_Union, Zenon DEF CoinMap, Replaceable
<1> QED
  BY <1>1, <1>2, Zenon DEF CoinMap, ReplaceCoins, Replaceable

(* Maintaining the owner lookup along with consume_coin and insert_coin     *)
(* gives the lookup that decoding would rebuild.                            *)
LEMMA ReplaceOwners ==
  ASSUME NEW c, NEW gone, NEW new, Replaceable(c, gone, new)
  PROVE  ReindexOwners(OwnersOf(c), c, gone, new) = OwnersOf(ReplaceCoins(c, gone, new))
<1> DEFINE r == ReplaceCoins(c, gone, new)
<1>1. ASSUME NEW o \in Owner
      PROVE  (OwnersOf(c)[o] \ {id \in gone : c[id].owner = o})
                \cup {id \in DOMAIN new : new[id].owner = o}
             = {id \in DOMAIN r : r[id].owner = o}
  BY Zenon DEF OwnersOf, ReplaceCoins, Replaceable
<1> QED
  BY <1>1, Zenon DEF ReindexOwners, OwnersOf

(* consume_coin and insert_coin change the value of the coin set by what    *)
(* they remove and add.                                                     *)
LEMMA ReplaceValue ==
  ASSUME NEW c, NEW gone, NEW new, Replaceable(c, gone, new)
  PROVE  Value(ReplaceCoins(c, gone, new))
           = Value(c) - Value(Restrict(c, gone)) + Value(new)
<1> DEFINE r == ReplaceCoins(c, gone, new)
           rest == DOMAIN c \ gone
<1>1. DOMAIN r = rest \cup DOMAIN new
  BY Zenon DEF ReplaceCoins
<1>2. CoinMap(r)
  BY ReplaceCoinMap, Zenon
<1> USE DEF Replaceable
<1>3. Restrict(r, DOMAIN new) = new
  BY <1>1, Zenon DEF CoinMap, ReplaceCoins, Restrict
<1>4. Restrict(r, rest) = Restrict(c, rest)
  BY <1>1, Zenon DEF ReplaceCoins, Restrict
<1>5. Value(r) = Value(Restrict(r, rest)) + Value(Restrict(r, DOMAIN new))
  BY <1>1, <1>2, ValueSplit
<1>6. Value(c) = Value(Restrict(c, gone)) + Value(Restrict(c, rest))
  BY ValueSplit, Zenon
<1>7. /\ Value(c) \in Nat /\ Value(new) \in Nat
      /\ Value(Restrict(c, gone)) \in Nat /\ Value(Restrict(c, rest)) \in Nat
  <2>1. CoinMap(Restrict(c, gone)) /\ CoinMap(Restrict(c, rest))
    BY ValueSplit, Zenon
  <2> QED
    BY <2>1, UnitsFinite, Zenon
<1> QED
  BY <1>3, <1>4, <1>5, <1>6, <1>7

(* A state record, field by field. *)
StateRecord(c, v, o, m, b, p, a) ==
  [coins |-> c, total_value |-> v, by_owner |-> o, mined |-> m, burned |-> b,
   programs |-> p, assets |-> a]

(* The same as a set of records, which the provers update more easily. *)
StateRecords(c, v, o, m, b, p, a) ==
  [coins : {c}, total_value : {v}, by_owner : {o}, mined : {m}, burned : {b},
   programs : {p}, assets : {a}]

(* A state is determined by its seven fields. *)
LEMMA RecordInSet ==
  ASSUME NEW c, NEW v, NEW o, NEW m, NEW b, NEW p, NEW a, NEW s
  PROVE  s = StateRecord(c, v, o, m, b, p, a) <=> s \in StateRecords(c, v, o, m, b, p, a)
BY DEF StateRecord, StateRecords

(* Replacing coins changes only the three coin fields of a state. *)
LEMMA WithCoinsRecord ==
  ASSUME NEW c, NEW v, NEW o, NEW m, NEW b, NEW p, NEW a, NEW gone, NEW new, NEW total,
         NEW s, s = StateRecord(c, v, o, m, b, p, a)
  PROVE  WithCoins(s, gone, new, total)
           = StateRecord(ReplaceCoins(c, gone, new), total,
                         ReindexOwners(o, c, gone, new), m, b, p, a)
<1>1. s \in StateRecords(c, v, o, m, b, p, a)
  BY RecordInSet, Zenon
<1>2. s.coins = c /\ s.by_owner = o
  BY Zenon DEF StateRecord
<1>3. WithCoins(s, gone, new, total)
        \in StateRecords(ReplaceCoins(c, gone, new), total,
                         ReindexOwners(o, c, gone, new), m, b, p, a)
  BY <1>1, <1>2, Zenon DEF WithCoins, StateRecords
<1> QED
  BY <1>3, RecordInSet

(* A sound state is rebuilt from its encoded fields: the owner lookup is    *)
(* a function of the coins.                                                 *)
LEMMA SoundRecord ==
  ASSUME NEW s, Sound(s)
  PROVE  s = StateRecord(s.coins, s.total_value, OwnersOf(s.coins), s.mined,
                         s.burned, s.programs, s.assets)
BY Zenon DEF Sound, DecodedState, StateRoot, StateRecord

(* Replacing coins keeps a state sound and changes only the coin fields. *)
LEMMA SoundReplace ==
  ASSUME NEW s, Sound(s), NEW gone, NEW new, CoinMap(new), CanReplace(s, gone, new),
         NEW t, t = Replace(s, gone, new)
  PROVE  /\ Sound(t)
         /\ t.coins = ReplaceCoins(s.coins, gone, new)
         /\ t.total_value = s.total_value - Value(Restrict(s.coins, gone)) + Value(new)
         /\ t.mined = s.mined /\ t.burned = s.burned
         /\ t.programs = s.programs /\ t.assets = s.assets
<1>1. s = StateRecord(s.coins, s.total_value, OwnersOf(s.coins), s.mined,
                      s.burned, s.programs, s.assets)
  BY SoundRecord, Zenon
<1> DEFINE total == s.total_value - ValueOf(s, gone) + Value(new)
<1>2. t = StateRecord(ReplaceCoins(s.coins, gone, new), total,
                      ReindexOwners(OwnersOf(s.coins), s.coins, gone, new),
                      s.mined, s.burned, s.programs, s.assets)
  <2>1. t = WithCoins(s, gone, new, total)
    BY Zenon DEF Replace
  <2> HIDE DEF total
  <2> QED
    BY <1>1, <2>1, WithCoinsRecord
<1>3. CoinMap(s.coins) /\ s.total_value = Value(s.coins)
  BY Zenon DEF Sound, CoinMap
<1>4. /\ gone \subseteq DOMAIN s.coins
      /\ DOMAIN new \cap (DOMAIN s.coins \ gone) = {}
      /\ s.total_value - ValueOf(s, gone) + Value(new) \in Zeno
  BY Zenon DEF CanReplace
<1>5. /\ CoinMap(ReplaceCoins(s.coins, gone, new))
      /\ Value(ReplaceCoins(s.coins, gone, new))
           = Value(s.coins) - Value(Restrict(s.coins, gone)) + Value(new)
      /\ ReindexOwners(OwnersOf(s.coins), s.coins, gone, new)
           = OwnersOf(ReplaceCoins(s.coins, gone, new))
  <2>1. Replaceable(s.coins, gone, new)
    BY <1>3, <1>4, Zenon DEF Replaceable
  <2> QED
    BY <2>1, ReplaceCoinMap, ReplaceOwners, ReplaceValue, ZenonT(40)
<1>6. t = DecodedState(StateRoot(t))
  BY <1>2, <1>5 DEF DecodedState, StateRoot, StateRecord
<1>7. /\ t.coins = ReplaceCoins(s.coins, gone, new) /\ t.total_value = total
      /\ t.mined = s.mined /\ t.burned = s.burned
      /\ t.programs = s.programs /\ t.assets = s.assets
  <2> HIDE DEF total
  <2> QED
    BY <1>2 DEF StateRecord
<1>8. total = Value(s.coins) - Value(Restrict(s.coins, gone)) + Value(new)
  BY <1>3, Zenon DEF ValueOf
<1>9. t.total_value = Value(t.coins) /\ t.total_value \in Zeno /\ CoinMap(t.coins)
  BY <1>4, <1>5, <1>7, <1>8, Zenon
<1>10. Sound(t)
  BY <1>6, <1>7, <1>9, Zenon DEF Sound, CoinMap
<1> QED
  BY <1>3, <1>7, <1>8, <1>10, Zenon

(* Facts on empty maps, for operations that consume or create nothing. *)
LEMMA EmptyRestrict ==
  ASSUME NEW f
  PROVE  /\ DOMAIN Restrict(f, {}) = {}
         /\ Value(Restrict(f, {})) = 0
         /\ DOMAIN EmptyMap = {} /\ Value(EmptyMap) = 0 /\ CoinMap(EmptyMap)
<1>1. DOMAIN Restrict(f, {}) = {} /\ DOMAIN EmptyMap = {}
  BY Zenon DEF Restrict, EmptyMap
<1>2. CoinMap(EmptyMap)
  BY FS_EmptySet, Zenon DEF CoinMap, EmptyMap
<1> QED
  BY <1>1, <1>2, EmptyValue, Zenon

-----------------------------------------------------------------------------
(* Two replacements, a program's and then a payment's, on disjoint shares,  *)
(* and the coins that a journal of both restores.                           *)
TwoPhase(c, sel, v, inputs, p) ==
  /\ CoinMap(c) /\ CoinMap(v) /\ CoinMap(p)
  /\ sel \subseteq DOMAIN c /\ inputs \subseteq DOMAIN c /\ sel \cap inputs = {}
  /\ DOMAIN v \cap (DOMAIN c \ sel) = {}
  /\ DOMAIN p \cap (((DOMAIN c \ sel) \cup DOMAIN v) \ inputs) = {}
  /\ DOMAIN p \cap DOMAIN v = {}

After1(c, sel, v) == ReplaceCoins(c, sel, v)
After2(c, sel, v, inputs, p) == ReplaceCoins(ReplaceCoins(c, sel, v), inputs, p)

(* Which shares exist after the program and after the payment of an         *)
(* operation.                                                               *)
LEMMA TwoPhaseDomains ==
  ASSUME NEW c, NEW sel, NEW v, NEW inputs, NEW p, TwoPhase(c, sel, v, inputs, p)
  PROVE  /\ DOMAIN After1(c, sel, v) = (DOMAIN c \ sel) \cup DOMAIN v
         /\ inputs \subseteq DOMAIN After1(c, sel, v)
         /\ inputs \cap DOMAIN v = {}
         /\ DOMAIN After2(c, sel, v, inputs, p)
              = (((DOMAIN c \ sel) \cup DOMAIN v) \ inputs) \cup DOMAIN p
         /\ DOMAIN p \cup DOMAIN v \subseteq DOMAIN After2(c, sel, v, inputs, p)
         /\ \A id \in inputs \cup sel :
              id \in DOMAIN After2(c, sel, v, inputs, p) => id \in DOMAIN p \cup DOMAIN v
<1>1. DOMAIN After1(c, sel, v) = (DOMAIN c \ sel) \cup DOMAIN v
  BY Zenon DEF After1, ReplaceCoins
<1>2. DOMAIN After2(c, sel, v, inputs, p)
        = (((DOMAIN c \ sel) \cup DOMAIN v) \ inputs) \cup DOMAIN p
  BY Zenon DEF After2, ReplaceCoins
<1> QED
  BY <1>1, <1>2, Zenon DEF TwoPhase

(* The payment finds its inputs as they were before the program ran, and    *)
(* what both created is present at the end.                                 *)
LEMMA TwoPhaseRestricts ==
  ASSUME NEW c, NEW sel, NEW v, NEW inputs, NEW p, TwoPhase(c, sel, v, inputs, p)
  PROVE  /\ Restrict(After1(c, sel, v), inputs) = Restrict(c, inputs)
         /\ Restrict(After2(c, sel, v, inputs, p), DOMAIN p) = p
         /\ Restrict(After2(c, sel, v, inputs, p), DOMAIN v) = v
<1>1. /\ inputs \subseteq DOMAIN c /\ sel \cap inputs = {} /\ inputs \cap DOMAIN v = {}
      /\ DOMAIN p \cap DOMAIN v = {}
  BY TwoPhaseDomains, Zenon DEF TwoPhase
<1>2. v = [id \in DOMAIN v |-> v[id]] /\ p = [id \in DOMAIN p |-> p[id]]
  BY Zenon DEF TwoPhase, CoinMap
<1>3. \A id \in inputs : After1(c, sel, v)[id] = c[id]
  BY <1>1, Zenon DEF After1, ReplaceCoins
<1>4. \A id \in DOMAIN p : After2(c, sel, v, inputs, p)[id] = p[id]
  BY Zenon DEF After2, ReplaceCoins
<1>5. \A id \in DOMAIN v : After2(c, sel, v, inputs, p)[id] = v[id]
  BY <1>1, Zenon DEF After2, ReplaceCoins
<1> QED
  BY <1>2, <1>3, <1>4, <1>5, Zenon DEF Restrict

(* rollback_coin, which removes everything created and then restores        *)
(* everything consumed by both phases, gives back the coins from before     *)
(* the operation.                                                           *)
LEMMA TwoPhaseUndo ==
  ASSUME NEW c, NEW sel, NEW v, NEW inputs, NEW p, TwoPhase(c, sel, v, inputs, p)
  PROVE  ReplaceCoins(After2(c, sel, v, inputs, p), DOMAIN p \cup DOMAIN v,
                      ReplaceCoins(Restrict(c, sel), {},
                                   Restrict(After1(c, sel, v), inputs))) = c
<1> DEFINE consumed == ReplaceCoins(Restrict(c, sel), {}, Restrict(After1(c, sel, v), inputs))
           after == After2(c, sel, v, inputs, p)
           undone == ReplaceCoins(after, DOMAIN p \cup DOMAIN v, consumed)
<1>1. consumed = [id \in inputs \cup sel |-> c[id]]
  <2>1. Restrict(After1(c, sel, v), inputs) = Restrict(c, inputs)
    BY TwoPhaseRestricts
  <2> QED
    BY <2>1, Zenon DEF Restrict, ReplaceCoins
<1>2. DOMAIN after = (((DOMAIN c \ sel) \cup DOMAIN v) \ inputs) \cup DOMAIN p
  BY Zenon DEF After2, ReplaceCoins
<1>3. DOMAIN undone = DOMAIN c
  BY <1>1, <1>2, Zenon DEF ReplaceCoins, TwoPhase
<1>4. ASSUME NEW id \in DOMAIN c, id \notin inputs \cup sel
      PROVE  after[id] = c[id]
  BY <1>4, Zenon DEF After2, ReplaceCoins, TwoPhase
<1>5. \A id \in DOMAIN c : undone[id] = c[id]
  BY <1>1, <1>2, <1>3, <1>4, Zenon DEF ReplaceCoins
<1>6. c = [id \in DOMAIN c |-> c[id]]
  BY Zenon DEF TwoPhase, CoinMap
<1>7. undone = [id \in DOMAIN undone |-> undone[id]]
  BY Zenon DEF ReplaceCoins
<1> QED
  BY <1>3, <1>5, <1>6, <1>7, Zenon

(* Neither phase meets a missing or an existing share. *)
LEMMA TwoPhaseReplaceable ==
  ASSUME NEW c, NEW sel, NEW v, NEW inputs, NEW p, TwoPhase(c, sel, v, inputs, p)
  PROVE  /\ Replaceable(c, sel, v)
         /\ Replaceable(After1(c, sel, v), inputs, p)
<1>1. Replaceable(c, sel, v)
  BY Zenon DEF Replaceable, TwoPhase
<1>2. CoinMap(After1(c, sel, v))
  BY <1>1, ReplaceCoinMap, Zenon DEF After1
<1>3. DOMAIN After1(c, sel, v) = (DOMAIN c \ sel) \cup DOMAIN v
  BY Zenon DEF After1, ReplaceCoins
<1> QED
  BY <1>1, <1>2, <1>3, TwoPhaseDomains, Zenon DEF Replaceable, TwoPhase

(* The amounts of the shares that the two phases touch. *)
LEMMA TwoPhaseValues ==
  ASSUME NEW c, NEW sel, NEW v, NEW inputs, NEW p, TwoPhase(c, sel, v, inputs, p)
  PROVE  /\ Value(c) \in Nat /\ Value(v) \in Nat /\ Value(p) \in Nat
         /\ Value(Restrict(c, sel)) \in Nat /\ Value(Restrict(c, inputs)) \in Nat
         /\ Value(Restrict(c, sel)) + Value(Restrict(c, inputs)) <= Value(c)
         /\ Value(After2(c, sel, v, inputs, p))
              = Value(c) - Value(Restrict(c, sel)) + Value(v)
                  - Value(Restrict(c, inputs)) + Value(p)
<1> DEFINE rest == DOMAIN c \ sel
           others == rest \ inputs
<1>1. CoinMap(c) /\ CoinMap(v) /\ CoinMap(p)
  BY Zenon DEF TwoPhase
<1>2. /\ CoinMap(Restrict(c, sel)) /\ CoinMap(Restrict(c, rest))
      /\ Value(c) = Value(Restrict(c, sel)) + Value(Restrict(c, rest))
  BY <1>1, ValueSplit, Zenon DEF TwoPhase
<1>3. /\ CoinMap(Restrict(Restrict(c, rest), inputs))
      /\ CoinMap(Restrict(Restrict(c, rest), others))
      /\ Value(Restrict(c, rest))
           = Value(Restrict(Restrict(c, rest), inputs))
               + Value(Restrict(Restrict(c, rest), others))
  <2>1. DOMAIN Restrict(c, rest) = rest
    BY Zenon DEF Restrict
  <2>2. inputs \cup others = rest /\ inputs \cap others = {}
    BY Zenon DEF TwoPhase
  <2> QED
    BY <1>2, <2>1, <2>2, ValueSplit, Zenon
<1>4. Restrict(Restrict(c, rest), inputs) = Restrict(c, inputs)
  BY Zenon DEF Restrict, TwoPhase
<1>5. /\ Value(c) \in Nat /\ Value(v) \in Nat /\ Value(p) \in Nat
      /\ Value(Restrict(c, sel)) \in Nat /\ Value(Restrict(c, rest)) \in Nat
      /\ Value(Restrict(c, inputs)) \in Nat
      /\ Value(Restrict(Restrict(c, rest), others)) \in Nat
  BY <1>1, <1>2, <1>3, <1>4, UnitsFinite, Zenon
<1>6. Value(After1(c, sel, v)) = Value(c) - Value(Restrict(c, sel)) + Value(v)
  BY TwoPhaseReplaceable, ReplaceValue, SMTT(30) DEF After1
<1>7. Value(After2(c, sel, v, inputs, p))
        = Value(After1(c, sel, v)) - Value(Restrict(After1(c, sel, v), inputs)) + Value(p)
  BY TwoPhaseReplaceable, ReplaceValue, SMTT(30), SMTT(60) DEF After1, After2
<1>8. Restrict(After1(c, sel, v), inputs) = Restrict(c, inputs)
  BY TwoPhaseRestricts
<1>9. Value(Restrict(c, sel)) + Value(Restrict(c, inputs)) <= Value(c)
  BY <1>2, <1>3, <1>4, <1>5, SMTT(30), SMTT(60)
<1>10. Value(After2(c, sel, v, inputs, p))
        = Value(c) - Value(Restrict(c, sel)) + Value(v)
            - Value(Restrict(c, inputs)) + Value(p)
  BY <1>5, <1>6, <1>7, <1>8, SMTT(30), SMTT(60)
<1> QED
  BY <1>5, <1>9, <1>10, Zenon

(* Journal j records how t came from s: its coins by two phases, its totals *)
(* by j's amounts, its programs and assets so that undoing them gives s's.  *)
Records(t, j, s, sel, v, inputs, p) ==
  /\ Sound(s) /\ Sound(t)
  /\ TwoPhase(s.coins, sel, v, inputs, p)
  /\ t.coins = After2(s.coins, sel, v, inputs, p)
  /\ j.consumed = Restrict(After1(s.coins, sel, v), inputs) /\ j.created = DOMAIN p
  /\ j.vm_consumed = Restrict(s.coins, sel) /\ j.vm_created = DOMAIN v
  /\ t.mined - j.mined = s.mined /\ t.burned - j.burned = s.burned
  /\ j.program.kind # "none" => j.program.id \in DOMAIN t.programs
  /\ UndoProgram(t.programs, j.program) = s.programs
  /\ UndoAssets(t.assets, j.extension) = s.assets

(* rollback_coin restores the running coin total, and no intermediate       *)
(* total underflows.                                                        *)
LEMMA UndoneTotals ==
  ASSUME NEW t, NEW j, NEW s, NEW sel, NEW v, NEW inputs, NEW p,
         Records(t, j, s, sel, v, inputs, p)
  PROVE  /\ UndoneTotal(t, j) = s.total_value
         /\ t.total_value - ValueOf(t, j.created) - ValueOf(t, j.vm_created) \in Zeno
<1> DEFINE c == s.coins
           c2 == After2(c, sel, v, inputs, p)
<1>1. TwoPhase(c, sel, v, inputs, p) /\ t.coins = c2
  BY Zenon DEF Records
<1>2. ValueOf(t, j.created) = Value(p) /\ ValueOf(t, j.vm_created) = Value(v)
  BY <1>1, TwoPhaseRestricts, SMTT(30), SMTT(60) DEF ValueOf, Records
<1>3. Value(j.consumed) = Value(Restrict(c, inputs))
  BY <1>1, TwoPhaseRestricts DEF Records
<1>4. Value(j.vm_consumed) = Value(Restrict(c, sel))
  BY Zenon DEF Records
<1>5. t.total_value = Value(c2) /\ s.total_value = Value(c) /\ s.total_value \in Zeno
  BY <1>1, Zenon DEF Records, Sound
<1>6. /\ Value(c) \in Nat /\ Value(v) \in Nat /\ Value(p) \in Nat
      /\ Value(Restrict(c, sel)) \in Nat /\ Value(Restrict(c, inputs)) \in Nat
      /\ Value(Restrict(c, sel)) + Value(Restrict(c, inputs)) <= Value(c)
      /\ Value(c2) = Value(c) - Value(Restrict(c, sel)) + Value(v)
                       - Value(Restrict(c, inputs)) + Value(p)
  BY <1>1, TwoPhaseValues
<1> HIDE DEF c, c2
<1> QED
  BY <1>2, <1>3, <1>4, <1>5, <1>6, EmissionAssumption, SMTT(30), SMTT(60) DEF UndoneTotal, Zeno

(* rollback_state accepts a journal that records what happened. *)
LEMMA UndoAccepted ==
  ASSUME NEW t, NEW j, NEW s, NEW sel, NEW v, NEW inputs, NEW p,
         Records(t, j, s, sel, v, inputs, p)
  PROVE  CanUndo(t, j)
<1> DEFINE c == s.coins
<1>1. /\ TwoPhase(c, sel, v, inputs, p) /\ t.coins = After2(c, sel, v, inputs, p)
      /\ j.created = DOMAIN p /\ j.vm_created = DOMAIN v
  BY Zenon DEF Records
<1>2. DOMAIN j.consumed = inputs /\ DOMAIN j.vm_consumed = sel
  BY Zenon DEF Records, Restrict
<1>3. DOMAIN p \cap DOMAIN v = {} /\ inputs \cap sel = {}
  BY <1>1, Zenon DEF TwoPhase
<1>4. /\ DOMAIN p \cup DOMAIN v \subseteq DOMAIN t.coins
      /\ \A id \in inputs \cup sel :
           id \in DOMAIN t.coins => id \in DOMAIN p \cup DOMAIN v
  <2>1. DOMAIN t.coins = (((DOMAIN c \ sel) \cup DOMAIN v) \ inputs) \cup DOMAIN p
    BY <1>1, Zenon DEF After2, ReplaceCoins
  <2> QED
    BY <1>1, <2>1, Zenon DEF TwoPhase
<1>5. s.mined \in Zeno /\ s.burned \in Zeno /\ s.total_value \in Zeno
  BY Zenon DEF Records, Sound
<1>6. /\ t.mined - j.mined \in Zeno /\ t.burned - j.burned \in Zeno
      /\ j.program.kind # "none" => j.program.id \in DOMAIN t.programs
  BY <1>5, Zenon DEF Records
<1>7. /\ UndoneTotal(t, j) \in Zeno
      /\ t.total_value - ValueOf(t, j.created) - ValueOf(t, j.vm_created) \in Zeno
  BY <1>5, UndoneTotals, Zenon
<1> QED
  <2>1. /\ j.created \cap j.vm_created = {}
        /\ j.created \cup j.vm_created \subseteq DOMAIN t.coins
        /\ DOMAIN j.consumed \cap DOMAIN j.vm_consumed = {}
        /\ \A id \in DOMAIN j.consumed \cup DOMAIN j.vm_consumed :
             id \in DOMAIN t.coins => id \in j.created \cup j.vm_created
    BY <1>1, <1>2, <1>3, <1>4, Zenon
  <2> QED
    BY <2>1, <1>6, <1>7, Zenon DEF CanUndo

(* rollback_state restores the state from before the journal that records   *)
(* what happened.                                                           *)
LEMMA UndoRestores ==
  ASSUME NEW t, NEW j, NEW s, NEW sel, NEW v, NEW inputs, NEW p,
         Records(t, j, s, sel, v, inputs, p)
  PROVE  Undoes(t, j, s)
<1> DEFINE created == j.created \cup j.vm_created
           consumed == ReplaceCoins(j.vm_consumed, {}, j.consumed)
           w == WithCoins(t, created, consumed, UndoneTotal(t, j))
<1>1. ReplaceCoins(t.coins, created, consumed) = s.coins
  <2>1. TwoPhase(s.coins, sel, v, inputs, p)
    BY Zenon DEF Records
  <2> QED
    BY <2>1, TwoPhaseUndo DEF Records
<1>2. t = StateRecord(t.coins, t.total_value, OwnersOf(t.coins), t.mined,
                      t.burned, t.programs, t.assets)
  BY SoundRecord, Zenon DEF Records
<1>3. w = StateRecord(s.coins, UndoneTotal(t, j),
                      ReindexOwners(OwnersOf(t.coins), t.coins, created, consumed),
                      t.mined, t.burned, t.programs, t.assets)
  <2> HIDE DEF created, consumed
  <2> QED
    BY <1>1, <1>2, WithCoinsRecord, SMTT(30)
<1>4. ReindexOwners(OwnersOf(t.coins), t.coins, created, consumed) = OwnersOf(s.coins)
  <2>1. Replaceable(t.coins, created, consumed)
    <3>1. CoinMap(t.coins)
      BY Zenon DEF Records, Sound, CoinMap
    <3>2. /\ created \subseteq DOMAIN t.coins
          /\ DOMAIN consumed \cap (DOMAIN t.coins \ created) = {}
      BY UndoAccepted, Zenon DEF CanUndo, ReplaceCoins
    <3>3. CoinMap(consumed)
      <4>1. TwoPhase(s.coins, sel, v, inputs, p)
        BY Zenon DEF Records
      <4>2. CoinMap(j.consumed) /\ CoinMap(j.vm_consumed)
        <5>1. j.consumed = Restrict(s.coins, inputs) /\ j.vm_consumed = Restrict(s.coins, sel)
          BY <4>1, TwoPhaseRestricts DEF Records
        <5>2. CoinMap(s.coins) /\ inputs \subseteq DOMAIN s.coins /\ sel \subseteq DOMAIN s.coins
          BY <4>1, Zenon DEF TwoPhase
        <5> QED
          BY <5>1, <5>2, FS_Subset, SMTT(30), SMTT(60) DEF CoinMap, Restrict
      <4>3. DOMAIN j.consumed \cap DOMAIN j.vm_consumed = {}
        BY UndoAccepted, Zenon DEF CanUndo
      <4>4. Replaceable(j.vm_consumed, {}, j.consumed)
        BY <4>2, <4>3, ZenonT(40) DEF Replaceable
      <4> QED
        BY <4>4, ReplaceCoinMap, ZenonT(40)
    <3> QED
      BY <3>1, <3>2, <3>3, Zenon DEF Replaceable
  <2> HIDE DEF created, consumed
  <2> QED
    BY <1>1, <2>1, ReplaceOwners, Zenon
<1>5. w \in StateRecords(s.coins, s.total_value, OwnersOf(s.coins),
                        t.mined, t.burned, t.programs, t.assets)
  <2> HIDE DEF w
  <2> QED
    BY <1>3, <1>4, UndoneTotals, RecordInSet, SMTT(30)
<1>6. Undo(t, j) \in StateRecords(s.coins, s.total_value, OwnersOf(s.coins),
                        s.mined, s.burned, s.programs, s.assets)
  <2>1. Undo(t, j) = [w EXCEPT !.mined = s.mined, !.burned = s.burned,
                               !.programs = s.programs, !.assets = s.assets]
    BY Zenon DEF Undo, Records
  <2> HIDE DEF w
  <2> QED
    BY <1>5, <2>1, ZenonT(40) DEF StateRecords
<1>7. Undo(t, j) = s
  BY <1>6, RecordInSet, SoundRecord, SMTT(30) DEF Records
<1> QED
  BY <1>7, UndoAccepted, Zenon DEF Undoes

-----------------------------------------------------------------------------
(* Replacing the fields that are not coins keeps a state sound. *)
LEMMA SoundUpdate ==
  ASSUME NEW s, Sound(s), NEW m \in Zeno, NEW b \in Zeno, NEW p, ProgramsOK(p),
         NEW a, a = Restrict(a, AssetKey),
         NEW t, t \in StateRecords(s.coins, s.total_value, OwnersOf(s.coins), m, b, p, a)
  PROVE  /\ Sound(t)
         /\ t.coins = s.coins /\ t.total_value = s.total_value
         /\ t.mined = m /\ t.burned = b /\ t.programs = p /\ t.assets = a
<1>1. /\ t.coins = s.coins /\ t.total_value = s.total_value
      /\ t.by_owner = OwnersOf(s.coins)
      /\ t.mined = m /\ t.burned = b /\ t.programs = p /\ t.assets = a
  BY Zenon DEF StateRecords
<1>2. t = DecodedState(StateRoot(t))
  BY <1>1, Zenon DEF StateRecords, DecodedState, StateRoot
<1> QED
  BY <1>1, <1>2, Zenon DEF Sound

(* A sound state is a record with the seven fields. *)
LEMMA SoundInRecords ==
  ASSUME NEW s, Sound(s)
  PROVE  s \in StateRecords(s.coins, s.total_value, OwnersOf(s.coins), s.mined,
                            s.burned, s.programs, s.assets)
BY SoundRecord, RecordInSet, Zenon

(* The coins of a payment and of a VM transfer are finitely many. *)
LEMMA PaymentCoinMap ==
  ASSUME NEW op \in Operation, NEW miner,
         \A id \in DOMAIN PaymentCoins(op, miner) : PaymentCoins(op, miner)[id] \in Coin
  PROVE  CoinMap(PaymentCoins(op, miner))
<1> DEFINE n == Len(op.outputs)
           share == [i \in 0 .. n |-> OutputShare(op, i)]
           D == DOMAIN PaymentCoins(op, miner)
<1>1. n \in Nat
  BY OperationAssumption, SMTT(30)
<1>2. IsFiniteSet(0 .. n)
  BY <1>1, FS_Interval
<1>3. share \in Surjection(0 .. n, {OutputShare(op, i) : i \in 0 .. n})
  BY Zenon DEF Surjection
<1>4. IsFiniteSet({OutputShare(op, i) : i \in 0 .. n})
  BY <1>2, <1>3, FS_Surjection, SMTT(30), SMTT(60)
<1>5. D \subseteq {OutputShare(op, i) : i \in 0 .. n}
  BY <1>1 DEF PaymentCoins
<1>6. IsFiniteSet(D)
  BY <1>4, <1>5, FS_Subset, Zenon
<1> QED
  BY <1>6, ZenonT(40) DEF CoinMap, PaymentCoins

(* A VM transfer creates finitely many coins. *)
LEMMA VmCoinMap ==
  ASSUME NEW s, NEW op, NEW sel,
         \A id \in DOMAIN VmCoins(s, op, sel) : VmCoins(s, op, sel)[id] \in Coin
  PROVE  CoinMap(VmCoins(s, op, sel))
<1> DEFINE D == DOMAIN VmCoins(s, op, sel)
<1>1. D \subseteq {VmShare(op, 0)} \cup {VmShare(op, 1)}
  BY Zenon DEF VmCoins
<1>2. IsFiniteSet({VmShare(op, 0)} \cup {VmShare(op, 1)})
  BY FS_Singleton, FS_Union, Zenon
<1>3. IsFiniteSet(D)
  BY <1>1, <1>2, FS_Subset, Zenon
<1> QED
  BY <1>3, Zenon DEF CoinMap, VmCoins

(* The shares that a VM transfer creates differ from those of the           *)
(* payment: they are digests in another domain.                             *)
LEMMA SharesDisjoint ==
  ASSUME NEW s, NEW op, NEW sel, NEW miner
  PROVE  DOMAIN PaymentCoins(op, miner) \cap DOMAIN VmCoins(s, op, sel) = {}
<1>1. \A i, k : OutputShare(op, i) # VmShare(op, k)
  BY Zenon DEF OutputShare, VmShare
<1> QED
  BY <1>1, Zenon DEF PaymentCoins, VmCoins

-----------------------------------------------------------------------------
(* An operation of the model that passes validation in a sound state. *)
Offered(s, op, miner, sel) ==
  Sound(s) /\ op \in Operation /\ ValidOp(s, op, miner, sel)

(* One whose program, if it has one, can move its coins. *)
Callable(s, op, miner, sel) ==
  /\ Offered(s, op, miner, sel)
  /\ op.kind = "vm" => CanReplace(s, sel, VmCoins(s, op, sel))

(* One that application accepts, its final supply check aside. *)
Applicable(s, op, miner, sel) ==
  /\ Callable(s, op, miner, sel)
  /\ CanReplace(AfterCall(s, op, sel), op.inputs, PaymentCoins(op, miner))
  /\ AfterCall(s, op, sel).burned + PaymentBurn(AfterCall(s, op, sel), op, miner) \in Zeno

(* The coins a contract spends are not the payment inputs: a contract       *)
(* never signs, so the owners differ.                                       *)
LEMMA SelectionFacts ==
  ASSUME NEW s, NEW op, NEW miner, NEW sel,
         Offered(s, op, miner, sel)
  PROVE  /\ sel \subseteq DOMAIN s.coins /\ op.inputs \subseteq DOMAIN s.coins
         /\ sel \cap op.inputs = {}
         /\ op.kind # "vm" => sel = {} /\ DOMAIN VmCoins(s, op, sel) = {}
         /\ op.kind = "vm" => op.program \in DOMAIN s.programs
<1>1. s.by_owner = OwnersOf(s.coins)
  BY SoundRecord DEF Offered, StateRecord
<1>2. /\ op.signer \notin DOMAIN s.programs /\ op.inputs \subseteq DOMAIN s.coins
      /\ \A id \in op.inputs : s.coins[id].owner = op.signer
      /\ sel \in Selections(s, op)
  BY Zenon DEF Offered, ValidOp
<1>3. CASE op.kind # "vm"
  <2>1. op.pay = 0
    BY <1>3, OperationAssumption, Zenon DEF Offered
  <2>2. sel = {}
    BY <1>2, <1>3, Zenon DEF Selections
  <2>3. DOMAIN VmCoins(s, op, sel) = {}
    BY <2>1, Zenon DEF VmCoins
  <2> QED
    BY <1>2, <1>3, <2>2, <2>3, Zenon
<1>4. CASE op.kind = "vm"
  <2>1. op.program \in DOMAIN s.programs /\ sel \in VmSelections(s, op)
    BY <1>2, <1>4, Zenon DEF Selections
  <2>2. op.program \in Owner
    BY <1>4, OperationAssumption, Zenon DEF Offered
  <2>3. sel \subseteq s.by_owner[op.program]
    BY <2>1, Zenon DEF VmSelections
  <2>4. \A id \in sel : id \in DOMAIN s.coins /\ s.coins[id].owner = op.program
    BY <1>1, <2>2, <2>3 DEF OwnersOf
  <2> QED
    BY <1>2, <1>4, <2>1, <2>4, Zenon
<1> QED
  BY <1>3, <1>4, Zenon

(* set_state keeps the registry well formed and setting the previous        *)
(* value back undoes it.                                                    *)
LEMMA SetStateOK ==
  ASSUME NEW programs, ProgramsOK(programs), NEW id \in DOMAIN programs, NEW value
  PROVE  /\ ProgramsOK(SetState(programs, id, value))
         /\ DOMAIN SetState(programs, id, value) = DOMAIN programs
         /\ SetState(SetState(programs, id, value), id, programs[id].value) = programs
<1> DEFINE changed == SetState(programs, id, value)
           r == programs[id]
           new == [owner |-> r.owner, nonce |-> r.nonce, value |-> value,
                   deployed_at |-> r.deployed_at]
<1>1. r = [owner |-> r.owner, nonce |-> r.nonce, value |-> r.value,
           deployed_at |-> r.deployed_at]
  BY Zenon DEF ProgramsOK
<1>2. [r EXCEPT !.value = value] = new
  BY <1>1
<1>3. [new EXCEPT !.value = r.value] = r
  BY <1>1
<1>4. changed = [programs EXCEPT ![id] = new]
  BY <1>2, Zenon DEF SetState
<1>5. SetState(changed, id, r.value) = [changed EXCEPT ![id] = r]
  BY <1>3, <1>4, Zenon DEF SetState
<1>6. DOMAIN changed = DOMAIN programs
  BY <1>4, Zenon
<1>7. programs = [p \in DOMAIN programs |-> programs[p]]
  BY Zenon DEF ProgramsOK, Restrict
<1>8. [changed EXCEPT ![id] = r] = programs
  BY <1>4, <1>7, Zenon
<1>9. ProgramsOK(changed)
  <2>1. changed = Restrict(changed, DOMAIN changed)
    BY <1>4, Zenon DEF Restrict
  <2>2. ASSUME NEW p \in DOMAIN changed
        PROVE  changed[p] = [owner |-> changed[p].owner, nonce |-> changed[p].nonce,
                             value |-> changed[p].value,
                             deployed_at |-> changed[p].deployed_at]
    <3>1. CASE p = id
      <4>1. changed[p] = new
        BY <1>4, <3>1, Zenon
      <4> HIDE DEF changed
      <4> QED
        BY <4>1, Zenon
    <3>2. CASE p # id
      <4>1. changed[p] = programs[p]
        BY <1>4, <1>6, <3>2, Zenon
      <4> HIDE DEF changed
      <4> QED
        BY <1>6, <4>1, Zenon DEF ProgramsOK
    <3> QED
      BY <3>1, <3>2, Zenon
  <2> HIDE DEF changed
  <2> QED
    BY <1>6, <2>1, <2>2, Zenon DEF ProgramsOK
<1> QED
  BY <1>5, <1>6, <1>8, <1>9, Zenon

(* The registry and the asset state once the program of op has run. *)
CalledPrograms(s, op) ==
  IF op.kind = "vm" /\ op.value # Absent THEN SetState(s.programs, op.program, op.value)
  ELSE s.programs

(* The assets after an operation. *)
CalledAssets(s, op) ==
  IF op.kind = "asset"
  THEN [k \in AssetKey |-> IF k \in DOMAIN op.writes THEN op.writes[k] ELSE s.assets[k]]
  ELSE s.assets

(* A program call keeps the registry and the asset state well formed. *)
LEMMA CalledOK ==
  ASSUME NEW s, NEW op, NEW miner, NEW sel,
         Offered(s, op, miner, sel)
  PROVE  /\ ProgramsOK(CalledPrograms(s, op))
         /\ DOMAIN CalledPrograms(s, op) = DOMAIN s.programs
         /\ CalledAssets(s, op) = Restrict(CalledAssets(s, op), AssetKey)
<1>1. ProgramsOK(s.programs) /\ s.assets = Restrict(s.assets, AssetKey)
  BY Zenon DEF Offered, Sound
<1>2. op.kind = "vm" => op.program \in DOMAIN s.programs
  BY SelectionFacts, Zenon
<1>3. /\ ProgramsOK(CalledPrograms(s, op))
      /\ DOMAIN CalledPrograms(s, op) = DOMAIN s.programs
  BY <1>1, <1>2, SetStateOK DEF CalledPrograms
<1>4. CalledAssets(s, op) = Restrict(CalledAssets(s, op), AssetKey)
  <2>1. CASE op.kind = "asset"
    BY <2>1, Zenon DEF CalledAssets, Restrict
  <2>2. CASE op.kind # "asset"
    BY <1>1, <2>2, Zenon DEF CalledAssets
  <2> QED
    BY <2>1, <2>2, Zenon
<1> QED
  BY <1>3, <1>4, Zenon

(* The state once the program of op has run. *)
IsCalled(s, op, sel, called) ==
  /\ Sound(called)
  /\ called.coins = After1(s.coins, sel, VmCoins(s, op, sel))
  /\ called.mined = s.mined /\ called.burned = s.burned
  /\ called.programs = CalledPrograms(s, op) /\ called.assets = CalledAssets(s, op)

(* A call without VM transfer leaves the coins alone. *)
LEMMA NothingReplaced ==
  ASSUME NEW c, CoinMap(c), NEW v, DOMAIN v = {}
  PROVE  After1(c, {}, v) = c
BY Zenon DEF After1, ReplaceCoins, CoinMap

(* The emission of a block keeps a good state good, changes its total by    *)
(* the subsidy less the miner burn, and its journal takes the state back.   *)
LEMMA EmissionGood ==
  ASSUME NEW s, Good(s), NEW share, NEW miner \in Owner, NEW subsidy \in Zeno,
         NEW coin, coin = [owner |-> miner, amount |-> subsidy - MinerProtocolBurn],
         coin.amount \in Zeno,
         NEW new, new = EmissionCoins(share, coin), CanEmit(s, new, subsidy),
         NEW t, t = AfterEmission(s, new, subsidy)
  PROVE  /\ Good(t)
         /\ t.total_value = s.total_value + subsidy - MinerProtocolBurn
         /\ Undoes(t, EmissionJournal(new, subsidy), s)
<1> DEFINE r == Replace(s, {}, new)
           j == EmissionJournal(new, subsidy)
<1>1. Sound(s) /\ CoinMap(s.coins)
  BY Zenon DEF Good, Sound, CoinMap
<1>2. coin.amount = subsidy - MinerProtocolBurn
  BY Zenon
<1>3. CoinMap(new) /\ Value(new) = coin.amount
  <2>1. CASE coin.amount = 0
    <3>1. DOMAIN new = {} /\ new = [id \in {} |-> coin]
      BY <2>1, Zenon DEF EmissionCoins
    <3>2. CoinMap(new)
      BY <3>1, FS_EmptySet, Zenon DEF CoinMap
    <3> QED
      BY <2>1, <3>1, <3>2, EmptyValue, Zenon
  <2>2. CASE coin.amount # 0
    <3>1. new = [id \in {share} |-> coin]
      BY <2>2, Zenon DEF EmissionCoins
    <3>2. coin \in Coin
      <4>1. coin = [owner |-> miner, amount |-> coin.amount] /\ coin.amount \in Zeno \ {0}
        BY <2>2, Zenon
      <4> QED
        BY <4>1, Zenon DEF Coin
    <3>3. CoinMap([id \in {share} |-> coin]) /\ Value([id \in {share} |-> coin]) = coin.amount
      BY <3>2, SingletonValue, Zenon
    <3> QED
      BY <3>1, <3>3, Zenon
  <2> QED
    BY <2>1, <2>2, Zenon
<1>4. CanReplace(s, {}, new)
  BY ZenonT(40) DEF CanEmit
<1>5. /\ Sound(r) /\ r.coins = ReplaceCoins(s.coins, {}, new)
      /\ r.total_value = s.total_value - Value(Restrict(s.coins, {})) + Value(new)
      /\ r.mined = s.mined /\ r.burned = s.burned
      /\ r.programs = s.programs /\ r.assets = s.assets
  BY <1>1, <1>3, <1>4, SoundReplace, SMTT(30), SMTT(60)
<1>6. Value(Restrict(s.coins, {})) = 0
  BY EmptyRestrict, Zenon
<1> DEFINE mined == s.mined + subsidy
           burned == s.burned + MinerProtocolBurn
<1>7. mined \in Zeno /\ burned \in Zeno
  BY Zenon DEF CanEmit
<1>8. ProgramsOK(s.programs) /\ s.assets = Restrict(s.assets, AssetKey)
  BY <1>1, ZenonT(40) DEF Sound
<1>9. /\ Sound(t) /\ t.coins = r.coins /\ t.total_value = r.total_value
      /\ t.mined = mined /\ t.burned = burned
      /\ t.programs = s.programs /\ t.assets = s.assets
  <2>1. t = [r EXCEPT !.mined = mined, !.burned = burned]
    BY Zenon DEF AfterEmission
  <2> HIDE DEF r, mined, burned
  <2>2. t \in StateRecords(r.coins, r.total_value, OwnersOf(r.coins), mined, burned,
                           s.programs, s.assets)
    <3>1. r \in StateRecords(r.coins, r.total_value, OwnersOf(r.coins), r.mined, r.burned,
                             s.programs, s.assets)
      BY <1>5, SoundInRecords, ZenonT(40)
    <3> QED
      BY <2>1, <3>1, Zenon DEF StateRecords
  <2> QED
    BY <1>5, <1>7, <1>8, <2>2, SoundUpdate, SMTT(30), SMTT(60)
<1>10. /\ s.mined \in Nat /\ s.burned \in Nat /\ s.total_value \in Nat
       /\ subsidy \in Nat /\ MinerProtocolBurn \in Nat
       /\ s.mined - s.burned = s.total_value
  BY <1>1, EmissionAssumption, SMTT(30), SMTT(60) DEF Good, Sound, Zeno
<1>11. t.total_value = s.total_value + subsidy - MinerProtocolBurn
  BY <1>2, <1>3, <1>5, <1>6, <1>9, <1>10, SMTT(30), SMTT(60)
<1>12. Good(t)
  BY <1>9, <1>10, <1>11, SMTT(30), SMTT(60) DEF Good
<1>13. Undoes(t, j, s)
  <2>1. TwoPhase(s.coins, {}, EmptyMap, {}, new)
    <3>1. DOMAIN new \cap DOMAIN s.coins = {}
      BY <1>4, Zenon DEF CanReplace
    <3>2. DOMAIN EmptyMap = {} /\ CoinMap(EmptyMap)
      BY EmptyRestrict, Zenon
    <3> QED
      BY <1>1, <1>3, <3>1, <3>2, Zenon DEF TwoPhase
  <2>2. t.coins = After2(s.coins, {}, EmptyMap, {}, new)
    <3>1. ReplaceCoins(s.coins, {}, EmptyMap) = s.coins
      BY <1>1, EmptyRestrict, NothingReplaced, Zenon DEF After1
    <3> QED
      BY <1>5, <1>9, <3>1, Zenon DEF After2
  <2>3. \A f : Restrict(f, {}) = EmptyMap
    BY Zenon DEF Restrict, EmptyMap
  <2>4. /\ j.consumed = EmptyMap /\ j.created = DOMAIN new
        /\ j.vm_consumed = EmptyMap /\ j.vm_created = {}
        /\ j.mined = subsidy /\ j.burned = MinerProtocolBurn
        /\ j.program = [kind |-> "none"] /\ j.extension = EmptyMap
    BY Zenon DEF EmissionJournal
  <2>5. DOMAIN EmptyMap = {}
    BY EmptyRestrict, ZenonT(40)
  <2>6. j.program.kind = "none"
    BY <2>4, SMTT(30), SMTT(60)
  <2>7. UndoProgram(t.programs, j.program) = s.programs
    BY <1>9, <2>4, SMTT(30), SMTT(60) DEF UndoProgram
  <2>8. UndoAssets(t.assets, j.extension) = s.assets
    BY <1>8, <1>9, <2>4, <2>5, ZenonT(40) DEF UndoAssets, Restrict
  <2>9. t.mined - j.mined = s.mined /\ t.burned - j.burned = s.burned
    BY <1>9, <1>10, <2>4, SMTT(30), SMTT(60)
  <2> HIDE DEF j
  <2>10. Records(t, j, s, {}, EmptyMap, {}, new)
    BY <1>1, <1>9, <2>1, <2>2, <2>3, <2>4, <2>5, <2>6, <2>7, <2>8, <2>9, ZenonT(40) DEF Records
  <2> QED
    BY <2>10, UndoRestores, Zenon
<1> QED
  BY <1>11, <1>12, <1>13, Zenon

(* The state after the program of a call has run, field by field. *)
LEMMA CalledState ==
  ASSUME NEW s, NEW op, NEW miner, NEW sel,
         Callable(s, op, miner, sel)
  PROVE  IsCalled(s, op, sel, AfterCall(s, op, sel))
<1> DEFINE v == VmCoins(s, op, sel)
           called == AfterCall(s, op, sel)
           settled == Replace(s, sel, v)
<1>1. Sound(s) /\ CoinMap(s.coins)
  BY Zenon DEF Callable, Offered, Sound, CoinMap
<1>2. CASE op.kind = "vm"
  <2>1. CanReplace(s, sel, v)
    BY <1>2, Zenon DEF Callable
  <2>2. CoinMap(v)
    BY <2>1, VmCoinMap, ZenonT(40) DEF CanReplace
  <2>3. /\ Sound(settled) /\ settled.coins = After1(s.coins, sel, v)
        /\ settled.mined = s.mined /\ settled.burned = s.burned
        /\ settled.programs = s.programs /\ settled.assets = s.assets
    <3> HIDE DEF v
    <3> QED
      BY <1>1, <2>1, <2>2, SoundReplace, SMTT(30), SMTT(60) DEF After1
  <2>4. CASE op.value = Absent
    <3>1. called = settled
      BY <1>2, <2>4, Zenon DEF AfterCall
    <3> QED
      BY <1>2, <2>3, <2>4, <3>1, Zenon DEF IsCalled, CalledPrograms, CalledAssets
  <2>5. CASE op.value # Absent
    <3> DEFINE programs == SetState(s.programs, op.program, op.value)
    <3>1. called = [settled EXCEPT !.programs = programs]
      BY <1>2, <2>5, Zenon DEF AfterCall
    <3>2. programs = CalledPrograms(s, op) /\ s.assets = CalledAssets(s, op)
      BY <1>2, <2>5, Zenon DEF CalledPrograms, CalledAssets
    <3>3. ProgramsOK(programs) /\ s.assets = Restrict(s.assets, AssetKey)
      BY <3>2, CalledOK, Zenon DEF Callable
    <3> HIDE DEF programs, settled, v, called
    <3>4. settled \in StateRecords(settled.coins, settled.total_value,
                     OwnersOf(settled.coins), s.mined, s.burned, s.programs, s.assets)
      BY <2>3, SoundInRecords, Zenon
    <3>5. called \in StateRecords(settled.coins, settled.total_value,
                     OwnersOf(settled.coins), s.mined, s.burned, programs, s.assets)
      BY <3>1, <3>4, Zenon DEF StateRecords
    <3>6. s.mined \in Zeno /\ s.burned \in Zeno
      BY <1>1, ZenonT(40) DEF Sound
    <3>7. /\ Sound(called) /\ called.coins = settled.coins
          /\ called.mined = s.mined /\ called.burned = s.burned
          /\ called.programs = programs /\ called.assets = s.assets
      BY <2>3, <3>3, <3>5, <3>6, SoundUpdate, SMTT(30), SMTT(60)
    <3> QED
      BY <2>3, <3>2, <3>7, ZenonT(40) DEF IsCalled, v, called
  <2> QED
    BY <2>4, <2>5, Zenon
<1>3. CASE op.kind # "vm"
  <2>1. After1(s.coins, sel, v) = s.coins
    <3>1. sel = {} /\ DOMAIN v = {}
      BY <1>3, SelectionFacts, Zenon DEF Callable
    <3> HIDE DEF v
    <3> QED
      BY <1>1, <3>1, NothingReplaced, Zenon
  <2>2. CASE op.kind = "asset"
    <3>1. called = [s EXCEPT !.assets = CalledAssets(s, op)]
      BY <2>2, Zenon DEF AfterCall, CalledAssets
    <3>2. s.programs = CalledPrograms(s, op)
      BY <1>3, Zenon DEF CalledPrograms
    <3>3. ProgramsOK(s.programs) /\ CalledAssets(s, op) = Restrict(CalledAssets(s, op), AssetKey)
      BY <3>2, CalledOK, Zenon DEF Callable
    <3> HIDE DEF v, called
    <3>4. called \in StateRecords(s.coins, s.total_value,
                     OwnersOf(s.coins), s.mined, s.burned, s.programs, CalledAssets(s, op))
      BY <1>1, <3>1, SoundInRecords, SMTT(30), SMTT(60) DEF StateRecords
    <3>5. s.mined \in Zeno /\ s.burned \in Zeno
      BY <1>1, Zenon DEF Sound
    <3>6. /\ Sound(called) /\ called.coins = s.coins
          /\ called.mined = s.mined /\ called.burned = s.burned
          /\ called.programs = s.programs /\ called.assets = CalledAssets(s, op)
      BY <1>1, <3>3, <3>4, <3>5, SoundUpdate, SMTT(30), SMTT(60)
    <3> QED
      BY <2>1, <3>2, <3>6, Zenon DEF IsCalled, v, called
  <2>3. CASE op.kind # "asset"
    <3>1. called = s
      BY <1>3, <2>3, Zenon DEF AfterCall
    <3> QED
      BY <1>1, <1>3, <2>1, <2>3, <3>1, ZenonT(40) DEF IsCalled, CalledPrograms, CalledAssets
  <2> QED
    BY <2>2, <2>3, Zenon
<1> QED
  BY <1>2, <1>3, Zenon

(* The program and the payment of an applied operation are two coin         *)
(* replacements that do not interfere.                                      *)
LEMMA OperationTwoPhase ==
  ASSUME NEW s, NEW op, NEW miner, NEW sel,
         Applicable(s, op, miner, sel)
  PROVE  TwoPhase(s.coins, sel, VmCoins(s, op, sel), op.inputs, PaymentCoins(op, miner))
<1> DEFINE v == VmCoins(s, op, sel)
           p == PaymentCoins(op, miner)
           called == AfterCall(s, op, sel)
<1>1. CoinMap(s.coins)
  BY Zenon DEF Applicable, Callable, Offered, Sound, CoinMap
<1>2. CanReplace(called, op.inputs, p)
  BY Zenon DEF Applicable
<1>3. CoinMap(p)
  BY <1>2, PaymentCoinMap, Zenon DEF CanReplace, Applicable, Callable, Offered
<1>4. CoinMap(v) /\ DOMAIN v \cap (DOMAIN s.coins \ sel) = {}
  <2>1. CASE op.kind = "vm"
    <3>1. CanReplace(s, sel, v)
      BY <2>1, Zenon DEF Applicable, Callable
    <3> QED
      BY <3>1, VmCoinMap, Zenon DEF CanReplace
  <2>2. CASE op.kind # "vm"
    <3>1. DOMAIN v = {}
      BY <2>2, SelectionFacts, Zenon DEF Applicable, Callable
    <3> QED
      BY <3>1, VmCoinMap, Zenon
  <2> QED
    BY <2>1, <2>2, Zenon
<1>5. DOMAIN p \cap (((DOMAIN s.coins \ sel) \cup DOMAIN v) \ op.inputs) = {}
  <2>1. called.coins = After1(s.coins, sel, v)
    BY CalledState, SMTT(30) DEF IsCalled, Applicable
  <2>2. DOMAIN called.coins = (DOMAIN s.coins \ sel) \cup DOMAIN v
    BY <2>1, Zenon DEF After1, ReplaceCoins
  <2> QED
    BY <1>2, <2>2, ZenonT(40) DEF CanReplace
<1>6. DOMAIN p \cap DOMAIN v = {}
  BY SharesDisjoint, Zenon
<1>7. /\ sel \subseteq DOMAIN s.coins /\ op.inputs \subseteq DOMAIN s.coins
      /\ sel \cap op.inputs = {}
  BY SelectionFacts, Zenon DEF Applicable, Callable
<1> HIDE DEF v, p
<1> QED
  BY <1>1, <1>3, <1>4, <1>5, <1>6, <1>7, ZenonT(40) DEF TwoPhase, v, p

(* The payment burns the same before and after the program has run: the     *)
(* program spends none of its inputs.                                       *)
LEMMA SameBurn ==
  ASSUME NEW s, NEW op, NEW miner, NEW sel,
         Applicable(s, op, miner, sel)
  PROVE  PaymentBurn(AfterCall(s, op, sel), op, miner) = PaymentBurn(s, op, miner)
<1>1. AfterCall(s, op, sel).coins = After1(s.coins, sel, VmCoins(s, op, sel))
  BY CalledState, SMTT(30), SMTT(60) DEF IsCalled, Applicable
<1>2. Restrict(AfterCall(s, op, sel).coins, op.inputs) = Restrict(s.coins, op.inputs)
  BY <1>1, OperationTwoPhase, TwoPhaseRestricts, SMTT(30)
<1> QED
  BY <1>2, ZenonT(40) DEF PaymentBurn, ValueOf

(* The state once the payment of op has been made. *)
LEMMA PaidState ==
  ASSUME NEW s, NEW op, NEW miner, NEW sel,
         Applicable(s, op, miner, sel),
         NEW paid, paid = AfterPayment(AfterCall(s, op, sel), op, miner)
  PROVE  /\ Sound(paid)
         /\ paid.coins = After2(s.coins, sel, VmCoins(s, op, sel), op.inputs,
                               PaymentCoins(op, miner))
         /\ paid.mined = s.mined
         /\ paid.burned = s.burned + PaymentBurn(s, op, miner)
         /\ paid.programs = CalledPrograms(s, op) /\ paid.assets = CalledAssets(s, op)
<1> DEFINE p == PaymentCoins(op, miner)
           called == AfterCall(s, op, sel)
           replaced == Replace(called, op.inputs, p)
           burned == s.burned + PaymentBurn(s, op, miner)
<1>1. IsCalled(s, op, sel, called)
  BY CalledState, Zenon DEF Applicable
<1>2. CanReplace(called, op.inputs, p) /\ called.burned + PaymentBurn(called, op, miner) \in Zeno
  BY Zenon DEF Applicable
<1>3. CoinMap(p)
  BY <1>2, PaymentCoinMap, ZenonT(40) DEF CanReplace, Applicable, Callable, Offered
<1>4. /\ Sound(replaced)
      /\ replaced.coins = ReplaceCoins(called.coins, op.inputs, p)
      /\ replaced.mined = called.mined /\ replaced.burned = called.burned
      /\ replaced.programs = called.programs /\ replaced.assets = called.assets
  <2> HIDE DEF p, called
  <2> QED
    BY <1>1, <1>2, <1>3, SoundReplace, SMTT(30), SMTT(60) DEF IsCalled
<1>5. burned \in Zeno /\ paid = [replaced EXCEPT !.burned = burned]
  <2>1. called.burned = s.burned
    BY <1>1, Zenon DEF IsCalled
  <2>2. PaymentBurn(called, op, miner) = PaymentBurn(s, op, miner)
    BY SameBurn, Zenon
  <2> QED
    BY <1>2, <2>1, <2>2, Zenon DEF AfterPayment
<1>6. ProgramsOK(called.programs) /\ called.assets = Restrict(called.assets, AssetKey)
      /\ called.mined \in Zeno
  BY <1>1, ZenonT(40) DEF IsCalled, Sound
<1> HIDE DEF replaced, burned, called
<1>7. replaced \in StateRecords(replaced.coins, replaced.total_value,
        OwnersOf(replaced.coins), called.mined, called.burned, called.programs, called.assets)
  BY <1>4, SoundInRecords, Zenon
<1>8. paid \in StateRecords(replaced.coins, replaced.total_value,
        OwnersOf(replaced.coins), called.mined, burned, called.programs, called.assets)
  BY <1>5, <1>7, Zenon DEF StateRecords
<1>9. /\ Sound(paid) /\ paid.coins = replaced.coins
      /\ paid.mined = called.mined /\ paid.burned = burned
      /\ paid.programs = called.programs /\ paid.assets = called.assets
  BY <1>4, <1>5, <1>6, <1>8, SoundUpdate, SMTT(30), SMTT(60)
<1> QED
  BY <1>1, <1>4, <1>9, ZenonT(40) DEF IsCalled, After1, After2, burned

(* The registry once op is applied. *)
AppliedPrograms(s, op, height) ==
  IF op.kind = "deploy" THEN Registered(s.programs, op, height) ELSE CalledPrograms(s, op)

(* rollback_program undoes what an operation did to the registry. *)
LEMMA AppliedProgramsUndone ==
  ASSUME NEW s, NEW op, NEW miner, NEW height, NEW sel,
         Applicable(s, op, miner, sel)
  PROVE  /\ ProgramsOK(AppliedPrograms(s, op, height))
         /\ ProgramJournal(s, op).kind # "none" =>
              ProgramJournal(s, op).id \in DOMAIN AppliedPrograms(s, op, height)
         /\ UndoProgram(AppliedPrograms(s, op, height), ProgramJournal(s, op)) = s.programs
<1>1. ProgramsOK(s.programs)
  BY Zenon DEF Applicable, Callable, Offered, Sound
<1>2. CASE op.kind = "deploy"
  <2> DEFINE new == [owner |-> op.signer, nonce |-> op.nonce, value |-> 0,
                     deployed_at |-> height]
             all == DOMAIN s.programs \cup {op.program}
             after == Registered(s.programs, op, height)
  <2>1. op.program \notin DOMAIN s.programs /\ op.program \in Owner
    BY <1>2, OperationAssumption, Zenon DEF Applicable, Callable, Offered, ValidOp
  <2>2. after = [p \in all |-> IF p = op.program THEN new ELSE s.programs[p]]
    BY Zenon DEF Registered
  <2>3. AppliedPrograms(s, op, height) = after
    BY <1>2, Zenon DEF AppliedPrograms
  <2>4. ProgramJournal(s, op) = [kind |-> "deploy", id |-> op.program]
    BY <1>2, Zenon DEF ProgramJournal
  <2>5. UndoProgram(after, ProgramJournal(s, op)) = Restrict(after, DOMAIN after \ {op.program})
    BY <2>4 DEF UndoProgram
  <2>6. Restrict(after, DOMAIN after \ {op.program}) = s.programs
    <3>1. DOMAIN after \ {op.program} = DOMAIN s.programs
      BY <2>1, <2>2, Zenon
    <3>2. \A p \in DOMAIN s.programs : after[p] = s.programs[p]
      BY <2>1, <2>2, Zenon
    <3>3. s.programs = [p \in DOMAIN s.programs |-> s.programs[p]]
      BY <1>1, Zenon DEF ProgramsOK, Restrict
    <3> HIDE DEF after
    <3> QED
      BY <3>1, <3>2, <3>3, Zenon DEF Restrict
  <2>7. ASSUME NEW p \in DOMAIN after
        PROVE  after[p] = [owner |-> after[p].owner, nonce |-> after[p].nonce,
                           value |-> after[p].value, deployed_at |-> after[p].deployed_at]
    <3>1. CASE p = op.program
      <4>1. after[p] = new
        BY <2>2, <3>1, Zenon
      <4> HIDE DEF after
      <4> QED
        BY <4>1, Zenon
    <3>2. CASE p # op.program
      <4>1. after[p] = s.programs[p] /\ p \in DOMAIN s.programs
        BY <2>2, <3>2, Zenon
      <4> HIDE DEF after
      <4> QED
        BY <1>1, <4>1, Zenon DEF ProgramsOK
    <3> QED
      BY <3>1, <3>2, Zenon
  <2>8. ProgramsOK(after)
    <3>1. DOMAIN after = all /\ after = Restrict(after, DOMAIN after)
      BY <2>2, Zenon DEF Restrict
    <3>2. all \subseteq Owner
      BY <1>1, <2>1, Zenon DEF ProgramsOK
    <3> HIDE DEF after
    <3> QED
      BY <2>7, <3>1, <3>2, ZenonT(40) DEF ProgramsOK
  <2>9. op.program \in DOMAIN after
    BY <2>2, ZenonT(40)
  <2> HIDE DEF after
  <2> QED
    BY <2>3, <2>4, <2>5, <2>6, <2>8, <2>9, SMTT(30), SMTT(60)
<1>3. CASE op.kind = "vm" /\ op.value # Absent
  <2> DEFINE after == SetState(s.programs, op.program, op.value)
  <2>1. op.program \in DOMAIN s.programs
    BY <1>3, SelectionFacts, Zenon DEF Applicable, Callable
  <2>2. AppliedPrograms(s, op, height) = after
    BY <1>3, Zenon DEF AppliedPrograms, CalledPrograms
  <2>3. ProgramJournal(s, op) = [kind |-> "state", id |-> op.program,
                                 previous |-> s.programs[op.program].value]
    BY <1>3, Zenon DEF ProgramJournal
  <2>4. UndoProgram(after, ProgramJournal(s, op))
          = SetState(after, op.program, s.programs[op.program].value)
    BY <2>3, SMTT(30) DEF UndoProgram
  <2>5. /\ ProgramsOK(after) /\ DOMAIN after = DOMAIN s.programs
        /\ SetState(after, op.program, s.programs[op.program].value) = s.programs
    BY <1>1, <2>1, SetStateOK, ZenonT(40)
  <2> HIDE DEF after
  <2> QED
    BY <2>1, <2>2, <2>3, <2>4, <2>5, SMTT(30), SMTT(60)
<1>4. CASE op.kind # "deploy" /\ ~(op.kind = "vm" /\ op.value # Absent)
  <2>1. AppliedPrograms(s, op, height) = s.programs
    BY <1>4, Zenon DEF AppliedPrograms, CalledPrograms
  <2>2. ProgramJournal(s, op) = [kind |-> "none"]
    BY <1>4, Zenon DEF ProgramJournal
  <2>3. UndoProgram(s.programs, ProgramJournal(s, op)) = s.programs
    BY <2>2 DEF UndoProgram
  <2> QED
    BY <1>1, <2>1, <2>2, <2>3, SMTT(30), SMTT(60)
<1> QED
  BY <1>2, <1>3, <1>4, Zenon

(* What applying an operation to a sound state leaves. *)
IsApplied(s, op, miner, height, sel, t) ==
  /\ Sound(t)
  /\ t.coins = After2(s.coins, sel, VmCoins(s, op, sel), op.inputs, PaymentCoins(op, miner))
  /\ t.mined = s.mined
  /\ t.burned = s.burned + PaymentBurn(s, op, miner)
  /\ t.programs = AppliedPrograms(s, op, height) /\ t.assets = CalledAssets(s, op)

(* Applying an accepted operation to a sound state gives a sound state with *)
(* the coins, totals, programs and assets the operation prescribes.         *)
LEMMA AppliedState ==
  ASSUME NEW s, NEW op, NEW miner, NEW height, NEW sel,
         Applicable(s, op, miner, sel)
  PROVE  IsApplied(s, op, miner, height, sel, Apply(s, op, miner, height, sel))
<1> DEFINE t == Apply(s, op, miner, height, sel)
           paid == AfterPayment(AfterCall(s, op, sel), op, miner)
           coins == After2(s.coins, sel, VmCoins(s, op, sel), op.inputs,
                           PaymentCoins(op, miner))
           burned == s.burned + PaymentBurn(s, op, miner)
<1>1. /\ Sound(paid) /\ paid.coins = coins
      /\ paid.mined = s.mined /\ paid.burned = burned
      /\ paid.programs = CalledPrograms(s, op) /\ paid.assets = CalledAssets(s, op)
  BY PaidState
<1>2. t = AfterDeploy(paid, op, height)
  BY Zenon DEF Apply
<1> SUFFICES IsApplied(s, op, miner, height, sel, t)
  BY Zenon
<1> HIDE DEF t
<1>3. CASE op.kind = "deploy"
  <2>1. paid.programs = s.programs
    BY <1>1, <1>3, Zenon DEF CalledPrograms
  <2>2. t = [paid EXCEPT !.programs = AppliedPrograms(s, op, height)]
    BY <1>2, <1>3, <2>1, Zenon DEF AfterDeploy, AppliedPrograms
  <2> HIDE DEF paid, coins, burned
  <2>3. t \in StateRecords(paid.coins, paid.total_value, OwnersOf(paid.coins),
               paid.mined, paid.burned, AppliedPrograms(s, op, height), paid.assets)
    BY <1>1, <2>2, SoundInRecords, Zenon DEF StateRecords
  <2>4. paid.mined \in Zeno /\ paid.burned \in Zeno /\ paid.assets = Restrict(paid.assets, AssetKey)
    BY <1>1, ZenonT(40) DEF Sound
  <2>5. /\ Sound(t) /\ t.coins = paid.coins
        /\ t.mined = paid.mined /\ t.burned = paid.burned
        /\ t.programs = AppliedPrograms(s, op, height) /\ t.assets = paid.assets
    BY <1>1, <2>3, <2>4, SoundUpdate, AppliedProgramsUndone, SMTT(30), SMTT(60)
  <2> QED
    BY <1>1, <2>5, Zenon DEF coins, burned, IsApplied
<1>4. CASE op.kind # "deploy"
  <2>1. t = paid
    BY <1>2, <1>4, Zenon DEF AfterDeploy
  <2>2. AppliedPrograms(s, op, height) = CalledPrograms(s, op)
    BY <1>4, Zenon DEF AppliedPrograms
  <2> HIDE DEF paid
  <2> QED
    BY <1>1, <2>1, <2>2, ZenonT(40) DEF IsApplied
<1> QED
  BY <1>3, <1>4, ZenonT(40)

(* Undoing the writes of an asset call restores the asset state. *)
LEMMA AssetsUndone ==
  ASSUME NEW s, NEW op, NEW miner, NEW sel,
         Applicable(s, op, miner, sel)
  PROVE  UndoAssets(CalledAssets(s, op), Journal(s, op, miner, sel).extension) = s.assets
<1>1. s.assets = [k \in AssetKey |-> s.assets[k]]
  BY Zenon DEF Applicable, Callable, Offered, Sound, Restrict
<1>2. CASE op.kind = "asset"
  <2>1. Journal(s, op, miner, sel).extension = [k \in DOMAIN op.writes |-> s.assets[k]]
    BY <1>2, Zenon DEF Journal, Restrict
  <2> QED
    BY <1>1, <1>2, <2>1, Zenon DEF UndoAssets, CalledAssets
<1>3. CASE op.kind # "asset"
  <2>1. DOMAIN Journal(s, op, miner, sel).extension = {}
    BY <1>3, Zenon DEF Journal, EmptyMap
  <2> QED
    BY <1>1, <1>3, <2>1, Zenon DEF UndoAssets, CalledAssets
<1> QED
  BY <1>2, <1>3, Zenon

(* The journal written by an applied operation takes the state back to      *)
(* the one before it.                                                       *)
LEMMA OperationUndone ==
  ASSUME NEW s, NEW op, NEW miner, NEW height, NEW sel,
         Applicable(s, op, miner, sel)
  PROVE  Undoes(Apply(s, op, miner, height, sel), Journal(s, op, miner, sel), s)
<1> DEFINE t == Apply(s, op, miner, height, sel)
           j == Journal(s, op, miner, sel)
           v == VmCoins(s, op, sel)
           p == PaymentCoins(op, miner)
           called == AfterCall(s, op, sel)
<1>1. /\ j.consumed = Restrict(called.coins, op.inputs) /\ j.created = DOMAIN p
      /\ j.vm_consumed = Restrict(s.coins, sel) /\ j.vm_created = DOMAIN v
      /\ j.mined = 0 /\ j.burned = PaymentBurn(called, op, miner)
      /\ j.program = ProgramJournal(s, op)
  BY ZenonT(40) DEF Journal
<1>2. called.coins = After1(s.coins, sel, v)
  BY CalledState DEF IsCalled, Applicable
<1>3. /\ Sound(t) /\ t.coins = After2(s.coins, sel, v, op.inputs, p)
      /\ t.mined = s.mined /\ t.burned = s.burned + PaymentBurn(s, op, miner)
      /\ t.programs = AppliedPrograms(s, op, height) /\ t.assets = CalledAssets(s, op)
  <2>1. IsApplied(s, op, miner, height, sel, t)
    BY AppliedState, Zenon
  <2> HIDE DEF t
  <2> QED
    BY <2>1, Zenon DEF IsApplied
<1>4. TwoPhase(s.coins, sel, v, op.inputs, p)
  BY OperationTwoPhase, Zenon
<1>5. t.mined - j.mined = s.mined /\ t.burned - j.burned = s.burned
  <2>1. s.mined \in Zeno /\ s.burned \in Zeno /\ PaymentBurn(s, op, miner) \in Zeno
    BY ZenonT(40) DEF Applicable, Callable, Offered, Sound, ValidOp
  <2>2. j.mined = 0 /\ j.burned = PaymentBurn(s, op, miner)
    BY <1>1, SameBurn, Zenon
  <2> HIDE DEF t, j
  <2> QED
    BY <1>3, <2>1, <2>2, EmissionAssumption, SMTT(30), SMTT(60) DEF Zeno
<1>6. /\ j.program.kind # "none" => j.program.id \in DOMAIN t.programs
      /\ UndoProgram(t.programs, j.program) = s.programs
  <2> HIDE DEF t, j
  <2> QED
    BY <1>1, <1>3, AppliedProgramsUndone, ZenonT(40)
<1>7. UndoAssets(t.assets, j.extension) = s.assets
  BY <1>3, AssetsUndone, Zenon
<1>8. Sound(s)
  BY Zenon DEF Applicable, Callable, Offered
<1> HIDE DEF t, j, v, p, called
<1>9. Records(t, j, s, sel, v, op.inputs, p)
  BY <1>1, <1>2, <1>3, <1>4, <1>5, <1>6, <1>7, <1>8, ZenonT(40) DEF Records
<1>10. Undoes(t, j, s)
  BY <1>9, UndoRestores, Zenon
<1> QED
  BY <1>10, Zenon DEF t, j

(* Part of a coin map is a coin map, worth no more than the whole. *)
LEMMA PartValue ==
  ASSUME NEW c, CoinMap(c), NEW A, A \subseteq DOMAIN c
  PROVE  /\ CoinMap(Restrict(c, A))
         /\ Value(Restrict(c, A)) \in Nat /\ Value(Restrict(c, A)) <= Value(c)
<1> DEFINE B == DOMAIN c \ A
<1>1. A \cup B = DOMAIN c /\ A \cap B = {}
  BY Zenon
<1> HIDE DEF B
<1>2. /\ CoinMap(Restrict(c, A)) /\ CoinMap(Restrict(c, B))
      /\ Value(c) = Value(Restrict(c, A)) + Value(Restrict(c, B))
  BY <1>1, ValueSplit, Zenon
<1>3. Value(Restrict(c, A)) \in Nat /\ Value(Restrict(c, B)) \in Nat
  BY <1>2, UnitsFinite, Zenon
<1> QED
  BY <1>2, <1>3

(* A VM transfer is worth what it spends: the amount paid and the change.   *)
LEMMA VmValue ==
  ASSUME NEW s, NEW op, NEW miner, NEW sel, Offered(s, op, miner, sel)
  PROVE  /\ CoinMap(VmCoins(s, op, sel))
         /\ Value(VmCoins(s, op, sel)) = ValueOf(s, sel)
<1> DEFINE v == VmCoins(s, op, sel)
           spent == ValueOf(s, sel)
<1>1. CASE DOMAIN v = {} /\ sel = {}
  <2>1. CoinMap(v)
    BY <1>1, VmCoinMap, Zenon
  <2> QED
    BY <1>1, <2>1, EmptyValue, EmptyRestrict, ZenonT(40) DEF ValueOf
<1>2. CASE ~(DOMAIN v = {} /\ sel = {})
  <2>1. op.kind = "vm"
    BY <1>2, SelectionFacts, Zenon
  <2>2. sel \in VmSelections(s, op)
    BY <2>1, SelectionFacts, ZenonT(40) DEF Offered, ValidOp, Selections
  <2>3. op.pay # 0
    BY <1>2, <2>2, Zenon DEF VmSelections, VmCoins
  <2>4. spent >= op.pay
    BY <2>2, <2>3, Zenon DEF VmSelections
  <2>5. spent \in Nat /\ spent <= MaxZeno
    <3>1. CoinMap(s.coins) /\ Value(s.coins) \in Zeno
      BY Zenon DEF Offered, Sound, CoinMap
    <3>2. Value(s.coins) \in Nat /\ Value(s.coins) <= MaxZeno
      BY <3>1, EmissionAssumption, SMTT(30) DEF Zeno
    <3>3. sel \subseteq DOMAIN s.coins
      BY SelectionFacts, Zenon
    <3> QED
      BY <3>1, <3>2, <3>3, PartValue, EmissionAssumption, SMTT(30), SMTT(60) DEF ValueOf
  <2>6. /\ op.pay \in Zeno \ {0} /\ op.payee \in Owner /\ op.program \in Owner
        /\ op.pay \in Nat
    BY <2>1, <2>3, OperationAssumption, EmissionAssumption, SMTT(30), SMTT(60) DEF Offered, Zeno
  <2> DEFINE paid == [owner |-> op.payee, amount |-> op.pay]
             change == [owner |-> op.program, amount |-> spent - op.pay]
             A == {VmShare(op, 0)}
             B == {VmShare(op, 1)}
  <2>7. paid \in Coin
    BY <2>6, Zenon DEF Coin
  <2>8. /\ VmShare(op, 0)[3] = 0 /\ VmShare(op, 1)[3] = 1
        /\ VmShare(op, 0) # VmShare(op, 1)
    BY DEF VmShare
  <2>9. CASE spent = op.pay
    <3>1. v = [id \in A |-> paid]
      <4>1. DOMAIN v = A
        BY <2>3, <2>5, <2>6, <2>9, SMTT(30), SMTT(60) DEF VmCoins
      <4> QED
        BY <4>1, <2>8, ZenonT(40) DEF VmCoins
    <3>2. paid.amount = spent
      BY <2>9, Zenon
    <3> HIDE DEF v, paid, spent
    <3>3. CoinMap(v) /\ Value(v) = spent
      BY <2>7, <3>1, <3>2, SingletonValue, ZenonT(40)
    <3> QED
      BY <3>3, Zenon DEF v, spent
  <2>10. CASE spent # op.pay
    <3>1. spent - op.pay \in Zeno \ {0}
      BY <2>4, <2>5, <2>6, <2>10, EmissionAssumption, SMTT(30), SMTT(60) DEF Zeno
    <3>2. change \in Coin
      BY <2>6, <3>1, Zenon DEF Coin
    <3>3. DOMAIN v = A \cup B
      BY <2>3, <2>5, <2>6, <2>10, SMTT(30), SMTT(60) DEF VmCoins
    <3>4. Restrict(v, A) = [id \in A |-> paid]
      BY <2>8, <3>3, Zenon DEF VmCoins, Restrict
    <3>5. Restrict(v, B) = [id \in B |-> change]
      BY <2>8, <3>3, Zenon DEF VmCoins, Restrict
    <3>6. CoinMap(v)
      <4>1. v[VmShare(op, 0)] = paid /\ v[VmShare(op, 1)] = change
        BY <2>8, <3>3, Zenon DEF VmCoins
      <4> QED
        BY <2>7, <3>2, <3>3, <4>1, VmCoinMap, ZenonT(40)
    <3>7. Value([id \in A |-> paid]) = op.pay /\ Value([id \in B |-> change]) = spent - op.pay
      <4>1. paid.amount = op.pay /\ change.amount = spent - op.pay
        BY Zenon
      <4> HIDE DEF paid, change, spent
      <4> QED
        BY <2>7, <3>2, <4>1, SingletonValue, ZenonT(40)
    <3>8. A \cap B = {}
      BY <2>8, Zenon
    <3> HIDE DEF v, paid, change, spent, A, B
    <3>9. Value(v) = Value(Restrict(v, A)) + Value(Restrict(v, B))
      BY <3>3, <3>6, <3>8, ValueSplit, ZenonT(40)
    <3>10. Value(v) = spent
      BY <2>5, <2>6, <3>4, <3>5, <3>7, <3>9, SMTT(30), SMTT(60)
    <3> QED
      BY <3>6, <3>10, Zenon DEF v, spent
  <2> QED
    BY <2>9, <2>10, Zenon
<1> QED
  BY <1>1, <1>2, Zenon

(* An accepted operation leaves a balanced state whose total is smaller by  *)
(* exactly the payment's burn.                                              *)
LEMMA OperationGood ==
  ASSUME NEW s, NEW op, NEW miner, NEW height, NEW sel,
         Good(s), Applicable(s, op, miner, sel)
  PROVE  /\ Good(Apply(s, op, miner, height, sel))
         /\ PaymentBurn(s, op, miner) \in Zeno
         /\ Apply(s, op, miner, height, sel).total_value
              = s.total_value - PaymentBurn(s, op, miner)
<1> DEFINE t == Apply(s, op, miner, height, sel)
<1>0. IsApplied(s, op, miner, height, sel, t)
  BY AppliedState, Zenon
<1>1. /\ Sound(t) /\ t.mined = s.mined
      /\ t.burned = s.burned + PaymentBurn(s, op, miner)
  BY <1>0, ZenonT(40) DEF IsApplied
<1>2. t.total_value = s.total_value - PaymentBurn(s, op, miner)
  <2> DEFINE v == VmCoins(s, op, sel)
             p == PaymentCoins(op, miner)
  <2>1. TwoPhase(s.coins, sel, v, op.inputs, p)
    BY OperationTwoPhase, Zenon
  <2>2. Value(v) = Value(Restrict(s.coins, sel))
    BY VmValue, Zenon DEF Applicable, Callable, ValueOf
  <2>3. PaymentBurn(s, op, miner) = Value(Restrict(s.coins, op.inputs)) - Value(p)
    BY Zenon DEF PaymentBurn, ValueOf
  <2>4. s.total_value = Value(s.coins)
    BY Zenon DEF Good, Sound
  <2>5. t.coins = After2(s.coins, sel, v, op.inputs, p)
    BY <1>0, ZenonT(40) DEF IsApplied
  <2> HIDE DEF v, p, t
  <2>6. t.total_value = Value(t.coins)
    BY <1>1, Zenon DEF Sound
  <2> QED
    BY <2>1, <2>2, <2>3, <2>4, <2>5, <2>6, TwoPhaseValues, SMTT(30), SMTT(60)
<1>3. /\ s.mined \in Zeno /\ s.burned \in Zeno /\ PaymentBurn(s, op, miner) \in Zeno
      /\ s.mined - s.burned = s.total_value
  BY Zenon DEF Applicable, Callable, Offered, Good, Sound, ValidOp
<1> HIDE DEF t
<1>4. t.mined - t.burned = t.total_value
  BY <1>1, <1>2, <1>3, EmissionAssumption, SMTT(30), SMTT(60) DEF Zeno
<1> QED
  BY <1>1, <1>2, <1>3, <1>4, Zenon DEF Good, t

=============================================================================
