-------------------------- MODULE Topology_proofs --------------------------
(***************************************************************************)
(* Proofs about the network of one case, for any media, lengths, positions *)
(* and bounds and any sequence of the operations of Topology, updates that *)
(* write any refs among them: what is connected is there, references to    *)
(* branches are lost only by a split, and a trunk whose segments follow    *)
(* each other keeps doing so.                                              *)
(***************************************************************************)
EXTENDS Topology, WellFoundedInduction, FiniteSetTheorems,
        SequenceTheorems, TLAPS

(* The least of some natural numbers.                                      *)
LEMMA LeastOf ==
    ASSUME NEW I, I \subseteq Nat, I # {}
    PROVE  \E m \in I : \A i \in I : m <= i
<1>1. PICK m \in I : \A i \in I : ~ (<<i, m>> \in OpToRel(<, Nat))
  <2>1. IsWellFoundedOn(OpToRel(<, Nat), Nat)
    BY NatLessThanWellFounded
  <2> QED
    BY <2>1, WFMin, Zenon
<1>2. \A i \in I : ~ (i < m)
  BY <1>1, Zenon DEF OpToRel
<1> QED BY <1>2

(* What is left of the first i elements of the list, for each i <= n.      *)
Kept(list, S, f, i) ==
    IF i = 0 THEN << >>
    ELSE IF list[i] \in S THEN f[i - 1]
    ELSE Append(f[i - 1], list[i])
Keeps(list, S, n, f) == f = [i \in 0..n |-> Kept(list, S, f, i)]

(* That function exists: by the least n for which it would not.            *)
LEMMA KeepsExists ==
    ASSUME NEW list, NEW S, NEW n \in Nat
    PROVE  \E f : Keeps(list, S, n, f)
<1> DEFINE I == {m \in Nat : ~ \E f : Keeps(list, S, m, f)}
<1>1. SUFFICES I = {}
  OBVIOUS
<1>2. SUFFICES ASSUME I # {} PROVE FALSE
  OBVIOUS
<1>3. PICK m \in I : \A i \in I : m <= i
  <2> HIDE DEF I
  <2>1. I \subseteq Nat
    BY DEF I
  <2> QED BY <1>2, <2>1, LeastOf
<1>4. CASE m = 0
  <2> DEFINE f == [i \in 0..0 |-> << >>]
  <2>1. f = [i \in 0..0 |-> Kept(list, S, f, i)]
    BY DEF Kept
  <2> QED BY <1>4, <2>1 DEF Keeps
<1>5. CASE m # 0
  <2>1. m \in Nat /\ m - 1 \in Nat /\ m - 1 \notin I
    BY <1>3, <1>5
  <2>2. PICK f : Keeps(list, S, m - 1, f)
    BY <2>1
  <2> DEFINE g == [i \in 0..m |-> IF i = m THEN Kept(list, S, f, m) ELSE f[i]]
  <2>3. /\ DOMAIN f = 0..(m - 1)
        /\ \A i \in 0..(m - 1) : f[i] = Kept(list, S, f, i)
    <3> HIDE DEF I
    <3>1. f = [i \in 0..(m - 1) |-> Kept(list, S, f, i)]
      BY <2>2, Zenon DEF Keeps
    <3> DEFINE h(i) == Kept(list, S, f, i)
    <3> HIDE DEF h
    <3>2. f = [i \in 0..(m - 1) |-> h(i)]
      BY <3>1 DEF h
    <3>3. DOMAIN f = 0..(m - 1) /\ \A i \in 0..(m - 1) : f[i] = h(i)
      BY <3>2
    <3> QED BY <3>3 DEF h
  <2>4. ASSUME NEW i \in 0..m PROVE g[i] = Kept(list, S, g, i)
    <3>1. i \in Nat /\ m \in Nat
      BY <2>1
    <3>2. i # 0 => g[i - 1] = f[i - 1]
      BY <3>1
    <3>3. Kept(list, S, g, i) = Kept(list, S, f, i)
      BY <3>2 DEF Kept
    <3>4. CASE i = m
      BY <3>3, <3>4
    <3>5. CASE i # m
      <4>1. i \in 0..(m - 1)
        BY <3>1, <3>5
      <4> QED BY <4>1, <3>3, <3>5, <2>3
    <3> QED BY <3>4, <3>5
  <2>5. g = [i \in 0..m |-> Kept(list, S, g, i)]
    <3>1. g = [i \in 0..m |-> g[i]]
      OBVIOUS
    <3> HIDE DEF g
    <3> QED BY <3>1, <2>4
  <2> HIDE DEF g
  <2>6. Keeps(list, S, m, g)
    BY <2>5, Zenon DEF Keeps
  <2> QED BY <2>6
<1> QED BY <1>4, <1>5

(* Minus is its last value.                                                *)
LEMMA MinusKeeps ==
    ASSUME NEW list, NEW S, Len(list) \in Nat
    PROVE  \E f : /\ Keeps(list, S, Len(list), f)
                  /\ Minus(list, S) = f[Len(list)]
<1> DEFINE f == CHOOSE f : Keeps(list, S, Len(list), f)
<1>1. Keeps(list, S, Len(list), f)
  BY KeepsExists
<1>2. Minus(list, S) = f[Len(list)]
  BY DEF Minus, Keeps, Kept
<1> QED BY <1>1, <1>2

(* What is kept has the elements of the list that are not in S, and none   *)
(* more often than the list.                                               *)
KeptOK(list, S, T, n, kept) ==
    /\ kept \in Seq(T)
    /\ ToSet(kept) = {list[j] : j \in 1..n} \ S
    /\ \A k, l \in 1..Len(kept) : kept[k] = kept[l] /\ k # l =>
           \E a, b \in 1..n : a # b /\ list[a] = kept[k] /\ list[b] = kept[k]

(* One more element, kept or left out.                                     *)
LEMMA KeptOne ==
    ASSUME NEW T, NEW list \in Seq(T), NEW S, NEW i \in 1..Len(list),
           NEW r, KeptOK(list, S, T, i - 1, r), list[i] \notin S
    PROVE  KeptOK(list, S, T, i, Append(r, list[i]))
<1> DEFINE t == Append(r, list[i])
<1>1. list[i] \in T /\ i \in Nat /\ i - 1 \in Nat /\ r \in Seq(T)
  BY DEF KeptOK
<1>2. /\ t \in Seq(T) /\ Len(t) = Len(r) + 1 /\ Len(r) \in Nat
      /\ t[Len(t)] = list[i]
      /\ \A k \in 1..Len(r) : t[k] = r[k]
  BY <1>1
<1> HIDE DEF t
<1>3. ToSet(t) = ToSet(r) \cup {list[i]}
  <2>1. DOMAIN t = 1..(Len(r) + 1) /\ DOMAIN r = 1..Len(r)
    BY <1>1, <1>2
  <2>2. ASSUME NEW x \in ToSet(t) PROVE x \in ToSet(r) \cup {list[i]}
    BY <1>2, <2>1, <2>2 DEF ToSet
  <2>3. ASSUME NEW x \in ToSet(r) PROVE x \in ToSet(t)
    BY <1>2, <2>1, <2>3 DEF ToSet
  <2>4. list[i] \in ToSet(t)
    BY <1>2, <2>1 DEF ToSet
  <2> QED BY <2>2, <2>3, <2>4
<1>4. ToSet(r) = {list[j] : j \in 1..(i - 1)} \ S
  BY DEF KeptOK
<1>5. {list[j] : j \in 1..i} = {list[j] : j \in 1..(i - 1)} \cup {list[i]}
  <2>1. 1..i = 1..(i - 1) \cup {i}
    BY <1>1
  <2> QED BY <2>1
<1>6. ToSet(t) = {list[j] : j \in 1..i} \ S
  BY <1>3, <1>4, <1>5
<1>7. ASSUME NEW k \in 1..Len(t), NEW l \in 1..Len(t), t[k] = t[l], k # l
      PROVE  \E a, b \in 1..i : a # b /\ list[a] = t[k] /\ list[b] = t[k]
  <2>1. CASE k \in 1..Len(r) /\ l \in 1..Len(r)
    <3>1. r[k] = r[l]
      BY <1>2, <1>7, <2>1
    <3>2. PICK a, b \in 1..(i - 1) :
              a # b /\ list[a] = r[k] /\ list[b] = r[k]
      BY <1>7, <2>1, <3>1 DEF KeptOK
    <3> QED BY <1>1, <1>2, <2>1, <3>2
  <2>2. ASSUME NEW h \in 1..Len(r), t[h] = list[i]
        PROVE  \E a \in 1..i : a # i /\ list[a] = list[i]
    <3>1. r[h] \in ToSet(r) /\ r[h] = list[i]
      BY <1>1, <1>2, <2>2 DEF ToSet
    <3>2. PICK a \in 1..(i - 1) : list[a] = list[i]
      BY <3>1, <1>4
    <3> QED BY <1>1, <3>2
  <2>3. CASE k = Len(t)
    <3>1. l \in 1..Len(r) /\ t[l] = list[i]
      BY <1>2, <1>7, <2>3
    <3> QED BY <1>1, <1>2, <2>2, <2>3, <3>1
  <2>4. CASE l = Len(t)
    <3>1. k \in 1..Len(r) /\ t[k] = list[i]
      BY <1>2, <1>7, <2>4
    <3> QED BY <1>1, <1>2, <2>2, <2>4, <3>1
  <2> QED BY <1>2, <1>7, <2>1, <2>3, <2>4
<1> QED BY <1>2, <1>6, <1>7 DEF KeptOK, t

(* The function, one step on.                                              *)
LEMMA KeptStep ==
    ASSUME NEW T, NEW list \in Seq(T), NEW S, NEW i \in 1..Len(list),
           NEW r, KeptOK(list, S, T, i - 1, r)
    PROVE  KeptOK(list, S, T, i, IF list[i] \in S THEN r
                                 ELSE Append(r, list[i]))
<1>1. CASE list[i] \in S
  <2>1. {list[j] : j \in 1..i} = {list[j] : j \in 1..(i - 1)} \cup {list[i]}
    <3>1. 1..i = 1..(i - 1) \cup {i}
      OBVIOUS
    <3> QED BY <3>1
  <2>2. \A a \in 1..(i - 1) : a \in 1..i
    OBVIOUS
  <2> QED BY <1>1, <2>1, <2>2 DEF KeptOK
<1> QED BY <1>1, KeptOne

(* Minus keeps the order, the elements that are not in S, and no more.     *)
LEMMA MinusOK ==
    ASSUME NEW T, NEW list \in Seq(T), NEW S
    PROVE  KeptOK(list, S, T, Len(list), Minus(list, S))
<1> DEFINE n == Len(list)
<1>1. n \in Nat
  OBVIOUS
<1>2. PICK f : Keeps(list, S, n, f) /\ Minus(list, S) = f[n]
  BY <1>1, MinusKeeps
<1>3. \A i \in 0..n : f[i] = Kept(list, S, f, i)
  <2> DEFINE h(i) == Kept(list, S, f, i)
  <2>1. f = [i \in 0..n |-> h(i)]
    BY <1>2 DEF Keeps
  <2> HIDE DEF h
  <2>2. \A i \in 0..n : f[i] = h(i)
    BY <2>1
  <2> QED BY <2>2 DEF h
<1> DEFINE I == {i \in 0..n : ~ KeptOK(list, S, T, i, f[i])}
<1>4. SUFFICES ASSUME I # {} PROVE FALSE
  BY <1>1, <1>2
<1>5. PICK m \in I : \A i \in I : m <= i
  <2>1. I \subseteq Nat
    BY <1>1
  <2> HIDE DEF I
  <2> QED BY <1>4, <2>1, LeastOf
<1>6. CASE m = 0
  <2>1. f[0] = << >>
    BY <1>1, <1>3 DEF Kept
  <2>2. KeptOK(list, S, T, 0, << >>)
    BY DEF KeptOK, ToSet
  <2> QED BY <1>6, <2>1, <2>2
<1>7. CASE m # 0
  <2>1. m \in 1..n /\ m - 1 \in 0..n /\ m - 1 \notin I
    BY <1>1, <1>5, <1>7
  <2>2. KeptOK(list, S, T, m - 1, f[m - 1])
    BY <2>1
  <2>3. f[m] = IF list[m] \in S THEN f[m - 1] ELSE Append(f[m - 1], list[m])
    BY <1>3, <2>1 DEF Kept
  <2>4. KeptOK(list, S, T, m, f[m])
    BY <2>1, <2>2, <2>3, KeptStep
  <2> QED BY <2>4
<1> QED BY <1>6, <1>7

(* The list without its first element with the ref: before it the elements *)
(* keep their places, behind it each moves one place forward.              *)
LEMMA WithoutRefOK ==
    ASSUME NEW T, NEW list \in Seq(T), NEW ref
    PROVE  /\ WithoutRef(list, ref) \in Seq(T)
           /\ \E m \in Nat : \A i \in DOMAIN WithoutRef(list, ref) :
                 LET j == IF i < m THEN i ELSE i + 1
                 IN  j \in DOMAIN list /\ WithoutRef(list, ref)[i] = list[j]
<1> DEFINE I == {i \in 1..Len(list) : list[i].ref = ref}
           t == WithoutRef(list, ref)
<1>1. CASE I = {}
  <2>1. t = list
    BY <1>1 DEF WithoutRef, RemoveFirstMatch
  <2> HIDE DEF t
  <2>2. \A i \in DOMAIN t : i < Len(list) + 1
    BY <2>1
  <2>3. Len(list) + 1 \in Nat
    OBVIOUS
  <2> QED BY <2>1, <2>2, <2>3 DEF t
<1>2. CASE I # {}
  <2>1. t = RemoveAt(list, Min(I))
    BY <1>2 DEF WithoutRef, RemoveFirstMatch, SelectInSeq
  <2>2. Min(I) \in 1..Len(list)
    <3>1. \E m \in I : \A i \in I : m <= i
      <4>1. I \subseteq Nat
        OBVIOUS
      <4> HIDE DEF I
      <4> QED BY <1>2, <4>1, LeastOf
    <3> QED BY <3>1 DEF Min
  <2>3. PICK m : m = Min(I)
    OBVIOUS
  <2>4. t = SubSeq(list, 1, m - 1) \o SubSeq(list, m + 1, Len(list))
    BY <2>1, <2>3 DEF RemoveAt
  <2>5. m \in 1..Len(list)
    BY <2>2, <2>3
  <2> HIDE DEF I, t
  <2>6. /\ t \in Seq(T) /\ Len(t) = Len(list) - 1
        /\ \A i \in 1..Len(t) : t[i] = IF i < m THEN list[i] ELSE list[i + 1]
    <3> DEFINE head == SubSeq(list, 1, m - 1)
               tail == SubSeq(list, m + 1, Len(list))
    <3>1. /\ head \in Seq(T) /\ Len(head) = m - 1
          /\ \A i \in 1..(m - 1) : head[i] = list[i]
      BY <2>5
    <3>2. /\ tail \in Seq(T) /\ Len(tail) = Len(list) - m
          /\ \A i \in 1..(Len(list) - m) : tail[i] = list[i + m]
      BY <2>5
    <3> HIDE DEF head, tail
    <3>3. /\ t \in Seq(T) /\ Len(t) = Len(head) + Len(tail)
          /\ \A i \in 1..Len(t) : t[i] = IF i <= Len(head) THEN head[i]
                                       ELSE tail[i - Len(head)]
      BY <2>4, <3>1, <3>2 DEF head, tail
    <3>4. m \in Nat /\ Len(list) \in Nat /\ m >= 1 /\ m <= Len(list)
      BY <2>5
    <3>5. ASSUME NEW i \in 1..Len(t)
          PROVE  t[i] = IF i < m THEN list[i] ELSE list[i + 1]
      <4>1. CASE i < m
        <5>1. i \in 1..(m - 1) /\ i <= Len(head)
          BY <3>1, <3>4, <4>1
        <5> QED BY <3>1, <3>3, <4>1, <5>1
      <4>2. CASE ~ (i < m)
        <5>1. i - (m - 1) \in 1..(Len(list) - m) /\ i - (m - 1) + m = i + 1
          BY <3>1, <3>2, <3>3, <3>4, <4>2
        <5>2. t[i] = tail[i - (m - 1)]
          BY <3>1, <3>3, <3>4, <4>2
        <5> QED BY <3>2, <4>2, <5>1, <5>2
      <4> QED BY <4>1, <4>2
    <3> QED BY <3>1, <3>2, <3>3, <3>4, <3>5
  <2>7. DOMAIN t = 1..Len(t) /\ DOMAIN list = 1..Len(list)
    BY <2>6
  <2>8. ASSUME NEW i \in DOMAIN t
        PROVE  LET j == IF i < m THEN i ELSE i + 1
               IN  j \in DOMAIN list /\ t[i] = list[j]
    BY <2>5, <2>6, <2>7
  <2>9. m \in Nat
    BY <2>5
  <2> QED BY <2>6, <2>8, <2>9 DEF t
<1> QED BY <1>1, <1>2

(* The elements of a list, by its indices.                                 *)
LEMMA ListSet ==
    ASSUME NEW T, NEW list \in Seq(T)
    PROVE  /\ ToSet(list) = {list[i] : i \in 1..Len(list)}
           /\ ToSet(list) \subseteq T
BY DEF ToSet

Differ(list) == \A i, j \in 1..Len(list) : list[i] = list[j] => i = j

(* Two lists, one after the other.                                         *)
LEMMA Joined ==
    ASSUME NEW T, NEW list \in Seq(T), NEW more \in Seq(T)
    PROVE  /\ list \o more \in Seq(T)
           /\ Len(list \o more) = Len(list) + Len(more)
           /\ \A i \in 1..Len(list \o more) :
                 (list \o more)[i] = IF i <= Len(list) THEN list[i]
                                     ELSE more[i - Len(list)]
OBVIOUS

(* A list grows at its end by elements it does not have.                   *)
LEMMA ListGrows ==
    ASSUME NEW T, NEW list \in Seq(T), NEW more \in Seq(T)
    PROVE  /\ list \o more \in Seq(T)
           /\ ToSet(list \o more) = ToSet(list) \cup ToSet(more)
           /\ /\ Differ(list) /\ Differ(more)
              /\ ToSet(list) \cap ToSet(more) = {}
              => Differ(list \o more)
<1> DEFINE n == Len(list)
           t == list \o more
<1>1. /\ n \in Nat /\ Len(more) \in Nat
      /\ t \in Seq(T) /\ Len(t) = n + Len(more)
      /\ \A i \in 1..Len(t) : t[i] = IF i <= n THEN list[i] ELSE more[i - n]
  BY Joined
<1>2. /\ ToSet(list) = {list[i] : i \in 1..n}
      /\ ToSet(more) = {more[i] : i \in 1..Len(more)}
  BY ListSet
<1> HIDE DEF t
<1>3. ToSet(t) = {t[i] : i \in 1..Len(t)}
  BY <1>1, ListSet
<1> HIDE DEF n
<1>4. ASSUME NEW i \in 1..n PROVE i \in 1..Len(t) /\ t[i] = list[i]
  BY <1>1
<1>5. ASSUME NEW i \in 1..Len(more)
      PROVE  n + i \in 1..Len(t) /\ t[n + i] = more[i]
  <2>1. n + i \in 1..Len(t) /\ ~ (n + i <= n) /\ n + i - n = i
    BY <1>1
  <2> QED BY <1>1, <2>1
<1>6. ASSUME NEW i \in 1..Len(t), ~ (i \in 1..n)
      PROVE  i - n \in 1..Len(more) /\ t[i] = more[i - n]
  BY <1>1, <1>6
<1>7. ToSet(t) = ToSet(list) \cup ToSet(more)
  <2>1. ASSUME NEW x \in ToSet(t) PROVE x \in ToSet(list) \cup ToSet(more)
    <3>1. PICK i \in 1..Len(t) : x = t[i]
      BY <1>3, <2>1
    <3>2. CASE i \in 1..n
      BY <1>2, <1>4, <3>1, <3>2
    <3>3. CASE ~ (i \in 1..n)
      BY <1>2, <1>6, <3>1, <3>3
    <3> QED BY <3>2, <3>3
  <2>2. ASSUME NEW x \in ToSet(list) PROVE x \in ToSet(t)
    BY <1>2, <1>3, <1>4, <2>2
  <2>3. ASSUME NEW x \in ToSet(more) PROVE x \in ToSet(t)
    BY <1>2, <1>3, <1>5, <2>3
  <2> QED BY <2>1, <2>2, <2>3
<1>8. ASSUME Differ(list), Differ(more), ToSet(list) \cap ToSet(more) = {}
      PROVE  Differ(t)
  <2> SUFFICES ASSUME NEW i \in 1..Len(t), NEW j \in 1..Len(t), t[i] = t[j]
               PROVE  i = j
    BY DEF Differ
  <2>1. CASE i \in 1..n /\ j \in 1..n
    BY <1>4, <1>8, <2>1 DEF Differ, n
  <2>2. CASE i \in 1..n /\ ~ (j \in 1..n)
    BY <1>2, <1>4, <1>6, <1>8, <2>2
  <2>3. CASE ~ (i \in 1..n) /\ j \in 1..n
    BY <1>2, <1>4, <1>6, <1>8, <2>3
  <2>4. CASE ~ (i \in 1..n) /\ ~ (j \in 1..n)
    <3>1. i - n = j - n
      BY <1>6, <1>8, <2>4 DEF Differ
    <3> QED BY <1>1, <3>1
  <2> QED BY <2>1, <2>2, <2>3, <2>4
<1> QED BY <1>1, <1>7, <1>8 DEF t

(* The parts take the place of segment b.                                  *)
Spliced(segs, k, parts) ==
    SubSeq(segs, 1, k - 1) \o parts \o SubSeq(segs, k + 1, Len(segs))

(* Where the elements of the spliced list come from.                       *)
LEMMA SplicedOK ==
    ASSUME NEW T, NEW segs \in Seq(T), NEW parts \in Seq(T),
           NEW k \in 1..Len(segs)
    PROVE  LET t == Spliced(segs, k, parts)
           IN  /\ t \in Seq(T)
               /\ \A i \in 1..Len(t) :
                     \/ \E j \in 1..Len(segs) :
                           /\ j # k /\ t[i] = segs[j] /\ (i < k \/ j > k)
                           /\ j = IF i < k THEN i ELSE i - Len(parts) + 1
                     \/ \E j \in 1..Len(parts) :
                           t[i] = parts[j] /\ j = i - k + 1
<1> DEFINE a == SubSeq(segs, 1, k - 1)
           c == SubSeq(segs, k + 1, Len(segs))
           p == Len(parts)
           n == Len(segs)
<1>1. /\ a \in Seq(T) /\ Len(a) = k - 1
      /\ \A i \in 1..(k - 1) : a[i] = segs[i]
  OBVIOUS
<1>2. /\ c \in Seq(T) /\ Len(c) = n - k
      /\ \A i \in 1..(n - k) : c[i] = segs[i + k]
  OBVIOUS
<1>3. k \in Nat /\ n \in Nat /\ p \in Nat /\ k >= 1 /\ k <= n
  OBVIOUS
<1>4. PICK ab : ab = a \o parts
  OBVIOUS
<1>5. PICK u : u = ab \o c
  OBVIOUS
<1>6. Spliced(segs, k, parts) = u
  BY <1>4, <1>5 DEF Spliced
<1> HIDE DEF a, c, p, n
<1>7. /\ ab \in Seq(T) /\ Len(ab) = k - 1 + p
      /\ \A i \in 1..Len(ab) :
            ab[i] = IF i <= k - 1 THEN a[i] ELSE parts[i - (k - 1)]
  BY <1>1, <1>3, <1>4 DEF p
<1>8. /\ u \in Seq(T) /\ Len(u) = k - 1 + p + (n - k)
      /\ \A i \in 1..Len(u) :
            u[i] = IF i <= k - 1 + p THEN ab[i] ELSE c[i - (k - 1 + p)]
  <2>1. /\ u \in Seq(T) /\ Len(u) = Len(ab) + Len(c)
        /\ \A i \in 1..Len(u) :
              u[i] = IF i <= Len(ab) THEN ab[i] ELSE c[i - Len(ab)]
    <3>1. ab \in Seq(T) /\ c \in Seq(T)
      BY <1>2, <1>7
    <3> QED BY <1>5, <3>1
  <2> QED BY <1>2, <1>7, <2>1
<1>9. ASSUME NEW i \in 1..Len(u)
      PROVE  \/ \E j \in 1..n : /\ j # k /\ u[i] = segs[j]
                                /\ (i < k \/ j > k)
                                /\ j = IF i < k THEN i ELSE i - p + 1
             \/ \E j \in 1..p : u[i] = parts[j] /\ j = i - k + 1
  <2>1. /\ i \in Nat /\ i >= 1
        /\ i <= k - 1 + p + (n - k)
    BY <1>3, <1>8
  <2>2. CASE i < k
    <3>1. i \in 1..(k - 1) /\ i <= k - 1 + p /\ i \in 1..Len(ab) /\ i \in 1..n
      BY <1>3, <1>7, <2>2, <2>1
    <3>2. u[i] = segs[i]
      BY <1>1, <1>7, <1>8, <3>1
    <3> QED BY <1>3, <2>2, <3>1, <3>2
  <2>3. CASE i >= k /\ i <= k - 1 + p
    <3>1. /\ ~ (i <= k - 1) /\ i \in 1..Len(ab) /\ i - (k - 1) \in 1..p
          /\ i - (k - 1) = i - k + 1
      BY <1>3, <1>7, <2>3, <2>1
    <3>2. u[i] = parts[i - (k - 1)]
      BY <1>7, <1>8, <2>3, <3>1
    <3> QED BY <3>1, <3>2
  <2>4. CASE ~ (i <= k - 1 + p)
    <3>1. /\ i - (k - 1 + p) \in 1..(n - k) /\ ~ (i < k)
          /\ i - (k - 1 + p) + k = i - p + 1
          /\ i - p + 1 \in 1..n /\ i - p + 1 # k /\ i - p + 1 > k
      BY <1>3, <2>4, <2>1
    <3>2. u[i] = segs[i - p + 1]
      BY <1>2, <1>8, <2>4, <3>1
    <3> QED BY <3>1, <3>2
  <2>5. i < k \/ (i >= k /\ i <= k - 1 + p) \/ ~ (i <= k - 1 + p)
    BY <1>3, <2>1
  <2> QED BY <2>2, <2>3, <2>4, <2>5, Zenon
<1> QED BY <1>6, <1>8, <1>9 DEF n, p

-----------------------------------------------------------------------------
(* The lines of the network: an inductive invariant of buses and branches. *)

PartKinds ==
    {"L", "SL", "L_zksn", "L_branch_pole", "R", "R_zksn", "R_branch_pole",
     "SR", "section_switch"}

(* A ref that is hashed from another one has a higher rank: no ref is      *)
(* hashed, however indirectly, from itself.  Only parts of segments, rings *)
(* and the second node of a section switch are ranked.                     *)
Hashing(r) == r[1] \in PartKinds \cup {"ring", "switch_node_2"}
HashedIn(r) == IF r[1] = "ring" THEN r[3] ELSE r[2]
Ranks(rank) ==
    /\ rank \in [DOMAIN rank -> Nat]
    /\ \A r \in DOMAIN rank : Hashing(r) =>
          HashedIn(r) \in DOMAIN rank /\ rank[HashedIn(r)] < rank[r]

Rankable(N, K) == \A r \in N : Hashing(r) => HashedIn(r) \in K

(* Refs that are hashed from ranked ones can be ranked after them.         *)
LEMMA MoreRanks ==
    ASSUME NEW rank, Ranks(rank), NEW N, Rankable(N, DOMAIN rank)
    PROVE  \E q : /\ Ranks(q)
                  /\ DOMAIN q = DOMAIN rank \cup N
                  /\ \A r \in DOMAIN rank : q[r] = rank[r]
<1> DEFINE K == DOMAIN rank
           Of(r) == IF Hashing(r) THEN rank[HashedIn(r)] + 1 ELSE 0
           q == [r \in K \cup N |-> IF r \in K THEN rank[r] ELSE Of(r)]
<1>1. DOMAIN q = K \cup N /\ \A r \in K : q[r] = rank[r]
  OBVIOUS
<1>2. \A r \in K : rank[r] \in Nat
  BY DEF Ranks
<1>3. ASSUME NEW r \in N PROVE Of(r) \in Nat
  BY <1>2 DEF Rankable
<1>4. q \in [DOMAIN q -> Nat]
  BY <1>2, <1>3
<1>5. ASSUME NEW r \in DOMAIN q, Hashing(r)
      PROVE  HashedIn(r) \in DOMAIN q /\ q[HashedIn(r)] < q[r]
  <2>1. CASE r \in K
    <3>1. HashedIn(r) \in K /\ rank[HashedIn(r)] < rank[r]
      BY <1>5, <2>1 DEF Ranks
    <3> QED BY <1>1, <2>1, <3>1
  <2>2. CASE r \notin K
    <3>1. HashedIn(r) \in K
      BY <1>5, <2>2 DEF Rankable
    <3>2. q[r] = rank[HashedIn(r)] + 1 /\ q[HashedIn(r)] = rank[HashedIn(r)]
      BY <1>5, <2>2, <3>1
    <3> QED BY <1>1, <1>2, <3>1, <3>2
  <2> QED BY <2>1, <2>2
<1>6. Ranks(q)
  BY <1>1, <1>4, <1>5 DEF Ranks
<1> QED BY <1>1, <1>6

BranchKinds == PartKinds \cup {"trunk", "branch", "ring"}
BranchesOf(K) ==
    [from : K, to : K, type : Media \cup {"switch"}, status : Statuses,
     long : BOOLEAN]

(* Buses and branches have refs of K.                                      *)
LinesOK(K) ==
    /\ buses \in Seq(K)
    /\ Differ(buses)
    /\ branches \in [DOMAIN branches -> BranchesOf(K)]
    /\ DOMAIN branches \subseteq K
    /\ \A b \in DOMAIN branches : b[1] \in BranchKinds
BranchEnds ==
    \A b \in DOMAIN branches :
        /\ branches[b].from \in Buses /\ branches[b].to \in Buses
        /\ branches[b].from # branches[b].to

(* The far bus of a branch is no second node hashed from the branch.       *)
FarEnds(rank) ==
    \A b \in DOMAIN branches :
        LET far == branches[b].to
        IN  far[1] = "switch_node_2" => rank[far[2]] < rank[b]

LinesHave(rank) ==
    /\ Ranks(rank)
    /\ LinesOK(DOMAIN rank)
    /\ BranchEnds
    /\ FarEnds(rank)
LinesInv == \E rank : LinesHave(rank)

LEMMA Wider ==
    ASSUME NEW K, NEW L, K \subseteq L
    PROVE  /\ Seq(K) \subseteq Seq(L)
           /\ BranchesOf(K) \subseteq BranchesOf(L)
<1>1. Seq(K) \subseteq Seq(L)
  OBVIOUS
<1>2. BranchesOf(K) \subseteq BranchesOf(L)
  BY DEF BranchesOf
<1> QED BY <1>1, <1>2

(* Refs that are about to be made can be ranked.                           *)
LEMMA Ranked ==
    ASSUME LinesInv, NEW N,
           \A K : Buses \subseteq K /\ DOMAIN branches \subseteq K
                  => Rankable(N, K)
    PROVE  \E q : LinesHave(q) /\ N \subseteq DOMAIN q
<1>1. PICK rank : LinesHave(rank)
  BY DEF LinesInv
<1>2. PICK K : K = DOMAIN rank
  OBVIOUS
<1>3. Ranks(rank) /\ LinesOK(K)
  BY <1>1, <1>2 DEF LinesHave
<1>4. Rankable(N, K)
  <2>1. Buses \subseteq K /\ DOMAIN branches \subseteq K
    BY <1>3, ListSet DEF LinesOK, Buses
  <2> QED BY <2>1
<1>5. PICK q : /\ Ranks(q) /\ DOMAIN q = K \cup N
               /\ \A r \in K : q[r] = rank[r]
  BY <1>2, <1>3, <1>4, MoreRanks
<1>6. PICK L : L = DOMAIN q
  OBVIOUS
<1>7. LinesOK(L)
  <2>1. Seq(K) \subseteq Seq(L) /\ BranchesOf(K) \subseteq BranchesOf(L)
    BY <1>5, <1>6, Wider
  <2>2. branches \in [DOMAIN branches -> BranchesOf(L)]
    BY <1>3, <2>1 DEF LinesOK
  <2> QED BY <1>3, <1>5, <1>6, <2>1, <2>2 DEF LinesOK
<1>8. FarEnds(q)
  <2>1. ASSUME NEW b \in DOMAIN branches,
               branches[b].to[1] = "switch_node_2"
        PROVE  q[branches[b].to[2]] < q[b]
    <3> DEFINE far == branches[b].to
    <3>1. b \in K /\ far \in K
      BY <1>3 DEF LinesOK, BranchesOf
    <3>2. far[2] \in K
      BY <1>2, <1>3, <2>1, <3>1 DEF Ranks, Hashing, HashedIn
    <3>3. rank[far[2]] < rank[b]
      BY <1>1, <2>1 DEF LinesHave, FarEnds
    <3> QED BY <1>5, <3>1, <3>2, <3>3
  <2> QED BY <2>1 DEF FarEnds
<1>9. LinesHave(q)
  BY <1>1, <1>5, <1>6, <1>7, <1>8 DEF LinesHave
<1> QED BY <1>5, <1>9

-----------------------------------------------------------------------------
(* Functions.                                                              *)

IsFcn(f) == f = [x \in DOMAIN f |-> f[x]]

Merged(g, e, f) ==
    /\ IsFcn(g)
    /\ DOMAIN g = DOMAIN e \cup DOMAIN f
    /\ \A x \in DOMAIN e : g[x] = e[x]
    /\ \A x \in DOMAIN f : x \notin DOMAIN e => g[x] = f[x]

(* What Added holds.                                                       *)
LEMMA AddedOK ==
    ASSUME NEW e, NEW f, NEW g, g = Added(e, f)
    PROVE  Merged(g, e, f)
  BY DEF Added, IsFcn, Merged

(* What Entry holds.                                                       *)
LEMMA EntryOK ==
    ASSUME NEW x, NEW y
    PROVE  DOMAIN Entry(x, y) = {x} /\ Entry(x, y)[x] = y
  BY DEF Entry

(* What Without holds.                                                     *)
LEMMA WithoutOK ==
    ASSUME NEW f, NEW S
    PROVE  /\ DOMAIN Without(f, S) = DOMAIN f \ S
           /\ \A x \in DOMAIN f \ S : Without(f, S)[x] = f[x]
           /\ Without(f, S) = [x \in DOMAIN f \ S |-> f[x]]
  BY DEF Without, Restrict

(* A function with values in S.                                            *)
LEMMA IsFunction ==
    ASSUME NEW S, NEW f, IsFcn(f),
           \A x \in DOMAIN f : f[x] \in S
    PROVE  f \in [DOMAIN f -> S]
  BY DEF IsFcn

(* A function with another value at one place.                             *)
LEMMA ChangedAt ==
    ASSUME NEW f, IsFcn(f), NEW x \in DOMAIN f, NEW y, NEW g,
           g = [f EXCEPT ![x] = y]
    PROVE  /\ IsFcn(g) /\ DOMAIN g = DOMAIN f /\ g[x] = y
           /\ \A z \in DOMAIN f : z # x => g[z] = f[z]
  BY DEF IsFcn

-----------------------------------------------------------------------------
(* Lists.                                                                  *)

Listing(list) == list \in Seq(ToSet(list))

(* A list of a set is a list of any larger one.                            *)
LEMMA ListIn ==
    ASSUME NEW list, NEW A, list \in Seq(A), NEW B,
           \A i \in 1..Len(list) : list[i] \in B
    PROVE  list \in Seq(B)
OBVIOUS

(* A list, by its elements.                                                *)
LEMMA ListingIs ==
    ASSUME NEW list, NEW A, list \in Seq(A)
    PROVE  /\ Listing(list)
           /\ Len(list) \in Nat /\ DOMAIN list = 1..Len(list)
           /\ ToSet(list) = {list[i] : i \in 1..Len(list)}
<1>1. ToSet(list) = {list[i] : i \in 1..Len(list)}
  BY ListSet
<1>2. \A i \in 1..Len(list) : list[i] \in ToSet(list)
  BY <1>1
<1>3. list \in Seq(ToSet(list))
  <2> HIDE DEF ToSet
  <2> QED BY <1>2, ListIn
<1> QED BY <1>1, <1>3 DEF Listing

(* One list after the other.                                               *)
Extended(t, list, more) ==
    /\ Listing(t)
    /\ ToSet(t) = ToSet(list) \cup ToSet(more)
    /\ Len(t) = Len(list) + Len(more)
    /\ \A i \in 1..Len(list) : t[i] = list[i]
LEMMA ListWithMore ==
    ASSUME NEW list, Listing(list), NEW more, Listing(more)
    PROVE  Extended(list \o more, list, more)
<1>0. PICK t : t = list \o more
  OBVIOUS
<1>1. PICK A : list \in Seq(A) /\ more \in Seq(A)
  <2> DEFINE A == ToSet(list) \cup ToSet(more)
  <2>1. /\ \A i \in 1..Len(list) : list[i] \in A
        /\ \A i \in 1..Len(more) : more[i] \in A
    <3>1. list \in Seq(ToSet(list)) /\ more \in Seq(ToSet(more))
      BY DEF Listing
    <3> QED BY <3>1, ListingIs
  <2> HIDE DEF A
  <2>2. list \in Seq(A)
    BY <2>1, ListIn DEF Listing
  <2>3. more \in Seq(A)
    BY <2>1, ListIn DEF Listing
  <2> QED BY <2>2, <2>3
<1>2. t \in Seq(A) /\ ToSet(t) = ToSet(list) \cup ToSet(more)
  BY <1>0, <1>1, ListGrows
<1>3. /\ Len(t) = Len(list) + Len(more)
      /\ \A i \in 1..Len(t) : t[i] = IF i <= Len(list) THEN list[i]
                                     ELSE more[i - Len(list)]
  BY <1>0, <1>1, Joined
<1>4. Len(list) \in Nat /\ Len(more) \in Nat
  BY <1>1
<1>5. \A i \in 1..Len(list) : i \in 1..Len(t) /\ i <= Len(list)
  BY <1>3, <1>4
<1>6. \A i \in 1..Len(list) : t[i] = list[i]
  BY <1>3, <1>5
<1> QED BY <1>0, <1>2, <1>3, <1>6, ListingIs DEF Extended

(* One element more.                                                       *)
WithOne(t, list, e) ==
    /\ Listing(t)
    /\ ToSet(t) = ToSet(list) \cup {e}
    /\ Len(t) = Len(list) + 1
    /\ t[Len(list) + 1] = e
    /\ \A i \in 1..Len(list) : t[i] = list[i]
LEMMA ListWithOne ==
    ASSUME NEW list, Listing(list), NEW e
    PROVE  WithOne(Append(list, e), list, e)
<1>0. PICK t : t = Append(list, e)
  OBVIOUS
<1>1. PICK one : one = <<e>>
  OBVIOUS
<1>2. one \in Seq({e}) /\ ToSet(one) = {e} /\ Len(one) = 1
  BY <1>1 DEF ToSet
<1>3. Listing(one)
  BY <1>2, ListingIs
<1>4. /\ Len(t) = Len(list) + 1 /\ t[Len(list) + 1] = e
      /\ t = list \o one
  BY <1>0, <1>1 DEF Listing
<1>5. /\ Listing(t) /\ ToSet(t) = ToSet(list) \cup ToSet(one)
      /\ \A i \in 1..Len(list) : t[i] = list[i]
  <2>1. Extended(list \o one, list, one)
    BY <1>3, ListWithMore
  <2> QED BY <1>4, <2>1 DEF Extended
<1> QED BY <1>0, <1>2, <1>4, <1>5 DEF WithOne

(* Another element at one place.                                           *)
EditedAt(t, list, i, e) ==
    /\ Listing(t)
    /\ ToSet(t) \subseteq ToSet(list) \cup {e}
    /\ Len(t) = Len(list)
    /\ t[i] = e
    /\ \A j \in 1..Len(list) : j # i => t[j] = list[j]
LEMMA ListEdited ==
    ASSUME NEW list, Listing(list), NEW i \in 1..Len(list), NEW e
    PROVE  EditedAt([list EXCEPT ![i] = e], list, i, e)
<1> DEFINE A == ToSet(list) \cup {e}
<1>0. PICK t : t = [list EXCEPT ![i] = e]
  OBVIOUS
<1>1. list \in Seq(A)
  <2>1. \A j \in 1..Len(list) : list[j] \in A
    BY ListSet DEF Listing
  <2> HIDE DEF A
  <2> QED BY <2>1, ListIn DEF Listing
<1>2. e \in A
  OBVIOUS
<1> HIDE DEF A
<1>3. /\ t \in Seq(A) /\ Len(t) = Len(list) /\ t[i] = e
      /\ \A j \in 1..Len(list) : j # i => t[j] = list[j]
  BY <1>0, <1>1, <1>2
<1>4. ToSet(t) \subseteq A
  BY <1>3, ListSet
<1> QED BY <1>0, <1>3, <1>4, ListingIs DEF A, EditedAt

(* Minus, by its elements.                                                 *)
LEMMA MinusDiffer ==
    ASSUME NEW T, NEW list \in Seq(T), NEW S
    PROVE  /\ Minus(list, S) \in Seq(T)
           /\ ToSet(Minus(list, S)) = ToSet(list) \ S
           /\ Differ(list) => Differ(Minus(list, S))
<1>1. PICK kept : kept = Minus(list, S)
  OBVIOUS
<1>2. KeptOK(list, S, T, Len(list), kept)
  BY <1>1, MinusOK
<1>3. ToSet(list) = {list[i] : i \in 1..Len(list)}
  BY ListSet
<1>4. kept \in Seq(T) /\ ToSet(kept) = ToSet(list) \ S
  BY <1>2, <1>3 DEF KeptOK
<1>5. Differ(list) => Differ(kept)
  BY <1>2 DEF KeptOK, Differ
<1> QED BY <1>1, <1>4, <1>5

(* What is left of a list that may hold a ref twice.                       *)
Trimmed(t, list, S) == Listing(t) /\ ToSet(t) \subseteq ToSet(list) \ S
LEMMA ListWithout ==
    ASSUME NEW list, Listing(list), NEW ref, NEW S
    PROVE  Trimmed(Minus(WithoutRef(list, ref), S), list, S)
<1>0. PICK t : t = Minus(WithoutRef(list, ref), S)
  OBVIOUS
<1>1. PICK u : u = WithoutRef(list, ref)
  OBVIOUS
<1>2. list \in Seq(ToSet(list))
  BY DEF Listing
<1>3. u \in Seq(ToSet(list))
  BY <1>1, <1>2, WithoutRefOK
<1>4. t \in Seq(ToSet(list)) /\ ToSet(t) = ToSet(u) \ S
  BY <1>0, <1>1, <1>3, MinusDiffer
<1>5. ToSet(u) \subseteq ToSet(list)
  BY <1>3, ListSet
<1> QED BY <1>0, <1>4, <1>5, ListingIs DEF Trimmed

(* What Min is.                                                            *)
LEMMA MinIs ==
    ASSUME NEW I, I \subseteq Nat, I # {}
    PROVE  Min(I) \in I /\ \A i \in I : Min(I) <= i
<1>1. \E m \in I : \A i \in I : m <= i
  BY LeastOf
<1> QED BY <1>1 DEF Min

(* The index of the first element with a property that is given by the set *)
(* of indices, 0 when there is none.                                       *)
First(I) == IF I # {} THEN Min(I) ELSE 0
LEMMA FirstIs ==
    ASSUME NEW I, I \subseteq Nat, 0 \notin I
    PROVE  /\ First(I) \in I \cup {0}
           /\ First(I) = 0 <=> I = {}
           /\ \A i \in I : First(I) <= i
<1>1. I # {} => Min(I) \in I /\ \A i \in I : Min(I) <= i
  BY MinIs
<1> QED BY <1>1 DEF First

(* A list of two.                                                          *)
LEMMA Pair ==
    ASSUME NEW T, NEW x \in T, NEW y \in T, NEW list, list = <<x, y>>
    PROVE  /\ list \in Seq(T) /\ Len(list) = 2
           /\ list[1] = x /\ list[2] = y
           /\ ToSet(list) = {x, y}
           /\ x # y => Differ(list)
<1>1. /\ list \in Seq(T) /\ Len(list) = 2
      /\ list[1] = x /\ list[2] = y
  OBVIOUS
<1>2. ToSet(list) = {x, y}
  BY DEF ToSet
<1>3. x # y => Differ(list)
  <2>1. \A k \in 1..Len(list) : k = 1 \/ k = 2
    BY <1>1
  <2> QED BY <1>1, <2>1 DEF Differ
<1> QED BY <1>1, <1>2, <1>3

(* The first element of two lists in a row.                                *)
LEMMA HeadOfJoined ==
    ASSUME NEW T, NEW one \in Seq(T), NEW list \in Seq(T), NEW x,
           Len(one) = 1, one[1] = x
    PROVE  one \o list # << >> /\ (one \o list)[1] = x
<1>1. Len(list) \in Nat
  OBVIOUS
<1>2. PICK t : t = one \o list
  OBVIOUS
<1>3. /\ t \in Seq(T) /\ Len(t) = Len(one) + Len(list)
      /\ \A i \in 1..Len(t) : t[i] = IF i <= Len(one) THEN one[i]
                                     ELSE list[i - Len(one)]
  BY <1>2, Joined, Zenon
<1>4. Len(t) = 1 + Len(list) /\ 1 \in 1..Len(t)
  BY <1>1, <1>3
<1>5. t[1] = x /\ t # << >>
  BY <1>3, <1>4
<1> QED BY <1>2, <1>5

-----------------------------------------------------------------------------
(* The operations, one after the other, with what their parameters are.    *)

StartLine(from, medium, len) ==
    /\ StartBranch(from, medium, len)
    /\ UNCHANGED <<transformers, sources, containers>>
Rerouted ==
    \/ \E ref, refs : RewriteStationBuses(ref, refs)
    \/ \E ref, refs : RewriteStationTransformers(ref, refs)
PointSet ==
    \/ \E p, ports : SetPorts(p, ports)
    \/ \E p : \E occupied \in Occupations : SetOccupied(p, occupied)
CorridorSet ==
    \/ \E ref, type : SetCorridorType(ref, type)
    \/ \E ref : \E nop \in BranchRefs \cup {NoRef} : SetNoPoint(ref, nop)
BranchSet ==
    \/ \E b : \E s \in Statuses : SetStatus(b, s)
    \/ \E b : \E long \in BOOLEAN : SetLength(b, long)
Sourced == \E v : AddGridSource(v)
Continued ==
    \E t \in Trunks, from \in Buses \cup {NoRef}, n \in Lengths :
        \E m \in Media : ContinueTrunk(t, from, m, n)
Started == \E from, n : \E m \in Media : StartLine(from, m, n)
Ported == \E p, i, n : \E m \in Media : StartBranchFromPort(p, i, m, n)
Ringed == \E from, to : \E m \in Media : ConnectRing(from, to, m)
Stationed == \E b, at, parts : InsertStation(b, at, parts)
Pointed == \E b, at : \E n \in Nat : InsertBranchPoint(b, at, n)
Switched ==
    \E b \in DOMAIN branches, at \in Positions, s \in NormalStates :
        InsertSectionSwitch(b, at, s)
Opened == \E b, t : SetNormalOpenPoint(b, t)
Resourced == \E s, bus : RewriteSource(s, bus)
Rebayed ==
    \E ref, station, bus, role : RewriteBay(ref, station, bus, role)
Resegmented ==
    \E ref \in RefsIn(corridors), segments \in Lists(BranchRefs) :
        RewriteSegments(ref, segments)
Deleted == \E ref : DeleteElement(ref)
Steps ==
    \/ UNCHANGED topologyVars
    \/ Sourced \/ Continued \/ Started \/ Ported \/ Ringed
    \/ Stationed \/ Pointed \/ Switched
    \/ Opened \/ BranchSet \/ PointSet \/ CorridorSet
    \/ Resourced \/ Rerouted \/ Rebayed \/ Resegmented
    \/ Deleted

LEMMA StepIs ==
    ASSUME [TopologyNext]_topologyVars
    PROVE  Steps
<1>1. CASE UNCHANGED topologyVars
  BY <1>1 DEF Steps
<1>2. CASE Build
  <2>1. ASSUME NEW v, AddGridSource(v) PROVE Steps
    BY <2>1 DEF Steps, Sourced
  <2>2. ASSUME NEW m \in Media, NEW n \in Lengths, NEW t \in Trunks,
               NEW from \in Buses \cup {NoRef}, ContinueTrunk(t, from, m, n)
        PROVE  Steps
    BY <2>2 DEF Steps, Continued
  <2>3. ASSUME NEW from, NEW m \in Media, NEW n, StartLine(from, m, n)
        PROVE  Steps
    BY <2>3 DEF Steps, Started
  <2>4. ASSUME NEW m \in Media, NEW n, NEW b, StartBranchFromBus(b, m, n)
        PROVE  Steps
    BY <2>3, <2>4 DEF StartBranchFromBus, StartLine
  <2>5. ASSUME NEW m \in Media, NEW n, NEW s, StartBranchFromStation(s, m, n)
        PROVE  Steps
    BY <2>3, <2>5 DEF StartBranchFromStation, StartLine
  <2>6. ASSUME NEW m \in Media, NEW n, NEW p, NEW i,
               StartBranchFromPort(p, i, m, n)
        PROVE  Steps
    BY <2>6 DEF Steps, Ported
  <2>7. ASSUME NEW m \in Media, NEW from, NEW to, ConnectRing(from, to, m)
        PROVE  Steps
    BY <2>7 DEF Steps, Ringed
  <2>8. ASSUME NEW b, NEW at, NEW parts, InsertStation(b, at, parts)
        PROVE  Steps
    BY <2>8 DEF Steps, Stationed
  <2>9. ASSUME NEW b, NEW at, NEW n \in PortCounts,
               InsertBranchPoint(b, at, n)
        PROVE  Steps
    BY <2>9, TopologyAssumption DEF Steps, Pointed
  <2>10. ASSUME NEW b \in DOMAIN branches, NEW at \in Positions,
                NEW s \in NormalStates, InsertSectionSwitch(b, at, s)
         PROVE  Steps
    BY <2>10 DEF Steps, Switched
  <2> QED BY <1>2, <2>1, <2>2, <2>4, <2>5, <2>6, <2>7, <2>8, <2>9, <2>10
          DEF Build
<1>3. CASE Update
  BY <1>3 DEF Update, Steps, Opened, BranchSet, PointSet, CorridorSet
<1>4. CASE RewriteRefs
  BY <1>4 DEF RewriteRefs, Steps, Resourced, Rerouted, Rebayed, Resegmented
<1>5. CASE Delete
  BY <1>5 DEF Delete, Steps, Deleted
<1> QED BY <1>1, <1>2, <1>3, <1>4, <1>5 DEF TopologyNext

(* What an operation does to the buses and branches.                       *)
HalvesNamed(halves) ==
    /\ halves.left \in {"L", "L_zksn", "L_branch_pole"}
    /\ halves.right \in {"R", "R_zksn", "R_branch_pole"}
NewNodes(more) ==
    /\ Listing(more) /\ Differ(more) /\ more # << >>
    /\ \A r \in ToSet(more) :
          r[1] \in {"sn_bus", "nn_bus", "point_bus", "port_bus"}
SplitStep ==
    \E b, at, halves, more, c :
        /\ HalvesNamed(halves) /\ NewNodes(more)
        /\ SplitAt(b, at, halves, more, c)
LineStep ==
    \E from, bus, segment : \E m \in Media :
        /\ bus[1] \in {"downstream", "branch_end"}
        /\ segment[1] \in {"trunk", "branch"}
        /\ NewLine(from, bus, segment, m)
BusStep ==
    \E v : /\ Free({<<"gpz_bus", v>>})
           /\ buses' = Append(buses, <<"gpz_bus", v>>)
           /\ UNCHANGED branches
BranchStep ==
    \E b \in DOMAIN branches :
        /\ \/ \E s \in Statuses : branches' = [branches EXCEPT ![b].status = s]
           \/ \E l \in BOOLEAN : branches' = [branches EXCEPT ![b].long = l]
        /\ UNCHANGED buses
LinesStep ==
    \/ UNCHANGED <<buses, branches>>
    \/ BusStep \/ LineStep \/ SplitStep \/ BranchStep
    \/ Ringed \/ Switched \/ Deleted

(* The buses a station is made with.                                       *)
LEMMA StationNodes ==
    ASSUME NEW b, NEW at
    PROVE  NewNodes(<<<<"sn_bus", b, at>>, <<"nn_bus", b, at>>>>)
<1>1. PICK x, y : x = <<"sn_bus", b, at>> /\ y = <<"nn_bus", b, at>>
  OBVIOUS
<1>2. x # y /\ x[1] = "sn_bus" /\ y[1] = "nn_bus"
  BY <1>1
<1>3. PICK more : more = <<x, y>>
  OBVIOUS
<1>4. PICK T : T = {x, y}
  OBVIOUS
<1>5. /\ more \in Seq(T) /\ Len(more) = 2
      /\ ToSet(more) = {x, y} /\ Differ(more)
  BY <1>2, <1>3, <1>4, Pair
<1>6. Listing(more) /\ more # << >>
  BY <1>5, ListingIs
<1> QED BY <1>1, <1>2, <1>3, <1>5, <1>6 DEF NewNodes

(* The buses a branch point is made with.                                  *)
LEMMA PointNodes ==
    ASSUME NEW b, NEW at, NEW n \in Nat, NEW ports,
           ports = [i \in 1..n |-> <<"port_bus", b, at, n, i>>],
           NEW more, more = <<<<"point_bus", b, at, n>>>> \o ports
    PROVE  /\ NewNodes(more) /\ more[1] = <<"point_bus", b, at, n>>
           /\ ToSet(more) = {<<"point_bus", b, at, n>>} \cup ToSet(ports)
<1> DEFINE port(i) == <<"port_bus", b, at, n, i>>
           P == {port(i) : i \in 1..n}
<1>1. PICK bus : bus = <<"point_bus", b, at, n>>
  OBVIOUS
<1>2. /\ ports \in Seq(P) /\ Len(ports) = n
      /\ \A i \in 1..n : ports[i] = port(i)
      /\ ToSet(ports) = P
  <2>1. /\ DOMAIN ports = 1..n /\ ports \in [1..n -> P]
        /\ \A i \in 1..n : ports[i] = port(i)
    OBVIOUS
  <2> HIDE DEF port
  <2>2. ports \in Seq(P) /\ Len(ports) = n
    <3>1. PICK Q : Q = P
      OBVIOUS
    <3>2. ports \in [1..n -> Q]
      BY <2>1, <3>1
    <3>3. ports \in Seq(Q) /\ Len(ports) = n
      BY <3>2
    <3> QED BY <3>1, <3>3
  <2>3. ToSet(ports) = P
    BY <2>1 DEF ToSet
  <2> QED BY <2>1, <2>2, <2>3
<1>3. PICK T : T = {bus} \cup P
  OBVIOUS
<1>4. PICK one : one = <<bus>>
  OBVIOUS
<1>5. one \in Seq(T) /\ Len(one) = 1 /\ one[1] = bus /\ ToSet(one) = {bus}
  BY <1>3, <1>4 DEF ToSet
<1>6. ports \in Seq(T)
  BY <1>2, <1>3
<1>7. Differ(one) /\ Differ(ports) /\ ToSet(one) \cap ToSet(ports) = {}
  <2>1. bus \notin P
    BY <1>1
  <2>2. \A i, j \in 1..n : port(i) = port(j) => i = j
    OBVIOUS
  <2> HIDE DEF port
  <2> QED BY <1>2, <1>5, <2>1, <2>2 DEF Differ
<1>8. more = one \o ports
  BY <1>1, <1>4
<1>9. PICK t : /\ t = one \o ports
               /\ t \in Seq(T) /\ Differ(t)
               /\ ToSet(t) = ToSet(one) \cup ToSet(ports)
  <2>1. one \in Seq(T)
    BY <1>5
  <2> QED BY <2>1, <1>6, <1>7, ListGrows
<1>10. t # << >> /\ t[1] = bus
  BY <1>5, <1>6, <1>9, HeadOfJoined, Zenon
<1>11. \A r \in T : r[1] \in {"sn_bus", "nn_bus", "point_bus", "port_bus"}
  BY <1>1, <1>3
<1>12. ToSet(t) = T /\ Listing(t)
  BY <1>2, <1>3, <1>5, <1>9, ListingIs
<1>13. NewNodes(t)
  BY <1>9, <1>10, <1>11, <1>12 DEF NewNodes
<1> QED BY <1>1, <1>5, <1>8, <1>9, <1>10, <1>13

LEMMA LinesStepIs ==
    ASSUME [TopologyNext]_topologyVars
    PROVE  LinesStep
<1>1. CASE UNCHANGED topologyVars
  BY <1>1 DEF topologyVars, grid, LinesStep
<1>2. ASSUME NEW v, AddGridSource(v) PROVE LinesStep
  <2>1. BusStep
    BY <1>2 DEF AddGridSource, BusStep, Free
  <2> QED BY <2>1 DEF LinesStep
<1>3. ASSUME NEW t, NEW terminal, NEW m \in Media, NEW n,
             ContinueTrunk(t, terminal, m, n)
      PROVE  LinesStep
  <2>1. PICK from :
            NewLine(from, <<"downstream", t, from, m, n>>,
                    <<"trunk", t, from, m, n>>, m)
    BY <1>3, Zenon DEF ContinueTrunk
  <2>2. PICK bus, segment : /\ bus = <<"downstream", t, from, m, n>>
                            /\ segment = <<"trunk", t, from, m, n>>
    OBVIOUS
  <2>3. bus[1] = "downstream" /\ segment[1] = "trunk"
    BY <2>2
  <2>4. LineStep
    BY <2>1, <2>2, <2>3 DEF LineStep
  <2> QED BY <2>4 DEF LinesStep
<1>4. ASSUME NEW from, NEW m \in Media, NEW n, StartBranch(from, m, n)
      PROVE  LinesStep
  <2>1. PICK bus, segment : /\ bus = <<"branch_end", from, m, n>>
                            /\ segment = <<"branch", from, m, n>>
    OBVIOUS
  <2>2. bus[1] = "branch_end" /\ segment[1] = "branch"
    BY <2>1
  <2>3. LineStep
    BY <1>4, <2>1, <2>2 DEF StartBranch, LineStep
  <2> QED BY <2>3 DEF LinesStep
<1>5. ASSUME NEW from, NEW m \in Media, NEW n, StartLine(from, m, n)
      PROVE  LinesStep
  BY <1>4, <1>5 DEF StartLine
<1>6. ASSUME NEW p, NEW i, NEW m \in Media, NEW n,
             StartBranchFromPort(p, i, m, n)
      PROVE  LinesStep
  BY <1>4, <1>6 DEF StartBranchFromPort
<1>7. ASSUME NEW b, NEW at, NEW halves, NEW more, NEW c,
             HalvesNamed(halves), NewNodes(more),
             SplitAt(b, at, halves, more, c)
      PROVE  LinesStep
  BY <1>7 DEF LinesStep, SplitStep
<1>8. ASSUME NEW b, NEW at, NEW parts, InsertStation(b, at, parts)
      PROVE  LinesStep
  <2>1. PICK more : more = <<<<"sn_bus", b, at>>, <<"nn_bus", b, at>>>>
    OBVIOUS
  <2>2. SplitAt(b, at, StationHalves, more, NamedLister(b))
    BY <1>8, <2>1, Zenon DEF InsertStation
  <2>3. NewNodes(more)
    BY <2>1, StationNodes
  <2>4. HalvesNamed(StationHalves)
    BY DEF HalvesNamed, StationHalves
  <2> QED BY <1>7, <2>2, <2>3, <2>4
<1>9. ASSUME NEW b, NEW at, NEW n \in Nat, InsertBranchPoint(b, at, n)
      PROVE  LinesStep
  <2>1. PICK ports : ports = [i \in 1..n |-> <<"port_bus", b, at, n, i>>]
    OBVIOUS
  <2>2. PICK more : more = <<<<"point_bus", b, at, n>>>> \o ports
    OBVIOUS
  <2>3. PICK type : SplitAt(b, at, PointHalves(type), more, Lister(b))
    BY <1>9, <2>1, <2>2, Zenon DEF InsertBranchPoint
  <2>4. NewNodes(more)
    BY <2>1, <2>2, PointNodes
  <2>5. HalvesNamed(PointHalves(type))
    BY DEF HalvesNamed, PointHalves
  <2> QED BY <1>7, <2>3, <2>4, <2>5
<1>10. ASSUME NEW b, NEW t, SetNormalOpenPoint(b, t) PROVE LinesStep
  <2>1. BranchStep
    BY <1>10 DEF SetNormalOpenPoint, BranchStep, Statuses
  <2> QED BY <2>1 DEF LinesStep
<1>11. CASE BranchSet
  <2>1. BranchStep
    BY <1>11 DEF BranchSet, SetStatus, SetLength, BranchStep
  <2> QED BY <2>1 DEF LinesStep
<1>12. CASE PointSet \/ CorridorSet \/ Rerouted
  BY <1>12 DEF PointSet, CorridorSet, Rerouted, SetPorts, SetOccupied,
               SetCorridorType, SetNoPoint, RewriteStationBuses,
               RewriteStationTransformers, grid, LinesStep
<1>13. CASE Resourced \/ Rebayed \/ Resegmented
  BY <1>13 DEF Resourced, Rebayed, Resegmented, RewriteSource, RewriteBay,
               RewriteSegments, grid, LinesStep
<1>14. CASE Ringed \/ Switched \/ Deleted
  BY <1>14 DEF LinesStep
<1>15. Steps
  BY StepIs
<1> QED
  BY <1>1, <1>2, <1>3, <1>5, <1>6, <1>8, <1>9, <1>10, <1>11, <1>12, <1>13,
     <1>14, <1>15
     DEF Steps, Sourced, Continued, Started, Ported, Stationed, Pointed,
         Opened

(* Which collections an operation may change, and what is noted of an      *)
(* update.                                                                 *)
Frame ==
    /\ \/ UNCHANGED substations
       \/ Sourced \/ Stationed \/ Rerouted \/ Deleted
    /\ UNCHANGED bays \/ Stationed \/ Rebayed \/ Deleted
    /\ UNCHANGED transformers \/ Stationed \/ Deleted
    /\ UNCHANGED sources \/ Sourced \/ Resourced \/ Deleted
    /\ \/ UNCHANGED branchPoints
       \/ Ported \/ Pointed \/ PointSet \/ Deleted
    /\ \/ UNCHANGED corridors
       \/ Sourced \/ Continued \/ Ringed
       \/ Stationed \/ Pointed \/ Switched
       \/ Opened \/ CorridorSet \/ Resegmented \/ Deleted
    /\ rewritten \subseteq rewritten'
    /\ Resourced => "sources" \in rewritten'
    /\ Rerouted => "substations" \in rewritten'
    /\ Rebayed => "bays" \in rewritten'
    /\ Resegmented => "corridors" \in rewritten'

LEMMA FrameIs ==
    ASSUME [TopologyNext]_topologyVars
    PROVE  Frame
<1> DEFINE Rest == /\ Resourced => "sources" \in rewritten'
                   /\ Rerouted => "substations" \in rewritten'
                   /\ Rebayed => "bays" \in rewritten'
                   /\ Resegmented => "corridors" \in rewritten'
<1>1. Rest
  BY DEF Resourced, Rerouted, Rebayed, Resegmented, RewriteSource,
         RewriteStationBuses, RewriteStationTransformers, RewriteBay,
         RewriteSegments, Rewrite
<1> HIDE DEF Rest
<1> SUFFICES Rest => Frame
  BY <1>1
<1>2. CASE UNCHANGED topologyVars
  BY <1>1, <1>2 DEF topologyVars, grid, containers, Frame, Rest
<1>3. CASE Sourced
  <2>1. /\ UNCHANGED <<branches, transformers, bays, branchPoints>>
        /\ UNCHANGED rewritten
    BY <1>3 DEF Sourced, AddGridSource, Changed
  <2> QED BY <1>1, <1>3, <2>1 DEF Frame, Rest
<1>4. CASE Continued
  <2>1. /\ UNCHANGED <<transformers, sources, substations, bays,
                       branchPoints>>
        /\ UNCHANGED rewritten
    BY <1>4 DEF Continued, ContinueTrunk, NewLine, Changed
  <2> QED BY <1>1, <1>4, <2>1 DEF Frame, Rest
<1>5. CASE Started
  <2>1. /\ UNCHANGED <<transformers, sources, containers>>
        /\ UNCHANGED rewritten
    BY <1>5 DEF Started, StartLine, StartBranch, NewLine, Changed
  <2> QED BY <1>1, <1>5, <2>1 DEF Frame, Rest, containers
<1>6. CASE Ported
  <2>1. /\ UNCHANGED <<transformers, sources, substations, bays, corridors>>
        /\ UNCHANGED rewritten
    BY <1>6 DEF Ported, StartBranchFromPort, StartBranch, NewLine, Changed
  <2> QED BY <1>1, <1>6, <2>1 DEF Frame, Rest
<1>7. CASE Ringed
  <2>1. /\ UNCHANGED <<buses, transformers, sources, substations, bays,
                       branchPoints>>
        /\ UNCHANGED rewritten
    BY <1>7 DEF Ringed, ConnectRing, Changed
  <2> QED BY <1>1, <1>7, <2>1 DEF Frame, Rest
<1>8. CASE Stationed
  <2>1. UNCHANGED <<sources, branchPoints>> /\ UNCHANGED rewritten
    BY <1>8 DEF Stationed, InsertStation, SplitAt, Changed
  <2> QED BY <1>1, <1>8, <2>1 DEF Frame, Rest
<1>9. CASE Pointed
  <2>1. /\ UNCHANGED <<transformers, sources, substations, bays>>
        /\ UNCHANGED rewritten
    BY <1>9 DEF Pointed, InsertBranchPoint, SplitAt, Changed
  <2> QED BY <1>1, <1>9, <2>1 DEF Frame, Rest
<1>10. CASE Switched
  <2>1. /\ UNCHANGED <<transformers, sources, substations, bays,
                       branchPoints>>
        /\ UNCHANGED rewritten
    BY <1>10 DEF Switched, InsertSectionSwitch, Changed
  <2> QED BY <1>1, <1>10, <2>1 DEF Frame, Rest
<1>11. CASE Opened
  <2>1. /\ UNCHANGED <<buses, transformers, sources, substations, bays,
                       branchPoints>>
        /\ UNCHANGED rewritten
    BY <1>11 DEF Opened, SetNormalOpenPoint, Changed
  <2> QED BY <1>1, <1>11, <2>1 DEF Frame, Rest
<1>12. CASE BranchSet
  <2>1. UNCHANGED <<transformers, sources, containers>>
        /\ UNCHANGED rewritten
    BY <1>12 DEF BranchSet, SetStatus, SetLength, Written
  <2> QED BY <1>1, <1>12, <2>1 DEF Frame, Rest, containers
<1>13. CASE PointSet
  <2>1. UNCHANGED <<grid, substations, bays, corridors>>
        /\ UNCHANGED rewritten
    BY <1>13 DEF PointSet, SetPorts, SetOccupied, Written
  <2> QED BY <1>1, <1>13, <2>1 DEF Frame, Rest, grid
<1>14. CASE CorridorSet
  <2>1. UNCHANGED <<grid, substations, bays, branchPoints>>
        /\ UNCHANGED rewritten
    BY <1>14 DEF CorridorSet, SetCorridorType, SetNoPoint, Written
  <2> QED BY <1>1, <1>14, <2>1 DEF Frame, Rest, grid
<1>15. CASE Resourced
  <2>1. /\ UNCHANGED <<buses, branches, transformers, containers>>
        /\ rewritten \subseteq rewritten'
    BY <1>15 DEF Resourced, RewriteSource, Rewrite
  <2> QED BY <1>1, <1>15, <2>1 DEF Frame, Rest, containers
<1>16. CASE Rerouted
  <2>1. /\ UNCHANGED <<grid, bays, branchPoints, corridors>>
        /\ rewritten \subseteq rewritten'
    BY <1>16 DEF Rerouted, RewriteStationBuses, RewriteStationTransformers,
                 Rewrite
  <2> QED BY <1>1, <1>16, <2>1 DEF Frame, Rest, grid
<1>17. CASE Rebayed
  <2>1. /\ UNCHANGED <<grid, substations, branchPoints, corridors>>
        /\ rewritten \subseteq rewritten'
    BY <1>17 DEF Rebayed, RewriteBay, Rewrite
  <2> QED BY <1>1, <1>17, <2>1 DEF Frame, Rest, grid
<1>18. CASE Resegmented
  <2>1. /\ UNCHANGED <<grid, substations, bays, branchPoints>>
        /\ rewritten \subseteq rewritten'
    BY <1>18 DEF Resegmented, RewriteSegments, Rewrite
  <2> QED BY <1>1, <1>18, <2>1 DEF Frame, Rest, grid
<1>19. CASE Deleted
  <2>1. UNCHANGED rewritten
    BY <1>19 DEF Deleted, DeleteElement, Changed
  <2> QED BY <1>1, <1>19, <2>1 DEF Frame, Rest
<1>20. Steps
  BY StepIs
<1> QED
  BY <1>2, <1>3, <1>4, <1>5, <1>6, <1>7, <1>8, <1>9, <1>10, <1>11, <1>12,
     <1>13, <1>14, <1>15, <1>16, <1>17, <1>18, <1>19, <1>20 DEF Steps

-----------------------------------------------------------------------------
(* The corridors: what an operation does to their lists of segments.       *)

CorridorShape(c) ==
    /\ c = [ref |-> c.ref, type |-> c.type, segments |-> c.segments,
            nop |-> c.nop]
    /\ c.ref[1] = "corridor" /\ c.ref # NoRef
    /\ Listing(c.segments)
CorridorShapes ==
    /\ Listing(corridors)
    /\ \A i \in 1..Len(corridors) : CorridorShape(corridors[i])

SegmentsSame ==
    /\ Len(corridors') = Len(corridors)
    /\ \A i \in 1..Len(corridors) :
          /\ corridors'[i].segments = corridors[i].segments
          /\ corridors'[i].ref = corridors[i].ref
SegmentsAt(i, segs) ==
    /\ i \in 1..Len(corridors)
    /\ Len(corridors') = Len(corridors)
    /\ corridors'[i].segments = segs
    /\ \A j \in 1..Len(corridors) :
          /\ corridors'[j].ref = corridors[j].ref
          /\ j # i => corridors'[j].segments = corridors[j].segments

(* A corridor with another value of one of its fields.                     *)
LEMMA CorridorWith ==
    ASSUME NEW c, CorridorShape(c), NEW x
    PROVE  /\ CorridorShape([c EXCEPT !.type = x])
           /\ CorridorShape([c EXCEPT !.nop = x])
           /\ [c EXCEPT !.type = x].segments = c.segments
           /\ [c EXCEPT !.nop = x].segments = c.segments
           /\ [c EXCEPT !.type = x].ref = c.ref
           /\ [c EXCEPT !.nop = x].ref = c.ref
           /\ [c EXCEPT !.segments = x].ref = c.ref
           /\ [c EXCEPT !.segments = x].segments = x
           /\ Listing(x) => CorridorShape([c EXCEPT !.segments = x])
BY DEF CorridorShape

(* One corridor is edited.                                                 *)
LEMMA CorridorEdited ==
    ASSUME CorridorShapes, NEW i \in 1..Len(corridors),
           NEW d, CorridorShape(d), d.ref = corridors[i].ref,
           corridors' = [corridors EXCEPT ![i] = d]
    PROVE  CorridorShapes' /\ SegmentsAt(i, d.segments)
<1>1. Listing(corridors)
  BY DEF CorridorShapes
<1>2. /\ Listing(corridors') /\ Len(corridors') = Len(corridors)
      /\ corridors'[i] = d
      /\ \A j \in 1..Len(corridors) : j # i => corridors'[j] = corridors[j]
  <2>1. PICK t : t = corridors'
    OBVIOUS
  <2>2. t = [corridors EXCEPT ![i] = d]
    BY <2>1
  <2>3. EditedAt([corridors EXCEPT ![i] = d], corridors, i, d)
    BY <1>1, ListEdited
  <2> QED BY <2>1, <2>2, <2>3 DEF EditedAt
<1>3. CorridorShapes'
  BY <1>2 DEF CorridorShapes
<1>4. SegmentsAt(i, d.segments)
  BY <1>2 DEF SegmentsAt
<1> QED BY <1>3, <1>4

(* With the segments it had.                                               *)
LEMMA SameSegments ==
    ASSUME CorridorShapes, NEW i \in 1..Len(corridors),
           SegmentsAt(i, corridors[i].segments)
    PROVE  SegmentsSame
BY DEF SegmentsAt, SegmentsSame

(* The corridor a ref names: the first one.                                *)
FirstOf(i, ref) ==
    /\ i \in 1..Len(corridors) /\ ref \in {NoRef, corridors[i].ref}
    /\ \A j \in 1..Len(corridors) : ref \in {NoRef, corridors[j].ref} => i <= j
LEMMA IndexIs ==
    ASSUME CorridorShapes, NEW ref
    PROVE  /\ CorridorIndex(ref) \in 0..Len(corridors)
           /\ CorridorIndex(ref) # 0 => FirstOf(CorridorIndex(ref), ref)
           /\ \A i : FirstOf(i, ref) => CorridorIndex(ref) = i
           /\ ref \in RefsIn(corridors) => CorridorIndex(ref) # 0
<1> DEFINE I == {i \in 1..Len(corridors) : ref \in {NoRef, corridors[i].ref}}
<1>1. PICK k : k = CorridorIndex(ref)
  OBVIOUS
<1>2. k = First(I)
  BY <1>1 DEF CorridorIndex, SelectInSeq, First
<1>3. Len(corridors) \in Nat /\ DOMAIN corridors = 1..Len(corridors)
  BY ListingIs DEF CorridorShapes, Listing
<1>4. I \subseteq Nat /\ 0 \notin I
  BY <1>3
<1>5. k \in I \cup {0} /\ (k = 0 <=> I = {}) /\ \A i \in I : k <= i
  <2> HIDE DEF I
  <2> QED BY <1>2, <1>4, FirstIs
<1>6. k \in 0..Len(corridors)
  BY <1>3, <1>5
<1>7. k # 0 => FirstOf(k, ref)
  BY <1>5 DEF FirstOf
<1>8. ASSUME NEW i, FirstOf(i, ref) PROVE k = i
  <2>1. i \in I /\ \A j \in I : i <= j
    BY <1>8 DEF FirstOf
  <2>2. k \in I
    BY <1>5, <2>1
  <2>3. k <= i /\ i <= k
    BY <1>5, <2>1, <2>2
  <2> QED BY <1>3, <2>1, <2>2, <2>3
<1>9. ref \in RefsIn(corridors) => k # 0
  <2>1. ref \in RefsIn(corridors) => I # {}
    BY <1>3 DEF RefsIn
  <2> QED BY <1>5, <2>1
<1> QED BY <1>1, <1>6, <1>7, <1>8, <1>9

(* The first corridor that lists a segment.                                *)
LEMMA ListerIs ==
    ASSUME CorridorShapes, NEW b
    PROVE  /\ Lister(b) \in 0..Len(corridors)
           /\ Lister(b) # 0 => Contains(corridors[Lister(b)].segments, b)
           /\ Lister(b) = 0 => \A i \in 1..Len(corridors) :
                                  ~ Contains(corridors[i].segments, b)
           /\ NamedLister(b) \in 0..Len(corridors)
<1> DEFINE I == {i \in 1..Len(corridors) : Contains(corridors[i].segments, b)}
<1>1. PICK k : k = Lister(b)
  OBVIOUS
<1>2. k = First(I)
  BY <1>1 DEF Lister, SelectInSeq, First
<1>3. Len(corridors) \in Nat
  BY ListingIs DEF CorridorShapes, Listing
<1>4. I \subseteq Nat /\ 0 \notin I
  BY <1>3
<1>5. k \in I \cup {0} /\ (k = 0 <=> I = {})
  <2> HIDE DEF I
  <2> QED BY <1>2, <1>4, FirstIs
<1>6. NamedLister(b) \in 0..Len(corridors)
  <2>1. 0 \in 0..Len(corridors)
    BY <1>3
  <2> QED BY <2>1, IndexIs DEF NamedLister
<1>7. k \in 0..Len(corridors)
  BY <1>3, <1>5
<1>8. k # 0 => Contains(corridors[k].segments, b)
  BY <1>5
<1>9. k = 0 =>
         \A i \in 1..Len(corridors) : ~ Contains(corridors[i].segments, b)
  BY <1>5
<1> QED BY <1>1, <1>6, <1>7, <1>8, <1>9

(* A list of segments gets the parts in the place of segment b, if it has  *)
(* it.                                                                     *)
Parted(i, b, parts) ==
    \/ /\ SegmentsSame
       /\ i # 0 => ~ Contains(corridors[i].segments, b)
    \/ \E k \in 1..Len(corridors[i].segments) :
          /\ corridors[i].segments[k] = b
          /\ SegmentsAt(i, Spliced(corridors[i].segments, k, parts))
LEMMA PartedIs ==
    ASSUME CorridorShapes, NEW i \in 0..Len(corridors), NEW b,
           NEW parts, Listing(parts),
           corridors' = InCorridors(i, b, parts)
    PROVE  CorridorShapes' /\ Parted(i, b, parts)
<1>0. ASSUME corridors' = corridors PROVE CorridorShapes' /\ SegmentsSame
  BY <1>0 DEF CorridorShapes, SegmentsSame
<1>1. CASE i = 0
  <2>1. corridors' = corridors
    BY <1>1 DEF InCorridors
  <2> QED BY <1>0, <1>1, <2>1 DEF Parted
<1>2. CASE i # 0
  <2>0. i \in 1..Len(corridors)
    BY <1>2
  <2>1. PICK c : c = corridors[i]
    OBVIOUS
  <2>2. CorridorShape(c)
    BY <2>0, <2>1 DEF CorridorShapes
  <2>3. PICK segs : segs = c.segments
    OBVIOUS
  <2>4. Listing(segs)
    BY <2>2, <2>3 DEF CorridorShape
  <2> DEFINE J == {j \in 1..Len(segs) : segs[j] = b}
  <2>5. Len(segs) \in Nat /\ DOMAIN segs = 1..Len(segs)
        /\ ToSet(segs) = {segs[j] : j \in 1..Len(segs)}
    BY <2>4, ListingIs DEF Listing
  <2>6. PICK k : k = First(J)
    OBVIOUS
  <2>7. k \in J \cup {0} /\ (k = 0 <=> J = {})
    <3>1. J \subseteq Nat /\ 0 \notin J
      BY <2>5
    <3> HIDE DEF J
    <3> QED BY <2>6, <3>1, FirstIs
  <2>8. PICK new : new = Spliced(segs, k, parts)
    OBVIOUS
  <2>9. corridors' = IF k = 0 THEN corridors
                     ELSE [corridors EXCEPT ![i].segments = new]
    BY <1>2, <2>1, <2>3, <2>6, <2>8
       DEF InCorridors, SelectInSeq, First, Spliced
  <2>10. CASE k = 0
    <3>1. ~ Contains(segs, b)
      BY <2>5, <2>7, <2>10 DEF Contains
    <3> QED BY <1>0, <2>1, <2>3, <2>9, <2>10, <3>1 DEF Parted
  <2>11. CASE k # 0
    <3>1. k \in 1..Len(segs) /\ segs[k] = b
      BY <2>7, <2>11
    <3>2. Listing(new)
      <4>1. PICK A : segs \in Seq(A) /\ parts \in Seq(A)
        <5> DEFINE A == ToSet(segs) \cup ToSet(parts)
        <5>1. segs \in Seq(ToSet(segs)) /\ parts \in Seq(ToSet(parts))
          BY <2>4 DEF Listing
        <5>2. /\ \A j \in 1..Len(segs) : segs[j] \in A
              /\ \A j \in 1..Len(parts) : parts[j] \in A
          BY <5>1, ListingIs
        <5> HIDE DEF A
        <5>3. segs \in Seq(A)
          BY <5>1, <5>2, ListIn
        <5>4. parts \in Seq(A)
          BY <5>1, <5>2, ListIn
        <5> QED BY <5>3, <5>4
      <4>2. new \in Seq(A)
        BY <2>8, <3>1, <4>1, SplicedOK
      <4> QED BY <4>2, ListingIs
    <3>3. PICK d : d = [c EXCEPT !.segments = new]
      OBVIOUS
    <3>4. CorridorShape(d) /\ d.segments = new /\ d.ref = c.ref
      BY <2>2, <3>2, <3>3, CorridorWith
    <3>5. corridors' = [corridors EXCEPT ![i] = d]
      BY <2>1, <2>9, <2>11, <3>3
    <3>6. CorridorShapes' /\ SegmentsAt(i, d.segments)
      BY <2>0, <2>1, <3>4, <3>5, CorridorEdited
    <3> QED BY <2>1, <2>3, <2>8, <3>1, <3>4, <3>6 DEF Parted
  <2> QED BY <2>10, <2>11
<1> QED BY <1>1, <1>2

-----------------------------------------------------------------------------
(* The lines stay as they should be.                                       *)

(* A branch that is made between buses of the network.                     *)
NewBranch(rank, b, e, S) ==
    /\ b \in DOMAIN rank /\ b[1] \in BranchKinds
    /\ e \in BranchesOf(DOMAIN rank)
    /\ e.from \in S /\ e.to \in S /\ e.from # e.to
    /\ e.to[1] = "switch_node_2" => rank[e.to[2]] < rank[b]

(* Buses are appended; branches stay, or are made between buses.           *)
LEMMA LinesGrow ==
    ASSUME NEW rank, LinesHave(rank),
           NEW more \in Seq(DOMAIN rank), Differ(more),
           ToSet(more) \cap Buses = {}, buses' = buses \o more,
           IsFcn(branches'),
           \A b \in DOMAIN branches' :
              \/ /\ b \in DOMAIN branches
                 /\ branches'[b].from = branches[b].from
                 /\ branches'[b].to = branches[b].to
                 /\ branches'[b] \in BranchesOf(DOMAIN rank)
              \/ NewBranch(rank, b, branches'[b], Buses \cup ToSet(more))
    PROVE  LinesHave(rank)' /\ Buses' = Buses \cup ToSet(more)
<1>1. /\ Ranks(rank) /\ LinesOK(DOMAIN rank) /\ BranchEnds /\ FarEnds(rank)
      /\ buses \in Seq(DOMAIN rank) /\ Differ(buses)
  BY DEF LinesHave, LinesOK
<1>2. PICK t : t = buses'
  OBVIOUS
<1>3. t \in Seq(DOMAIN rank) /\ Differ(t) /\ ToSet(t) = Buses \cup ToSet(more)
  BY <1>1, <1>2, ListGrows DEF Buses
<1>4. /\ buses' \in Seq(DOMAIN rank) /\ Differ(buses)'
      /\ Buses' = Buses \cup ToSet(more)
  BY <1>2, <1>3 DEF Buses, Differ
<1>5. branches' \in [DOMAIN branches' -> BranchesOf(DOMAIN rank)]
  <2>1. \A b \in DOMAIN branches' : branches'[b] \in BranchesOf(DOMAIN rank)
    BY DEF NewBranch
  <2> QED BY <2>1, IsFunction
<1>6. /\ DOMAIN branches' \subseteq DOMAIN rank
      /\ \A b \in DOMAIN branches' : b[1] \in BranchKinds
  BY <1>1 DEF LinesOK, NewBranch
<1>7. LinesOK(DOMAIN rank)'
  BY <1>4, <1>5, <1>6 DEF LinesOK
<1>8. BranchEnds'
  BY <1>1, <1>4 DEF BranchEnds, NewBranch
<1>9. FarEnds(rank)'
  BY <1>1 DEF FarEnds, NewBranch
<1> QED BY <1>1, <1>4, <1>7, <1>8, <1>9 DEF LinesHave

(* Branches alone.                                                         *)
LEMMA LinesStay ==
    ASSUME NEW rank, LinesHave(rank), UNCHANGED buses, IsFcn(branches'),
           \A b \in DOMAIN branches' :
              \/ /\ b \in DOMAIN branches
                 /\ branches'[b].from = branches[b].from
                 /\ branches'[b].to = branches[b].to
                 /\ branches'[b] \in BranchesOf(DOMAIN rank)
              \/ NewBranch(rank, b, branches'[b], Buses)
    PROVE  LinesHave(rank)' /\ Buses' = Buses
<1>1. PICK more : more = << >>
  OBVIOUS
<1>2. /\ more \in Seq(DOMAIN rank) /\ Differ(more) /\ ToSet(more) = {}
      /\ Len(more) = 0
  BY <1>1 DEF Differ, ToSet
<1>3. buses' = buses \o more
  <2>1. buses \in Seq(DOMAIN rank)
    BY DEF LinesHave, LinesOK
  <2> QED BY <1>1, <2>1
<1>4. Buses \cup ToSet(more) = Buses /\ ToSet(more) \cap Buses = {}
  BY <1>2
<1> QED BY <1>2, <1>3, <1>4, LinesGrow

(* A function with one entry more.                                         *)
OneMore(g, f, x, y) ==
    /\ IsFcn(g) /\ DOMAIN g = DOMAIN f \cup {x} /\ g[x] = y
    /\ \A z \in DOMAIN f : g[z] = f[z]
LEMMA WithEntry ==
    ASSUME NEW f, NEW x, x \notin DOMAIN f, NEW y
    PROVE  OneMore(Added(Entry(x, y), f), f, x, y)
<1>1. PICK e : e = Entry(x, y)
  OBVIOUS
<1>2. DOMAIN e = {x} /\ e[x] = y
  BY <1>1, EntryOK
<1>3. PICK g : g = Added(e, f)
  OBVIOUS
<1>4. Merged(g, e, f)
  BY <1>3, AddedOK
<1> QED BY <1>1, <1>2, <1>3, <1>4 DEF Merged, OneMore

(* A bus of a grid source.                                                 *)
LEMMA BusLines ==
    ASSUME LinesInv, BusStep
    PROVE  LinesInv' /\ Buses \subseteq Buses'
<1>1. PICK v : /\ Free({<<"gpz_bus", v>>})
               /\ buses' = Append(buses, <<"gpz_bus", v>>)
               /\ UNCHANGED branches
  BY DEF BusStep
<1>2. PICK bus : bus = <<"gpz_bus", v>>
  OBVIOUS
<1>3. ~ Hashing(bus) /\ bus \notin Buses
  BY <1>1, <1>2 DEF Hashing, PartKinds, Free, AllRefs
<1>4. PICK rank : LinesHave(rank) /\ {bus} \subseteq DOMAIN rank
  <2>1. \A K : Rankable({bus}, K)
    BY <1>3 DEF Rankable
  <2> QED BY <2>1, Ranked
<1>5. PICK more : more = <<bus>>
  OBVIOUS
<1>6. /\ more \in Seq(DOMAIN rank) /\ Differ(more) /\ ToSet(more) = {bus}
      /\ buses' = buses \o more
  <2>1. buses \in Seq(DOMAIN rank)
    BY <1>4 DEF LinesHave, LinesOK
  <2> QED BY <1>1, <1>2, <1>4, <1>5, <2>1 DEF Differ, ToSet
<1>7. /\ IsFcn(branches')
      /\ \A b \in DOMAIN branches' : /\ b \in DOMAIN branches
                                     /\ branches'[b] = branches[b]
                                     /\ branches[b] \in BranchesOf(DOMAIN rank)
  <2>1. branches \in [DOMAIN branches -> BranchesOf(DOMAIN rank)]
    BY <1>4 DEF LinesHave, LinesOK
  <2> QED BY <1>1, <2>1 DEF IsFcn
<1>8. LinesHave(rank)' /\ Buses' = Buses \cup {bus}
  BY <1>3, <1>4, <1>6, <1>7, LinesGrow
<1> QED BY <1>8 DEF LinesInv

(* A line to a new bus.                                                    *)
LEMMA LineLines ==
    ASSUME LinesInv, LineStep
    PROVE  LinesInv' /\ Buses \subseteq Buses'
<1>1. PICK from, bus, segment :
          \E m \in Media :
              /\ bus[1] \in {"downstream", "branch_end"}
              /\ segment[1] \in {"trunk", "branch"}
              /\ NewLine(from, bus, segment, m)
  BY DEF LineStep
<1>2. PICK m \in Media :
          /\ bus[1] \in {"downstream", "branch_end"}
          /\ segment[1] \in {"trunk", "branch"}
          /\ NewLine(from, bus, segment, m)
  BY <1>1
<1>3. PICK line : line = Branch(from, bus, m, "closed")
  OBVIOUS
<1>4. /\ from \in Buses
      /\ bus \notin Buses /\ segment \notin DOMAIN branches
      /\ buses' = Append(buses, bus)
      /\ branches' = Added(Entry(segment, line), branches)
  BY <1>2, <1>3 DEF NewLine, Free, AllRefs
<1>5. /\ ~ Hashing(bus) /\ ~ Hashing(segment)
      /\ bus[1] # "switch_node_2" /\ segment[1] \in BranchKinds
  BY <1>2 DEF Hashing, PartKinds, BranchKinds
<1>6. PICK rank : LinesHave(rank) /\ {bus, segment} \subseteq DOMAIN rank
  <2>1. \A K : Rankable({bus, segment}, K)
    BY <1>5 DEF Rankable
  <2> QED BY <2>1, Ranked
<1>7. PICK more : more = <<bus>>
  OBVIOUS
<1>8. /\ buses \in Seq(DOMAIN rank)
      /\ branches \in [DOMAIN branches -> BranchesOf(DOMAIN rank)]
  BY <1>6 DEF LinesHave, LinesOK
<1>9. /\ more \in Seq(DOMAIN rank) /\ Differ(more) /\ ToSet(more) = {bus}
      /\ buses' = buses \o more
  BY <1>4, <1>6, <1>7, <1>8 DEF Differ, ToSet
<1>10. NewBranch(rank, segment, line, Buses \cup {bus})
  <2>1. from \in DOMAIN rank
    BY <1>4, <1>8, ListSet DEF Buses
  <2>2. line \in BranchesOf(DOMAIN rank) /\ line.from = from /\ line.to = bus
    BY <1>3, <1>6, <2>1 DEF Branch, BranchesOf, Statuses
  <2>3. from # bus
    BY <1>4
  <2> QED BY <1>4, <1>5, <1>6, <2>2, <2>3 DEF NewBranch
<1>11. /\ IsFcn(branches')
       /\ DOMAIN branches' = DOMAIN branches \cup {segment}
       /\ branches'[segment] = line
       /\ \A b \in DOMAIN branches : branches'[b] = branches[b]
  <2>1. OneMore(Added(Entry(segment, line), branches), branches, segment,
                line)
    BY <1>4, WithEntry
  <2> QED BY <1>4, <2>1 DEF OneMore
<1>12. \A b \in DOMAIN branches' :
          \/ /\ b \in DOMAIN branches
             /\ branches'[b].from = branches[b].from
             /\ branches'[b].to = branches[b].to
             /\ branches'[b] \in BranchesOf(DOMAIN rank)
          \/ NewBranch(rank, b, branches'[b], Buses \cup ToSet(more))
  BY <1>8, <1>9, <1>10, <1>11
<1>13. LinesHave(rank)' /\ Buses' = Buses \cup {bus}
  <2>1. ToSet(more) \cap Buses = {}
    BY <1>4, <1>9
  <2>2. LinesHave(rank)' /\ Buses' = Buses \cup ToSet(more)
    BY <1>6, <1>9, <1>11, <1>12, <2>1, LinesGrow
  <2> QED BY <1>9, <2>2
<1> QED BY <1>13 DEF LinesInv

(* A status or a length.                                                   *)
LEMMA BranchLines ==
    ASSUME LinesInv, BranchStep
    PROVE  LinesInv' /\ Buses' = Buses /\ DOMAIN branches' = DOMAIN branches
<1>1. PICK b \in DOMAIN branches :
        /\ \/ \E s \in Statuses : branches' = [branches EXCEPT ![b].status = s]
           \/ \E l \in BOOLEAN : branches' = [branches EXCEPT ![b].long = l]
        /\ UNCHANGED buses
  BY DEF BranchStep
<1>2. PICK rank : LinesHave(rank)
  BY DEF LinesInv
<1>3. branches \in [DOMAIN branches -> BranchesOf(DOMAIN rank)]
  BY <1>2 DEF LinesHave, LinesOK
<1>4. PICK e : e = branches[b]
  OBVIOUS
<1>5. e \in BranchesOf(DOMAIN rank)
  BY <1>3, <1>4
<1>6. PICK d : /\ branches' = [branches EXCEPT ![b] = d]
               /\ d \in BranchesOf(DOMAIN rank)
               /\ d.from = e.from /\ d.to = e.to
  <2>1. ASSUME NEW s \in Statuses,
               branches' = [branches EXCEPT ![b].status = s]
        PROVE  \E d : /\ branches' = [branches EXCEPT ![b] = d]
                      /\ d \in BranchesOf(DOMAIN rank)
                      /\ d.from = e.from /\ d.to = e.to
    <3>1. PICK d : d = [e EXCEPT !.status = s]
      OBVIOUS
    <3>2. branches' = [branches EXCEPT ![b] = d]
      BY <1>4, <2>1, <3>1
    <3>3. /\ d \in BranchesOf(DOMAIN rank)
          /\ d.from = e.from /\ d.to = e.to
      BY <1>5, <3>1 DEF BranchesOf
    <3> QED BY <3>2, <3>3
  <2>2. ASSUME NEW l \in BOOLEAN, branches' = [branches EXCEPT ![b].long = l]
        PROVE  \E d : /\ branches' = [branches EXCEPT ![b] = d]
                      /\ d \in BranchesOf(DOMAIN rank)
                      /\ d.from = e.from /\ d.to = e.to
    <3>1. PICK d : d = [e EXCEPT !.long = l]
      OBVIOUS
    <3>2. branches' = [branches EXCEPT ![b] = d]
      BY <1>4, <2>2, <3>1
    <3>3. /\ d \in BranchesOf(DOMAIN rank)
          /\ d.from = e.from /\ d.to = e.to
      BY <1>5, <3>1 DEF BranchesOf
    <3> QED BY <3>2, <3>3
  <2> QED BY <1>1, <2>1, <2>2
<1>7. IsFcn(branches)
  BY <1>3 DEF IsFcn
<1>8. /\ IsFcn(branches') /\ DOMAIN branches' = DOMAIN branches
      /\ branches'[b] = d
      /\ \A z \in DOMAIN branches : z # b => branches'[z] = branches[z]
  BY <1>6, <1>7, ChangedAt
<1>9. \A z \in DOMAIN branches' :
         /\ z \in DOMAIN branches
         /\ branches'[z].from = branches[z].from
         /\ branches'[z].to = branches[z].to
         /\ branches'[z] \in BranchesOf(DOMAIN rank)
  BY <1>3, <1>4, <1>6, <1>8
<1>10. LinesHave(rank)' /\ Buses' = Buses
  BY <1>1, <1>2, <1>8, <1>9, LinesStay
<1> QED BY <1>8, <1>10 DEF LinesInv

(* A segment that closes a ring.                                           *)
LEMMA RingLines ==
    ASSUME LinesInv, Ringed
    PROVE  /\ LinesInv' /\ Buses' = Buses
           /\ DOMAIN branches \subseteq DOMAIN branches'
<1>1. PICK from, to, m : m \in Media /\ ConnectRing(from, to, m)
  BY DEF Ringed
<1>2. PICK ring, line : /\ ring = <<"ring", from, to>>
                        /\ line = Branch(from, to, m, "closed")
  OBVIOUS
<1>3. /\ from \in Buses /\ to \in Buses /\ from # to
      /\ ring \notin DOMAIN branches
      /\ branches' = Added(Entry(ring, line), branches)
      /\ UNCHANGED buses
  BY <1>1, <1>2 DEF ConnectRing, Free, AllRefs
<1>4. Hashing(ring) /\ HashedIn(ring) = to /\ ring[1] \in BranchKinds
  BY <1>2 DEF Hashing, HashedIn, BranchKinds
<1>5. PICK rank : LinesHave(rank) /\ {ring} \subseteq DOMAIN rank
  <2>1. \A K : Buses \subseteq K => Rankable({ring}, K)
    BY <1>3, <1>4 DEF Rankable
  <2> QED BY <2>1, Ranked
<1>6. /\ buses \in Seq(DOMAIN rank) /\ Ranks(rank)
      /\ branches \in [DOMAIN branches -> BranchesOf(DOMAIN rank)]
  BY <1>5 DEF LinesHave, LinesOK
<1>7. from \in DOMAIN rank /\ to \in DOMAIN rank
  BY <1>3, <1>6, ListSet DEF Buses
<1>8. NewBranch(rank, ring, line, Buses)
  <2>1. to[1] = "switch_node_2" => rank[to[2]] < rank[ring]
    <3>1. rank[to] < rank[ring]
      BY <1>4, <1>5, <1>6 DEF Ranks
    <3>2. ASSUME to[1] = "switch_node_2"
          PROVE  to[2] \in DOMAIN rank /\ rank[to[2]] < rank[to]
      BY <1>6, <1>7, <3>2 DEF Ranks, Hashing, HashedIn
    <3>3. \A r \in DOMAIN rank : rank[r] \in Nat
      BY <1>6 DEF Ranks
    <3> QED BY <1>5, <1>7, <3>1, <3>2, <3>3
  <2>2. line \in BranchesOf(DOMAIN rank) /\ line.from = from /\ line.to = to
    BY <1>1, <1>2, <1>7 DEF Branch, BranchesOf, Statuses
  <2> QED BY <1>3, <1>4, <1>5, <2>1, <2>2 DEF NewBranch
<1>9. OneMore(Added(Entry(ring, line), branches), branches, ring, line)
  BY <1>3, WithEntry
<1>10. /\ IsFcn(branches')
       /\ DOMAIN branches' = DOMAIN branches \cup {ring}
       /\ branches'[ring] = line
       /\ \A b \in DOMAIN branches : branches'[b] = branches[b]
  BY <1>3, <1>9 DEF OneMore
<1>11. \A b \in DOMAIN branches' :
          \/ /\ b \in DOMAIN branches
             /\ branches'[b].from = branches[b].from
             /\ branches'[b].to = branches[b].to
             /\ branches'[b] \in BranchesOf(DOMAIN rank)
          \/ NewBranch(rank, b, branches'[b], Buses)
  BY <1>6, <1>8, <1>10
<1>12. LinesHave(rank)' /\ Buses' = Buses
  BY <1>3, <1>5, <1>10, <1>11, LinesStay
<1> QED BY <1>10, <1>12 DEF LinesInv

(* The half that ends where the branch ended.                              *)
LEMMA FarHalf ==
    ASSUME NEW rank, LinesHave(rank), NEW b \in DOMAIN branches,
           NEW r \in DOMAIN rank, Hashing(r), HashedIn(r) = b,
           branches[b].to[1] = "switch_node_2"
    PROVE  rank[branches[b].to[2]] < rank[r]
<1> DEFINE far == branches[b].to
<1>1. b \in DOMAIN rank /\ far \in DOMAIN rank
  BY DEF LinesHave, LinesOK, BranchesOf
<1>2. far[2] \in DOMAIN rank
  BY <1>1 DEF LinesHave, Ranks, Hashing, HashedIn
<1>3. rank[b] < rank[r]
  BY DEF LinesHave, Ranks
<1>4. rank[far[2]] < rank[b]
  BY DEF LinesHave, FarEnds
<1>5. rank[far[2]] \in Nat /\ rank[b] \in Nat /\ rank[r] \in Nat
  BY <1>1, <1>2 DEF LinesHave, Ranks
<1> QED BY <1>3, <1>4, <1>5

(* What a split leaves: two halves in the place of the branch.             *)
Halved(b, l, r, node) ==
    /\ b \in DOMAIN branches
    /\ IsFcn(branches') /\ l # r
    /\ l \notin DOMAIN branches /\ r \notin DOMAIN branches
    /\ DOMAIN branches' = (DOMAIN branches \ {b}) \cup {l, r}
    /\ branches'[l] =
          Branch(branches[b].from, node, branches[b].type, "closed")
    /\ branches'[r] = Branch(node, branches[b].to, branches[b].type, "closed")
    /\ \A x \in DOMAIN branches \ {b} : branches'[x] = branches[x]
LEMMA SplitHalves ==
    ASSUME NEW b, NEW at, NEW halves, HalvesNamed(halves), NEW more,
           NEW c, SplitAt(b, at, halves, more, c)
    PROVE  Halved(b, Half(halves.left, b), Half(halves.right, b), more[1])
<1>1. PICK l, r, near, far :
          /\ l = Half(halves.left, b) /\ r = Half(halves.right, b)
          /\ near = Branch(branches[b].from, more[1], branches[b].type,
                           "closed")
          /\ far = Branch(more[1], branches[b].to, branches[b].type, "closed")
  OBVIOUS
<1>2. /\ b \in DOMAIN branches
      /\ l \notin DOMAIN branches /\ r \notin DOMAIN branches
      /\ branches' = Added(Entry(l, near),
                           Added(Entry(r, far), Without(branches, {b})))
  BY <1>1 DEF SplitAt, Free, AllRefs, HalfRefs, Left, Right
<1>3. l # r
  BY <1>1 DEF Half, HalvesNamed
<1>4. PICK w : w = Without(branches, {b})
  OBVIOUS
<1>5. /\ DOMAIN w = DOMAIN branches \ {b}
      /\ \A x \in DOMAIN branches \ {b} : w[x] = branches[x]
  BY <1>4 DEF Without, Restrict
<1>6. PICK h : h = Added(Entry(r, far), w)
  OBVIOUS
<1>7. OneMore(Added(Entry(r, far), w), w, r, far)
  BY <1>2, <1>5, WithEntry
<1>8. OneMore(Added(Entry(l, near), h), h, l, near)
  <2>1. l \notin DOMAIN h
    BY <1>2, <1>3, <1>5, <1>6, <1>7 DEF OneMore
  <2> QED BY <2>1, WithEntry
<1>9. branches' = Added(Entry(l, near), h)
  BY <1>2, <1>4, <1>6
<1>10. /\ IsFcn(branches')
       /\ DOMAIN branches' = (DOMAIN branches \ {b}) \cup {l, r}
       /\ branches'[l] = near /\ branches'[r] = far
       /\ \A x \in DOMAIN branches \ {b} : branches'[x] = branches[x]
  BY <1>3, <1>5, <1>6, <1>7, <1>8, <1>9 DEF OneMore
<1> QED BY <1>1, <1>2, <1>3, <1>10 DEF Halved

(* A split keeps the lines.                                                *)
LEMMA SplitLines ==
    ASSUME LinesInv, SplitStep
    PROVE  LinesInv' /\ Buses \subseteq Buses'
<1>1. PICK b, at, halves, more, c :
          /\ HalvesNamed(halves) /\ NewNodes(more)
          /\ SplitAt(b, at, halves, more, c)
  BY DEF SplitStep
<1>2. PICK l, r, node : /\ l = Half(halves.left, b)
                        /\ r = Half(halves.right, b)
                        /\ node = more[1]
  OBVIOUS
<1>3. Halved(b, l, r, node)
  BY <1>1, <1>2, SplitHalves
<1>4. ToSet(more) \cap Buses = {} /\ buses' = buses \o more
  BY <1>1 DEF SplitAt, Free, AllRefs
<1>5. PICK N : N = ToSet(more) \cup {l, r}
  OBVIOUS
<1>6. /\ Hashing(l) /\ HashedIn(l) = b /\ Hashing(r) /\ HashedIn(r) = b
      /\ l[1] \in BranchKinds /\ r[1] \in BranchKinds
  <2>1. /\ l[1] = halves.left /\ r[1] = halves.right
        /\ l[2] = b /\ r[2] = b
    BY <1>2 DEF Half
  <2> QED BY <1>1, <2>1
          DEF HalvesNamed, PartKinds, BranchKinds, Hashing, HashedIn
<1>7. /\ \A x \in ToSet(more) : ~ Hashing(x) /\ x[1] # "switch_node_2"
      /\ Listing(more) /\ Differ(more) /\ more # << >>
  BY <1>1 DEF NewNodes, Hashing, PartKinds
<1>8. PICK rank : LinesHave(rank) /\ N \subseteq DOMAIN rank
  <2>1. \A K : DOMAIN branches \subseteq K => Rankable(N, K)
    BY <1>3, <1>5, <1>6, <1>7 DEF Rankable, Halved
  <2> QED BY <2>1, Ranked
<1>9. PICK K : K = DOMAIN rank
  OBVIOUS
<1>10. more \in Seq(K) /\ node \in ToSet(more) /\ node \in K
  <2>1. ToSet(more) \subseteq K
    BY <1>5, <1>8, <1>9
  <2>2. \A i \in 1..Len(more) : more[i] \in K
    BY <1>7, <2>1, ListSet DEF Listing
  <2>3. more \in Seq(K)
    BY <1>7, <2>2, ListIn DEF Listing
  <2>4. 1 \in 1..Len(more)
    BY <1>7, <2>3
  <2>5. node \in ToSet(more)
    BY <1>2, <2>3, <2>4, ListSet
  <2> QED BY <2>1, <2>3, <2>5
<1>11. PICK e : e = branches[b]
  OBVIOUS
<1>12. PICK near, far : /\ near = Branch(e.from, node, e.type, "closed")
                        /\ far = Branch(node, e.to, e.type, "closed")
  OBVIOUS
<1>13. /\ e \in BranchesOf(K) /\ e.from \in Buses /\ e.to \in Buses
       /\ branches \in [DOMAIN branches -> BranchesOf(K)]
  BY <1>3, <1>8, <1>9, <1>11 DEF LinesHave, LinesOK, BranchEnds, Halved
<1>14. /\ near \in BranchesOf(K) /\ near.from = e.from /\ near.to = node
       /\ far \in BranchesOf(K) /\ far.from = node /\ far.to = e.to
  <2>1. e.from \in K /\ e.to \in K /\ e.type \in Media \cup {"switch"}
    BY <1>13 DEF BranchesOf
  <2> QED BY <1>10, <1>12, <2>1 DEF Branch, BranchesOf, Statuses
<1>15. PICK S : S = Buses \cup ToSet(more)
  OBVIOUS
<1>16. NewBranch(rank, l, near, S)
  <2>1. near.to[1] # "switch_node_2"
    BY <1>7, <1>10, <1>14
  <2>2. l \in DOMAIN rank
    BY <1>5, <1>8
  <2>3. near.from \in S /\ near.to \in S /\ near.from # near.to
    BY <1>4, <1>10, <1>13, <1>14, <1>15
  <2> QED BY <1>6, <1>9, <1>14, <2>1, <2>2, <2>3 DEF NewBranch
<1>17. NewBranch(rank, r, far, S)
  <2>1. r \in DOMAIN rank
    BY <1>5, <1>8
  <2>2. far.to[1] = "switch_node_2" => rank[far.to[2]] < rank[r]
    <3>1. b \in DOMAIN branches /\ far.to = branches[b].to
      BY <1>3, <1>11, <1>14 DEF Halved
    <3> QED BY <1>6, <1>8, <2>1, <3>1, FarHalf
  <2>3. far.from \in S /\ far.to \in S /\ far.from # far.to
    BY <1>4, <1>10, <1>13, <1>14, <1>15
  <2> QED BY <1>6, <1>9, <1>14, <2>1, <2>2, <2>3 DEF NewBranch
<1>18. /\ IsFcn(branches')
       /\ DOMAIN branches' = (DOMAIN branches \ {b}) \cup {l, r}
       /\ branches'[l] = near /\ branches'[r] = far
       /\ \A x \in DOMAIN branches \ {b} : branches'[x] = branches[x]
  BY <1>3, <1>11, <1>12 DEF Halved
<1>19. \A x \in DOMAIN branches' :
          \/ /\ x \in DOMAIN branches
             /\ branches'[x].from = branches[x].from
             /\ branches'[x].to = branches[x].to
             /\ branches'[x] \in BranchesOf(K)
          \/ NewBranch(rank, x, branches'[x], S)
  BY <1>13, <1>16, <1>17, <1>18
<1>20. LinesHave(rank)' /\ Buses' = Buses \cup ToSet(more)
  BY <1>4, <1>7, <1>8, <1>9, <1>10, <1>15, <1>18, <1>19, LinesGrow
<1> QED BY <1>20 DEF LinesInv

(* A bus goes, and with it the branches at it.                             *)
LEMMA DeletedLines ==
    ASSUME LinesInv, NEW ref, DeleteElement(ref)
    PROVE  /\ LinesInv' /\ Buses' = Buses \ {ref}
           /\ DOMAIN branches' = DOMAIN branches \ DeadBranches(ref)
<1>1. PICK dead : dead = DeadBranches(ref)
  OBVIOUS
<1>2. /\ buses' = Minus(buses, {ref})
      /\ branches' = Without(branches, dead)
  BY <1>1 DEF DeleteElement
<1>3. PICK rank : LinesHave(rank)
  BY DEF LinesInv
<1>4. PICK K : K = DOMAIN rank
  OBVIOUS
<1>5. LinesOK(K) /\ BranchEnds /\ FarEnds(rank) /\ Ranks(rank)
  BY <1>3, <1>4 DEF LinesHave
<1>6. PICK t : t = Minus(buses, {ref})
  OBVIOUS
<1>7. t \in Seq(K) /\ Differ(t) /\ ToSet(t) = Buses \ {ref}
  BY <1>5, <1>6, MinusDiffer DEF LinesOK, Buses
<1>8. buses' \in Seq(K) /\ Differ(buses)' /\ Buses' = Buses \ {ref}
  BY <1>2, <1>6, <1>7 DEF Buses, Differ
<1>9. PICK w : w = Without(branches, dead)
  OBVIOUS
<1>10. /\ DOMAIN w = DOMAIN branches \ dead
       /\ \A x \in DOMAIN branches \ dead : w[x] = branches[x]
       /\ IsFcn(w)
  BY <1>9 DEF Without, Restrict, IsFcn
<1>11. /\ DOMAIN branches' = DOMAIN branches \ dead
       /\ \A x \in DOMAIN branches \ dead : branches'[x] = branches[x]
       /\ IsFcn(branches')
  BY <1>2, <1>9, <1>10
<1>12. branches' \in [DOMAIN branches' -> BranchesOf(K)]
  <2>1. \A x \in DOMAIN branches' : branches'[x] \in BranchesOf(K)
    BY <1>5, <1>11 DEF LinesOK
  <2> QED BY <1>11, <2>1, IsFunction
<1>13. LinesOK(K)'
  BY <1>5, <1>8, <1>11, <1>12 DEF LinesOK
<1>14. BranchEnds'
  BY <1>1, <1>5, <1>8, <1>11 DEF BranchEnds, DeadBranches
<1>15. FarEnds(rank)'
  BY <1>5, <1>11 DEF FarEnds
<1>16. LinesHave(rank)'
  BY <1>4, <1>5, <1>13, <1>14, <1>15 DEF LinesHave
<1> QED BY <1>1, <1>8, <1>11, <1>16 DEF LinesInv

(* The kinds of the refs that are no buses.                                *)
KindsOK ==
    /\ \A b \in DOMAIN branches : b[1] \in BranchKinds
    /\ \A t \in DOMAIN transformers : t[1] = "transformer"
    /\ \A s \in DOMAIN sources : s[1] = "gpz_source"
    /\ \A r \in RefsIn(substations) : r[1] \in {"gpz", "station"}
    /\ \A r \in RefsIn(bays) : r[1] \in {"sn_field", "nn_main", "nn_feeder"}
    /\ \A r \in RefsIn(corridors) : r[1] = "corridor"

(* The refusal of a second node only ever means that the bus is there.     *)
LEMMA SecondNode ==
    ASSUME KindsOK, NEW n, n[1] = "switch_node_2", n \in AllRefs
    PROVE  n \in Buses
BY DEF KindsOK, AllRefs, BranchKinds, PartKinds

(* What a section switch leaves: what was not refused of three branches in *)
(* the place of one.                                                       *)
Sectioned(b, at, status, fits) ==
    LET n1 == <<"switch_node", b, at>>
        n2 == <<"switch_node_2", b, at>>
        left == Half("SL", b)
        switch == <<"section_switch", b, at>>
        right == Half("SR", b)
        e == branches[b]
    IN  /\ b \in DOMAIN branches
        /\ fits \subseteq {left, switch, right}
        /\ fits \cap DOMAIN branches = {}
        /\ IsFcn(branches')
        /\ DOMAIN branches' = fits \cup (DOMAIN branches \ {b})
        /\ \A x \in DOMAIN branches \ {b} : branches'[x] = branches[x]
        /\ left \in fits =>
              branches'[left] = Branch(e.from, n1, e.type, "closed")
        /\ switch \in fits =>
              branches'[switch] = Branch(n1, n2, "switch", status)
        /\ right \in fits =>
              branches'[right] = Branch(n2, e.to, e.type, "closed")
LEMMA SectionedIs ==
    ASSUME NEW b, NEW at, NEW status, InsertSectionSwitch(b, at, status)
    PROVE  \E fits : Sectioned(b, at, status, fits)
<1> DEFINE n1 == <<"switch_node", b, at>>
           n2 == <<"switch_node_2", b, at>>
           left == Half("SL", b)
           switch == <<"section_switch", b, at>>
           right == Half("SR", b)
           e == branches[b]
           near == Branch(e.from, n1, e.type, "closed")
           mid == Branch(n1, n2, "switch", status)
           far == Branch(n2, e.to, e.type, "closed")
<1>1. PICK parts :
          parts = Added(Entry(left, near),
                        Added(Entry(switch, mid), Entry(right, far)))
  OBVIOUS
<1>2. PICK fits \in SUBSET {left, switch, right} :
          /\ b \in DOMAIN branches
          /\ \A r \in fits : Free({r})
          /\ branches' = Added(Restrict(parts, fits), Without(branches, {b}))
  <2> DEFINE fit == {r \in {left, switch, right} :
                        /\ Free({r})
                        /\ r = left => LeftFits(b, at)
                        /\ r = right => RightFits(b, at)}
  <2>1. /\ b \in DOMAIN branches
        /\ branches' = Added(Restrict(parts, fit), Without(branches, {b}))
    BY <1>1, Zenon DEF InsertSectionSwitch, Left, Right, SwitchHalves
  <2>2. fit \in SUBSET {left, switch, right} /\ \A r \in fit : Free({r})
    OBVIOUS
  <2> HIDE DEF fit, n1, n2, left, switch, right
  <2> QED BY <2>1, <2>2
<1>3. left # switch /\ left # right /\ switch # right
  BY DEF Half
<1>4. \A r \in fits : r \notin DOMAIN branches
  BY <1>2 DEF Free, AllRefs
<1> HIDE DEF n1, n2, left, switch, right, near, mid, far
<1>5. parts[left] = near /\ parts[switch] = mid /\ parts[right] = far
  <2>1. PICK f, g, h : /\ f = Entry(left, near) /\ g = Entry(switch, mid)
                       /\ h = Entry(right, far)
    OBVIOUS
  <2>2. PICK gh : gh = Added(g, h)
    OBVIOUS
  <2>3. parts = Added(f, gh)
    BY <1>1, <2>1, <2>2
  <2>4. Merged(parts, f, gh) /\ Merged(gh, g, h)
    BY <2>2, <2>3, AddedOK
  <2>5. /\ DOMAIN f = {left} /\ f[left] = near
        /\ DOMAIN g = {switch} /\ g[switch] = mid
        /\ DOMAIN h = {right} /\ h[right] = far
    BY <2>1, EntryOK
  <2>6. gh[switch] = mid /\ gh[right] = far /\ DOMAIN gh = {switch, right}
    BY <1>3, <2>4, <2>5 DEF Merged
  <2> QED BY <1>3, <2>4, <2>5, <2>6 DEF Merged
<1>6. /\ IsFcn(branches')
      /\ DOMAIN branches' = fits \cup (DOMAIN branches \ {b})
      /\ \A x \in fits : branches'[x] = parts[x]
      /\ \A x \in DOMAIN branches \ {b} :
            x \notin fits => branches'[x] = branches[x]
  <2>1. PICK f : f = Restrict(parts, fits)
    OBVIOUS
  <2>2. PICK w : w = Without(branches, {b})
    OBVIOUS
  <2>3. Merged(branches', f, w)
    BY <1>2, <2>1, <2>2, AddedOK
  <2>4. DOMAIN f = fits /\ \A x \in fits : f[x] = parts[x]
    BY <2>1 DEF Restrict
  <2>5. /\ DOMAIN w = DOMAIN branches \ {b}
        /\ \A x \in DOMAIN branches \ {b} : w[x] = branches[x]
    BY <2>2 DEF Without, Restrict
  <2> QED BY <2>3, <2>4, <2>5 DEF Merged
<1>7. /\ fits \subseteq {left, switch, right}
      /\ fits \cap DOMAIN branches = {}
      /\ \A x \in DOMAIN branches \ {b} : branches'[x] = branches[x]
      /\ left \in fits => branches'[left] = near
      /\ switch \in fits => branches'[switch] = mid
      /\ right \in fits => branches'[right] = far
  BY <1>2, <1>4, <1>5, <1>6
<1> HIDE DEF e
<1>8. Sectioned(b, at, status, fits)
  BY <1>2, <1>6, <1>7
     DEF Sectioned, n1, n2, left, switch, right, near, mid, far, e
<1> QED BY <1>8

(* The buses of a section switch.                                          *)
LEMMA SectionBuses ==
    ASSUME KindsOK, NEW b, NEW at, NEW status,
           InsertSectionSwitch(b, at, status), NEW n1, NEW n2,
           n1 = <<"switch_node", b, at>>, n2 = <<"switch_node_2", b, at>>
    PROVE  \E more : /\ Listing(more) /\ Differ(more)
                     /\ ToSet(more) \cap Buses = {}
                     /\ ToSet(more) \subseteq {n1, n2}
                     /\ {n1, n2} \subseteq Buses \cup ToSet(more)
                     /\ n1 \notin Buses
                     /\ buses' = buses \o more
<1>1. /\ Free({n1})
      /\ buses' = buses \o (IF Free({n2}) THEN <<n1, n2>> ELSE <<n1>>)
  BY Zenon DEF InsertSectionSwitch
<1>2. n1 # n2 /\ n2[1] = "switch_node_2"
  OBVIOUS
<1>3. n1 \notin Buses
  BY <1>1 DEF Free, AllRefs
<1>4. PICK T : T = {n1, n2}
  OBVIOUS
<1>5. CASE Free({n2})
  <2>1. PICK more : more = <<n1, n2>>
    OBVIOUS
  <2>2. more \in Seq(T) /\ ToSet(more) = {n1, n2} /\ Differ(more)
    <3>1. n1 \in T /\ n2 \in T
      BY <1>4
    <3>2. <<n1, n2>> \in Seq(T) /\ ToSet(<<n1, n2>>) = {n1, n2}
      BY <3>1 DEF ToSet
    <3>3. Differ(<<n1, n2>>)
      <4>1. \A k \in 1..Len(<<n1, n2>>) : k = 1 \/ k = 2
        OBVIOUS
      <4> QED BY <1>2, <4>1 DEF Differ
    <3> QED BY <2>1, <3>2, <3>3
  <2>3. Listing(more)
    BY <2>2, ListingIs
  <2>4. n2 \notin Buses
    BY <1>5 DEF Free, AllRefs
  <2> QED BY <1>1, <1>3, <1>5, <2>1, <2>2, <2>3, <2>4
<1>6. CASE ~ Free({n2})
  <2>1. PICK more : more = <<n1>>
    OBVIOUS
  <2>2. more \in Seq(T) /\ ToSet(more) = {n1} /\ Differ(more)
    BY <1>4, <2>1 DEF ToSet, Differ
  <2>3. Listing(more)
    BY <2>2, ListingIs
  <2>4. n2 \in Buses
    BY <1>2, <1>6, SecondNode DEF Free
  <2> QED BY <1>1, <1>3, <1>6, <2>1, <2>2, <2>3, <2>4
<1> QED BY <1>5, <1>6

LEMMA SwitchLines ==
    ASSUME LinesInv, KindsOK, Switched
    PROVE  LinesInv' /\ Buses \subseteq Buses'
<1>1. PICK b, at, status :
          status \in Statuses /\ InsertSectionSwitch(b, at, status)
  BY TopologyAssumption DEF Switched, Statuses
<1>2. PICK n1, n2, left, switch, right, e :
          /\ n1 = <<"switch_node", b, at>> /\ n2 = <<"switch_node_2", b, at>>
          /\ left = Half("SL", b) /\ right = Half("SR", b)
          /\ switch = <<"section_switch", b, at>>
          /\ e = branches[b]
  OBVIOUS
<1>3. PICK near, mid, far :
          /\ near = Branch(e.from, n1, e.type, "closed")
          /\ mid = Branch(n1, n2, "switch", status)
          /\ far = Branch(n2, e.to, e.type, "closed")
  OBVIOUS
<1>4. PICK fits : Sectioned(b, at, status, fits)
  BY <1>1, SectionedIs
<1>5. /\ b \in DOMAIN branches
      /\ fits \subseteq {left, switch, right}
      /\ IsFcn(branches')
      /\ DOMAIN branches' = fits \cup (DOMAIN branches \ {b})
      /\ \A x \in DOMAIN branches \ {b} : branches'[x] = branches[x]
      /\ left \in fits => branches'[left] = near
      /\ switch \in fits => branches'[switch] = mid
      /\ right \in fits => branches'[right] = far
  BY <1>2, <1>3, <1>4 DEF Sectioned
<1>6. PICK more : /\ Listing(more) /\ Differ(more)
                  /\ ToSet(more) \cap Buses = {}
                  /\ ToSet(more) \subseteq {n1, n2}
                  /\ {n1, n2} \subseteq Buses \cup ToSet(more)
                  /\ n1 \notin Buses
                  /\ buses' = buses \o more
  BY <1>1, <1>2, SectionBuses
<1>7. /\ n1[1] = "switch_node" /\ n2[1] = "switch_node_2" /\ n2[2] = b
      /\ left[1] = "SL" /\ switch[1] = "section_switch" /\ right[1] = "SR"
      /\ left[2] = b /\ switch[2] = b /\ right[2] = b /\ n1 # n2
  BY <1>2 DEF Half
<1>8. PICK N : N = {n1, n2, left, switch, right}
  OBVIOUS
<1>9. PICK rank : LinesHave(rank) /\ N \subseteq DOMAIN rank
  <2>1. \A K : DOMAIN branches \subseteq K => Rankable(N, K)
    BY <1>5, <1>7, <1>8 DEF Rankable, Hashing, HashedIn, PartKinds
  <2> QED BY <2>1, Ranked
<1>10. PICK K : K = DOMAIN rank
  OBVIOUS
<1>11. /\ n1 \in K /\ n2 \in K /\ left \in K /\ switch \in K /\ right \in K
  BY <1>8, <1>9, <1>10
<1>12. more \in Seq(K)
  <2>1. ToSet(more) = {more[i] : i \in 1..Len(more)}
    BY <1>6, ListingIs DEF Listing
  <2>2. \A i \in 1..Len(more) : more[i] \in K
    BY <1>6, <1>11, <2>1
  <2> QED BY <1>6, <2>2, ListIn DEF Listing
<1>13. /\ e \in BranchesOf(K) /\ e.from \in Buses /\ e.to \in Buses
       /\ branches \in [DOMAIN branches -> BranchesOf(K)] /\ Ranks(rank)
  BY <1>2, <1>5, <1>9, <1>10 DEF LinesHave, LinesOK, BranchEnds
<1>14. /\ near \in BranchesOf(K) /\ near.from = e.from /\ near.to = n1
       /\ mid \in BranchesOf(K) /\ mid.from = n1 /\ mid.to = n2
       /\ far \in BranchesOf(K) /\ far.from = n2 /\ far.to = e.to
  <2>1. e.from \in K /\ e.to \in K /\ e.type \in Media \cup {"switch"}
    BY <1>13 DEF BranchesOf
  <2> QED BY <1>1, <1>3, <1>11, <2>1 DEF Branch, BranchesOf, Statuses
<1>15. PICK S : S = Buses \cup ToSet(more)
  OBVIOUS
<1>16. NewBranch(rank, left, near, S)
  <2>1. left[1] \in BranchKinds
    BY <1>7 DEF BranchKinds, PartKinds
  <2>2. near.from \in S /\ near.to \in S /\ near.from # near.to
    BY <1>6, <1>13, <1>14, <1>15
  <2>3. near.to[1] # "switch_node_2"
    BY <1>7, <1>14
  <2> QED BY <1>10, <1>11, <1>14, <2>1, <2>2, <2>3 DEF NewBranch
<1>17. /\ Hashing(switch) /\ HashedIn(switch) = b
       /\ Hashing(right) /\ HashedIn(right) = b
       /\ switch[1] \in BranchKinds /\ right[1] \in BranchKinds
  BY <1>7 DEF Hashing, HashedIn, PartKinds, BranchKinds
<1>18. rank[b] < rank[switch] /\ rank[b] \in Nat
  BY <1>10, <1>11, <1>13, <1>17 DEF Ranks
<1>19. NewBranch(rank, switch, mid, S)
  <2>1. mid.from \in S /\ mid.to \in S /\ mid.from # mid.to
    BY <1>6, <1>7, <1>14, <1>15
  <2> QED BY <1>7, <1>10, <1>11, <1>14, <1>17, <1>18, <2>1 DEF NewBranch
<1>20. NewBranch(rank, right, far, S)
  <2>1. e.to[1] = "switch_node_2" => rank[e.to[2]] < rank[right]
    BY <1>2, <1>5, <1>9, <1>10, <1>11, <1>17, FarHalf
  <2>2. n2 # e.to
    <3>1. ASSUME n2 = e.to PROVE FALSE
      <4>1. rank[b] < rank[b]
        BY <1>2, <1>5, <1>7, <1>9, <3>1 DEF LinesHave, FarEnds
      <4> QED BY <1>18, <4>1
    <3> QED BY <3>1
  <2>3. far.from \in S /\ far.to \in S /\ far.from # far.to
    BY <1>6, <1>13, <1>14, <1>15, <2>2
  <2> QED BY <1>10, <1>11, <1>14, <1>17, <2>1, <2>3 DEF NewBranch
<1>21. \A x \in DOMAIN branches' :
          \/ /\ x \in DOMAIN branches
             /\ branches'[x].from = branches[x].from
             /\ branches'[x].to = branches[x].to
             /\ branches'[x] \in BranchesOf(K)
          \/ NewBranch(rank, x, branches'[x], S)
  BY <1>5, <1>13, <1>16, <1>19, <1>20
<1>22. LinesHave(rank)' /\ Buses' = Buses \cup ToSet(more)
  BY <1>5, <1>6, <1>9, <1>10, <1>12, <1>15, <1>21, LinesGrow
<1> QED BY <1>22 DEF LinesInv

(* The lines are as they should be after every operation, and buses go     *)
(* only by a deletion.                                                     *)
LEMMA LinesNext ==
    ASSUME LinesInv, KindsOK, [TopologyNext]_topologyVars
    PROVE  LinesInv' /\ (Deleted \/ Buses \subseteq Buses')
<1>1. CASE UNCHANGED <<buses, branches>>
  <2>1. Buses' = Buses
    BY <1>1 DEF Buses
  <2>2. ASSUME NEW rank, LinesHave(rank) PROVE LinesHave(rank)'
    BY <1>1, <2>1, <2>2 DEF LinesHave, LinesOK, Differ, BranchEnds, FarEnds
  <2> QED BY <2>1, <2>2 DEF LinesInv
<1>2. LinesStep
  BY LinesStepIs
<1> QED BY <1>1, <1>2, BusLines, LineLines, SplitLines, BranchLines, RingLines,
           SwitchLines, DeletedLines DEF LinesStep, Deleted

(* A corridor is added without segments.                                   *)
CorridorAdded ==
    /\ Len(corridors') = Len(corridors) + 1
    /\ corridors'[Len(corridors) + 1].segments = << >>
    /\ \A i \in 1..Len(corridors) : corridors'[i] = corridors[i]
LEMMA SourcedCorridors ==
    ASSUME CorridorShapes, Sourced
    PROVE  CorridorShapes' /\ CorridorAdded
<1>1. PICK v : AddGridSource(v)
  BY DEF Sourced
<1>2. PICK c : c = [ref |-> <<"corridor", v>>, type |-> "radial",
                    segments |-> << >>, nop |-> NoRef]
  OBVIOUS
<1>3. corridors' = Append(corridors, c)
  BY <1>1, <1>2 DEF AddGridSource
<1>4. CorridorShape(c) /\ c.segments = << >>
  <2>1. Listing(<< >>)
    BY DEF Listing
  <2>2. PICK r : r = <<"corridor", v>>
    OBVIOUS
  <2>3. r[1] = "corridor" /\ r # NoRef
    BY <2>2 DEF NoRef
  <2> QED BY <1>2, <2>1, <2>2, <2>3 DEF CorridorShape
<1>5. WithOne(Append(corridors, c), corridors, c)
  BY ListWithOne DEF CorridorShapes
<1>6. PICK n : n = Len(corridors)
  OBVIOUS
<1>7. /\ Listing(corridors') /\ Len(corridors') = n + 1
      /\ corridors'[n + 1] = c
      /\ \A i \in 1..n : corridors'[i] = corridors[i]
  BY <1>3, <1>5, <1>6 DEF WithOne
<1>8. n \in Nat
  BY <1>6, ListingIs DEF CorridorShapes, Listing
<1>9. ASSUME NEW i \in 1..(n + 1) PROVE CorridorShape(corridors'[i])
  <2>1. i = n + 1 \/ i \in 1..n
    BY <1>8
  <2> QED BY <1>4, <1>6, <1>7, <2>1 DEF CorridorShapes
<1>10. CorridorShapes'
  BY <1>7, <1>9 DEF CorridorShapes
<1>11. CorridorAdded
  BY <1>4, <1>6, <1>7 DEF CorridorAdded
<1> QED BY <1>10, <1>11

(* A corridor gets one segment more.                                       *)
LEMMA ContinuedCorridors ==
    ASSUME CorridorShapes, NEW t, NEW terminal, NEW m, NEW n,
           ContinueTrunk(t, terminal, m, n)
    PROVE  /\ CorridorShapes'
           /\ \E from :
                 LET segment == <<"trunk", t, from, m, n>>
                     i == CorridorIndex(t)
                 IN  /\ NewLine(from, <<"downstream", t, from, m, n>>,
                                segment, m)
                     /\ from = IF terminal = NoRef THEN TrunkEnd(t)
                               ELSE terminal
                     /\ \/ i = 0 /\ SegmentsSame
                        \/ /\ FirstOf(i, t)
                           /\ SegmentsAt(i, Append(corridors[i].segments,
                                                   segment))
<1>1. PICK from, segment, i :
          /\ from = IF terminal = NoRef THEN TrunkEnd(t) ELSE terminal
          /\ segment = <<"trunk", t, from, m, n>>
          /\ i = CorridorIndex(t)
  OBVIOUS
<1>2. /\ NewLine(from, <<"downstream", t, from, m, n>>, segment, m)
      /\ corridors' = IF i = 0 THEN corridors
                      ELSE [corridors EXCEPT
                               ![i].segments = Append(@, segment)]
  BY <1>1, Zenon DEF ContinueTrunk
<1>3. CASE i = 0
  <2>1. corridors' = corridors
    BY <1>2, <1>3
  <2>2. CorridorShapes' /\ SegmentsSame
    BY <2>1 DEF CorridorShapes, SegmentsSame
  <2> QED BY <1>1, <1>2, <1>3, <2>2
<1>4. CASE i # 0
  <2>1. FirstOf(i, t)
    BY <1>1, <1>4, IndexIs
  <2>2. i \in 1..Len(corridors)
    BY <2>1 DEF FirstOf
  <2>3. PICK c : c = corridors[i]
    OBVIOUS
  <2>4. CorridorShape(c)
    BY <2>2, <2>3 DEF CorridorShapes
  <2>5. PICK new : new = Append(c.segments, segment)
    OBVIOUS
  <2>6. Listing(new)
    <3>1. WithOne(Append(c.segments, segment), c.segments, segment)
      BY <2>4, ListWithOne DEF CorridorShape
    <3> QED BY <2>5, <3>1 DEF WithOne
  <2>7. PICK d : d = [c EXCEPT !.segments = new]
    OBVIOUS
  <2>8. CorridorShape(d) /\ d.segments = new /\ d.ref = c.ref
    BY <2>4, <2>6, <2>7, CorridorWith
  <2>9. corridors' = [corridors EXCEPT ![i] = d]
    BY <1>2, <1>4, <2>3, <2>5, <2>7
  <2>10. CorridorShapes' /\ SegmentsAt(i, d.segments)
    BY <2>2, <2>3, <2>8, <2>9, CorridorEdited
  <2> QED BY <1>1, <1>2, <2>1, <2>3, <2>5, <2>8, <2>10
<1> QED BY <1>3, <1>4

(* A corridor gets its type or its normal open point.                      *)
LEMMA OtherField ==
    ASSUME CorridorShapes, NEW i \in 1..Len(corridors), NEW x,
           \/ corridors' = [corridors EXCEPT ![i].type = x]
           \/ corridors' = [corridors EXCEPT ![i].nop = x]
    PROVE  CorridorShapes' /\ SegmentsSame
<1>1. PICK c : c = corridors[i]
  OBVIOUS
<1>2. CorridorShape(c)
  BY <1>1 DEF CorridorShapes
<1>3. PICK d : /\ corridors' = [corridors EXCEPT ![i] = d]
               /\ d = [c EXCEPT !.type = x] \/ d = [c EXCEPT !.nop = x]
  <2>1. CASE corridors' = [corridors EXCEPT ![i].type = x]
    <3>1. corridors' = [corridors EXCEPT ![i] = [c EXCEPT !.type = x]]
      BY <1>1, <2>1
    <3> QED BY <3>1
  <2>2. CASE corridors' = [corridors EXCEPT ![i].nop = x]
    <3>1. corridors' = [corridors EXCEPT ![i] = [c EXCEPT !.nop = x]]
      BY <1>1, <2>2
    <3> QED BY <3>1
  <2> QED BY <2>1, <2>2
<1>4. CorridorShape(d) /\ d.segments = c.segments /\ d.ref = c.ref
  <2>1. CASE d = [c EXCEPT !.type = x]
    BY <1>2, <2>1, CorridorWith
  <2>2. CASE d = [c EXCEPT !.nop = x]
    BY <1>2, <2>2, CorridorWith
  <2> QED BY <1>3, <2>1, <2>2
<1>5. CorridorShapes' /\ SegmentsAt(i, d.segments)
  BY <1>1, <1>3, <1>4, CorridorEdited
<1>6. SegmentsSame
  BY <1>1, <1>4, <1>5, SameSegments
<1> QED BY <1>5, <1>6

LEMMA LabelledCorridors ==
    ASSUME CorridorShapes, Ringed \/ Opened \/ CorridorSet
    PROVE  CorridorShapes' /\ SegmentsSame
<1>1. CASE corridors' = corridors
  BY <1>1 DEF CorridorShapes, SegmentsSame
<1>2. ASSUME corridors # << >>,
             corridors' = [corridors EXCEPT ![1].type = "ring"]
      PROVE  CorridorShapes' /\ SegmentsSame
  <2>1. corridors \in Seq(ToSet(corridors))
    BY DEF CorridorShapes, Listing
  <2>2. 1 \in 1..Len(corridors)
    BY <1>2, <2>1
  <2> QED BY <1>2, <2>2, OtherField
<1>3. CASE Ringed
  BY <1>1, <1>2, <1>3 DEF Ringed, ConnectRing
<1>4. ASSUME NEW ref, NEW x, CorridorIndex(ref) # 0,
             \/ corridors' = [corridors EXCEPT ![CorridorIndex(ref)].type = x]
             \/ corridors' = [corridors EXCEPT ![CorridorIndex(ref)].nop = x]
      PROVE  CorridorShapes' /\ SegmentsSame
  <2>1. PICK i : i = CorridorIndex(ref)
    OBVIOUS
  <2>2. i \in 1..Len(corridors)
    BY <1>4, <2>1, IndexIs DEF FirstOf
  <2> QED BY <1>4, <2>1, <2>2, OtherField
<1>5. CASE Opened
  BY <1>1, <1>4, <1>5 DEF Opened, SetNormalOpenPoint
<1>6. CASE CorridorSet
  <2>1. PICK ref, x :
            /\ ref \in RefsIn(corridors)
            /\ \/ corridors' =
                        [corridors EXCEPT ![CorridorIndex(ref)].type = x]
               \/ corridors' =
                        [corridors EXCEPT ![CorridorIndex(ref)].nop = x]
    BY <1>6 DEF CorridorSet, SetCorridorType, SetNoPoint
  <2>2. CorridorIndex(ref) # 0
    BY <2>1, IndexIs
  <2> QED BY <1>4, <2>1, <2>2
<1> QED BY <1>3, <1>5, <1>6

(* An update writes a list of segments.                                    *)
LEMMA ResegmentedCorridors ==
    ASSUME CorridorShapes, Resegmented
    PROVE  /\ CorridorShapes'
           /\ \E i, segs : SegmentsAt(i, segs)
<1>1. PICK ref, segs : /\ segs \in Lists(BranchRefs)
                       /\ RewriteSegments(ref, segs)
  BY DEF Resegmented
<1>2. PICK i : i = CorridorIndex(ref)
  OBVIOUS
<1>3. /\ i \in 1..Len(corridors)
      /\ corridors' = [corridors EXCEPT ![i].segments = segs]
  <2>1. i # 0
    BY <1>1, <1>2, IndexIs DEF RewriteSegments
  <2> QED BY <1>1, <1>2, <2>1, IndexIs DEF FirstOf, RewriteSegments
<1>4. Listing(segs)
  <2>1. PICK n \in 0..MaxListed : segs \in [1..n -> BranchRefs]
    BY <1>1 DEF Lists
  <2>2. MaxListed \in Nat
    BY TopologyAssumption
  <2>3. n \in Nat
    BY <2>1, <2>2
  <2>4. PICK R : R = BranchRefs
    OBVIOUS
  <2>5. segs \in Seq(R)
    BY <2>1, <2>3, <2>4
  <2> QED BY <2>5, ListingIs
<1>5. PICK c : c = corridors[i]
  OBVIOUS
<1>6. PICK d : d = [c EXCEPT !.segments = segs]
  OBVIOUS
<1>7. CorridorShape(d) /\ d.ref = c.ref
  <2>1. CorridorShape(c)
    BY <1>3, <1>5 DEF CorridorShapes
  <2> QED BY <1>4, <1>6, <2>1, CorridorWith
<1>8. corridors' = [corridors EXCEPT ![i] = d]
  BY <1>3, <1>5, <1>6
<1>9. CorridorShapes' /\ SegmentsAt(i, d.segments)
  BY <1>3, <1>5, <1>7, <1>8, CorridorEdited
<1> QED BY <1>9

(* A deletion takes a corridor, and segments out of the others.            *)
CorridorsLeft(dead) ==
    \E m \in Nat : \A i \in 1..Len(corridors') :
        LET j == IF i < m THEN i ELSE i + 1
        IN  /\ j \in 1..Len(corridors)
            /\ corridors'[i].ref = corridors[j].ref
            /\ corridors'[i].segments = Minus(corridors[j].segments, dead)
LEMMA DeletedCorridors ==
    ASSUME CorridorShapes, NEW ref, DeleteElement(ref)
    PROVE  CorridorShapes' /\ CorridorsLeft(DeadBranches(ref))
<1>1. PICK dead : dead = DeadBranches(ref)
  OBVIOUS
<1>2. PICK t : t = WithoutRef(corridors, ref)
  OBVIOUS
<1>3. PICK T : T = ToSet(corridors)
  OBVIOUS
<1>4. corridors \in Seq(T)
  BY <1>3 DEF CorridorShapes, Listing
<1>5. /\ t \in Seq(T)
      /\ \E m \in Nat : \A i \in DOMAIN t :
            LET j == IF i < m THEN i ELSE i + 1
            IN  j \in DOMAIN corridors /\ t[i] = corridors[j]
  BY <1>2, <1>4, WithoutRefOK
<1>6. PICK m \in Nat : \A i \in DOMAIN t :
          LET j == IF i < m THEN i ELSE i + 1
          IN  j \in DOMAIN corridors /\ t[i] = corridors[j]
  BY <1>5
<1>7. /\ DOMAIN t = 1..Len(t) /\ Len(t) \in Nat
      /\ DOMAIN corridors = 1..Len(corridors)
  BY <1>4, <1>5
<1>8. PICK u : u = corridors'
  OBVIOUS
<1>9. u = [i \in 1..Len(t) |-> CleanCorridor(t[i], dead)]
  BY <1>1, <1>2, <1>7, <1>8 DEF DeleteElement
<1>10. /\ Listing(u) /\ Len(u) = Len(t)
       /\ \A i \in 1..Len(t) : u[i] = CleanCorridor(t[i], dead)
  <2> DEFINE D(i) == CleanCorridor(t[i], dead)
  <2> HIDE DEF D
  <2>1. u = [i \in 1..Len(t) |-> D(i)]
    BY <1>9 DEF D
  <2>2. PICK A : A = {D(i) : i \in 1..Len(t)}
    OBVIOUS
  <2>3. u \in Seq(A) /\ Len(u) = Len(t) /\ \A i \in 1..Len(t) : u[i] = D(i)
    BY <1>7, <2>1, <2>2
  <2> QED BY <2>3, ListingIs DEF D
<1>11. ASSUME NEW c, CorridorShape(c)
       PROVE  /\ CorridorShape(CleanCorridor(c, dead))
              /\ CleanCorridor(c, dead).ref = c.ref
              /\ CleanCorridor(c, dead).segments = Minus(c.segments, dead)
  <2>1. PICK segs : segs = Minus(c.segments, dead)
    OBVIOUS
  <2>2. Listing(segs)
    <3>1. c.segments \in Seq(ToSet(c.segments))
      BY <1>11 DEF CorridorShape, Listing
    <3>2. segs \in Seq(ToSet(c.segments))
      BY <2>1, <3>1, MinusDiffer
    <3> QED BY <3>2, ListingIs
  <2>3. PICK nop : nop = IF c.nop \in dead THEN NoRef ELSE c.nop
    OBVIOUS
  <2>4. PICK e : e = CleanCorridor(c, dead)
    OBVIOUS
  <2>5. e = [c EXCEPT !.segments = segs, !.nop = nop]
    BY <2>1, <2>3, <2>4 DEF CleanCorridor
  <2>6. e = [ref |-> c.ref, type |-> c.type, segments |-> segs, nop |-> nop]
    BY <1>11, <2>5 DEF CorridorShape
  <2> QED BY <1>11, <2>1, <2>2, <2>4, <2>6 DEF CorridorShape
<1>12. ASSUME NEW i \in 1..Len(t)
       PROVE  LET j == IF i < m THEN i ELSE i + 1
              IN  /\ j \in 1..Len(corridors)
                  /\ CorridorShape(u[i])
                  /\ u[i].ref = corridors[j].ref
                  /\ u[i].segments = Minus(corridors[j].segments, dead)
  <2>1. PICK j : j = IF i < m THEN i ELSE i + 1
    OBVIOUS
  <2>2. j \in 1..Len(corridors) /\ t[i] = corridors[j]
    BY <1>6, <1>7, <2>1
  <2>3. CorridorShape(t[i])
    BY <2>2 DEF CorridorShapes
  <2>4. /\ CorridorShape(u[i]) /\ u[i].ref = corridors[j].ref
        /\ u[i].segments = Minus(corridors[j].segments, dead)
    BY <1>10, <1>11, <2>2, <2>3
  <2> QED BY <2>1, <2>2, <2>4
<1>13. CorridorShapes'
  BY <1>8, <1>10, <1>12 DEF CorridorShapes
<1>14. CorridorsLeft(dead)
  BY <1>8, <1>10, <1>12 DEF CorridorsLeft
<1> QED BY <1>1, <1>13, <1>14

(* A split puts the halves where the segment is listed.                    *)
LEMMA SplitCorridors ==
    ASSUME CorridorShapes, NEW b, NEW at, NEW halves, NEW more,
           NEW c \in 0..Len(corridors), SplitAt(b, at, halves, more, c)
    PROVE  /\ CorridorShapes'
           /\ Parted(c, b, <<Half(halves.left, b), Half(halves.right, b)>>)
<1>1. PICK parts : parts = <<Half(halves.left, b), Half(halves.right, b)>>
  OBVIOUS
<1>2. Listing(parts)
  <2>1. PICK l, r : l = Half(halves.left, b) /\ r = Half(halves.right, b)
    OBVIOUS
  <2>2. PICK T : T = {l, r}
    OBVIOUS
  <2>3. parts \in Seq(T)
    BY <1>1, <2>1, <2>2
  <2> QED BY <2>3, ListingIs
<1>3. corridors' = InCorridors(c, b, parts)
  BY <1>1 DEF SplitAt
<1>4. CorridorShapes' /\ Parted(c, b, parts)
  BY <1>2, <1>3, PartedIs
<1> QED BY <1>1, <1>4

LEMMA StationedCorridors ==
    ASSUME CorridorShapes, NEW b, NEW at, NEW parts,
           InsertStation(b, at, parts)
    PROVE  /\ CorridorShapes'
           /\ Parted(NamedLister(b), b, <<Half("L", b), Half("R", b)>>)
<1>1. PICK more : SplitAt(b, at, StationHalves, more, NamedLister(b))
  BY Zenon DEF InsertStation
<1>2. NamedLister(b) \in 0..Len(corridors)
  BY ListerIs
<1>3. /\ CorridorShapes'
      /\ Parted(NamedLister(b), b,
                <<Half(StationHalves.left, b), Half(StationHalves.right, b)>>)
  BY <1>1, <1>2, SplitCorridors
<1>4. StationHalves.left = "L" /\ StationHalves.right = "R"
  BY DEF StationHalves
<1> QED BY <1>3, <1>4

LEMMA PointedCorridors ==
    ASSUME CorridorShapes, NEW b, NEW at, NEW n, InsertBranchPoint(b, at, n),
           NEW halves, halves = PointHalves(branches[b].type)
    PROVE  /\ CorridorShapes'
           /\ Parted(Lister(b), b,
                     <<Half(halves.left, b), Half(halves.right, b)>>)
<1>1. PICK more : SplitAt(b, at, halves, more, Lister(b))
  BY Zenon DEF InsertBranchPoint
<1>2. Lister(b) \in 0..Len(corridors)
  BY ListerIs
<1> QED BY <1>1, <1>2, SplitCorridors

LEMMA SwitchedCorridors ==
    ASSUME CorridorShapes, NEW b, NEW at, NEW s, InsertSectionSwitch(b, at, s)
    PROVE  /\ CorridorShapes'
           /\ Parted(NamedLister(b), b,
                     <<Half("SL", b), <<"section_switch", b, at>>,
                       Half("SR", b)>>)
<1>1. PICK parts : parts = <<Half("SL", b), <<"section_switch", b, at>>,
                             Half("SR", b)>>
  OBVIOUS
<1>2. Listing(parts)
  <2>1. PICK x, y, z : /\ x = Half("SL", b) /\ z = Half("SR", b)
                       /\ y = <<"section_switch", b, at>>
    OBVIOUS
  <2>2. PICK T : T = {x, y, z}
    OBVIOUS
  <2>3. parts \in Seq(T)
    BY <1>1, <2>1, <2>2
  <2> QED BY <2>3, ListingIs
<1>3. corridors' = InCorridors(NamedLister(b), b, parts)
  BY <1>1 DEF InsertSectionSwitch
<1>4. NamedLister(b) \in 0..Len(corridors)
  BY ListerIs
<1>5. CorridorShapes' /\ Parted(NamedLister(b), b, parts)
  BY <1>2, <1>3, <1>4, PartedIs
<1> QED BY <1>1, <1>5

LEMMA CorridorsNext ==
    ASSUME CorridorShapes, Frame
    PROVE  CorridorShapes'
<1>1. CASE UNCHANGED corridors
  BY <1>1 DEF CorridorShapes
<1>2. CASE Continued
  BY <1>2, ContinuedCorridors DEF Continued
<1>3. CASE Stationed
  BY <1>3, StationedCorridors DEF Stationed
<1>4. CASE Pointed
  BY <1>4, PointedCorridors DEF Pointed
<1>5. CASE Switched
  BY <1>5, SwitchedCorridors DEF Switched
<1>6. CASE Deleted
  BY <1>6, DeletedCorridors DEF Deleted
<1> QED BY <1>1, <1>2, <1>3, <1>4, <1>5, <1>6, SourcedCorridors,
           LabelledCorridors, ResegmentedCorridors DEF Frame

-----------------------------------------------------------------------------
(* The other collections.                                                  *)

StationShape(s) ==
    /\ s = [ref |-> s.ref, buses |-> s.buses, transformers |-> s.transformers]
    /\ s.ref[1] \in {"gpz", "station"}
StationShapes ==
    /\ Listing(substations)
    /\ \A s \in ToSet(substations) : StationShape(s)

(* A station and what is connected in it.                                  *)
Sn(r) == <<"sn_bus", r[2], r[3]>>
Nn(r) == <<"nn_bus", r[2], r[3]>>
Tr(r) == <<"transformer", r[2], r[3]>>
StationHas(s, present) ==
    \/ s.ref[1] = "gpz" /\ s.transformers = {}
    \/ /\ s.ref = <<"station", s.ref[2], s.ref[3]>>
       /\ s.buses \subseteq {Sn(s.ref), Nn(s.ref)} /\ Sn(s.ref) \in s.buses
       /\ s.transformers \subseteq {Tr(s.ref)} \cap present
       /\ s.transformers # {} => Nn(s.ref) \in s.buses
StationsHave ==
    \A s \in ToSet(substations) : StationHas(s, DOMAIN transformers)

TransformersHave ==
    /\ IsFcn(transformers)
    /\ \A t \in DOMAIN transformers :
          /\ t = <<"transformer", t[2], t[3]>>
          /\ transformers[t] = [hv |-> Sn(t), lv |-> Nn(t)]
          /\ Sn(t) \in Buses /\ Nn(t) \in Buses

BayShapes ==
    /\ Listing(bays)
    /\ \A f \in ToSet(bays) : f.ref[1] \in {"sn_field", "nn_main", "nn_feeder"}
BaysHave ==
    \A f \in ToSet(bays) :
        /\ f.station = <<"station", f.station[2], f.station[3]>>
        /\ f.bus \in {Sn(f.station), Nn(f.station)}

SourceShapes ==
    IsFcn(sources) /\ \A s \in DOMAIN sources : s[1] = "gpz_source"
PointShape(p) ==
    /\ p = [type |-> p.type, parent |-> p.parent, bus |-> p.bus,
            ports |-> p.ports, occupied |-> p.occupied]
    /\ IsFcn(p.occupied)
PointShapes ==
    /\ IsFcn(branchPoints)
    /\ \A p \in DOMAIN branchPoints : PointShape(branchPoints[p])
PointsHave == \A p \in DOMAIN branchPoints : branchPoints[p].bus \in Buses

(* A new station: one of the list may have its ref already.                *)
StationMade(t, station, sn, nn, trs) ==
    \E new :
        /\ new = [ref |-> station, buses |-> {sn}, transformers |-> {}]
        /\ \E s \in ToSet(substations) \cup {new} :
              /\ s.ref = station
              /\ \E d : /\ d = [ref |-> station, buses |-> s.buses \cup {nn},
                               transformers |-> s.transformers \cup trs]
                        /\ ToSet(t) \subseteq ToSet(substations)
                                            \cup {new, d}
LEMMA StationAdded ==
    ASSUME StationShapes, NEW station, station[1] = "station",
           NEW sn, NEW nn, NEW trs
    PROVE  /\ Listing(WithStation(station, sn, nn, trs))
           /\ StationMade(WithStation(station, sn, nn, trs), station, sn, nn,
                          trs)
<1>1. PICK new : new = [ref |-> station, buses |-> {sn}, transformers |-> {}]
  OBVIOUS
<1>2. PICK list : list = Append(substations, new)
  OBVIOUS
<1>3. WithOne(list, substations, new)
  BY <1>2, ListWithOne DEF StationShapes
<1>4. /\ Listing(list) /\ ToSet(list) = ToSet(substations) \cup {new}
      /\ Len(list) = Len(substations) + 1 /\ list[Len(list)] = new
  BY <1>3 DEF WithOne
<1>5. /\ Len(list) \in Nat /\ Len(substations) \in Nat
      /\ ToSet(list) = {list[i] : i \in 1..Len(list)}
  BY <1>4, ListingIs DEF Listing, StationShapes
<1> DEFINE I == {i \in 1..Len(list) : list[i].ref = station}
<1>6. PICK i : i = First(I)
  OBVIOUS
<1>7. i \in 1..Len(list) /\ list[i].ref = station
  <2>1. I \subseteq Nat /\ 0 \notin I
    BY <1>5
  <2>2. Len(list) \in I
    BY <1>1, <1>4, <1>5
  <2>3. i \in I
    <3> HIDE DEF I
    <3> QED BY <1>6, <2>1, <2>2, FirstIs
  <2> QED BY <2>3
<1>8. PICK s : s = list[i]
  OBVIOUS
<1>9. s \in ToSet(substations) \cup {new} /\ s.ref = station
  BY <1>4, <1>5, <1>7, <1>8
<1>10. PICK d : d = [ref |-> station, buses |-> s.buses \cup {nn},
                     transformers |-> s.transformers \cup trs]
  OBVIOUS
<1>11. StationShape(s)
  <2>1. StationShape(new)
    BY <1>1 DEF StationShape
  <2> QED BY <1>9, <2>1 DEF StationShapes
<1>12. d = [s EXCEPT !.buses = s.buses \cup {nn},
                     !.transformers = s.transformers \cup trs]
  <2>1. PICK u, v : u = s.buses \cup {nn} /\ v = s.transformers \cup trs
    OBVIOUS
  <2>2. PICK e : e = [s EXCEPT !.buses = u, !.transformers = v]
    OBVIOUS
  <2>3. e = [ref |-> s.ref, buses |-> u, transformers |-> v]
    BY <1>11, <2>2 DEF StationShape
  <2> QED BY <1>9, <1>10, <2>1, <2>2, <2>3
<1>13. PICK t : t = WithStation(station, sn, nn, trs)
  OBVIOUS
<1>14. t = [list EXCEPT ![i] = d]
  <2>1. t = [list EXCEPT ![i].buses = @ \cup {nn},
                         ![i].transformers = @ \cup trs]
    BY <1>1, <1>2, <1>6, <1>13 DEF WithStation, SelectInSeq, First
  <2>2. PICK n : n = Len(list)
    OBVIOUS
  <2>3. PICK A : list \in [1..n -> A]
    <3>1. PICK A : A = ToSet(list)
      OBVIOUS
    <3>2. list \in Seq(A)
      BY <1>4, <3>1 DEF Listing
    <3> QED BY <2>2, <3>2
  <2> QED BY <1>7, <1>8, <1>12, <2>1, <2>2, <2>3
<1>15. EditedAt([list EXCEPT ![i] = d], list, i, d)
  BY <1>4, <1>7, ListEdited
<1>16. Listing(t) /\ ToSet(t) \subseteq ToSet(substations) \cup {new, d}
  BY <1>4, <1>14, <1>15 DEF EditedAt
<1>17. StationMade(t, station, sn, nn, trs)
  <2>1. \E x : /\ x = [ref |-> station, buses |-> s.buses \cup {nn},
                      transformers |-> s.transformers \cup trs]
               /\ ToSet(t) \subseteq ToSet(substations) \cup {new, x}
    <3> HIDE DEF I
    <3>1. ToSet(t) \subseteq ToSet(substations) \cup {new, d}
      BY <1>16
    <3> WITNESS d
    <3> QED BY <1>10, <3>1
  <2> HIDE DEF I
  <2> QED BY <1>1, <1>9, <2>1, Zenon DEF StationMade
<1> QED BY <1>13, <1>16, <1>17

(* The buses after a split.                                                *)
LEMMA SplitBuses ==
    ASSUME LinesInv, NEW b, NEW at, NEW halves, NEW more, NewNodes(more),
           NEW c, SplitAt(b, at, halves, more, c)
    PROVE  Buses' = Buses \cup ToSet(more)
<1>1. Listing(buses)
  <2>1. PICK A : buses \in Seq(A)
    BY DEF LinesInv, LinesHave, LinesOK
  <2> QED BY <2>1, ListingIs
<1>2. Extended(buses \o more, buses, more)
  BY <1>1, ListWithMore DEF NewNodes
<1> QED BY <1>2 DEF SplitAt, Extended, Buses

LEMMA StationBuses ==
    ASSUME LinesInv, NEW b, NEW at, NEW parts, InsertStation(b, at, parts)
    PROVE  Buses' = Buses \cup {<<"sn_bus", b, at>>, <<"nn_bus", b, at>>}
<1>1. PICK x, y : x = <<"sn_bus", b, at>> /\ y = <<"nn_bus", b, at>>
  OBVIOUS
<1>2. PICK more : more = <<x, y>>
  OBVIOUS
<1>3. SplitAt(b, at, StationHalves, more, NamedLister(b))
  BY <1>1, <1>2, Zenon DEF InsertStation
<1>4. NewNodes(more)
  BY <1>1, <1>2, StationNodes
<1>5. ToSet(more) = {x, y}
  BY <1>2 DEF ToSet
<1> QED BY <1>1, <1>3, <1>4, <1>5, SplitBuses

(* Transformers.                                                           *)
LEMMA TransformersNext ==
    ASSUME TransformersHave, LinesInv, Frame, Deleted \/ Buses \subseteq Buses'
    PROVE  /\ TransformersHave'
           /\ Deleted \/ DOMAIN transformers \subseteq DOMAIN transformers'
<1>1. ASSUME NEW ref, DeleteElement(ref) PROVE TransformersHave'
  <2>1. transformers' = Without(transformers, DeadTransformers(ref))
    BY <1>1 DEF DeleteElement
  <2>2. PICK w : w = Without(transformers, DeadTransformers(ref))
    OBVIOUS
  <2>3. /\ IsFcn(w) /\ DOMAIN w = DOMAIN transformers \ DeadTransformers(ref)
        /\ \A t \in DOMAIN w : w[t] = transformers[t]
    BY <2>2 DEF Without, Restrict, IsFcn
  <2>4. Buses' = Buses \ {ref}
    BY <1>1, DeletedLines
  <2>5. \A t \in DOMAIN w : Sn(t) # ref /\ Nn(t) # ref
    BY <2>3 DEF DeadTransformers, TransformersHave
  <2> QED BY <2>1, <2>2, <2>3, <2>4, <2>5 DEF TransformersHave
<1>2. CASE UNCHANGED transformers /\ Buses \subseteq Buses'
  BY <1>2 DEF TransformersHave
<1>3. ASSUME NEW b, NEW at, NEW parts, InsertStation(b, at, parts)
      PROVE  /\ TransformersHave'
             /\ DOMAIN transformers \subseteq DOMAIN transformers'
  <2>1. PICK sn, nn, tr : /\ sn = <<"sn_bus", b, at>>
                          /\ nn = <<"nn_bus", b, at>>
                          /\ tr = <<"transformer", b, at>>
    OBVIOUS
  <2>2. PICK trs : /\ trs = IF "transformer" \in parts THEN {tr} ELSE {}
    OBVIOUS
  <2>3. PICK e : e = [t \in trs |-> [hv |-> sn, lv |-> nn]]
    OBVIOUS
  <2>4. transformers' = Added(e, transformers)
    BY <1>3, <2>1, <2>2, <2>3 DEF InsertStation
  <2>5. Merged(transformers', e, transformers)
    BY <2>4, AddedOK
  <2>6. Buses' = Buses \cup {sn, nn}
    BY <1>3, <2>1, StationBuses
  <2>7. ASSUME NEW t \in trs
        PROVE  /\ t = <<"transformer", t[2], t[3]>>
               /\ transformers'[t] = [hv |-> Sn(t), lv |-> Nn(t)]
               /\ Sn(t) \in Buses' /\ Nn(t) \in Buses'
    <3>1. t = tr /\ t \in DOMAIN e /\ e[t] = [hv |-> sn, lv |-> nn]
      BY <2>2, <2>3
    <3>2. t = <<"transformer", t[2], t[3]>> /\ Sn(t) = sn /\ Nn(t) = nn
      BY <2>1, <3>1 DEF Sn, Nn
    <3>3. transformers'[t] = [hv |-> sn, lv |-> nn]
      BY <2>5, <3>1 DEF Merged
    <3> QED BY <2>6, <3>2, <3>3
  <2>8. /\ IsFcn(transformers')
        /\ DOMAIN transformers' = trs \cup DOMAIN transformers
        /\ \A t \in DOMAIN transformers :
              t \notin trs => transformers'[t] = transformers[t]
    BY <2>3, <2>5 DEF Merged
  <2> QED BY <2>6, <2>7, <2>8 DEF TransformersHave
<1> QED BY <1>1, <1>2, <1>3 DEF Frame, Stationed, Deleted

(* Grid sources.                                                           *)
SourcesHave == SourceShapes /\ (Unwritten("sources") => SourcesConnected)
LEMMA SourcesNext ==
    ASSUME SourcesHave, LinesInv, Frame, Deleted \/ Buses \subseteq Buses'
    PROVE  SourcesHave'
<1>1. ASSUME NEW ref, DeleteElement(ref) PROVE SourcesHave'
  <2>1. /\ sources' = Without(sources, DeadSources(ref))
        /\ rewritten' = rewritten
    BY <1>1 DEF DeleteElement, Changed
  <2>2. PICK w : w = Without(sources, DeadSources(ref))
    OBVIOUS
  <2>3. /\ IsFcn(w) /\ DOMAIN w = DOMAIN sources \ DeadSources(ref)
        /\ \A s \in DOMAIN w : w[s] = sources[s]
    BY <2>2 DEF Without, Restrict, IsFcn
  <2>4. Buses' = Buses \ {ref}
    BY <1>1, DeletedLines
  <2>5. ASSUME Unwritten("sources"), NEW s \in DOMAIN w
        PROVE  sources[s] \in Buses \ {ref}
    BY <2>3, <2>5 DEF DeadSources, SourcesHave, SourcesConnected
  <2>6. SourceShapes'
    BY <2>1, <2>2, <2>3 DEF SourcesHave, SourceShapes
  <2> QED BY <2>1, <2>2, <2>3, <2>4, <2>5, <2>6
          DEF SourcesHave, SourcesConnected, Unwritten
<1>2. CASE UNCHANGED sources /\ Buses \subseteq Buses'
  BY <1>2 DEF SourcesHave, SourceShapes, SourcesConnected, Unwritten, Frame
<1>3. ASSUME NEW v, AddGridSource(v) PROVE SourcesHave'
  <2>1. PICK bus, source :
            bus = <<"gpz_bus", v>> /\ source = <<"gpz_source", v>>
    OBVIOUS
  <2>2. sources' = Entry(source, bus) /\ buses' = Append(buses, bus)
    BY <1>3, <2>1 DEF AddGridSource
  <2>3. /\ IsFcn(sources') /\ DOMAIN sources' = {source}
        /\ sources'[source] = bus
    BY <2>2 DEF Entry, IsFcn
  <2>4. bus \in Buses'
    <3>1. Listing(buses)
      <4>1. PICK A : buses \in Seq(A)
        BY DEF LinesInv, LinesHave, LinesOK
      <4> QED BY <4>1, ListingIs
    <3>2. WithOne(Append(buses, bus), buses, bus)
      BY <3>1, ListWithOne
    <3> QED BY <2>2, <3>2 DEF WithOne, Buses
  <2>5. SourceShapes'
    BY <2>1, <2>3 DEF SourceShapes
  <2> QED BY <2>3, <2>4, <2>5 DEF SourcesHave, SourcesConnected
<1>4. CASE Resourced
  <2>1. PICK s, bus : RewriteSource(s, bus)
    BY <1>4 DEF Resourced
  <2>2. s \in DOMAIN sources /\ sources' = [sources EXCEPT ![s] = bus]
    BY <2>1 DEF RewriteSource
  <2>3. SourceShapes'
    <3>1. PICK w : w = [sources EXCEPT ![s] = bus]
      OBVIOUS
    <3>2. IsFcn(w) /\ DOMAIN w = DOMAIN sources
      BY <3>1 DEF IsFcn
    <3> QED BY <2>2, <3>1, <3>2 DEF SourcesHave, SourceShapes
  <2>4. ~ Unwritten("sources")'
    BY <1>4 DEF Frame, Unwritten
  <2> QED BY <2>3, <2>4 DEF SourcesHave
<1> QED BY <1>1, <1>2, <1>3, <1>4 DEF Frame, Sourced, Deleted

(* Bays.                                                                   *)
BaysOK == BayShapes /\ (Unwritten("bays") => BaysHave)
LEMMA BaysNext ==
    ASSUME BaysOK, Frame
    PROVE  BaysOK'
<1>1. ASSUME NEW ref, DeleteElement(ref) PROVE BaysOK'
  <2>1. PICK S : bays' = Minus(WithoutRef(bays, ref), S)
    BY <1>1, Zenon DEF DeleteElement
  <2>2. Trimmed(Minus(WithoutRef(bays, ref), S), bays, S)
    BY ListWithout DEF BaysOK, BayShapes
  <2>3. Listing(bays') /\ ToSet(bays') \subseteq ToSet(bays)
    BY <2>1, <2>2 DEF Trimmed
  <2>4. rewritten' = rewritten
    BY <1>1 DEF DeleteElement, Changed
  <2> QED BY <2>3, <2>4 DEF BaysOK, BayShapes, BaysHave, Unwritten
<1>2. CASE UNCHANGED bays
  BY <1>2 DEF BaysOK, BayShapes, BaysHave, Unwritten, Frame
<1>3. ASSUME NEW b, NEW at, NEW parts, InsertStation(b, at, parts)
      PROVE  BaysOK'
  <2>1. PICK sn, nn, station : /\ sn = <<"sn_bus", b, at>>
                               /\ nn = <<"nn_bus", b, at>>
                               /\ station = <<"station", b, at>>
    OBVIOUS
  <2>2. PICK x, y, z : /\ x = Bay("sn_field", station, sn, "FEEDER")
                       /\ y = Bay("nn_main", station, nn, "IN")
                       /\ z = Bay("nn_feeder", station, nn, "FEEDER")
    OBVIOUS
  <2>3. PICK p, q, r : /\ p = IF "field" \in parts THEN <<x>> ELSE << >>
                       /\ q = <<y>>
                       /\ r = IF "feeder" \in parts THEN <<z>> ELSE << >>
    OBVIOUS
  <2>4. bays' = bays \o p \o q \o r /\ rewritten' = rewritten
    BY <1>3, <2>1, <2>2, <2>3
       DEF InsertStation, SplitAt, Changed
  <2>5. ASSUME NEW e
        PROVE  /\ Listing(<<e>>) /\ ToSet(<<e>>) = {e}
               /\ Listing(<< >>) /\ ToSet(<< >>) = {}
    <3>1. <<e>> \in Seq({e}) /\ << >> \in Seq({e})
      OBVIOUS
    <3>2. ToSet(<<e>>) = {e} /\ ToSet(<< >>) = {}
      BY DEF ToSet
    <3>3. Listing(<<e>>)
      BY <3>1, ListingIs
    <3>4. Listing(<< >>)
      BY <3>1, ListingIs
    <3> QED BY <3>2, <3>3, <3>4
  <2>6. /\ Listing(p) /\ ToSet(p) \subseteq {x}
        /\ Listing(q) /\ ToSet(q) \subseteq {y}
        /\ Listing(r) /\ ToSet(r) \subseteq {z}
    BY <2>3, <2>5
  <2>7. Extended(bays \o p, bays, p)
    BY <2>6, ListWithMore DEF BaysOK, BayShapes
  <2>8. PICK s : s = bays \o p
    OBVIOUS
  <2>9. Extended(s \o q, s, q)
    BY <2>6, <2>7, <2>8, ListWithMore DEF Extended
  <2>10. PICK t : t = s \o q
    OBVIOUS
  <2>11. Extended(t \o r, t, r)
    BY <2>6, <2>9, <2>10, ListWithMore DEF Extended
  <2>12. Listing(bays') /\ ToSet(bays') \subseteq ToSet(bays) \cup {x, y, z}
    BY <2>4, <2>6, <2>7, <2>8, <2>9, <2>10, <2>11 DEF Extended
  <2>13. ASSUME NEW f \in {x, y, z}
         PROVE  /\ f.ref[1] \in {"sn_field", "nn_main", "nn_feeder"}
                /\ f.station = <<"station", f.station[2], f.station[3]>>
                /\ f.bus \in {Sn(f.station), Nn(f.station)}
    <3>1. /\ f.ref[1] \in {"sn_field", "nn_main", "nn_feeder"}
          /\ f.station = station /\ f.bus \in {sn, nn}
      BY <2>2 DEF Bay
    <3>2. Sn(station) = sn /\ Nn(station) = nn
          /\ station = <<"station", station[2], station[3]>>
      BY <2>1 DEF Sn, Nn
    <3> QED BY <3>1, <3>2
  <2> QED BY <2>4, <2>12, <2>13 DEF BaysOK, BayShapes, BaysHave, Unwritten
<1>4. CASE Rebayed
  <2>1. PICK ref, station, bus, role : RewriteBay(ref, station, bus, role)
    BY <1>4 DEF Rebayed
  <2> DEFINE I == {i \in 1..Len(bays) : bays[i].ref = ref}
  <2>2. PICK i : i = First(I)
    OBVIOUS
  <2>3. PICK d : d = [ref |-> ref, station |-> station, bus |-> bus,
                      role |-> role]
    OBVIOUS
  <2>4. i # 0 /\ bays' = [bays EXCEPT ![i] = d]
    BY <2>1, <2>2, <2>3 DEF RewriteBay, SelectInSeq, First
  <2>5. i \in 1..Len(bays) /\ bays[i].ref = ref
    <3>1. I \subseteq Nat /\ 0 \notin I
      BY ListingIs DEF BaysOK, BayShapes, Listing
    <3>2. i \in I
      <4> HIDE DEF I
      <4> QED BY <2>2, <2>4, <3>1, FirstIs
    <3> QED BY <3>2
  <2>6. ref[1] \in {"sn_field", "nn_main", "nn_feeder"}
    BY <2>5, ListingIs DEF BaysOK, BayShapes, Listing
  <2>7. EditedAt([bays EXCEPT ![i] = d], bays, i, d)
    BY <2>5, ListEdited DEF BaysOK, BayShapes
  <2>8. Listing(bays') /\ ToSet(bays') \subseteq ToSet(bays) \cup {d}
    BY <2>4, <2>7 DEF EditedAt
  <2>9. BayShapes'
    BY <2>3, <2>6, <2>8 DEF BaysOK, BayShapes
  <2>10. ~ Unwritten("bays")'
    BY <1>4 DEF Frame, Unwritten
  <2> QED BY <2>9, <2>10 DEF BaysOK
<1> QED BY <1>1, <1>2, <1>3, <1>4 DEF Frame, Stationed, Deleted

(* Substations.                                                            *)
StationsOK ==
    StationShapes /\ (Unwritten("substations") => StationsHave)
LEMMA StationStays ==
    ASSUME NEW s, NEW present, StationHas(s, present), NEW now,
           s.transformers \cap present \subseteq now
    PROVE  StationHas(s, now)
BY DEF StationHas

LEMMA StationsNext ==
    ASSUME StationsOK, Frame,
           Deleted \/ DOMAIN transformers \subseteq DOMAIN transformers'
    PROVE  StationsOK'
<1>1. ASSUME NEW ref, DeleteElement(ref) PROVE StationsOK'
  <2>1. PICK S :
            /\ S = {s \in ToSet(substations) : s.ref \in DeadStations(ref)}
            /\ substations' = Minus(WithoutRef(substations, ref), S)
    BY <1>1, Zenon DEF DeleteElement
  <2>2. Trimmed(Minus(WithoutRef(substations, ref), S), substations, S)
    BY ListWithout DEF StationsOK, StationShapes
  <2>3. /\ Listing(substations')
        /\ ToSet(substations') \subseteq ToSet(substations) \ S
    BY <2>1, <2>2 DEF Trimmed
  <2>4. /\ rewritten' = rewritten
        /\ transformers' = Without(transformers, DeadTransformers(ref))
    BY <1>1 DEF DeleteElement, Changed
  <2>5. DOMAIN transformers' = DOMAIN transformers \ DeadTransformers(ref)
    <3>1. PICK w : w = Without(transformers, DeadTransformers(ref))
      OBVIOUS
    <3>2. DOMAIN w = DOMAIN transformers \ DeadTransformers(ref)
      BY <3>1 DEF Without, Restrict
    <3> QED BY <2>4, <3>1, <3>2
  <2>6. ASSUME NEW s \in ToSet(substations'),
               StationHas(s, DOMAIN transformers)
        PROVE  StationHas(s, DOMAIN transformers')
    <3>1. s \in ToSet(substations) /\ s.ref \notin DeadStations(ref)
      BY <2>1, <2>3
    <3>2. s.transformers \cap DeadTransformers(ref) = {}
      BY <3>1 DEF DeadStations, ToSet
    <3>3. s.transformers \cap DOMAIN transformers
              \subseteq DOMAIN transformers'
      BY <2>5, <3>2
    <3> QED BY <2>6, <3>3, StationStays
  <2> QED BY <2>3, <2>4, <2>6
          DEF StationsOK, StationShapes, StationsHave, Unwritten
<1>2. CASE /\ UNCHANGED substations
           /\ DOMAIN transformers \subseteq DOMAIN transformers'
  <2>1. Unwritten("substations")' => Unwritten("substations")
    BY DEF Frame, Unwritten
  <2> QED BY <1>2, <2>1, StationStays
          DEF StationsOK, StationShapes, StationsHave
<1>3. ASSUME NEW v, AddGridSource(v),
             DOMAIN transformers \subseteq DOMAIN transformers'
      PROVE  StationsOK'
  <2>1. PICK d : d = [ref |-> <<"gpz", v>>, buses |-> {<<"gpz_bus", v>>},
                      transformers |-> {}]
    OBVIOUS
  <2>2. substations' = Append(substations, d) /\ rewritten' = rewritten
    BY <1>3, <2>1 DEF AddGridSource, Changed
  <2>3. WithOne(Append(substations, d), substations, d)
    BY ListWithOne DEF StationsOK, StationShapes
  <2>4. /\ Listing(substations')
        /\ ToSet(substations') = ToSet(substations) \cup {d}
    BY <2>2, <2>3 DEF WithOne
  <2>5. StationShape(d) /\ StationHas(d, DOMAIN transformers')
    BY <2>1 DEF StationShape, StationHas
  <2>6. ASSUME NEW s \in ToSet(substations), StationHas(s, DOMAIN transformers)
        PROVE  StationHas(s, DOMAIN transformers')
    BY <1>3, <2>6, StationStays
  <2> QED BY <2>2, <2>4, <2>5, <2>6
          DEF StationsOK, StationShapes, StationsHave, Unwritten
<1>4. ASSUME NEW b, NEW at, NEW parts, InsertStation(b, at, parts),
             DOMAIN transformers \subseteq DOMAIN transformers'
      PROVE  StationsOK'
  <2>1. PICK sn, nn, tr, station : /\ sn = <<"sn_bus", b, at>>
                                   /\ nn = <<"nn_bus", b, at>>
                                   /\ tr = <<"transformer", b, at>>
                                   /\ station = <<"station", b, at>>
    OBVIOUS
  <2>2. PICK trs : /\ trs = IF "transformer" \in parts THEN {tr} ELSE {}
    OBVIOUS
  <2>3. /\ substations' = WithStation(station, sn, nn, trs)
        /\ transformers' = Added([t \in trs |-> [hv |-> sn, lv |-> nn]],
                                 transformers)
        /\ rewritten' = rewritten
    BY <1>4, <2>1, <2>2 DEF InsertStation, SplitAt, Changed
  <2>4. trs \subseteq DOMAIN transformers'
    BY <2>3 DEF Added
  <2>5. /\ station[1] = "station"
        /\ station = <<"station", station[2], station[3]>>
        /\ Sn(station) = sn /\ Nn(station) = nn /\ Tr(station) = tr
    BY <2>1 DEF Sn, Nn, Tr
  <2>6. /\ Listing(substations')
        /\ StationMade(substations', station, sn, nn, trs)
    BY <2>3, <2>5, StationAdded DEF StationsOK
  <2>7. PICK new : /\ new = [ref |-> station, buses |-> {sn},
                             transformers |-> {}]
                   /\ \E s \in ToSet(substations) \cup {new} :
                         /\ s.ref = station
                         /\ \E d : /\ d = [ref |-> station,
                                           buses |-> s.buses \cup {nn},
                                           transformers |->
                                               s.transformers \cup trs]
                                   /\ ToSet(substations') \subseteq
                                         ToSet(substations) \cup {new, d}
    BY <2>6 DEF StationMade
  <2>8. PICK s \in ToSet(substations) \cup {new} :
             /\ s.ref = station
             /\ \E d : /\ d = [ref |-> station, buses |-> s.buses \cup {nn},
                               transformers |-> s.transformers \cup trs]
                       /\ ToSet(substations') \subseteq
                             ToSet(substations) \cup {new, d}
    BY <2>7
  <2>9. PICK d : /\ d = [ref |-> station, buses |-> s.buses \cup {nn},
                         transformers |-> s.transformers \cup trs]
                 /\ ToSet(substations') \subseteq
                       ToSet(substations) \cup {new, d}
    BY <2>8
  <2>10. StationShape(new) /\ StationShape(d)
    BY <2>5, <2>7, <2>9 DEF StationShape
  <2>11. StationShapes'
    BY <2>6, <2>9, <2>10 DEF StationsOK, StationShapes
  <2>12. StationHas(new, DOMAIN transformers)
    BY <2>5, <2>7 DEF StationHas
  <2>13. ASSUME StationsHave
         PROVE  \A x \in ToSet(substations') :
                    StationHas(x, DOMAIN transformers')
    <3>1. \A x \in ToSet(substations) \cup {new} :
             StationHas(x, DOMAIN transformers')
      BY <1>4, <2>12, <2>13, StationStays DEF StationsHave
    <3>2. StationHas(s, DOMAIN transformers')
      BY <2>8, <3>1
    <3>3. /\ s.buses \subseteq {sn, nn} /\ sn \in s.buses
          /\ s.transformers \subseteq {tr} \cap DOMAIN transformers'
      BY <2>5, <2>8, <3>2 DEF StationHas
    <3>4. /\ d.ref = station /\ d.buses = s.buses \cup {nn}
          /\ d.transformers = s.transformers \cup trs
      BY <2>9
    <3>5. trs \subseteq {tr}
      BY <2>2
    <3>6. StationHas(d, DOMAIN transformers')
      BY <2>4, <2>5, <3>3, <3>4, <3>5 DEF StationHas
    <3> QED BY <2>9, <3>1, <3>6
  <2> QED BY <2>3, <2>11, <2>13 DEF StationsOK, StationsHave, Unwritten
<1>5. CASE Rerouted
  <2>1. ~ Unwritten("substations")'
    BY <1>5 DEF Frame, Unwritten
  <2> DEFINE I(ref) == {i \in 1..Len(substations) : substations[i].ref = ref}
  <2>2. PICK ref, refs, i :
            /\ ref \in RefsIn(substations) /\ i = First(I(ref))
            /\ \/ substations' = [substations EXCEPT ![i].buses = refs]
               \/ substations' = [substations EXCEPT ![i].transformers = refs]
    BY <1>5 DEF Rerouted, RewriteStationBuses, RewriteStationTransformers,
                StationIndex, SelectInSeq, First
  <2>3. i \in 1..Len(substations)
    <3>0. DOMAIN substations = 1..Len(substations) /\ Len(substations) \in Nat
      BY ListingIs DEF StationsOK, StationShapes, Listing
    <3>1. I(ref) \subseteq Nat /\ 0 \notin I(ref)
      BY <3>0
    <3>2. I(ref) # {}
      BY <2>2, <3>0 DEF RefsIn
    <3>3. i \in I(ref)
      <4> HIDE DEF I
      <4> QED BY <2>2, <3>1, <3>2, FirstIs
    <3> QED BY <3>3
  <2>4. PICK s : s = substations[i]
    OBVIOUS
  <2>5. StationShape(s)
    BY <2>3, <2>4, ListingIs DEF StationsOK, StationShapes, Listing
  <2>6. PICK d : /\ substations' = [substations EXCEPT ![i] = d]
                 /\ StationShape(d)
    <3>1. CASE substations' = [substations EXCEPT ![i].buses = refs]
      <4>1. PICK d : d = [s EXCEPT !.buses = refs]
        OBVIOUS
      <4>2. StationShape(d)
        BY <2>5, <4>1 DEF StationShape
      <4> QED BY <2>4, <3>1, <4>1, <4>2
    <3>2. CASE substations' = [substations EXCEPT ![i].transformers = refs]
      <4>1. PICK d : d = [s EXCEPT !.transformers = refs]
        OBVIOUS
      <4>2. StationShape(d)
        BY <2>5, <4>1 DEF StationShape
      <4> QED BY <2>4, <3>2, <4>1, <4>2
    <3> QED BY <2>2, <3>1, <3>2
  <2>7. EditedAt([substations EXCEPT ![i] = d], substations, i, d)
    BY <2>3, ListEdited DEF StationsOK, StationShapes
  <2>8. StationShapes'
    BY <2>6, <2>7 DEF EditedAt, StationsOK, StationShapes
  <2> QED BY <2>1, <2>8 DEF StationsOK
<1> QED BY <1>1, <1>2, <1>3, <1>4, <1>5
        DEF Frame, Sourced, Stationed, Deleted, Rerouted

(* Branch points.                                                          *)
PointsOK == PointShapes /\ PointsHave

(* One branch point is edited.                                             *)
PointEdited(p, d) ==
    /\ DOMAIN branchPoints' = DOMAIN branchPoints
    /\ branchPoints'[p] = d
    /\ \A q \in DOMAIN branchPoints :
          q # p => branchPoints'[q] = branchPoints[q]
LEMMA EditedPoint ==
    ASSUME PointsOK, NEW p \in DOMAIN branchPoints,
           NEW d, PointShape(d), d.bus = branchPoints[p].bus,
           branchPoints' = [branchPoints EXCEPT ![p] = d],
           Buses \subseteq Buses'
    PROVE  PointsOK' /\ PointEdited(p, d)
<1>1. PICK w : w = [branchPoints EXCEPT ![p] = d]
  OBVIOUS
<1>2. /\ IsFcn(w) /\ DOMAIN w = DOMAIN branchPoints /\ w[p] = d
      /\ \A q \in DOMAIN branchPoints : q # p => w[q] = branchPoints[q]
  BY <1>1, ChangedAt DEF PointsOK, PointShapes
<1>3. PointEdited(p, d)
  BY <1>1, <1>2 DEF PointEdited
<1>4. PointsOK'
  BY <1>1, <1>2 DEF PointsOK, PointShapes, PointsHave
<1> QED BY <1>3, <1>4

LEMMA PortedPoints ==
    ASSUME PointsOK, NEW p, NEW port, NEW m, NEW n,
           StartBranchFromPort(p, port, m, n), Buses \subseteq Buses'
    PROVE  /\ PointsOK'
           /\ \E bus, d :
                 /\ NewLine(bus, <<"branch_end", bus, m, n>>,
                            <<"branch", bus, m, n>>, m)
                 /\ p \in DOMAIN branchPoints
                 /\ PointEdited(p, d)
                 /\ Merged(d.occupied, Entry(port, <<"branch", bus, m, n>>),
                           branchPoints[p].occupied)
<1>1. PICK bus, e : /\ bus = branchPoints[p].ports[port]
                    /\ e = Entry(port, <<"branch", bus, m, n>>)
  OBVIOUS
<1>2. /\ p \in DOMAIN branchPoints
      /\ NewLine(bus, <<"branch_end", bus, m, n>>, <<"branch", bus, m, n>>, m)
      /\ branchPoints' = [branchPoints EXCEPT ![p].occupied = Added(e, @)]
  BY <1>1, Zenon DEF StartBranchFromPort, StartBranch
<1>3. PICK q : q = branchPoints[p]
  OBVIOUS
<1>4. PICK f : f = Added(e, q.occupied)
  OBVIOUS
<1>5. PICK d : d = [q EXCEPT !.occupied = f]
  OBVIOUS
<1>6. branchPoints' = [branchPoints EXCEPT ![p] = d]
  BY <1>2, <1>3, <1>4, <1>5
<1>7. Merged(f, e, q.occupied)
  BY <1>4, AddedOK
<1>8. PointShape(d) /\ d.bus = q.bus /\ d.occupied = f
  <2>1. PointShape(q)
    BY <1>2, <1>3 DEF PointsOK, PointShapes
  <2>2. IsFcn(f)
    BY <1>7 DEF Merged
  <2> QED BY <1>5, <2>1, <2>2 DEF PointShape
<1>9. PointsOK' /\ PointEdited(p, d)
  BY <1>2, <1>3, <1>6, <1>8, EditedPoint
<1> QED BY <1>1, <1>2, <1>3, <1>7, <1>8, <1>9

LEMMA SetPoints ==
    ASSUME PointsOK, PointSet, Buses \subseteq Buses'
    PROVE  /\ PointsOK'
           /\ \E p \in DOMAIN branchPoints : \E d :
                 /\ PointEdited(p, d)
                 /\ \/ d.occupied = branchPoints[p].occupied
                    \/ d.occupied \in Occupations
<1>1. ASSUME NEW p, NEW ports, SetPorts(p, ports)
      PROVE  /\ PointsOK'
             /\ \E d : /\ PointEdited(p, d) /\ p \in DOMAIN branchPoints
                       /\ d.occupied = branchPoints[p].occupied
  <2>1. PICK q : q = branchPoints[p]
    OBVIOUS
  <2>2. PICK d : d = [q EXCEPT !.ports = ports]
    OBVIOUS
  <2>3. /\ p \in DOMAIN branchPoints
        /\ branchPoints' = [branchPoints EXCEPT ![p] = d]
    BY <1>1, <2>1, <2>2 DEF SetPorts
  <2>4. PointShape(d) /\ d.bus = q.bus /\ d.occupied = q.occupied
    <3>1. PointShape(q)
      BY <2>1, <2>3 DEF PointsOK, PointShapes
    <3> QED BY <2>2, <3>1 DEF PointShape
  <2>5. PointsOK' /\ PointEdited(p, d)
    BY <2>1, <2>3, <2>4, EditedPoint
  <2> QED BY <2>1, <2>3, <2>4, <2>5
<1>2. ASSUME NEW p, NEW occupied \in Occupations, SetOccupied(p, occupied)
      PROVE  /\ PointsOK'
             /\ \E d : /\ PointEdited(p, d) /\ p \in DOMAIN branchPoints
                       /\ d.occupied \in Occupations
  <2>1. PICK q : q = branchPoints[p]
    OBVIOUS
  <2>2. PICK d : d = [q EXCEPT !.occupied = occupied]
    OBVIOUS
  <2>3. /\ p \in DOMAIN branchPoints
        /\ branchPoints' = [branchPoints EXCEPT ![p] = d]
    BY <1>2, <2>1, <2>2 DEF SetOccupied
  <2>4. IsFcn(occupied)
    BY DEF Occupations, IsFcn
  <2>5. PointShape(d) /\ d.bus = q.bus /\ d.occupied = occupied
    <3>1. PointShape(q)
      BY <2>1, <2>3 DEF PointsOK, PointShapes
    <3> QED BY <2>2, <2>4, <3>1 DEF PointShape
  <2>6. PointsOK' /\ PointEdited(p, d)
    BY <2>1, <2>3, <2>5, EditedPoint
  <2> QED BY <2>3, <2>5, <2>6
<1> QED BY <1>1, <1>2 DEF PointSet

(* A new branch point.                                                     *)
LEMMA PointedPoints ==
    ASSUME PointsOK, LinesInv, NEW b, NEW at, NEW n \in Nat,
           InsertBranchPoint(b, at, n)
    PROVE  /\ PointsOK'
           /\ \E point, d : /\ d.occupied = << >>
                            /\ Merged(branchPoints', Entry(point, d),
                                      branchPoints)
<1>1. PICK type, point, bus, ports, more, d :
          /\ type = branches[b].type
          /\ point = <<"point", b, at, n>>
          /\ bus = <<"point_bus", b, at, n>>
          /\ ports = [i \in 1..n |-> <<"port_bus", b, at, n, i>>]
          /\ more = <<bus>> \o ports
          /\ d = [type |-> type, parent |-> b, bus |-> bus, ports |-> ports,
                  occupied |-> << >>]
  OBVIOUS
<1>2. /\ SplitAt(b, at, PointHalves(type), more, Lister(b))
      /\ branchPoints' = Added(Entry(point, d), branchPoints)
  BY <1>1, Zenon DEF InsertBranchPoint
<1>3. NewNodes(more) /\ bus \in ToSet(more)
  <2>1. PICK qs : qs = [i \in 1..n |-> <<"port_bus", b, at, n, i>>]
    OBVIOUS
  <2>2. PICK ms : ms = <<<<"point_bus", b, at, n>>>> \o qs
    OBVIOUS
  <2>3. NewNodes(ms)
    BY <2>1, <2>2, PointNodes
  <2>4. ms[1] = <<"point_bus", b, at, n>>
    BY <2>1, <2>2, PointNodes
  <2>5. ms[1] \in ToSet(ms)
    BY <2>3, ListingIs DEF NewNodes, Listing
  <2>6. qs = ports
    BY <1>1, <2>1
  <2>7. ms = more
    BY <1>1, <2>2, <2>6
  <2> QED BY <1>1, <2>3, <2>4, <2>5, <2>6, <2>7
<1>4. Buses' = Buses \cup ToSet(more)
  BY <1>2, <1>3, SplitBuses
<1>5. bus \in Buses' /\ Buses \subseteq Buses'
  BY <1>3, <1>4
<1>6. PointShape(d) /\ d.bus = bus /\ d.occupied = << >>
  BY <1>1 DEF PointShape, IsFcn
<1>7. PICK e : e = Entry(point, d)
  OBVIOUS
<1>8. DOMAIN e = {point} /\ e[point] = d
  BY <1>7, EntryOK
<1>9. PICK w : w = Added(e, branchPoints)
  OBVIOUS
<1>10. Merged(w, e, branchPoints)
  BY <1>9, AddedOK
<1>11. ASSUME NEW p \in DOMAIN w
       PROVE  PointShape(w[p]) /\ w[p].bus \in Buses'
  <2>1. CASE p = point
    BY <1>5, <1>6, <1>8, <1>10, <2>1 DEF Merged
  <2>2. CASE p # point
    <3>1. p \in DOMAIN branchPoints /\ w[p] = branchPoints[p]
      BY <1>8, <1>10, <2>2 DEF Merged
    <3> QED BY <1>5, <3>1 DEF PointsOK, PointShapes, PointsHave
  <2> QED BY <2>1, <2>2
<1>12. branchPoints' = w
  BY <1>2, <1>7, <1>9
<1>13. PointsOK'
  BY <1>10, <1>11, <1>12 DEF PointsOK, PointShapes, PointsHave, Merged
<1> QED BY <1>6, <1>7, <1>10, <1>12, <1>13

(* What a deletion leaves of the branch points.                            *)
PointsLeft(ref) ==
    /\ DOMAIN branchPoints' = DOMAIN branchPoints \ DeadPoints(ref)
    /\ \A p \in DOMAIN branchPoints' :
          branchPoints'[p] = CleanPoint(branchPoints[p], DeadBranches(ref))
LEMMA DeletedPoints ==
    ASSUME PointsOK, LinesInv, NEW ref, DeleteElement(ref)
    PROVE  PointsOK' /\ PointsLeft(ref)
<1>1. PICK dead : dead = DeadBranches(ref)
  OBVIOUS
<1>2. PICK points : points = Without(branchPoints, DeadPoints(ref))
  OBVIOUS
<1>3. /\ DOMAIN points = DOMAIN branchPoints \ DeadPoints(ref)
      /\ \A p \in DOMAIN points : points[p] = branchPoints[p]
  BY <1>2 DEF Without, Restrict
<1>4. branchPoints' = [p \in DOMAIN points |-> CleanPoint(points[p], dead)]
  BY <1>1, <1>2 DEF DeleteElement
<1>5. ASSUME NEW p, PointShape(p)
      PROVE  /\ PointShape(CleanPoint(p, dead))
             /\ CleanPoint(p, dead).bus = p.bus
  <2>1. PICK f : f = Restrict(p.occupied,
                              {i \in DOMAIN p.occupied :
                                  p.occupied[i] \notin dead})
    OBVIOUS
  <2>2. IsFcn(f)
    BY <2>1 DEF IsFcn, Restrict
  <2>3. PICK e : e = CleanPoint(p, dead)
    OBVIOUS
  <2>4. e = [p EXCEPT !.occupied = f]
    BY <2>1, <2>3 DEF CleanPoint
  <2>5. PointShape(e) /\ e.bus = p.bus
    BY <1>5, <2>2, <2>4 DEF PointShape
  <2> QED BY <2>3, <2>5
<1>6. Buses' = Buses \ {ref}
  BY DeletedLines
<1> DEFINE F(p) == CleanPoint(points[p], dead)
<1>7. ASSUME NEW p \in DOMAIN points
      PROVE  PointShape(F(p)) /\ F(p).bus \in Buses'
  <2>1. PointShape(branchPoints[p]) /\ branchPoints[p].bus \in Buses
    BY <1>3 DEF PointsOK, PointShapes, PointsHave
  <2>2. branchPoints[p].bus # ref
    BY <1>3 DEF DeadPoints
  <2> QED BY <1>3, <1>5, <1>6, <2>1, <2>2
<1>8. PointsLeft(ref)
  BY <1>1, <1>3, <1>4 DEF PointsLeft
<1>9. branchPoints' = [p \in DOMAIN points |-> F(p)]
  BY <1>4
<1>10. PointsOK'
  <2> HIDE DEF F
  <2> QED BY <1>7, <1>9 DEF PointsOK, PointShapes, PointsHave, IsFcn
<1> QED BY <1>8, <1>10

LEMMA PointsNext ==
    ASSUME PointsOK, LinesInv, Frame, Deleted \/ Buses \subseteq Buses'
    PROVE  PointsOK'
<1>1. CASE UNCHANGED branchPoints /\ Buses \subseteq Buses'
  BY <1>1 DEF PointsOK, PointShapes, PointsHave
<1>2. CASE Deleted
  BY <1>2, DeletedPoints DEF Deleted
<1>3. CASE Ported /\ Buses \subseteq Buses'
  BY <1>3, PortedPoints DEF Ported
<1>4. CASE Pointed
  BY <1>4, PointedPoints DEF Pointed
<1>5. CASE PointSet /\ Buses \subseteq Buses'
  BY <1>5, SetPoints
<1> QED BY <1>1, <1>2, <1>3, <1>4, <1>5 DEF Frame

-----------------------------------------------------------------------------
(* What the corridors list.                                                *)

(* The parts of a segment that is split go where it was listed.  So every  *)
(* listed segment belongs to the corridor that a request named for the     *)
(* segment it comes from, or to the first when it named none.              *)
Roots(root) ==
    \A r \in DOMAIN root :
        /\ r[1] \in PartKinds =>
              r[2] \in DOMAIN root /\ root[r] = root[r[2]]
        /\ r[1] = "trunk" => root[r] = r[2]
HasRoot(root, x, ref, i) ==
    x \in DOMAIN root /\ (root[x] = ref \/ (root[x] = NoRef /\ i = 1))
Rooted(root) ==
    /\ Roots(root)
    /\ \A i \in 1..Len(corridors) : \A x \in ToSet(corridors[i].segments) :
          HasRoot(root, x, corridors[i].ref, i)

(* Two corridors may have one ref: only the first of them lists segments.  *)
Firsts ==
    \A i, j \in 1..Len(corridors) :
        corridors[i].segments # << >> /\ corridors[j].ref = corridors[i].ref
            => i <= j

(* Segments are there, and listed once.                                    *)
Listed(segs, present) ==
    /\ \A k \in 1..Len(segs) : segs[k] \in present \/ SwitchPart(segs[k])
    /\ \A k, l \in 1..Len(segs) :
          segs[k] = segs[l] /\ ~ SwitchPart(segs[k]) => k = l
AllListed ==
    \A i \in 1..Len(corridors) :
        Listed(corridors[i].segments, DOMAIN branches)

SegmentsHave == (\E root : Rooted(root)) /\ Firsts /\ AllListed

(* New segments get the root of what they come from.                       *)
LEMMA MoreRoots ==
    ASSUME NEW root, Roots(root), NEW N,
           \A x \in N : \/ x[1] = "trunk"
                        \/ x[1] \in PartKinds /\ x[2] \in DOMAIN root
    PROVE  \E q : /\ Roots(q) /\ DOMAIN q = DOMAIN root \cup N
                  /\ \A r \in DOMAIN root : q[r] = root[r]
<1> DEFINE D == DOMAIN root
           Of(x) == IF x[1] = "trunk" THEN x[2] ELSE root[x[2]]
           q == [x \in D \cup N |-> IF x \in D THEN root[x] ELSE Of(x)]
<1>1. DOMAIN q = D \cup N /\ \A r \in D : q[r] = root[r]
  OBVIOUS
<1>2. ASSUME NEW r \in D \cup N, r[1] \in PartKinds
      PROVE  r[2] \in D \cup N /\ q[r] = q[r[2]]
  <2>1. CASE r \in D
    BY <1>2, <2>1 DEF Roots
  <2>2. CASE r \notin D
    <3>1. r[1] # "trunk"
      BY <1>2 DEF PartKinds
    <3>2. r[2] \in D
      BY <1>2, <2>2, <3>1
    <3>3. q[r] = root[r[2]]
      BY <2>2, <3>1
    <3> QED BY <1>1, <3>2, <3>3
  <2> QED BY <2>1, <2>2
<1>3. ASSUME NEW r \in D \cup N, r[1] = "trunk" PROVE q[r] = r[2]
  <2>1. CASE r \in D
    BY <1>3, <2>1 DEF Roots
  <2>2. CASE r \notin D
    BY <1>3, <2>2
  <2> QED BY <2>1, <2>2
<1>4. Roots(q)
  BY <1>1, <1>2, <1>3 DEF Roots
<1> QED BY <1>1, <1>4

(* What a corridor lists, no other one lists.                              *)
LEMMA ListedOnce ==
    ASSUME CorridorShapes, SegmentsHave,
           NEW i \in 1..Len(corridors), NEW j \in 1..Len(corridors),
           NEW x, x \in ToSet(corridors[i].segments),
           x \in ToSet(corridors[j].segments)
    PROVE  i = j
<1>1. PICK root : Rooted(root)
  BY DEF SegmentsHave
<1>2. /\ HasRoot(root, x, corridors[i].ref, i)
      /\ HasRoot(root, x, corridors[j].ref, j)
  BY <1>1 DEF Rooted
<1>3. corridors[i].ref # NoRef /\ corridors[j].ref # NoRef
  BY DEF CorridorShapes, CorridorShape
<1>4. i = j \/ corridors[i].ref = corridors[j].ref
  BY <1>2, <1>3 DEF HasRoot
<1>5. corridors[i].segments # << >> /\ corridors[j].segments # << >>
  BY DEF ToSet
<1>6. Len(corridors) \in Nat
  BY ListingIs DEF CorridorShapes, Listing
<1>7. corridors[i].ref = corridors[j].ref => i <= j /\ j <= i
  BY <1>5 DEF SegmentsHave, Firsts
<1> QED BY <1>4, <1>6, <1>7

LEMMA SegmentsIs ==
    ASSUME CorridorShapes, NEW i \in 1..Len(corridors)
    PROVE  /\ Listing(corridors[i].segments)
           /\ ToSet(corridors[i].segments) =
                 {corridors[i].segments[k] :
                     k \in 1..Len(corridors[i].segments)}
           /\ \A b : Contains(corridors[i].segments, b)
                     <=> b \in ToSet(corridors[i].segments)
<1>1. PICK segs : segs = corridors[i].segments
  OBVIOUS
<1>2. Listing(segs)
  BY <1>1 DEF CorridorShapes, CorridorShape
<1>3. ToSet(segs) = {segs[k] : k \in 1..Len(segs)}
  BY <1>2, ListingIs DEF Listing
<1>4. \A b : Contains(segs, b) <=> b \in ToSet(segs)
  BY <1>3 DEF Contains
<1> QED BY <1>1, <1>2, <1>3, <1>4

(* The corridor that is edited when a segment is split lists it.           *)
LEMMA TheLister ==
    ASSUME CorridorShapes, SegmentsHave, NEW b,
           NEW i \in 1..Len(corridors), b \in ToSet(corridors[i].segments)
    PROVE  Lister(b) = i /\ NamedLister(b) = i
<1>1. PICK k : k = Lister(b)
  OBVIOUS
<1>2. Contains(corridors[i].segments, b)
  BY SegmentsIs
<1>3. k \in 1..Len(corridors) /\ b \in ToSet(corridors[k].segments)
  <2>1. k \in 0..Len(corridors)
    BY <1>1, ListerIs
  <2>2. k # 0
    BY <1>1, <1>2, ListerIs
  <2>3. Contains(corridors[k].segments, b)
    BY <1>1, <2>2, ListerIs
  <2>4. k \in 1..Len(corridors)
    BY <2>1, <2>2
  <2> QED BY <2>3, <2>4, SegmentsIs
<1>4. k = i
  BY <1>3, ListedOnce
<1>5. Lister(b) = i
  BY <1>1, <1>4
<1>6. PICK ref : ref = corridors[i].ref
  OBVIOUS
<1>7. ref # NoRef
  BY <1>6 DEF CorridorShapes, CorridorShape
<1>8. corridors[i].segments # << >>
  BY DEF ToSet
<1>9. FirstOf(i, ref)
  BY <1>6, <1>7, <1>8 DEF FirstOf, SegmentsHave, Firsts
<1>10. CorridorIndex(ref) = i
  BY <1>9, IndexIs
<1>11. NamedLister(b) = i
  <2>1. i # 0
    OBVIOUS
  <2> QED BY <1>5, <1>6, <1>10, <2>1 DEF NamedLister
<1> QED BY <1>5, <1>11

(* The list of one corridor grows by segments of its own.                  *)
OwnSegment(i, x) ==
    \/ x[1] = "trunk" /\ FirstOf(i, x[2])
    \/ x[1] \in PartKinds /\ x[2] \in ToSet(corridors[i].segments)
LEMMA SegmentsGrow ==
    ASSUME CorridorShapes, NEW root, Rooted(root), Firsts,
           NEW i, NEW new, Listing(new), SegmentsAt(i, new),
           \A x \in ToSet(new) :
              x \in ToSet(corridors[i].segments) \/ OwnSegment(i, x)
    PROVE  (\E q : Rooted(q)') /\ Firsts'
<1>1. /\ i \in 1..Len(corridors) /\ Len(corridors') = Len(corridors)
      /\ corridors'[i].segments = new
      /\ \A j \in 1..Len(corridors) :
            /\ corridors'[j].ref = corridors[j].ref
            /\ j # i => corridors'[j].segments = corridors[j].segments
  BY DEF SegmentsAt
<1>2. PICK old : old = ToSet(corridors[i].segments)
  OBVIOUS
<1>3. Roots(root) /\ \A x \in old : HasRoot(root, x, corridors[i].ref, i)
  BY <1>1, <1>2 DEF Rooted
<1>4. Len(corridors) \in Nat /\ \A j \in 1..Len(corridors) : j \in Nat
  BY ListingIs DEF CorridorShapes, Listing
<1>5. PICK N : N = ToSet(new) \ old
  OBVIOUS
<1>6. \A x \in N : \/ x[1] = "trunk"
                   \/ x[1] \in PartKinds /\ x[2] \in DOMAIN root
  BY <1>2, <1>3, <1>5 DEF OwnSegment, HasRoot
<1>7. PICK q : /\ Roots(q) /\ DOMAIN q = DOMAIN root \cup N
               /\ \A r \in DOMAIN root : q[r] = root[r]
  BY <1>3, <1>6, MoreRoots
<1>8. ASSUME NEW x, NEW ref, NEW j, HasRoot(root, x, ref, j)
      PROVE  HasRoot(q, x, ref, j)
  BY <1>7, <1>8 DEF HasRoot
<1>9. ASSUME NEW x \in ToSet(new) PROVE HasRoot(q, x, corridors[i].ref, i)
  <2>1. CASE x \in old
    BY <1>3, <1>8, <2>1
  <2>2. CASE x \notin old
    <3>1. x \in N /\ x \in DOMAIN q /\ OwnSegment(i, x)
      BY <1>2, <1>5, <1>7, <2>2
    <3>2. CASE x[1] = "trunk" /\ FirstOf(i, x[2])
      <4>1. q[x] = x[2]
        BY <1>7, <3>1, <3>2 DEF Roots
      <4>2. x[2] = corridors[i].ref \/ x[2] = NoRef
        BY <3>2 DEF FirstOf
      <4>3. x[2] = NoRef => i = 1
        <5>1. ASSUME x[2] = NoRef PROVE i <= 1
          <6>1. 1 \in 1..Len(corridors)
            BY <1>1, <1>4
          <6> QED BY <3>2, <5>1, <6>1 DEF FirstOf
        <5> QED BY <1>1, <1>4, <5>1
      <4> QED BY <3>1, <4>1, <4>2, <4>3 DEF HasRoot
    <3>3. CASE x[1] \in PartKinds /\ x[2] \in old
      <4>1. HasRoot(q, x[2], corridors[i].ref, i)
        BY <1>3, <1>8, <3>3
      <4>2. q[x] = q[x[2]]
        BY <1>7, <3>1, <3>3 DEF Roots
      <4> QED BY <3>1, <4>1, <4>2 DEF HasRoot
    <3> QED BY <1>2, <3>1, <3>2, <3>3 DEF OwnSegment
  <2> QED BY <2>1, <2>2
<1>10. Rooted(q)'
  <2>1. ASSUME NEW j \in 1..Len(corridors),
               NEW x \in ToSet(corridors'[j].segments)
        PROVE  HasRoot(q, x, corridors'[j].ref, j)
    <3>1. CASE j = i
      BY <1>1, <1>9, <2>1, <3>1
    <3>2. CASE j # i
      <4>1. x \in ToSet(corridors[j].segments)
        BY <1>1, <2>1, <3>2
      <4>2. HasRoot(root, x, corridors[j].ref, j)
        BY <4>1 DEF Rooted
      <4> QED BY <1>1, <1>8, <4>2
    <3> QED BY <3>1, <3>2
  <2> QED BY <1>1, <1>7, <2>1 DEF Rooted
<1>11. ASSUME corridors[i].segments = << >>, new # << >>
       PROVE  \A j \in 1..Len(corridors) :
                 corridors[j].ref = corridors[i].ref => i <= j
  <2>1. old = {}
    BY <1>2, <1>11 DEF ToSet
  <2>2. new[1] \in ToSet(new)
    BY <1>11, ListingIs DEF Listing
  <2>3. PICK x \in ToSet(new) : OwnSegment(i, x)
    BY <1>2, <2>1, <2>2
  <2>4. FirstOf(i, x[2])
    BY <1>2, <2>1, <2>3 DEF OwnSegment
  <2> QED BY <1>4, <2>4 DEF FirstOf
<1>12. Firsts'
  <2>1. ASSUME NEW j \in 1..Len(corridors), NEW l \in 1..Len(corridors),
               corridors'[j].segments # << >>,
               corridors'[l].ref = corridors'[j].ref
        PROVE  j <= l
    <3>1. corridors[l].ref = corridors[j].ref
      BY <1>1, <2>1
    <3>2. CASE corridors[j].segments # << >>
      BY <3>1, <3>2 DEF Firsts
    <3>3. CASE corridors[j].segments = << >>
      <4>1. j = i
        BY <1>1, <2>1, <3>3
      <4> QED BY <1>1, <1>11, <2>1, <3>1, <3>3, <4>1
    <3> QED BY <3>2, <3>3
  <2> QED BY <1>1, <2>1 DEF Firsts
<1> QED BY <1>10, <1>12

(* The corridors keep their segments.                                      *)
LEMMA SegmentsStay ==
    ASSUME CorridorShapes, SegmentsHave, SegmentsSame,
           DOMAIN branches \subseteq DOMAIN branches'
    PROVE  SegmentsHave'
<1>1. PICK root : Rooted(root)
  BY DEF SegmentsHave
<1>2. Rooted(root)'
  BY <1>1 DEF Rooted, SegmentsSame
<1>3. Firsts'
  BY DEF SegmentsHave, Firsts, SegmentsSame
<1>4. AllListed'
  BY DEF SegmentsHave, AllListed, Listed, SegmentsSame
<1> QED BY <1>2, <1>3, <1>4 DEF SegmentsHave

(* A corridor without segments is added.                                   *)
LEMMA SegmentsAdded ==
    ASSUME CorridorShapes, SegmentsHave, CorridorAdded, UNCHANGED branches
    PROVE  SegmentsHave'
<1>1. PICK root : Rooted(root)
  BY DEF SegmentsHave
<1>2. PICK n \in Nat : n = Len(corridors)
  BY ListingIs DEF CorridorShapes, Listing
<1>3. /\ Len(corridors') = n + 1 /\ corridors'[n + 1].segments = << >>
      /\ \A i \in 1..n : corridors'[i] = corridors[i]
  BY <1>2 DEF CorridorAdded
<1>4. \A i \in 1..(n + 1) : i \in 1..n \/ i = n + 1
  OBVIOUS
<1>5. ToSet(<< >>) = {}
  BY DEF ToSet
<1>6. ASSUME NEW i \in 1..(n + 1), NEW x \in ToSet(corridors'[i].segments)
      PROVE  HasRoot(root, x, corridors'[i].ref, i)
  BY <1>1, <1>2, <1>3, <1>4, <1>5, <1>6 DEF Rooted
<1>7. Rooted(root)'
  BY <1>1, <1>3, <1>6 DEF Rooted
<1>8. Firsts'
  <2>1. ASSUME NEW i \in 1..(n + 1), NEW j \in 1..(n + 1),
               corridors'[i].segments # << >>,
               corridors'[j].ref = corridors'[i].ref
        PROVE  i <= j
    <3>1. i \in 1..n
      BY <1>3, <1>4, <2>1
    <3>2. CASE j \in 1..n
      BY <1>2, <1>3, <2>1, <3>1, <3>2 DEF SegmentsHave, Firsts
    <3>3. CASE j = n + 1
      BY <3>1, <3>3
    <3> QED BY <1>4, <3>2, <3>3
  <2> QED BY <1>3, <2>1 DEF Firsts
<1>9. Listed(<< >>, DOMAIN branches)
  BY DEF Listed
<1>10. AllListed'
  <2>1. ASSUME NEW i \in 1..(n + 1)
        PROVE  Listed(corridors'[i].segments, DOMAIN branches)
    BY <1>2, <1>3, <1>4, <1>9 DEF SegmentsHave, AllListed
  <2> QED BY <1>3, <2>1 DEF AllListed
<1> QED BY <1>7, <1>8, <1>10 DEF SegmentsHave

(* A corridor goes, and branches go from the lists of the others.          *)
LEMMA MinusListed ==
    ASSUME NEW segs, Listing(segs), NEW present, NEW dead,
           Listed(segs, present)
    PROVE  /\ ToSet(Minus(segs, dead)) \subseteq ToSet(segs)
           /\ Listed(Minus(segs, dead), present \ dead)
           /\ segs = << >> => Minus(segs, dead) = << >>
<1>1. PICK kept : kept = Minus(segs, dead)
  OBVIOUS
<1>2. PICK K : segs \in Seq(K)
  BY DEF Listing
<1>3. KeptOK(segs, dead, K, Len(segs), kept)
  BY <1>1, <1>2, MinusOK
<1>4. kept \in Seq(K) /\ ToSet(kept) = ToSet(segs) \ dead
  BY <1>1, <1>2, MinusDiffer
<1>5. /\ ToSet(kept) = {kept[i] : i \in 1..Len(kept)}
      /\ ToSet(segs) = {segs[i] : i \in 1..Len(segs)}
  BY <1>2, <1>4, ListSet
<1>6. ASSUME NEW k \in 1..Len(kept)
      PROVE  kept[k] \in present \ dead \/ SwitchPart(kept[k])
  <2>1. kept[k] \in ToSet(segs) \ dead
    BY <1>4, <1>5
  <2>2. PICK i \in 1..Len(segs) : kept[k] = segs[i]
    BY <1>5, <2>1
  <2> QED BY <2>1, <2>2 DEF Listed
<1>7. ASSUME NEW k \in 1..Len(kept), NEW l \in 1..Len(kept),
             kept[k] = kept[l], ~ SwitchPart(kept[k])
      PROVE  k = l
  <2>1. SUFFICES ASSUME k # l PROVE FALSE
    OBVIOUS
  <2>2. PICK i, j \in 1..Len(segs) :
            i # j /\ segs[i] = kept[k] /\ segs[j] = kept[k]
    BY <1>3, <1>7, <2>1 DEF KeptOK
  <2> QED BY <1>7, <2>2 DEF Listed
<1>8. ASSUME segs = << >> PROVE kept = << >>
  <2>1. ToSet(kept) = {}
    BY <1>4, <1>5, <1>8
  <2>2. ~ (1 \in 1..Len(kept)) /\ Len(kept) \in Nat
    BY <1>4, <1>5, <2>1
  <2> QED BY <1>4, <2>2
<1>9. Listed(kept, present \ dead)
  BY <1>6, <1>7 DEF Listed
<1> QED BY <1>1, <1>4, <1>8, <1>9

LEMMA SegmentsFewer ==
    ASSUME CorridorShapes, CorridorShapes', SegmentsHave, NEW dead,
           CorridorsLeft(dead), DOMAIN branches' = DOMAIN branches \ dead
    PROVE  SegmentsHave'
<1>1. PICK root : Rooted(root)
  BY DEF SegmentsHave
<1>2. PICK m \in Nat : \A i \in 1..Len(corridors') :
          LET j == IF i < m THEN i ELSE i + 1
          IN  /\ j \in 1..Len(corridors)
              /\ corridors'[i].ref = corridors[j].ref
              /\ corridors'[i].segments = Minus(corridors[j].segments, dead)
  BY DEF CorridorsLeft
<1> DEFINE At(i) == IF i < m THEN i ELSE i + 1
<1>3. /\ Len(corridors') \in Nat /\ Len(corridors) \in Nat
      /\ \A i, j \in 1..Len(corridors') :
            /\ i \in Nat /\ j \in Nat
            /\ At(i) <= At(j) => i <= j
            /\ At(i) = 1 => i = 1
  <2>1. Len(corridors') \in Nat
    <3>1. PICK t : t = corridors'
      OBVIOUS
    <3>2. Listing(t)
      BY <3>1 DEF CorridorShapes
    <3> QED BY <3>1, <3>2, ListingIs DEF Listing
  <2>2. Len(corridors) \in Nat
    BY ListingIs DEF CorridorShapes, Listing
  <2> QED BY <2>1, <2>2
<1>4. ASSUME NEW i \in 1..Len(corridors')
      PROVE  /\ At(i) \in 1..Len(corridors)
             /\ corridors'[i].ref = corridors[At(i)].ref
             /\ ToSet(corridors'[i].segments)
                    \subseteq ToSet(corridors[At(i)].segments)
             /\ Listed(corridors'[i].segments, DOMAIN branches')
             /\ corridors'[i].segments # << >>
                    => corridors[At(i)].segments # << >>
  <2>1. PICK j, segs : j = At(i) /\ segs = corridors[j].segments
    OBVIOUS
  <2>2. /\ j \in 1..Len(corridors) /\ corridors'[i].ref = corridors[j].ref
        /\ corridors'[i].segments = Minus(segs, dead)
    BY <1>2, <2>1
  <2>3. Listing(segs) /\ Listed(segs, DOMAIN branches)
    BY <2>1, <2>2 DEF CorridorShapes, CorridorShape, SegmentsHave, AllListed
  <2>4. /\ ToSet(Minus(segs, dead)) \subseteq ToSet(segs)
        /\ Listed(Minus(segs, dead), DOMAIN branches \ dead)
        /\ segs = << >> => Minus(segs, dead) = << >>
    BY <2>3, MinusListed
  <2> QED BY <2>1, <2>2, <2>4
<1> HIDE DEF At
<1>5. ASSUME NEW i \in 1..Len(corridors'),
             NEW x \in ToSet(corridors'[i].segments)
      PROVE  HasRoot(root, x, corridors'[i].ref, i)
  <2>1. HasRoot(root, x, corridors[At(i)].ref, At(i))
    BY <1>1, <1>4 DEF Rooted
  <2> QED BY <1>3, <1>4, <2>1 DEF HasRoot
<1>6. Rooted(root)'
  BY <1>1, <1>5 DEF Rooted
<1>7. Firsts'
  <2>1. ASSUME NEW i \in 1..Len(corridors'), NEW j \in 1..Len(corridors'),
               corridors'[i].segments # << >>,
               corridors'[j].ref = corridors'[i].ref
        PROVE  i <= j
    <3>1. At(i) <= At(j)
      BY <1>4, <2>1 DEF SegmentsHave, Firsts
    <3> QED BY <1>3, <3>1
  <2> QED BY <2>1 DEF Firsts
<1>8. AllListed'
  BY <1>4 DEF AllListed
<1> QED BY <1>6, <1>7, <1>8 DEF SegmentsHave

(* A trunk is continued.                                                   *)
LEMMA SegmentListed ==
    ASSUME NEW segs, Listing(segs), NEW present, Listed(segs, present),
           NEW s, s \notin present, ~ SwitchPart(s), NEW now,
           present \subseteq now, s \in now
    PROVE  Listed(Append(segs, s), now)
<1>1. PICK t : t = Append(segs, s)
  OBVIOUS
<1>2. WithOne(t, segs, s)
  BY <1>1, ListWithOne
<1>3. PICK n \in Nat : n = Len(segs)
  BY ListingIs DEF Listing
<1>4. /\ Len(t) = n + 1 /\ t[n + 1] = s
      /\ \A k \in 1..n : t[k] = segs[k]
  BY <1>2, <1>3 DEF WithOne
<1>5. \A k \in 1..(n + 1) : k \in 1..n \/ k = n + 1
  OBVIOUS
<1>6. /\ \A k \in 1..n : segs[k] \in present \/ SwitchPart(segs[k])
      /\ \A k, l \in 1..n :
            segs[k] = segs[l] /\ ~ SwitchPart(segs[k]) => k = l
  BY <1>3 DEF Listed
<1>7. \A k \in 1..n : segs[k] # s
  BY <1>6
<1>8. Listed(t, now)
  BY <1>4, <1>5, <1>6, <1>7 DEF Listed
<1> QED BY <1>1, <1>8

LEMMA ContinuedSegments ==
    ASSUME CorridorShapes, SegmentsHave, LinesInv, Continued
    PROVE  SegmentsHave'
<1>1. PICK t, terminal, n : \E m \in Media : ContinueTrunk(t, terminal, m, n)
  BY DEF Continued
<1>2. PICK m \in Media : ContinueTrunk(t, terminal, m, n)
  BY <1>1
<1>3. PICK i : i = CorridorIndex(t)
  OBVIOUS
<1>4. PICK from :
          /\ NewLine(from, <<"downstream", t, from, m, n>>,
                     <<"trunk", t, from, m, n>>, m)
          /\ \/ i = 0 /\ SegmentsSame
             \/ /\ FirstOf(i, t)
                /\ SegmentsAt(i, Append(corridors[i].segments,
                                        <<"trunk", t, from, m, n>>))
  BY <1>2, <1>3, ContinuedCorridors
<1>5. PICK s : s = <<"trunk", t, from, m, n>>
  OBVIOUS
<1>6. s[1] = "trunk" /\ s[2] = t
  BY <1>5
<1>7. /\ s \notin DOMAIN branches
      /\ DOMAIN branches' = DOMAIN branches \cup {s}
  <2>1. PICK e : /\ branches' = Added(Entry(s, e), branches)
                 /\ s \notin DOMAIN branches
    BY <1>4, <1>5 DEF NewLine, Free, AllRefs
  <2>2. OneMore(Added(Entry(s, e), branches), branches, s, e)
    BY <2>1, WithEntry
  <2> QED BY <2>1, <2>2 DEF OneMore
<1>8. CASE SegmentsSame
  BY <1>7, <1>8, SegmentsStay
<1>9. ASSUME FirstOf(i, t), SegmentsAt(i, Append(corridors[i].segments, s))
      PROVE  SegmentsHave'
  <2>1. PICK segs : segs = corridors[i].segments
    OBVIOUS
  <2>2. PICK new : new = Append(segs, s)
    OBVIOUS
  <2>3. SegmentsAt(i, new)
    BY <1>9, <2>1, <2>2
  <2>4. i \in 1..Len(corridors)
    BY <1>9 DEF FirstOf
  <2>5. Listing(segs) /\ Listed(segs, DOMAIN branches)
    BY <2>1, <2>4 DEF CorridorShapes, CorridorShape, SegmentsHave, AllListed
  <2>6. WithOne(new, segs, s)
    BY <2>2, <2>5, ListWithOne
  <2>7. OwnSegment(i, s)
    BY <1>6, <1>9 DEF OwnSegment
  <2>8. (\E q : Rooted(q)') /\ Firsts'
    <3>1. PICK root : Rooted(root)
      BY DEF SegmentsHave
    <3>2. Firsts
      BY DEF SegmentsHave
    <3>3. /\ Listing(new)
          /\ \A x \in ToSet(new) :
                x \in ToSet(corridors[i].segments) \/ OwnSegment(i, x)
      BY <2>1, <2>6, <2>7 DEF WithOne
    <3> QED BY <2>3, <3>1, <3>2, <3>3, SegmentsGrow
  <2>9. Listed(new, DOMAIN branches')
    <3>1. ~ SwitchPart(s)
      BY <1>6 DEF SwitchPart
    <3>2. PICK D, E : D = DOMAIN branches /\ E = DOMAIN branches'
      OBVIOUS
    <3> QED BY <1>7, <2>2, <2>5, <3>1, <3>2, SegmentListed
  <2>10. AllListed'
    <3>1. ASSUME NEW j \in 1..Len(corridors)
          PROVE  Listed(corridors'[j].segments, DOMAIN branches')
      <4>1. CASE j = i
        BY <2>3, <2>9, <4>1 DEF SegmentsAt
      <4>2. CASE j # i
        <5>1. corridors'[j].segments = corridors[j].segments
          BY <2>3, <4>2 DEF SegmentsAt
        <5>2. Listed(corridors[j].segments, DOMAIN branches)
          BY DEF SegmentsHave, AllListed
        <5> QED BY <1>7, <5>1, <5>2 DEF Listed
      <4> QED BY <4>1, <4>2
    <3> QED BY <2>3, <3>1 DEF AllListed, SegmentsAt
  <2> QED BY <2>8, <2>10 DEF SegmentsHave
<1> QED BY <1>4, <1>5, <1>8, <1>9

(* The parts of a split segment that are listed in its place exist, or     *)
(* belong to a section switch.                                             *)
PartsFit(parts, old, new) ==
    /\ \A k \in 1..Len(parts) : parts[k] \in new \/ SwitchPart(parts[k])
    /\ \A k \in 1..Len(parts) : parts[k] \notin old \/ SwitchPart(parts[k])
    /\ \A k, l \in 1..Len(parts) :
          parts[k] = parts[l] /\ ~ SwitchPart(parts[k]) => k = l

(* The list of a corridor with the parts in the place of the segment.      *)
LEMMA SplicedListed ==
    ASSUME NEW K, NEW segs \in Seq(K), NEW parts \in Seq(K),
           NEW k \in 1..Len(segs), NEW old, NEW new,
           old \ {segs[k]} \subseteq new,
           Listed(segs, old), PartsFit(parts, old, new)
    PROVE  Listed(Spliced(segs, k, parts), new)
<1>1. PICK t : t = Spliced(segs, k, parts)
  OBVIOUS
<1> DEFINE Old(i, j) == /\ j # k /\ t[i] = segs[j] /\ (i < k \/ j > k)
                        /\ j = IF i < k THEN i ELSE i - Len(parts) + 1
           New(i, j) == t[i] = parts[j] /\ j = i - k + 1
<1>2. /\ t \in Seq(K)
      /\ \A i \in 1..Len(t) :
            \/ \E j \in 1..Len(segs) : Old(i, j)
            \/ \E j \in 1..Len(parts) : New(i, j)
  BY <1>1, SplicedOK
<1>3. k \in Nat /\ Len(parts) \in Nat /\ Len(segs) \in Nat /\ Len(t) \in Nat
  BY <1>2
<1>4. ASSUME NEW i \in 1..Len(t), NEW j \in 1..Len(segs), Old(i, j)
      PROVE  \/ t[i] \in new /\ t[i] \in old
             \/ SwitchPart(t[i])
  <2>1. segs[j] \in old \/ SwitchPart(segs[j])
    BY DEF Listed
  <2>2. segs[j] = segs[k] => SwitchPart(segs[j])
    BY <1>4 DEF Listed
  <2> QED BY <1>4, <2>1, <2>2
<1>5. ASSUME NEW i \in 1..Len(t), NEW j \in 1..Len(parts), New(i, j)
      PROVE  \/ t[i] \in new /\ t[i] \notin old
             \/ SwitchPart(t[i])
  BY <1>5 DEF PartsFit
<1>6. ASSUME NEW i \in 1..Len(t) PROVE t[i] \in new \/ SwitchPart(t[i])
  BY <1>2, <1>4, <1>5
<1>7. ASSUME NEW i \in 1..Len(t), NEW h \in 1..Len(t),
             t[i] = t[h], ~ SwitchPart(t[i])
      PROVE  i = h
  <2>1. ASSUME NEW j \in 1..Len(segs), NEW l \in 1..Len(segs),
               Old(i, j), Old(h, l)
        PROVE  i = h
    <3>1. j = l
      BY <1>7, <2>1 DEF Listed
    <3>2. i \in Nat /\ h \in Nat /\ j \in Nat
      BY <1>3
    <3> QED BY <1>3, <2>1, <3>1, <3>2
  <2>2. ASSUME NEW j \in 1..Len(parts), NEW l \in 1..Len(parts),
               New(i, j), New(h, l)
        PROVE  i = h
    <3>1. j = l
      BY <1>7, <2>2 DEF PartsFit
    <3>2. i \in Nat /\ h \in Nat
      BY <1>3
    <3> QED BY <1>3, <2>2, <3>1, <3>2
  <2> QED BY <1>2, <1>4, <1>5, <1>7, <2>1, <2>2
<1>8. Listed(t, new)
  BY <1>6, <1>7 DEF Listed
<1> QED BY <1>1, <1>8

(* What it holds.                                                          *)
LEMMA SplicedHolds ==
    ASSUME NEW K, NEW segs \in Seq(K), NEW parts \in Seq(K),
           NEW k \in 1..Len(segs)
    PROVE  ToSet(Spliced(segs, k, parts))
               \subseteq ToSet(segs) \cup ToSet(parts)
<1>1. PICK t : t = Spliced(segs, k, parts)
  OBVIOUS
<1> DEFINE Old(i, j) == /\ j # k /\ t[i] = segs[j] /\ (i < k \/ j > k)
                        /\ j = IF i < k THEN i ELSE i - Len(parts) + 1
           New(i, j) == t[i] = parts[j] /\ j = i - k + 1
<1>2. /\ t \in Seq(K)
      /\ \A i \in 1..Len(t) :
            \/ \E j \in 1..Len(segs) : Old(i, j)
            \/ \E j \in 1..Len(parts) : New(i, j)
  BY <1>1, SplicedOK
<1>3. /\ ToSet(t) = {t[i] : i \in 1..Len(t)}
      /\ ToSet(segs) = {segs[i] : i \in 1..Len(segs)}
      /\ ToSet(parts) = {parts[i] : i \in 1..Len(parts)}
  BY <1>2, ListSet
<1>4. ASSUME NEW i \in 1..Len(t) PROVE t[i] \in ToSet(segs) \cup ToSet(parts)
  BY <1>2, <1>3
<1> QED BY <1>1, <1>3, <1>4

(* A segment is split, and its parts are listed in its place.              *)
LEMMA SegmentsSplit ==
    ASSUME CorridorShapes, CorridorShapes', SegmentsHave,
           NEW b, NEW i, i = Lister(b) \/ i = NamedLister(b),
           NEW parts, Listing(parts), Parted(i, b, parts),
           DOMAIN branches \ {b} \subseteq DOMAIN branches',
           PartsFit(parts, DOMAIN branches, DOMAIN branches'),
           \A x \in ToSet(parts) : x[1] \in PartKinds /\ x[2] = b
    PROVE  SegmentsHave'
<1>1. ASSUME NEW j \in 1..Len(corridors), b \in ToSet(corridors[j].segments)
      PROVE  i = j
  BY <1>1, TheLister
<1>2. ASSUME NEW j \in 1..Len(corridors), b \notin ToSet(corridors[j].segments)
      PROVE  Listed(corridors[j].segments, DOMAIN branches')
  <2>1. Listed(corridors[j].segments, DOMAIN branches)
    BY DEF SegmentsHave, AllListed
  <2>2. \A k \in 1..Len(corridors[j].segments) :
           corridors[j].segments[k] # b
    BY <1>2, SegmentsIs
  <2> QED BY <2>1, <2>2 DEF Listed
<1>3. CASE /\ SegmentsSame
           /\ i # 0 => ~ Contains(corridors[i].segments, b)
  <2>1. ASSUME NEW j \in 1..Len(corridors)
        PROVE  b \notin ToSet(corridors[j].segments)
    <3>1. SUFFICES ASSUME b \in ToSet(corridors[j].segments) PROVE FALSE
      OBVIOUS
    <3>2. i = j
      BY <1>1, <3>1
    <3>3. Contains(corridors[j].segments, b)
      BY <3>1, SegmentsIs
    <3> QED BY <1>3, <3>2, <3>3
  <2>2. AllListed'
    BY <1>2, <1>3, <2>1 DEF AllListed, SegmentsSame
  <2>3. PICK root : Rooted(root)
    BY DEF SegmentsHave
  <2>4. Rooted(root)'
    BY <1>3, <2>3 DEF Rooted, SegmentsSame
  <2>5. Firsts'
    BY <1>3 DEF SegmentsHave, Firsts, SegmentsSame
  <2> QED BY <2>2, <2>4, <2>5 DEF SegmentsHave
<1>4. ASSUME NEW k \in 1..Len(corridors[i].segments),
             corridors[i].segments[k] = b,
             SegmentsAt(i, Spliced(corridors[i].segments, k, parts))
      PROVE  SegmentsHave'
  <2>1. PICK segs : segs = corridors[i].segments
    OBVIOUS
  <2>2. PICK new : new = Spliced(segs, k, parts)
    OBVIOUS
  <2>3. SegmentsAt(i, new) /\ i \in 1..Len(corridors)
    BY <1>4, <2>1, <2>2 DEF SegmentsAt
  <2>4. /\ Listing(segs) /\ Listed(segs, DOMAIN branches)
        /\ ToSet(segs) = {segs[l] : l \in 1..Len(segs)}
    <3>1. Listed(segs, DOMAIN branches)
      BY <2>1, <2>3 DEF SegmentsHave, AllListed
    <3> QED BY <2>1, <2>3, <3>1, SegmentsIs
  <2>5. b \in ToSet(segs)
    BY <1>4, <2>1, <2>4
  <2>6. PICK A : segs \in Seq(A) /\ parts \in Seq(A)
    <3> DEFINE A == ToSet(segs) \cup ToSet(parts)
    <3>1. segs \in Seq(ToSet(segs)) /\ parts \in Seq(ToSet(parts))
      BY <2>4 DEF Listing
    <3>2. /\ \A j \in 1..Len(segs) : segs[j] \in A
          /\ \A j \in 1..Len(parts) : parts[j] \in A
      BY <3>1, ListingIs
    <3> HIDE DEF A
    <3>3. segs \in Seq(A)
      BY <3>1, <3>2, ListIn
    <3>4. parts \in Seq(A)
      BY <3>1, <3>2, ListIn
    <3> QED BY <3>3, <3>4
  <2>7. Listed(new, DOMAIN branches')
    <3>1. PICK D, E : D = DOMAIN branches /\ E = DOMAIN branches'
      OBVIOUS
    <3>2. /\ D \ {segs[k]} \subseteq E /\ Listed(segs, D)
          /\ PartsFit(parts, D, E)
      BY <1>4, <2>1, <2>4, <3>1
    <3>3. Listed(Spliced(segs, k, parts), E)
      BY <1>4, <2>1, <2>6, <3>2, SplicedListed
    <3> QED BY <2>2, <3>1, <3>3
  <2>8. ToSet(new) \subseteq ToSet(segs) \cup ToSet(parts)
    BY <1>4, <2>1, <2>2, <2>6, SplicedHolds
  <2>9. Listing(new)
    <3>1. corridors'[i].segments = new /\ i \in 1..Len(corridors')
      BY <2>3 DEF SegmentsAt
    <3> QED BY <3>1 DEF CorridorShapes, CorridorShape
  <2>10. ASSUME NEW x \in ToSet(new)
         PROVE  x \in ToSet(corridors[i].segments) \/ OwnSegment(i, x)
    BY <2>1, <2>5, <2>8 DEF OwnSegment
  <2>11. (\E q : Rooted(q)') /\ Firsts'
    <3>1. PICK root : Rooted(root)
      BY DEF SegmentsHave
    <3>2. Firsts
      BY DEF SegmentsHave
    <3> QED BY <2>3, <2>9, <2>10, <3>1, <3>2, SegmentsGrow
  <2>12. AllListed'
    <3>1. ASSUME NEW j \in 1..Len(corridors)
          PROVE  Listed(corridors'[j].segments, DOMAIN branches')
      <4>1. CASE j = i
        BY <2>3, <2>7, <4>1 DEF SegmentsAt
      <4>2. CASE j # i
        <5>1. corridors'[j].segments = corridors[j].segments
          BY <2>3, <4>2 DEF SegmentsAt
        <5>2. b \notin ToSet(corridors[j].segments)
          BY <1>1, <4>2
        <5> QED BY <1>2, <5>1, <5>2
      <4> QED BY <4>1, <4>2
    <3> QED BY <2>3, <3>1 DEF AllListed, SegmentsAt
  <2> QED BY <2>11, <2>12 DEF SegmentsHave
<1> QED BY <1>3, <1>4 DEF Parted

(* The halves of a split, and the parts of one with a section switch.      *)
LEMMA HalvesFit ==
    ASSUME NEW b, NEW l, NEW r, NEW node, Halved(b, l, r, node),
           NEW halves, HalvesNamed(halves),
           l = Half(halves.left, b), r = Half(halves.right, b)
    PROVE  /\ Listing(<<l, r>>)
           /\ DOMAIN branches \ {b} \subseteq DOMAIN branches'
           /\ PartsFit(<<l, r>>, DOMAIN branches, DOMAIN branches')
           /\ \A x \in ToSet(<<l, r>>) : x[1] \in PartKinds /\ x[2] = b
<1>1. PICK parts : parts = <<l, r>>
  OBVIOUS
<1>2. PICK T : T = {l, r}
  OBVIOUS
<1>3. /\ parts \in Seq(T) /\ Len(parts) = 2
      /\ parts[1] = l /\ parts[2] = r
      /\ \A k \in 1..Len(parts) : k = 1 \/ k = 2
  BY <1>1, <1>2
<1>4. Listing(parts) /\ ToSet(parts) = {parts[k] : k \in 1..Len(parts)}
  BY <1>3, ListingIs
<1>5. /\ l # r /\ l \notin DOMAIN branches /\ r \notin DOMAIN branches
      /\ DOMAIN branches' = (DOMAIN branches \ {b}) \cup {l, r}
  BY DEF Halved
<1>6. PartsFit(parts, DOMAIN branches, DOMAIN branches')
  BY <1>3, <1>5 DEF PartsFit
<1>7. /\ l[1] \in PartKinds /\ l[2] = b
      /\ r[1] \in PartKinds /\ r[2] = b
  BY DEF HalvesNamed, Half, PartKinds
<1>8. \A x \in ToSet(parts) : x[1] \in PartKinds /\ x[2] = b
  BY <1>3, <1>4, <1>7
<1> QED BY <1>1, <1>4, <1>5, <1>6, <1>8

LEMMA StationedSegments ==
    ASSUME CorridorShapes, SegmentsHave, Stationed
    PROVE  SegmentsHave'
<1>1. PICK b, at, parts : InsertStation(b, at, parts)
  BY DEF Stationed
<1>2. /\ CorridorShapes'
      /\ Parted(NamedLister(b), b, <<Half("L", b), Half("R", b)>>)
  BY <1>1, StationedCorridors
<1>3. PICK more : SplitAt(b, at, StationHalves, more, NamedLister(b))
  BY <1>1, Zenon DEF InsertStation
<1>4. /\ HalvesNamed(StationHalves)
      /\ StationHalves.left = "L" /\ StationHalves.right = "R"
  BY DEF HalvesNamed, StationHalves
<1>5. PICK l, r, node : /\ l = Half("L", b) /\ r = Half("R", b)
                        /\ node = more[1]
  OBVIOUS
<1>6. Halved(b, l, r, node)
  BY <1>3, <1>4, <1>5, SplitHalves
<1>7. /\ Listing(<<l, r>>)
      /\ DOMAIN branches \ {b} \subseteq DOMAIN branches'
      /\ PartsFit(<<l, r>>, DOMAIN branches, DOMAIN branches')
      /\ \A x \in ToSet(<<l, r>>) : x[1] \in PartKinds /\ x[2] = b
  BY <1>4, <1>5, <1>6, HalvesFit
<1>8. PICK i, ps : i = NamedLister(b) /\ ps = <<l, r>>
  OBVIOUS
<1> QED BY <1>2, <1>5, <1>7, <1>8, SegmentsSplit

LEMMA PointedSegments ==
    ASSUME CorridorShapes, SegmentsHave, Pointed
    PROVE  SegmentsHave'
<1>1. PICK b, at : \E n \in Nat : InsertBranchPoint(b, at, n)
  BY DEF Pointed
<1>2. PICK n \in Nat : InsertBranchPoint(b, at, n)
  BY <1>1
<1>3. PICK halves : halves = PointHalves(branches[b].type)
  OBVIOUS
<1>4. PICK l, r : l = Half(halves.left, b) /\ r = Half(halves.right, b)
  OBVIOUS
<1>5. CorridorShapes' /\ Parted(Lister(b), b, <<l, r>>)
  BY <1>2, <1>3, <1>4, PointedCorridors
<1>6. PICK more : SplitAt(b, at, halves, more, Lister(b))
  BY <1>2, <1>3, Zenon DEF InsertBranchPoint
<1>7. HalvesNamed(halves)
  BY <1>3 DEF HalvesNamed, PointHalves
<1>8. PICK node : node = more[1]
  OBVIOUS
<1>9. Halved(b, l, r, node)
  BY <1>4, <1>6, <1>7, <1>8, SplitHalves
<1>10. /\ Listing(<<l, r>>)
       /\ DOMAIN branches \ {b} \subseteq DOMAIN branches'
       /\ PartsFit(<<l, r>>, DOMAIN branches, DOMAIN branches')
       /\ \A x \in ToSet(<<l, r>>) : x[1] \in PartKinds /\ x[2] = b
  BY <1>4, <1>7, <1>9, HalvesFit
<1>11. PICK i, ps : i = Lister(b) /\ ps = <<l, r>>
  OBVIOUS
<1> QED BY <1>5, <1>10, <1>11, SegmentsSplit

LEMMA SwitchedSegments ==
    ASSUME CorridorShapes, SegmentsHave, Switched
    PROVE  SegmentsHave'
<1>1. PICK b, at, s : InsertSectionSwitch(b, at, s)
  BY DEF Switched
<1>2. PICK x, y, z : /\ x = Half("SL", b) /\ z = Half("SR", b)
                     /\ y = <<"section_switch", b, at>>
  OBVIOUS
<1>3. PICK parts : parts = <<x, y, z>>
  OBVIOUS
<1>4. CorridorShapes' /\ Parted(NamedLister(b), b, parts)
  BY <1>1, <1>2, <1>3, SwitchedCorridors
<1>5. PICK T : T = {x, y, z}
  OBVIOUS
<1>6. /\ parts \in Seq(T)
      /\ \A k \in 1..Len(parts) : parts[k] \in T
  BY <1>3, <1>5
<1>7. Listing(parts) /\ ToSet(parts) \subseteq T
  BY <1>6, ListingIs
<1>8. \A p \in T : p[1] \in PartKinds /\ p[2] = b /\ SwitchPart(p)
  BY <1>2, <1>5 DEF Half, PartKinds, SwitchPart
<1>9. PartsFit(parts, DOMAIN branches, DOMAIN branches')
  BY <1>6, <1>8 DEF PartsFit
<1>10. DOMAIN branches \ {b} \subseteq DOMAIN branches'
  <2>1. PICK fits : Sectioned(b, at, s, fits)
    BY <1>1, SectionedIs
  <2> QED BY <2>1 DEF Sectioned
<1>11. PICK i : i = NamedLister(b)
  OBVIOUS
<1> QED BY <1>4, <1>7, <1>8, <1>9, <1>10, <1>11, SegmentsSplit

(* No list is written, and no branch goes.                                 *)
LEMMA OtherSegments ==
    ASSUME CorridorShapes, SegmentsHave, LinesInv,
           \/ Started \/ Ported \/ Ringed \/ Opened \/ BranchSet \/ PointSet
           \/ CorridorSet \/ Resourced \/ Rerouted \/ Rebayed
           \/ UNCHANGED topologyVars
    PROVE  SegmentsHave'
<1>1. SUFFICES /\ SegmentsSame
               /\ DOMAIN branches \subseteq DOMAIN branches'
  BY SegmentsStay
<1>2. ASSUME UNCHANGED corridors PROVE SegmentsSame
  BY <1>2 DEF SegmentsSame
<1>3. ASSUME NEW from, NEW bus, NEW segment, NEW m,
             NewLine(from, bus, segment, m)
      PROVE  DOMAIN branches \subseteq DOMAIN branches'
  <2>1. PICK e : branches' = Added(Entry(segment, e), branches)
    BY <1>3 DEF NewLine
  <2> QED BY <2>1 DEF Added
<1>4. CASE Started
  <2>1. PICK from, n, m : StartLine(from, m, n)
    BY <1>4 DEF Started
  <2>2. DOMAIN branches \subseteq DOMAIN branches'
    BY <1>3, <2>1 DEF StartLine, StartBranch
  <2>3. UNCHANGED corridors
    BY <2>1 DEF StartLine, containers
  <2> QED BY <1>2, <2>2, <2>3
<1>5. CASE Ported
  <2>1. PICK p, i, n, m : StartBranchFromPort(p, i, m, n)
    BY <1>5 DEF Ported
  <2>2. DOMAIN branches \subseteq DOMAIN branches'
    BY <1>3, <2>1 DEF StartBranchFromPort, StartBranch
  <2>3. UNCHANGED corridors
    BY <2>1 DEF StartBranchFromPort
  <2> QED BY <1>2, <2>2, <2>3
<1>6. CASE Ringed
  BY <1>6, RingLines, LabelledCorridors
<1>7. ASSUME NEW b, NEW s, branches' = [branches EXCEPT ![b] = s]
      PROVE  DOMAIN branches' = DOMAIN branches
  BY <1>7
<1>8. CASE Opened \/ BranchSet
  <2>1. /\ BranchStep
        /\ UNCHANGED corridors \/ Opened
    BY <1>8 DEF Opened, SetNormalOpenPoint, BranchSet, SetStatus, SetLength,
                BranchStep, Statuses, containers
  <2>2. DOMAIN branches' = DOMAIN branches
    BY <2>1, BranchLines
  <2> QED BY <1>2, <2>1, <2>2, LabelledCorridors
<1>9. CASE PointSet \/ Resourced \/ Rerouted \/ Rebayed
  <2>1. UNCHANGED <<branches, corridors>>
    BY <1>9 DEF PointSet, SetPorts, SetOccupied, Resourced, RewriteSource,
                Rerouted, RewriteStationBuses, RewriteStationTransformers,
                Rebayed, RewriteBay, grid, containers
  <2> QED BY <1>2, <2>1
<1>10. CASE CorridorSet
  <2>1. UNCHANGED branches
    BY <1>10 DEF CorridorSet, SetCorridorType, SetNoPoint, grid
  <2> QED BY <1>10, <2>1, LabelledCorridors
<1>11. CASE UNCHANGED topologyVars
  <2>1. UNCHANGED <<branches, corridors>>
    BY <1>11 DEF topologyVars, grid, containers
  <2> QED BY <1>2, <2>1
<1> QED BY <1>4, <1>5, <1>6, <1>8, <1>9, <1>10, <1>11

SegmentsOK == Unwritten("corridors") => SegmentsHave
LEMMA SegmentsNext ==
    ASSUME CorridorShapes, CorridorShapes', SegmentsOK, LinesInv,
           [TopologyNext]_topologyVars
    PROVE  SegmentsOK'
<1>1. Steps /\ Frame
  BY StepIs, FrameIs
<1>2. CASE Resegmented
  BY <1>1, <1>2 DEF Frame, SegmentsOK, Unwritten
<1>3. CASE ~ Resegmented
  <2>1. SUFFICES ASSUME SegmentsHave PROVE SegmentsHave'
    BY <1>1 DEF Frame, SegmentsOK, Unwritten
  <2>2. CASE Sourced
    <3>1. UNCHANGED branches
      BY <2>2 DEF Sourced, AddGridSource
    <3> QED BY <2>1, <2>2, <3>1, SourcedCorridors, SegmentsAdded
  <2>3. CASE Continued
    BY <2>1, <2>3, ContinuedSegments
  <2>4. CASE Stationed
    BY <2>1, <2>4, StationedSegments
  <2>5. CASE Pointed
    BY <2>1, <2>5, PointedSegments
  <2>6. CASE Switched
    BY <2>1, <2>6, SwitchedSegments
  <2>7. CASE Deleted
    <3>1. PICK ref : DeleteElement(ref)
      BY <2>7 DEF Deleted
    <3>2. PICK dead : dead = DeadBranches(ref)
      OBVIOUS
    <3>3. /\ CorridorsLeft(dead)
          /\ DOMAIN branches' = DOMAIN branches \ dead
      BY <3>1, <3>2, DeletedCorridors, DeletedLines
    <3> QED BY <2>1, <3>3, SegmentsFewer
  <2> QED BY <1>1, <1>3, <2>1, <2>2, <2>3, <2>4, <2>5, <2>6, <2>7,
             OtherSegments DEF Steps
<1> QED BY <1>2, <1>3

-----------------------------------------------------------------------------
(* All of it together is an inductive invariant.                           *)
TopologyInv ==
    /\ LinesInv
    /\ TransformersHave /\ SourcesHave /\ StationsOK /\ BaysOK /\ PointsOK
    /\ CorridorShapes /\ SegmentsOK

LEMMA KindsAreOK == TopologyInv => KindsOK
<1> SUFFICES ASSUME TopologyInv PROVE KindsOK
  OBVIOUS
<1>1. \A b \in DOMAIN branches : b[1] \in BranchKinds
  BY DEF TopologyInv, LinesInv, LinesHave, LinesOK
<1>2. \A t \in DOMAIN transformers : t[1] = "transformer"
  <2>1. ASSUME NEW t \in DOMAIN transformers PROVE t[1] = "transformer"
    <3>1. PICK x, y : t = <<"transformer", x, y>>
      BY DEF TopologyInv, TransformersHave
    <3> QED BY <3>1
  <2> QED BY <2>1
<1>3. \A s \in DOMAIN sources : s[1] = "gpz_source"
  BY DEF TopologyInv, SourcesHave, SourceShapes
<1>4. \A r \in RefsIn(substations) : r[1] \in {"gpz", "station"}
  BY DEF TopologyInv, StationsOK, StationShapes, StationShape, RefsIn, ToSet
<1>5. \A r \in RefsIn(bays) : r[1] \in {"sn_field", "nn_main", "nn_feeder"}
  BY DEF TopologyInv, BaysOK, BayShapes, RefsIn, ToSet
<1>6. \A r \in RefsIn(corridors) : r[1] = "corridor"
  <2>1. DOMAIN corridors = 1..Len(corridors)
    BY ListingIs DEF TopologyInv, CorridorShapes, Listing
  <2> QED BY <2>1 DEF TopologyInv, CorridorShapes, CorridorShape, RefsIn
<1> QED BY <1>1, <1>2, <1>3, <1>4, <1>5, <1>6 DEF KindsOK

LEMMA TopologyInitInv == TopologyInit => TopologyInv
<1> SUFFICES ASSUME TopologyInit PROVE TopologyInv
  OBVIOUS
<1>1. /\ buses = << >> /\ branches = << >> /\ transformers = << >>
      /\ sources = << >> /\ substations = << >> /\ bays = << >>
      /\ branchPoints = << >> /\ corridors = << >>
  BY DEF TopologyInit
<1>2. PICK rank : rank = [x \in {} |-> 0]
  OBVIOUS
<1>3. Ranks(rank)
  BY <1>2 DEF Ranks
<1>4. ToSet(<< >>) = {} /\ Listing(<< >>) /\ Len(<< >>) = 0
  BY DEF ToSet, Listing
<1>5. LinesHave(rank)
  <2>1. LinesOK(DOMAIN rank)
    BY <1>1 DEF LinesOK, Differ
  <2>2. BranchEnds /\ FarEnds(rank)
    BY <1>1 DEF BranchEnds, FarEnds
  <2> QED BY <1>3, <2>1, <2>2 DEF LinesHave
<1>6. IsFcn(<< >>) /\ DOMAIN << >> = {}
  BY DEF IsFcn
<1>7. TransformersHave /\ SourcesHave /\ PointsOK
  BY <1>1, <1>6 DEF TransformersHave, SourcesHave, SourceShapes,
     SourcesConnected, PointsOK, PointShapes, PointsHave
<1>8. StationsOK /\ BaysOK
  BY <1>1, <1>4 DEF StationsOK, StationShapes, StationsHave, BaysOK,
     BayShapes, BaysHave
<1>9. CorridorShapes
  BY <1>1, <1>4 DEF CorridorShapes
<1>10. SegmentsHave
  <2>1. PICK root : root = [x \in {} |-> 0]
    OBVIOUS
  <2>2. Rooted(root)
    BY <1>1, <1>4, <2>1 DEF Rooted, Roots
  <2>3. Firsts /\ AllListed
    BY <1>1, <1>4 DEF Firsts, AllListed
  <2> QED BY <2>2, <2>3 DEF SegmentsHave
<1> QED BY <1>5, <1>7, <1>8, <1>9, <1>10 DEF TopologyInv, LinesInv, SegmentsOK

LEMMA TopologyNextInv ==
    TopologyInv /\ [TopologyNext]_topologyVars => TopologyInv'
<1> SUFFICES ASSUME TopologyInv, [TopologyNext]_topologyVars
             PROVE  TopologyInv'
  OBVIOUS
<1>1. LinesInv /\ KindsOK /\ Frame
  BY KindsAreOK, FrameIs DEF TopologyInv
<1>2. LinesInv' /\ (Deleted \/ Buses \subseteq Buses')
  BY <1>1, LinesNext
<1>3. /\ TransformersHave'
      /\ Deleted \/ DOMAIN transformers \subseteq DOMAIN transformers'
  BY <1>1, <1>2, TransformersNext DEF TopologyInv
<1>4. SourcesHave' /\ BaysOK'
  BY <1>1, <1>2, SourcesNext, BaysNext DEF TopologyInv
<1>5. StationsOK'
  BY <1>1, <1>3, StationsNext DEF TopologyInv
<1>6. PointsOK'
  BY <1>1, <1>2, PointsNext DEF TopologyInv
<1>7. CorridorShapes'
  BY <1>1, CorridorsNext DEF TopologyInv
<1>8. SegmentsOK'
  BY <1>1, <1>7, SegmentsNext DEF TopologyInv
<1> QED BY <1>2, <1>3, <1>4, <1>5, <1>6, <1>7, <1>8 DEF TopologyInv

(* So the invariant holds in every state.                                  *)
LEMMA AlwaysTopologyInv == TopologySpec => []TopologyInv
  BY TopologyInitInv, TopologyNextInv, PTL DEF TopologySpec

-----------------------------------------------------------------------------
(* A list without repetition is as long as the set of its elements.        *)
LEMMA BusesCounted ==
    ASSUME NEW T, NEW list \in Seq(T), Differ(list)
    PROVE  Cardinality(ToSet(list)) = Len(list)
<1>1. ToSet(list) = {list[i] : i \in 1..Len(list)} /\ Len(list) \in Nat
  BY ListSet
<1>2. ExistsBijection(1..Len(list), ToSet(list))
  <2>1. list \in [1..Len(list) -> ToSet(list)]
    BY <1>1
  <2>2. list \in Bijection(1..Len(list), ToSet(list))
    BY <1>1, <2>1
       DEF Differ, Bijection, Injection, Surjection, IsInjective
  <2> QED BY <2>2 DEF ExistsBijection
<1> QED BY <1>1, <1>2, FS_CountingElements

(* Every collection that names a bus, a transformer or a branch names one  *)
(* of the model.                                                           *)
LEMMA IntactIfInv == TopologyInv => NetworkIntact
<1> SUFFICES ASSUME TopologyInv PROVE NetworkIntact
  OBVIOUS
<1>1. EndsExist
  <2>1. Cardinality(Buses) = Len(buses)
    <3>1. PICK K : buses \in Seq(K) /\ Differ(buses)
      BY DEF TopologyInv, LinesInv, LinesHave, LinesOK
    <3> QED BY <3>1, BusesCounted DEF Buses
  <2>2. BranchEnds
    BY DEF TopologyInv, LinesInv, LinesHave
  <2>3. ASSUME NEW t \in DOMAIN transformers
        PROVE  {transformers[t].hv, transformers[t].lv} \subseteq Buses
    <3>1. PICK x, y : /\ x = Sn(t) /\ y = Nn(t)
                      /\ transformers[t] = [hv |-> x, lv |-> y]
                      /\ x \in Buses /\ y \in Buses
      BY DEF TopologyInv, TransformersHave
    <3> QED BY <3>1
  <2>4. \A p \in DOMAIN branchPoints : branchPoints[p].bus \in Buses
    BY DEF TopologyInv, PointsOK, PointsHave
  <2> QED BY <2>1, <2>2, <2>3, <2>4 DEF EndsExist, BranchEnds
<1>2. Unwritten("sources") => SourcesConnected
  BY DEF TopologyInv, SourcesHave
<1>3. ASSUME Unwritten("substations") PROVE StationsWhole
  <2> SUFFICES ASSUME NEW i \in DOMAIN substations,
                      substations[i].transformers # {}
               PROVE  LET s == substations[i]
                      IN  /\ s.transformers \subseteq DOMAIN transformers
                          /\ s.buses \subseteq Buses
                          /\ Unwritten("bays") =>
                                \A f \in ToSet(bays) :
                                   f.station = s.ref => f.bus \in s.buses
    BY DEF StationsWhole
  <2>1. PICK s : s = substations[i]
    OBVIOUS
  <2>2. /\ s \in ToSet(substations) /\ s.transformers # {}
        /\ StationHas(s, DOMAIN transformers)
    BY <1>3, <2>1 DEF TopologyInv, StationsOK, StationsHave, ToSet
  <2>3. PICK r, sn, nn, tr : /\ r = s.ref
                             /\ sn = Sn(r) /\ nn = Nn(r) /\ tr = Tr(r)
    OBVIOUS
  <2>4. /\ r = <<"station", r[2], r[3]>>
        /\ s.buses = {sn, nn}
        /\ s.transformers \subseteq {tr} \cap DOMAIN transformers
    BY <2>2, <2>3 DEF StationHas
  <2>5. tr \in DOMAIN transformers
    BY <2>2, <2>4
  <2>6. Sn(tr) = sn /\ Nn(tr) = nn
    BY <2>3 DEF Sn, Nn, Tr
  <2>7. sn \in Buses /\ nn \in Buses
    BY <2>5, <2>6 DEF TopologyInv, TransformersHave
  <2>8. ASSUME Unwritten("bays"), NEW f \in ToSet(bays), f.station = r
        PROVE  f.bus \in s.buses
    BY <2>3, <2>4, <2>8 DEF TopologyInv, BaysOK, BaysHave
  <2> QED BY <2>1, <2>3, <2>4, <2>7, <2>8
<1>4. ASSUME Unwritten("corridors") PROVE OnlySwitchPartsMissing
  <2>1. ASSUME NEW i \in DOMAIN corridors,
               NEW x \in ToSet(corridors[i].segments)
        PROVE  x \in DOMAIN branches \/ SwitchPart(x)
    <3>1. i \in 1..Len(corridors)
      BY ListingIs DEF TopologyInv, CorridorShapes, Listing
    <3>2. PICK k \in 1..Len(corridors[i].segments) :
              x = corridors[i].segments[k]
      BY <3>1, SegmentsIs DEF TopologyInv
    <3>3. Listed(corridors[i].segments, DOMAIN branches)
      BY <1>4, <3>1 DEF TopologyInv, SegmentsOK, SegmentsHave, AllListed
    <3> QED BY <3>2, <3>3 DEF Listed
  <2> QED BY <2>1 DEF OnlySwitchPartsMissing
<1> QED BY <1>1, <1>2, <1>3, <1>4 DEF NetworkIntact

(* What a test of one operation of domain_operations.py cannot reach:      *)
(* after any sequence of the modelled operations, with all updates among   *)
(* them, what is connected to a bus has that bus; and as long as no update *)
(* has written refs of the collection, a source has its bus, a station     *)
(* with a transformer is whole, and a corridor lists no branch that is     *)
(* gone, the parts of a section switch excepted.  For any media, lengths,  *)
(* positions, refs that updates write and bounds.                          *)
THEOREM NetworkStaysIntact == TopologySpec => []NetworkIntact
  BY AlwaysTopologyInv, IntactIfInv, PTL

-----------------------------------------------------------------------------
(* References that are kept.                                               *)

(* No branch goes, or buses come with what goes.                           *)
Grows ==
    \/ DOMAIN branches \subseteq DOMAIN branches'
    \/ Len(buses') > Len(buses)

(* A list grows when it gets a list that is not empty.                     *)
LEMMA LongerList ==
    ASSUME LinesInv, NEW more, Listing(more), more # << >>,
           buses' = buses \o more
    PROVE  Grows
<1>1. Listing(buses)
  <2>1. PICK K : buses \in Seq(K)
    BY DEF LinesInv, LinesHave, LinesOK
  <2> QED BY <2>1, ListingIs
<1>2. PICK t : t = buses \o more
  OBVIOUS
<1>3. Len(t) = Len(buses) + Len(more)
  BY <1>1, <1>2, ListWithMore DEF Extended
<1>4. Len(buses) \in Nat /\ Len(more) \in Nat /\ Len(more) # 0
  BY <1>1 DEF Listing
<1>5. Len(t) > Len(buses)
  BY <1>3, <1>4
<1>6. buses' = t
  BY <1>2
<1> QED BY <1>5, <1>6 DEF Grows

(* Every operation but delete_element.                                     *)
LEMMA BuildingGrows ==
    ASSUME LinesInv, [TopologyNext]_topologyVars
    PROVE  Grows \/ Deleted
<1>1. CASE UNCHANGED <<buses, branches>> \/ BusStep
  BY <1>1 DEF BusStep, Grows
<1>2. CASE LineStep
  <2>1. PICK from, bus, segment, m : NewLine(from, bus, segment, m)
    BY <1>2 DEF LineStep
  <2>2. PICK e : branches' = Added(e, branches)
    BY <2>1 DEF NewLine
  <2> QED BY <2>2 DEF Added, Grows
<1>3. CASE SplitStep
  <2>1. PICK b, at, halves, more, c :
            NewNodes(more) /\ SplitAt(b, at, halves, more, c)
    BY <1>3 DEF SplitStep
  <2> QED BY <2>1, LongerList DEF NewNodes, SplitAt
<1>4. CASE BranchStep
  BY <1>4, BranchLines DEF Grows
<1>5. CASE Ringed
  BY <1>5, RingLines DEF Grows
<1>6. CASE Switched
  <2>1. PICK x, y, z :
            buses' = buses \o (IF z THEN <<x, y>> ELSE <<x>>)
    BY <1>6, Zenon DEF Switched, InsertSectionSwitch
  <2>2. PICK more : more = IF z THEN <<x, y>> ELSE <<x>>
    OBVIOUS
  <2>3. buses' = buses \o more
    BY <2>1, <2>2
  <2>4. PICK T : T = {x, y}
    OBVIOUS
  <2>5. more \in Seq(T) /\ more # << >>
    <3>1. x \in T /\ y \in T
      BY <2>4
    <3>2. <<x, y>> \in Seq(T) /\ <<x>> \in Seq(T)
      BY <3>1
    <3>3. <<x, y>> # << >> /\ <<x>> # << >>
      OBVIOUS
    <3> QED BY <2>2, <3>2, <3>3
  <2>6. Listing(more)
    BY <2>5, ListingIs
  <2> QED BY <2>3, <2>5, <2>6, LongerList
<1>7. LinesStep
  BY LinesStepIs
<1> QED BY <1>1, <1>2, <1>3, <1>4, <1>5, <1>6, <1>7 DEF LinesStep

(* Deleting clears what names a branch that goes.                          *)
LEMMA CleanNop ==
    ASSUME NEW c, CorridorShape(c), NEW dead
    PROVE  CleanCorridor(c, dead).nop = IF c.nop \in dead THEN NoRef ELSE c.nop
<1>1. PICK segs : segs = Minus(c.segments, dead)
  OBVIOUS
<1>2. PICK nop : nop = IF c.nop \in dead THEN NoRef ELSE c.nop
  OBVIOUS
<1>3. PICK e : e = CleanCorridor(c, dead)
  OBVIOUS
<1>4. e = [c EXCEPT !.segments = segs, !.nop = nop]
  BY <1>1, <1>2, <1>3 DEF CleanCorridor
<1>5. e = [ref |-> c.ref, type |-> c.type, segments |-> segs, nop |-> nop]
  BY <1>4 DEF CorridorShape
<1> QED BY <1>2, <1>3, <1>5

LEMMA DeletionClears ==
    ASSUME TopologyInv, NEW ref, DeleteElement(ref),
           NEW b \in Named', b \in DOMAIN branches
    PROVE  b \in DOMAIN branches'
<1>1. PICK dead, t : dead = DeadBranches(ref) /\ t = WithoutRef(corridors, ref)
  OBVIOUS
<1>2. CorridorShapes /\ PointsOK /\ LinesInv
  BY DEF TopologyInv
<1>3. DOMAIN branches' = DOMAIN branches \ dead
  BY <1>1, <1>2, DeletedLines
<1>4. SUFFICES b \notin dead
  BY <1>3
<1>5. b # NoRef
  BY DEF Named
<1>6. ASSUME NEW i \in DOMAIN corridors', b = corridors'[i].nop
      PROVE  b \notin dead
  <2>1. corridors' = [j \in DOMAIN t |-> CleanCorridor(t[j], dead)]
    BY <1>1 DEF DeleteElement
  <2>2. i \in DOMAIN t /\ corridors'[i] = CleanCorridor(t[i], dead)
    BY <1>6, <2>1
  <2>3. PICK T : T = ToSet(corridors)
    OBVIOUS
  <2>4. corridors \in Seq(T)
    BY <1>2, <2>3 DEF CorridorShapes, Listing
  <2>5. t \in Seq(T)
    BY <1>1, <2>4, WithoutRefOK
  <2>6. PICK c : c = t[i]
    OBVIOUS
  <2>7. c \in T
    BY <2>2, <2>5, <2>6
  <2>8. CorridorShape(c)
    BY <1>2, <2>3, <2>4, <2>7, ListSet DEF CorridorShapes
  <2>9. CleanCorridor(c, dead).nop = IF c.nop \in dead THEN NoRef ELSE c.nop
    BY <2>8, CleanNop
  <2> QED BY <1>5, <1>6, <2>2, <2>6, <2>9
<1>7. ASSUME NEW p \in DOMAIN branchPoints',
             b \in ToSet(branchPoints'[p].occupied)
      PROVE  b \notin dead
  <2>1. PICK q : q = branchPoints[p]
    OBVIOUS
  <2>2. branchPoints'[p] = CleanPoint(q, dead) /\ PointShape(q)
    <3>1. PointsLeft(ref)
      BY <1>2, DeletedPoints
    <3> QED BY <1>1, <1>2, <2>1, <3>1
            DEF PointsLeft, PointsOK, PointShapes
  <2>3. PICK f : f = Restrict(q.occupied, {i \in DOMAIN q.occupied :
                                             q.occupied[i] \notin dead})
    OBVIOUS
  <2>4. PICK e : e = CleanPoint(q, dead)
    OBVIOUS
  <2>5. e = [q EXCEPT !.occupied = f]
    BY <2>3, <2>4 DEF CleanPoint
  <2>6. e.occupied = f
    BY <2>2, <2>5 DEF PointShape
  <2>7. \A i \in DOMAIN f : f[i] \notin dead
    BY <2>3 DEF Restrict
  <2> QED BY <1>7, <2>2, <2>4, <2>6, <2>7 DEF ToSet
<1> QED BY <1>6, <1>7 DEF Named

(* So no step loses a reference but by a split.                            *)
LEMMA StepKeepsRefs ==
    TopologyInv /\ [TopologyNext]_topologyVars =>
        [\A b \in Named' \cap DOMAIN branches :
            b \in DOMAIN branches' \/ WasSplit(b)]_topologyVars
<1> SUFFICES ASSUME TopologyInv, [TopologyNext]_topologyVars,
                    NEW b \in Named' \cap DOMAIN branches
             PROVE  b \in DOMAIN branches' \/ WasSplit(b)
  OBVIOUS
<1>1. CASE Grows
  BY <1>1 DEF Grows, WasSplit
<1>2. CASE Deleted
  BY <1>2, DeletionClears DEF Deleted
<1> QED BY <1>1, <1>2, BuildingGrows DEF TopologyInv

(* delete_element clears the normal open point and the port that name a    *)
(* branch it takes: after any sequence of the modelled operations only a   *)
(* split leaves such a reference at a segment that is gone.                *)
THEOREM ReferencesAreKept == TopologySpec => RefsLostOnlyBySplit
  BY AlwaysTopologyInv, StepKeepsRefs, PTL
     DEF TopologySpec, RefsLostOnlyBySplit

-----------------------------------------------------------------------------
(* Trunks that are chains.                                                 *)

(* A chain, by its indices.                                                *)
LEMMA ChainIs ==
    ASSUME NEW segs, Listing(segs), NEW bs
    PROVE  Chain(segs, bs) <=>
              /\ \A k \in 1..Len(segs) : segs[k] \in DOMAIN bs
              /\ Differ(segs)
              /\ \A k \in 1..(Len(segs) - 1) :
                    bs[segs[k]].to = bs[segs[k + 1]].from
<1>1. ToSet(segs) = {segs[k] : k \in 1..Len(segs)}
  BY ListingIs DEF Listing
<1>2. DOMAIN segs = 1..Len(segs)
  BY DEF Listing
<1>3. IsInjective(segs) <=> Differ(segs)
  BY <1>2 DEF IsInjective, Differ
<1> QED BY <1>1, <1>3 DEF Chain

(* A branch that is there and runs as before.                              *)
SameIn(b, bs, cs) ==
    b \in DOMAIN cs /\ cs[b].from = bs[b].from /\ cs[b].to = bs[b].to
OthersSame(b) ==
    \A x \in DOMAIN branches : x # b => SameIn(x, branches, branches')
AllSame == \A x \in DOMAIN branches : SameIn(x, branches, branches')

(* A list of such branches is a chain as before.                           *)
LEMMA ChainSame ==
    ASSUME NEW segs, Listing(segs), NEW bs, NEW cs, Chain(segs, bs),
           \A k \in 1..Len(segs) : SameIn(segs[k], bs, cs)
    PROVE  Chain(segs, cs)
<1>1. Differ(segs) /\ \A k \in 1..(Len(segs) - 1) :
         bs[segs[k]].to = bs[segs[k + 1]].from
  BY ChainIs
<1>2. \A k \in 1..(Len(segs) - 1) :
         k \in 1..Len(segs) /\ k + 1 \in 1..Len(segs)
  BY DEF Listing
<1>3. \A k \in 1..(Len(segs) - 1) :
         cs[segs[k]].to = cs[segs[k + 1]].from
  BY <1>1, <1>2 DEF SameIn
<1>4. \A k \in 1..Len(segs) : segs[k] \in DOMAIN cs
  BY DEF SameIn
<1> QED BY <1>1, <1>3, <1>4, ChainIs

(* A trunk that is not edited, and does not list the branch that goes.     *)
LEMMA ChainKept ==
    ASSUME CorridorShapes, NEW j \in 1..Len(corridors),
           Chain(corridors[j].segments, branches),
           corridors'[j].segments = corridors[j].segments,
           \/ AllSame
           \/ \E b : OthersSame(b) /\ b \notin ToSet(corridors[j].segments)
    PROVE  Chain(corridors'[j].segments, branches')
<1>1. PICK segs : segs = corridors[j].segments
  OBVIOUS
<1>2. Listing(segs) /\ ToSet(segs) = {segs[k] : k \in 1..Len(segs)}
  BY <1>1, SegmentsIs
<1>3. \A k \in 1..Len(segs) : segs[k] \in DOMAIN branches
  BY <1>1, <1>2, ChainIs
<1>4. \A k \in 1..Len(segs) : SameIn(segs[k], branches, branches')
  BY <1>1, <1>2, <1>3 DEF AllSame, OthersSame
<1>5. PICK cs : cs = branches'
  OBVIOUS
<1>6. Chain(segs, cs)
  BY <1>1, <1>2, <1>4, <1>5, ChainSame
<1> QED BY <1>1, <1>5, <1>6

(* One more segment, at the end of the last one.                           *)
LEMMA ChainLonger ==
    ASSUME NEW segs, Listing(segs), NEW s, NEW bs, NEW cs,
           Chain(segs, bs), s \notin DOMAIN bs,
           \A b \in DOMAIN bs : SameIn(b, bs, cs), s \in DOMAIN cs,
           segs # << >> => cs[s].from = bs[segs[Len(segs)]].to
    PROVE  Chain(Append(segs, s), cs)
<1>1. PICK n \in Nat : n = Len(segs)
  BY DEF Listing
<1>2. PICK t : t = Append(segs, s)
  OBVIOUS
<1>3. WithOne(t, segs, s)
  BY <1>2, ListWithOne
<1>4. /\ Listing(t) /\ Len(t) = n + 1 /\ t[n + 1] = s
      /\ \A k \in 1..n : t[k] = segs[k]
  BY <1>1, <1>3 DEF WithOne
<1>5. /\ \A k \in 1..n : segs[k] \in DOMAIN bs
      /\ \A k, l \in 1..n : segs[k] = segs[l] => k = l
      /\ \A k \in 1..(n - 1) : bs[segs[k]].to = bs[segs[k + 1]].from
  BY <1>1, ChainIs DEF Differ
<1>6. ASSUME NEW k \in 1..(n + 1) PROVE k \in 1..n \/ k = n + 1
  OBVIOUS
<1>7. ASSUME NEW k \in 1..(n + 1) PROVE t[k] \in DOMAIN cs
  BY <1>4, <1>5, <1>6 DEF SameIn
<1>8. ASSUME NEW k \in 1..n PROVE cs[t[k]].to = cs[t[k + 1]].from
  <2>1. t[k] = segs[k] /\ cs[t[k]].to = bs[segs[k]].to
    BY <1>4, <1>5 DEF SameIn
  <2>2. CASE k = n
    <3>1. segs # << >>
      BY <1>1, <2>2
    <3> QED BY <1>1, <1>4, <2>1, <2>2, <3>1
  <2>3. CASE k # n
    <3>1. k \in 1..(n - 1) /\ k + 1 \in 1..n
      BY <2>3
    <3> QED BY <1>4, <1>5, <2>1, <3>1 DEF SameIn
  <2> QED BY <2>2, <2>3
<1>9. Differ(t)
  <2>1. \A k \in 1..n : t[k] # s
    BY <1>4, <1>5
  <2>2. \A k, l \in 1..(n + 1) : t[k] = t[l] => k = l
    BY <1>4, <1>5, <1>6, <2>1
  <2> QED BY <1>4, <2>2 DEF Differ
<1>10. 1..(Len(t) - 1) = 1..n
  BY <1>4
<1>11. Chain(t, cs)
  BY <1>4, <1>7, <1>8, <1>9, <1>10, ChainIs
<1> QED BY <1>2, <1>11

(* Where what the spliced list holds comes from, by its place.             *)
LEMMA SplicedAt ==
    ASSUME NEW T, NEW segs \in Seq(T), NEW parts \in Seq(T),
           NEW k \in 1..Len(segs), NEW t, t = Spliced(segs, k, parts),
           NEW i \in 1..Len(t)
    PROVE  /\ i < k => t[i] = segs[i]
           /\ k <= i /\ i < k + Len(parts) =>
                 /\ i - k + 1 \in 1..Len(parts)
                 /\ t[i] = parts[i - k + 1]
           /\ k + Len(parts) <= i =>
                 /\ i - Len(parts) + 1 \in (k + 1)..Len(segs)
                 /\ t[i] = segs[i - Len(parts) + 1]
<1> DEFINE Old(h, j) ==
               /\ j # k /\ t[h] = segs[j] /\ (h < k \/ j > k)
               /\ j = IF h < k THEN h ELSE h - Len(parts) + 1
           New(h, j) == t[h] = parts[j] /\ j = h - k + 1
<1>1. t \in Seq(T)
  BY SplicedOK
<1>2. \A h \in 1..Len(t) : \/ \E j \in 1..Len(segs) : Old(h, j)
                           \/ \E j \in 1..Len(parts) : New(h, j)
  BY SplicedOK
<1>3. i \in Nat /\ k \in Nat /\ Len(parts) \in Nat /\ Len(segs) \in Nat
  BY <1>1
<1>4. CASE \E j \in 1..Len(segs) : Old(i, j)
  <2>1. PICK j \in 1..Len(segs) : Old(i, j)
    BY <1>4
  <2> QED BY <1>3, <2>1
<1>5. CASE \E j \in 1..Len(parts) : New(i, j)
  <2>1. PICK j \in 1..Len(parts) : New(i, j)
    BY <1>5
  <2> QED BY <1>3, <2>1
<1> QED BY <1>2, <1>4, <1>5

(* A chain takes the place of one segment of a chain.                      *)
LEMMA ChainSpliced ==
    ASSUME NEW T, NEW segs \in Seq(T), NEW parts \in Seq(T),
           parts # << >>, NEW k \in 1..Len(segs), NEW bs, NEW cs,
           Chain(segs, bs), Chain(parts, cs),
           \A j \in 1..Len(parts) : parts[j] \notin DOMAIN bs,
           \A b \in DOMAIN bs : b # segs[k] => SameIn(b, bs, cs),
           cs[parts[1]].from = bs[segs[k]].from,
           cs[parts[Len(parts)]].to = bs[segs[k]].to
    PROVE  Chain(Spliced(segs, k, parts), cs)
<1>1. PICK t : t = Spliced(segs, k, parts)
  OBVIOUS
<1>2. PICK n \in Nat, p \in Nat : n = Len(segs) /\ p = Len(parts) /\ p >= 1
  OBVIOUS
<1>3. t \in Seq(T) /\ Len(t) \in Nat /\ k \in Nat
  BY <1>1, SplicedOK
<1>4. ASSUME NEW i \in 1..Len(t)
      PROVE  /\ i < k => t[i] = segs[i]
             /\ k <= i /\ i < k + p =>
                   i - k + 1 \in 1..p /\ t[i] = parts[i - k + 1]
             /\ k + p <= i =>
                   i - p + 1 \in (k + 1)..n /\ t[i] = segs[i - p + 1]
  BY <1>1, <1>2, SplicedAt
<1>5. Listing(segs) /\ Listing(parts) /\ Listing(t)
  BY <1>3, ListingIs
<1>6. /\ \A j \in 1..n : segs[j] \in DOMAIN bs
      /\ \A j \in 1..(n - 1) : bs[segs[j]].to = bs[segs[j + 1]].from
  BY <1>2, <1>5, ChainIs
<1>7. /\ \A j \in 1..p : parts[j] \in DOMAIN cs
      /\ \A j \in 1..(p - 1) : cs[parts[j]].to = cs[parts[j + 1]].from
  BY <1>2, <1>5, ChainIs
<1>8. Differ(segs) /\ Differ(parts)
  BY <1>5, ChainIs
<1>9. \A j \in 1..n : j # k => SameIn(segs[j], bs, cs)
  BY <1>2, <1>6, <1>8 DEF Differ
<1>10. ASSUME NEW i \in 1..Len(t) PROVE t[i] \in DOMAIN cs
  <2>1. CASE i < k
    BY <1>2, <1>3, <1>4, <1>9, <2>1 DEF SameIn
  <2>2. CASE k <= i /\ i < k + p
    BY <1>4, <1>7, <2>2
  <2>3. CASE k + p <= i
    <3>1. i - p + 1 \in 1..n /\ i - p + 1 # k
      BY <1>3, <1>4, <2>3
    <3> QED BY <1>4, <1>9, <2>3, <3>1 DEF SameIn
  <2> QED BY <1>2, <1>3, <2>1, <2>2, <2>3
<1>11. ASSUME NEW i \in 1..(Len(t) - 1)
      PROVE  cs[t[i]].to = cs[t[i + 1]].from
  <2>1. i \in 1..Len(t) /\ i + 1 \in 1..Len(t) /\ i \in Nat
    BY <1>3
  <2>2. CASE i + 1 < k
    <3>1. t[i] = segs[i] /\ t[i + 1] = segs[i + 1]
      BY <1>3, <1>4, <2>1, <2>2
    <3>2. i \in 1..(n - 1) /\ i \in 1..n /\ i + 1 \in 1..n
          /\ i # k /\ i + 1 # k
      BY <1>2, <1>3, <2>1, <2>2
    <3> QED BY <1>6, <1>9, <3>1, <3>2 DEF SameIn
  <2>3. CASE i + 1 = k
    <3>1. t[i] = segs[i]
      BY <1>3, <1>4, <2>1, <2>3
    <3>2. t[i + 1] = parts[1]
      <4>1. i + 1 - k + 1 = 1 /\ k <= i + 1 /\ i + 1 < k + p
        BY <1>2, <1>3, <2>1, <2>3
      <4> QED BY <1>4, <2>1, <4>1
    <3>3. i \in 1..(n - 1) /\ i \in 1..n /\ i # k
      BY <1>2, <1>3, <2>1, <2>3
    <3> QED BY <1>6, <1>9, <2>3, <3>1, <3>2, <3>3 DEF SameIn
  <2>4. CASE k <= i /\ i + 1 < k + p
    <3>1. PICK j \in 1..(p - 1) : j = i - k + 1
      BY <1>2, <1>3, <2>1, <2>4
    <3>2. t[i] = parts[j] /\ t[i + 1] = parts[j + 1]
      <4>1. i + 1 - k + 1 = j + 1 /\ i < k + p /\ k <= i + 1
        BY <1>2, <1>3, <2>1, <2>4, <3>1
      <4> QED BY <1>4, <2>1, <2>4, <3>1, <4>1
    <3> QED BY <1>7, <3>2
  <2>5. CASE i + 1 = k + p
    <3>1. t[i] = parts[p]
      <4>1. i - k + 1 = p /\ k <= i /\ i < k + p
        BY <1>2, <1>3, <2>1, <2>5
      <4> QED BY <1>4, <2>1, <4>1
    <3>2. t[i + 1] = segs[k + 1] /\ k + 1 \in (k + 1)..n
      <4>1. PICK h \in 1..Len(t) : h = i + 1
        BY <2>1
      <4>2. h - p + 1 = k + 1 /\ k + p <= h
        <5>1. k \in Nat /\ p \in Nat /\ h = k + p
          BY <1>2, <1>3, <2>5, <4>1
        <5> QED BY <5>1
      <4>3. h - p + 1 \in (k + 1)..n /\ t[h] = segs[h - p + 1]
        BY <1>4, <4>2
      <4> QED BY <4>1, <4>2, <4>3
    <3>3. k \in 1..(n - 1) /\ k + 1 \in 1..n /\ k + 1 # k
      BY <1>2, <1>3, <3>2
    <3> QED BY <1>2, <1>6, <1>9, <3>1, <3>2, <3>3 DEF SameIn
  <2>6. CASE k + p <= i
    <3>1. PICK j \in (k + 1)..n : j = i - p + 1 /\ t[i] = segs[j]
      BY <1>4, <2>1, <2>6
    <3>2. t[i + 1] = segs[j + 1] /\ j + 1 \in (k + 1)..n
      <4>1. PICK h \in 1..Len(t) : h = i + 1
        BY <2>1
      <4>2. h - p + 1 = j + 1 /\ k + p <= h
        BY <1>2, <1>3, <2>1, <2>6, <3>1, <4>1
      <4>3. h - p + 1 \in (k + 1)..n /\ t[h] = segs[h - p + 1]
        BY <1>4, <4>2
      <4> QED BY <4>1, <4>2, <4>3
    <3>3. /\ j \in 1..(n - 1) /\ j \in 1..n /\ j + 1 \in 1..n
          /\ j # k /\ j + 1 # k
      BY <1>2, <1>3, <3>1, <3>2
    <3> QED BY <1>6, <1>9, <3>1, <3>2, <3>3 DEF SameIn
  <2> QED BY <1>2, <1>3, <2>1, <2>2, <2>3, <2>4, <2>5, <2>6
<1>12. Differ(t)
  <2> DEFINE Old(i, j) ==
                 /\ j # k /\ t[i] = segs[j] /\ (i < k \/ j > k)
                 /\ j = IF i < k THEN i ELSE i - Len(parts) + 1
             New(i, j) == t[i] = parts[j] /\ j = i - k + 1
  <2>1. \A i \in 1..Len(t) : \/ \E j \in 1..Len(segs) : Old(i, j)
                            \/ \E j \in 1..Len(parts) : New(i, j)
    BY <1>1, SplicedOK
  <2>2. ASSUME NEW i \in 1..Len(t), NEW h \in 1..Len(t), t[i] = t[h],
               NEW j \in 1..n, NEW l \in 1..n, Old(i, j), Old(h, l)
        PROVE  i = h
    <3>1. j = l
      BY <1>2, <1>8, <2>2 DEF Differ
    <3> QED BY <1>2, <1>3, <2>2, <3>1
  <2>3. ASSUME NEW i \in 1..Len(t), NEW h \in 1..Len(t), t[i] = t[h],
               NEW j \in 1..p, NEW l \in 1..p, New(i, j), New(h, l)
        PROVE  i = h
    <3>1. j = l
      BY <1>2, <1>8, <2>3 DEF Differ
    <3> QED BY <1>2, <1>3, <2>3, <3>1
  <2>4. /\ \A i \in 1..Len(t) : \A j \in 1..n : Old(i, j) => t[i] \in DOMAIN bs
        /\ \A i \in 1..Len(t) : \A j \in 1..p :
              New(i, j) => t[i] \notin DOMAIN bs
    BY <1>2, <1>6
  <2> HIDE DEF Old, New
  <2>5. ASSUME NEW i \in 1..Len(t), NEW h \in 1..Len(t), t[i] = t[h]
        PROVE  i = h
    BY <1>2, <2>1, <2>2, <2>3, <2>4, <2>5
  <2> QED BY <2>5 DEF Differ
<1>13. Chain(t, cs)
  BY <1>3, <1>10, <1>11, <1>5, <1>12, ChainIs
<1> QED BY <1>1, <1>13

(* A chain of parts takes the place of the segment that is split.          *)
LEMMA PartsChain ==
    ASSUME CorridorShapes, SegmentsHave,
           NEW b, NEW i, i = Lister(b) \/ i = NamedLister(b),
           NEW parts, Listing(parts), parts # << >>, Parted(i, b, parts),
           \A k \in 1..Len(parts) : parts[k] \notin DOMAIN branches,
           Chain(parts, branches'),
           branches'[parts[1]].from = branches[b].from,
           branches'[parts[Len(parts)]].to = branches[b].to,
           OthersSame(b),
           NEW j \in 1..Len(corridors),
           Chain(corridors[j].segments, branches)
    PROVE  Chain(corridors'[j].segments, branches')
<1>1. ASSUME b \in ToSet(corridors[j].segments) PROVE i = j
  BY <1>1, TheLister
<1>2. CASE /\ SegmentsSame
           /\ i # 0 => ~ Contains(corridors[i].segments, b)
  <2>1. b \notin ToSet(corridors[j].segments)
    <3>1. SUFFICES ASSUME b \in ToSet(corridors[j].segments) PROVE FALSE
      OBVIOUS
    <3>2. Contains(corridors[j].segments, b)
      BY <3>1, SegmentsIs
    <3> QED BY <1>1, <1>2, <3>1, <3>2
  <2>2. corridors'[j].segments = corridors[j].segments
    BY <1>2 DEF SegmentsSame
  <2> QED BY <2>1, <2>2, ChainKept
<1>3. ASSUME NEW k \in 1..Len(corridors[i].segments),
             corridors[i].segments[k] = b,
             SegmentsAt(i, Spliced(corridors[i].segments, k, parts))
      PROVE  Chain(corridors'[j].segments, branches')
  <2>1. PICK segs : segs = corridors[i].segments
    OBVIOUS
  <2>2. PICK new : new = Spliced(segs, k, parts)
    OBVIOUS
  <2>3. i \in 1..Len(corridors) /\ SegmentsAt(i, new)
    BY <1>3, <2>1, <2>2 DEF SegmentsAt
  <2>4. CASE j = i
    <3>1. Listing(segs)
      BY <2>1, <2>3, SegmentsIs
    <3>2. PICK T : segs \in Seq(T) /\ parts \in Seq(T)
      <4> DEFINE A == ToSet(segs) \cup ToSet(parts)
      <4>1. segs \in Seq(ToSet(segs)) /\ parts \in Seq(ToSet(parts))
        BY <3>1 DEF Listing
      <4>2. /\ \A h \in 1..Len(segs) : segs[h] \in A
            /\ \A h \in 1..Len(parts) : parts[h] \in A
        BY <4>1, ListingIs
      <4> HIDE DEF A
      <4>3. segs \in Seq(A)
        BY <4>1, <4>2, ListIn
      <4>4. parts \in Seq(A)
        BY <4>1, <4>2, ListIn
      <4> QED BY <4>3, <4>4
    <3>3. PICK bs, cs : bs = branches /\ cs = branches'
      OBVIOUS
    <3>4. /\ Chain(segs, bs) /\ Chain(parts, cs)
          /\ \A h \in 1..Len(parts) : parts[h] \notin DOMAIN bs
          /\ \A x \in DOMAIN bs : x # segs[k] => SameIn(x, bs, cs)
          /\ cs[parts[1]].from = bs[segs[k]].from
          /\ cs[parts[Len(parts)]].to = bs[segs[k]].to
      BY <1>3, <2>1, <2>4, <3>3 DEF OthersSame
    <3>5. Chain(new, cs)
      BY <1>3, <2>1, <2>2, <3>2, <3>4, ChainSpliced
    <3> QED BY <2>3, <2>4, <3>3, <3>5 DEF SegmentsAt
  <2>5. CASE j # i
    <3>1. b \notin ToSet(corridors[j].segments)
      BY <1>1, <2>5
    <3>2. corridors'[j].segments = corridors[j].segments
      BY <2>3, <2>5 DEF SegmentsAt
    <3> QED BY <3>1, <3>2, ChainKept
  <2> QED BY <2>4, <2>5
<1> QED BY <1>2, <1>3 DEF Parted

(* A split in two halves.                                                  *)
LEMMA HalvesChain ==
    ASSUME CorridorShapes, SegmentsHave,
           NEW b, NEW i, i = Lister(b) \/ i = NamedLister(b),
           NEW l, NEW r, NEW node, Halved(b, l, r, node),
           Parted(i, b, <<l, r>>),
           NEW j \in 1..Len(corridors),
           Chain(corridors[j].segments, branches)
    PROVE  Chain(corridors'[j].segments, branches')
<1>1. PICK parts : parts = <<l, r>>
  OBVIOUS
<1>2. PICK T : T = {l, r}
  OBVIOUS
<1>3. /\ parts \in Seq(T) /\ parts # << >> /\ Len(parts) = 2
      /\ parts[1] = l /\ parts[2] = r
      /\ \A k \in 1..Len(parts) : k = 1 \/ k = 2
  BY <1>1, <1>2
<1>4. Listing(parts)
  BY <1>3, ListingIs
<1>5. /\ branches'[l].from = branches[b].from /\ branches'[l].to = node
      /\ branches'[r].from = node /\ branches'[r].to = branches[b].to
      /\ l \in DOMAIN branches' /\ r \in DOMAIN branches'
      /\ l # r /\ l \notin DOMAIN branches /\ r \notin DOMAIN branches
      /\ \A x \in DOMAIN branches : x # b =>
            x \in DOMAIN branches' /\ branches'[x] = branches[x]
  BY DEF Halved, Branch
<1>6. OthersSame(b)
  BY <1>5 DEF OthersSame, SameIn
<1>7. Chain(parts, branches')
  <2>1. PICK cs : cs = branches'
    OBVIOUS
  <2>2. \A k \in 1..Len(parts) : parts[k] \in DOMAIN cs
    BY <1>3, <1>5, <2>1
  <2>3. Differ(parts)
    BY <1>3, <1>5 DEF Differ
  <2>4. cs[parts[1]].to = cs[parts[1 + 1]].from
    BY <1>3, <1>5, <2>1
  <2>5. 1..(Len(parts) - 1) = {1}
    BY <1>3
  <2>6. Chain(parts, cs)
    BY <1>4, <2>2, <2>3, <2>4, <2>5, ChainIs
  <2> QED BY <2>1, <2>6
<1>8. /\ \A k \in 1..Len(parts) : parts[k] \notin DOMAIN branches
      /\ branches'[parts[1]].from = branches[b].from
      /\ branches'[parts[Len(parts)]].to = branches[b].to
      /\ Parted(i, b, parts)
  BY <1>1, <1>3, <1>5
<1> QED BY <1>3, <1>4, <1>6, <1>7, <1>8, PartsChain

(* A section switch: a chain of three parts, or one was refused.           *)
LEMMA SwitchChain ==
    ASSUME CorridorShapes, SegmentsHave,
           NEW b \in DOMAIN branches, NEW at \in Positions,
           NEW status \in NormalStates, InsertSectionSwitch(b, at, status),
           NEW j \in 1..Len(corridors),
           Chain(corridors[j].segments, branches)
    PROVE  Chain(corridors'[j].segments, branches') \/ PartRefused
<1>1. PICK l, s, r : /\ l = Half("SL", b) /\ r = Half("SR", b)
                     /\ s = <<"section_switch", b, at>>
  OBVIOUS
<1>2. PICK parts : parts = <<l, s, r>>
  OBVIOUS
<1>3. Parted(NamedLister(b), b, parts)
  BY <1>1, <1>2, SwitchedCorridors
<1>4. PICK fits : Sectioned(b, at, status, fits)
  BY SectionedIs
<1>5. CASE fits # {l, s, r}
  <2>1. /\ fits \subseteq {l, s, r} /\ fits \cap DOMAIN branches = {}
        /\ DOMAIN branches' = fits \cup (DOMAIN branches \ {b})
    BY <1>1, <1>4 DEF Sectioned
  <2>2. ~ ({l, s, r} \subseteq DOMAIN branches' \ DOMAIN branches)
    BY <1>5, <2>1
  <2> QED BY <1>1, <2>2 DEF PartRefused
<1>6. CASE fits = {l, s, r}
  <2>1. PICK n1, n2, e : /\ n1 = <<"switch_node", b, at>>
                         /\ n2 = <<"switch_node_2", b, at>>
                         /\ e = branches[b]
    OBVIOUS
  <2>2. /\ branches'[l] = Branch(e.from, n1, e.type, "closed")
        /\ branches'[s] = Branch(n1, n2, "switch", status)
        /\ branches'[r] = Branch(n2, e.to, e.type, "closed")
        /\ {l, s, r} \cap DOMAIN branches = {}
        /\ {l, s, r} \subseteq DOMAIN branches'
        /\ \A x \in DOMAIN branches \ {b} :
              x \in DOMAIN branches' /\ branches'[x] = branches[x]
    BY <1>1, <1>4, <1>6, <2>1 DEF Sectioned
  <2>3. /\ branches'[l].from = branches[b].from /\ branches'[l].to = n1
        /\ branches'[s].from = n1 /\ branches'[s].to = n2
        /\ branches'[r].from = n2 /\ branches'[r].to = branches[b].to
    BY <2>1, <2>2 DEF Branch
  <2>4. OthersSame(b)
    BY <2>2 DEF OthersSame, SameIn
  <2>5. l # s /\ l # r /\ s # r
    BY <1>1 DEF Half
  <2>6. PICK T : T = {l, s, r}
    OBVIOUS
  <2>7. /\ parts \in Seq(T) /\ parts # << >> /\ Len(parts) = 3
        /\ parts[1] = l /\ parts[2] = s /\ parts[3] = r
        /\ \A k \in 1..Len(parts) : k = 1 \/ k = 2 \/ k = 3
    BY <1>2, <2>6
  <2>8. Listing(parts)
    BY <2>7, ListingIs
  <2>9. Chain(parts, branches')
    <3>1. PICK cs : cs = branches'
      OBVIOUS
    <3>2. \A k \in 1..Len(parts) : parts[k] \in DOMAIN cs
      BY <2>2, <2>7, <3>1
    <3>3. Differ(parts)
      BY <2>5, <2>7 DEF Differ
    <3>4. /\ cs[parts[1]].to = cs[parts[1 + 1]].from
          /\ cs[parts[2]].to = cs[parts[2 + 1]].from
      BY <2>3, <2>7, <3>1
    <3>5. 1..(Len(parts) - 1) = {1, 2}
      BY <2>7
    <3>6. Chain(parts, cs)
      BY <2>8, <3>2, <3>3, <3>4, <3>5, ChainIs
    <3> QED BY <3>1, <3>6
  <2>10. /\ \A k \in 1..Len(parts) : parts[k] \notin DOMAIN branches
         /\ branches'[parts[1]].from = branches[b].from
         /\ branches'[parts[Len(parts)]].to = branches[b].to
    BY <2>2, <2>3, <2>7
  <2>11. PICK i : i = NamedLister(b)
    OBVIOUS
  <2> QED BY <1>3, <2>4, <2>7, <2>8, <2>9, <2>10, <2>11, PartsChain
<1> QED BY <1>5, <1>6

LEMMA StationChain ==
    ASSUME CorridorShapes, SegmentsHave,
           NEW b, NEW at, NEW parts, InsertStation(b, at, parts),
           NEW j \in 1..Len(corridors),
           Chain(corridors[j].segments, branches)
    PROVE  Chain(corridors'[j].segments, branches')
<1>1. Parted(NamedLister(b), b, <<Half("L", b), Half("R", b)>>)
  BY StationedCorridors
<1>2. PICK more : SplitAt(b, at, StationHalves, more, NamedLister(b))
  BY Zenon DEF InsertStation
<1>3. /\ HalvesNamed(StationHalves)
      /\ StationHalves.left = "L" /\ StationHalves.right = "R"
  BY DEF HalvesNamed, StationHalves
<1>4. PICK l, r, node, i : /\ l = Half("L", b) /\ r = Half("R", b)
                           /\ node = more[1] /\ i = NamedLister(b)
  OBVIOUS
<1>5. Halved(b, l, r, node)
  BY <1>2, <1>3, <1>4, SplitHalves
<1> QED BY <1>1, <1>4, <1>5, HalvesChain

LEMMA PointChain ==
    ASSUME CorridorShapes, SegmentsHave,
           NEW b, NEW at, NEW n, InsertBranchPoint(b, at, n),
           NEW j \in 1..Len(corridors),
           Chain(corridors[j].segments, branches)
    PROVE  Chain(corridors'[j].segments, branches')
<1>1. PICK halves : halves = PointHalves(branches[b].type)
  OBVIOUS
<1>2. PICK more : SplitAt(b, at, halves, more, Lister(b))
  BY <1>1, Zenon DEF InsertBranchPoint
<1>3. HalvesNamed(halves)
  BY <1>1 DEF HalvesNamed, PointHalves
<1>4. PICK l, r, node, i :
          /\ l = Half(halves.left, b) /\ r = Half(halves.right, b)
          /\ node = more[1] /\ i = Lister(b)
  OBVIOUS
<1>5. Parted(i, b, <<l, r>>)
  BY <1>1, <1>4, PointedCorridors
<1>6. Halved(b, l, r, node)
  BY <1>2, <1>3, <1>4, SplitHalves
<1> QED BY <1>4, <1>5, <1>6, HalvesChain

(* A new branch leaves the others as they are.                             *)
LEMMA BranchComes ==
    ASSUME NEW s, s \notin DOMAIN branches, NEW e,
           branches' = Added(Entry(s, e), branches)
    PROVE  AllSame /\ s \in DOMAIN branches' /\ branches'[s] = e
<1>1. OneMore(Added(Entry(s, e), branches), branches, s, e)
  BY WithEntry
<1> QED BY <1>1 DEF OneMore, AllSame, SameIn

(* A trunk that is continued without a named terminal is continued at its  *)
(* end.                                                                    *)
LEMMA ContinueTrunkChain ==
    ASSUME CorridorShapes, NEW t, NEW m, NEW n,
           ContinueTrunk(t, NoRef, m, n),
           NEW j \in 1..Len(corridors),
           Chain(corridors[j].segments, branches)
    PROVE  Chain(corridors'[j].segments, branches')
<1>1. PICK i : i = CorridorIndex(t)
  OBVIOUS
<1>2. PICK from :
          /\ NewLine(from, <<"downstream", t, from, m, n>>,
                     <<"trunk", t, from, m, n>>, m)
          /\ from = TrunkEnd(t)
          /\ \/ i = 0 /\ SegmentsSame
             \/ /\ FirstOf(i, t)
                /\ SegmentsAt(i, Append(corridors[i].segments,
                                        <<"trunk", t, from, m, n>>))
  BY <1>1, ContinuedCorridors
<1>3. PICK s, e : /\ s = <<"trunk", t, from, m, n>>
                  /\ e = Branch(from, <<"downstream", t, from, m, n>>, m,
                                "closed")
  OBVIOUS
<1>4. /\ s \notin DOMAIN branches
      /\ branches' = Added(Entry(s, e), branches)
  BY <1>2, <1>3 DEF NewLine, Free, AllRefs
<1>5. AllSame /\ s \in DOMAIN branches' /\ branches'[s].from = from
  <2>1. e.from = from
    BY <1>3 DEF Branch
  <2>2. AllSame /\ s \in DOMAIN branches' /\ branches'[s] = e
    BY <1>4, BranchComes
  <2> QED BY <2>1, <2>2
<1>6. CASE SegmentsSame
  BY <1>5, <1>6, ChainKept DEF SegmentsSame
<1>7. ASSUME FirstOf(i, t), SegmentsAt(i, Append(corridors[i].segments, s))
      PROVE  Chain(corridors'[j].segments, branches')
  <2>1. CASE j # i
    BY <1>5, <1>7, <2>1, ChainKept DEF SegmentsAt
  <2>2. CASE j = i
    <3>1. PICK segs, bs, cs : /\ segs = corridors[i].segments
                              /\ bs = branches /\ cs = branches'
      OBVIOUS
    <3>2. Listing(segs)
      BY <2>2, <3>1, SegmentsIs
    <3>3. ASSUME segs # << >> PROVE cs[s].from = bs[segs[Len(segs)]].to
      <4>1. Len(segs) \in 1..Len(segs)
        BY <3>2, <3>3 DEF Listing
      <4>2. segs[Len(segs)] \in DOMAIN bs
        BY <2>2, <3>1, <3>2, <4>1, ChainIs
      <4>3. Last(segs) = segs[Len(segs)]
        BY DEF Last
      <4>4. i # 0
        BY <2>2
      <4>5. TrunkEnd(t) = bs[segs[Len(segs)]].to
        BY <1>1, <3>1, <3>3, <4>2, <4>3, <4>4 DEF TrunkEnd
      <4> QED BY <1>2, <1>5, <3>1, <4>5
    <3>4. /\ Chain(segs, bs) /\ s \notin DOMAIN bs /\ s \in DOMAIN cs
          /\ \A x \in DOMAIN bs : SameIn(x, bs, cs)
      BY <1>4, <1>5, <2>2, <3>1 DEF AllSame
    <3>5. Chain(Append(segs, s), cs)
      BY <3>2, <3>3, <3>4, ChainLonger
    <3> QED BY <1>7, <2>2, <3>1, <3>5 DEF SegmentsAt
  <2> QED BY <2>1, <2>2
<1> QED BY <1>2, <1>3, <1>6, <1>7

(* The branches stay as they are, and the trunks list what they did.       *)
LEMMA OtherSteps ==
    ASSUME CorridorShapes, LinesInv,
           \/ Started \/ Ported \/ Ringed \/ Opened \/ BranchSet \/ PointSet
           \/ CorridorSet \/ Resourced \/ Rerouted \/ Rebayed
           \/ UNCHANGED topologyVars
    PROVE  SegmentsSame /\ AllSame
<1>1. ASSUME UNCHANGED corridors PROVE SegmentsSame
  BY <1>1 DEF SegmentsSame
<1>2. ASSUME UNCHANGED branches PROVE AllSame
  BY <1>2 DEF AllSame, SameIn
<1>3. ASSUME NEW from, NEW bus, NEW segment, NEW m,
             NewLine(from, bus, segment, m)
      PROVE  AllSame
  <2>1. PICK e : /\ segment \notin DOMAIN branches
                 /\ branches' = Added(Entry(segment, e), branches)
    BY <1>3 DEF NewLine, Free, AllRefs
  <2> QED BY <2>1, BranchComes
<1>4. CASE Started
  <2>1. PICK from, n, m : StartLine(from, m, n)
    BY <1>4 DEF Started
  <2>2. AllSame
    BY <1>3, <2>1 DEF StartLine, StartBranch
  <2>3. UNCHANGED corridors
    BY <2>1 DEF StartLine, containers
  <2> QED BY <1>1, <2>2, <2>3
<1>5. CASE Ported
  <2>1. PICK p, i, n, m : StartBranchFromPort(p, i, m, n)
    BY <1>5 DEF Ported
  <2>2. AllSame
    BY <1>3, <2>1 DEF StartBranchFromPort, StartBranch
  <2>3. UNCHANGED corridors
    BY <2>1 DEF StartBranchFromPort
  <2> QED BY <1>1, <2>2, <2>3
<1>6. CASE Ringed
  <2>1. PICK s, e : /\ s \notin DOMAIN branches
                    /\ branches' = Added(Entry(s, e), branches)
    BY <1>6 DEF Ringed, ConnectRing, Free, AllRefs
  <2> QED BY <1>6, <2>1, BranchComes, LabelledCorridors
<1>7. CASE Opened \/ BranchSet
  <2>1. /\ BranchStep
        /\ UNCHANGED corridors \/ Opened
    BY <1>7 DEF Opened, SetNormalOpenPoint, BranchSet, SetStatus, SetLength,
                BranchStep, Statuses, containers
  <2>2. PICK K : branches \in [DOMAIN branches -> BranchesOf(K)]
    BY DEF LinesInv, LinesHave, LinesOK
  <2>3. PICK b \in DOMAIN branches :
           \/ \E s \in Statuses : branches' = [branches EXCEPT ![b].status = s]
           \/ \E l \in BOOLEAN : branches' = [branches EXCEPT ![b].long = l]
    BY <2>1 DEF BranchStep
  <2>4. ASSUME NEW x \in DOMAIN branches PROVE SameIn(x, branches, branches')
    <3>1. branches[x] \in BranchesOf(K) /\ branches[b] \in BranchesOf(K)
      BY <2>2
    <3> QED BY <2>3, <3>1 DEF SameIn, BranchesOf
  <2> QED BY <1>1, <2>1, <2>4, LabelledCorridors DEF AllSame
<1>8. CASE PointSet \/ Resourced \/ Rerouted \/ Rebayed
  <2>1. UNCHANGED <<branches, corridors>>
    BY <1>8 DEF PointSet, SetPorts, SetOccupied, Resourced, RewriteSource,
                Rerouted, RewriteStationBuses, RewriteStationTransformers,
                Rebayed, RewriteBay, grid, containers
  <2> QED BY <1>1, <1>2, <2>1
<1>9. CASE CorridorSet
  <2>1. UNCHANGED branches
    BY <1>9 DEF CorridorSet, SetCorridorType, SetNoPoint, grid
  <2> QED BY <1>2, <1>9, <2>1, LabelledCorridors
<1>10. CASE UNCHANGED topologyVars
  <2>1. UNCHANGED <<branches, corridors>>
    BY <1>10 DEF topologyVars, grid, containers
  <2> QED BY <1>1, <1>2, <2>1
<1> QED BY <1>4, <1>5, <1>6, <1>7, <1>8, <1>9, <1>10

(* A segment that is split goes while buses come.                          *)
SplitRewritten ==
    /\ ~ Unwritten("corridors")
    /\ \E b \in DOMAIN branches : WasSplit(b)
LEMMA SplitSegment ==
    ASSUME LinesInv, TopologyNext, Stationed \/ Pointed \/ Switched
    PROVE  Delete \/ \E b \in DOMAIN branches : WasSplit(b)
<1>1. PICK b \in DOMAIN branches : b \notin DOMAIN branches'
  <2>1. ASSUME NEW b, NEW at, NEW halves, HalvesNamed(halves), NEW more,
               NEW c, SplitAt(b, at, halves, more, c)
        PROVE  b \in DOMAIN branches /\ b \notin DOMAIN branches'
    <3>1. Halved(b, Half(halves.left, b), Half(halves.right, b), more[1])
      BY <2>1, SplitHalves
    <3> QED BY <3>1 DEF Halved
  <2>2. CASE Stationed
    <3>1. PICK b, at, more :
              SplitAt(b, at, StationHalves, more, NamedLister(b))
      BY <2>2, Zenon DEF Stationed, InsertStation
    <3>2. HalvesNamed(StationHalves)
      BY DEF HalvesNamed, StationHalves
    <3> QED BY <2>1, <3>1, <3>2
  <2>3. CASE Pointed
    <3>1. PICK b, at, type, more :
              SplitAt(b, at, PointHalves(type), more, Lister(b))
      BY <2>3, Zenon DEF Pointed, InsertBranchPoint
    <3>2. HalvesNamed(PointHalves(type))
      BY DEF HalvesNamed, PointHalves
    <3> QED BY <2>1, <3>1, <3>2
  <2>4. CASE Switched
    <3>1. PICK b, at, s, fits : Sectioned(b, at, s, fits)
      BY <2>4, SectionedIs DEF Switched
    <3> QED BY <3>1 DEF Sectioned
  <2> QED BY <2>2, <2>3, <2>4
<1>2. Grows \/ Deleted
  BY BuildingGrows
<1>3. Deleted => Delete
  BY DEF Deleted, Delete, DeleteElement
<1> QED BY <1>1, <1>2, <1>3 DEF Grows, WasSplit

(* A chain stays one, but for what the other disjuncts name.               *)
LEMMA StepKeepsChain ==
    ASSUME TopologyInv, TopologyNext, NEW j \in DOMAIN corridors,
           Chain(corridors[j].segments, branches)
    PROVE  \/ Chain(corridors'[j].segments, branches')
           \/ Delete \/ TerminalChosen \/ PartRefused
           \/ SegmentsWritten \/ SplitRewritten
<1> DEFINE Chained == Chain(corridors'[j].segments, branches')
<1>1. CorridorShapes /\ SegmentsOK /\ LinesInv
  BY DEF TopologyInv
<1>2. j \in 1..Len(corridors)
  BY <1>1 DEF CorridorShapes, Listing
<1>3. ASSUME SegmentsSame, AllSame PROVE Chained
  BY <1>1, <1>2, <1>3, ChainKept DEF SegmentsSame
<1>4. CASE \/ Started \/ Ported \/ Ringed \/ Opened \/ BranchSet \/ PointSet
           \/ CorridorSet \/ Resourced \/ Rerouted \/ Rebayed
           \/ UNCHANGED topologyVars
  BY <1>1, <1>3, <1>4, OtherSteps
<1>5. CASE Sourced
  <2>1. corridors'[j] = corridors[j]
    BY <1>1, <1>2, <1>5, SourcedCorridors DEF CorridorAdded
  <2>2. UNCHANGED branches
    BY <1>5 DEF Sourced, AddGridSource
  <2>3. AllSame
    BY <2>2 DEF AllSame, SameIn
  <2> QED BY <1>1, <1>2, <2>1, <2>3, ChainKept
<1>6. CASE Stationed \/ Pointed \/ Switched
  <2>1. CASE ~ Unwritten("corridors")
    BY <1>1, <1>6, <2>1, SplitSegment DEF SplitRewritten
  <2>2. CASE Unwritten("corridors")
    <3>1. SegmentsHave
      BY <1>1, <2>2 DEF SegmentsOK
    <3>2. CASE Stationed
      BY <1>1, <1>2, <3>1, <3>2, StationChain DEF Stationed
    <3>3. CASE Pointed
      BY <1>1, <1>2, <3>1, <3>3, PointChain DEF Pointed
    <3>4. CASE Switched
      <4>1. PICK b \in DOMAIN branches, at \in Positions, s \in NormalStates :
                InsertSectionSwitch(b, at, s)
        BY <3>4 DEF Switched
      <4> QED BY <1>1, <1>2, <3>1, <4>1, SwitchChain
    <3> QED BY <1>6, <3>2, <3>3, <3>4
  <2> QED BY <2>1, <2>2
<1>7. CASE Continued
  <2>1. PICK t \in Trunks, from \in Buses \cup {NoRef}, n \in Lengths :
            \E m \in Media : ContinueTrunk(t, from, m, n)
    BY <1>7 DEF Continued
  <2>2. PICK m \in Media : ContinueTrunk(t, from, m, n)
    BY <2>1
  <2>3. CASE ContinueFrom({NoRef})
    <3>1. PICK u \in Trunks, p \in Media, q \in Lengths :
              ContinueTrunk(u, NoRef, p, q)
      BY <2>3 DEF ContinueFrom
    <3> QED BY <1>1, <1>2, <3>1, ContinueTrunkChain
  <2>4. CASE ~ ContinueFrom({NoRef})
    <3>1. from \in Buses
      BY <2>2, <2>4 DEF ContinueFrom
    <3>2. ContinueFrom(Buses)
      BY <2>2, <3>1 DEF ContinueFrom
    <3> QED BY <2>4, <3>2 DEF TerminalChosen
  <2> QED BY <2>3, <2>4
<1>8. CASE Resegmented
  BY <1>8 DEF Resegmented, SegmentsWritten
<1>9. CASE Deleted
  BY <1>9 DEF Deleted, Delete, DeleteElement
<1>10. Steps
  BY StepIs
<1> QED BY <1>4, <1>5, <1>6, <1>7, <1>8, <1>9, <1>10 DEF Steps

(* As an action.                                                           *)
LEMMA StepKeepsTrunks ==
    TopologyInv /\ [TopologyNext]_topologyVars =>
        [\A i \in DOMAIN corridors \cap DOMAIN corridors' :
            Chain(corridors[i].segments, branches) =>
                \/ Chain(corridors'[i].segments, branches')
                \/ Delete \/ TerminalChosen \/ PartRefused
                \/ SegmentsWritten
                \/ /\ ~ Unwritten("corridors")
                   /\ \E b \in DOMAIN branches : WasSplit(b)
        ]_topologyVars
<1> SUFFICES ASSUME TopologyInv, TopologyNext,
                    NEW i \in DOMAIN corridors \cap DOMAIN corridors',
                    Chain(corridors[i].segments, branches)
             PROVE  \/ Chain(corridors'[i].segments, branches')
                    \/ Delete \/ TerminalChosen \/ PartRefused
                    \/ SegmentsWritten
                    \/ /\ ~ Unwritten("corridors")
                       /\ \E b \in DOMAIN branches : WasSplit(b)
  OBVIOUS
<1> QED BY StepKeepsChain DEF SplitRewritten

(* A trunk whose segments follow each other keeps doing so, for any media, *)
(* lengths, positions and bounds and any sequence of the modelled          *)
(* operations: continue_trunk_segment_sn appends at the end it finds, and  *)
(* a split puts its parts, in their order, where the segment is listed.    *)
(* What breaks a trunk is delete_element, a terminal the request names     *)
(* other than that end, a section switch of which create_branch refuses a  *)
(* part, an update that writes the list and, after such an update, a split *)
(* of a segment that a second corridor may list.                           *)
THEOREM TrunksStayChains == TopologySpec => TrunkStaysChain
  BY AlwaysTopologyInv, StepKeepsTrunks, PTL
     DEF TopologySpec, TrunkStaysChain
=============================================================================
