------------------------------ MODULE ListLemmas ------------------------------
(***************************************************************************)
(* Facts about lists without repetitions, as the queues of the scheduler   *)
(* and of the encoder cache are: what appending, splitting and taking out  *)
(* does to the set of their entries, and to their order.                   *)
(***************************************************************************)
EXTENDS Integers, Sequences, FiniteSets, SequencesExt, FiniteSetTheorems,
        SequenceTheorems, WellFoundedInduction, TLAPS

(* Less-than on the naturals, as a relation. *)
LEMMA NaturalOrder ==
  \E R : IsWellFoundedOn(R, Nat) /\ \A x, y \in Nat : y < x => <<y, x>> \in R
<1> DEFINE R == OpToRel(<, Nat)
<1>1. IsWellFoundedOn(R, Nat)
  BY NatLessThanWellFounded
<1>2. \A ss \in Nat \X Nat : ss \in R <=> ss[1] < ss[2]
  BY DEF OpToRel
<1>3. \A x, y \in Nat : y < x => <<y, x>> \in R
  BY <1>2
<1> HIDE DEF R
<1> QED BY <1>1, <1>3, Zenon

(* Some of several numbers is the least. *)
LEMMA LeastNatural ==
  ASSUME NEW S, S \subseteq Nat, S # {}
  PROVE  \E x \in S : \A y \in S : x <= y
<1>1. PICK R : IsWellFoundedOn(R, Nat) /\ \A x, y \in Nat : y < x => <<y, x>> \in R
  BY NaturalOrder
<1>2. PICK x \in S : \A y \in S : ~(<<y, x>> \in R)
  BY <1>1, WFMin
<1>3. ASSUME NEW y \in S PROVE x <= y
  <2>1. x \in Nat /\ y \in Nat
    OBVIOUS
  <2>2. ~(y < x)
    BY <1>1, <1>2, <2>1
  <2> QED BY <2>1, <2>2
<1> QED BY <1>3

(* The empty list holds nothing, once. *)
LEMMA EmptyList == ToSet(<<>>) = {} /\ IsInjective(<<>>)
  BY DEF ToSet, IsInjective

(* A list's members are its entries, all from the set it is a list over. *)
LEMMA ListMembers ==
  ASSUME NEW S, NEW s \in Seq(S)
  PROVE  ToSet(s) = {s[i] : i \in 1 .. Len(s)} /\ ToSet(s) \subseteq S
  BY LenProperties DEF ToSet

(* Appending disjoint lists keeps what they hold, once. *)
LEMMA AppendLists ==
  ASSUME NEW S, NEW s \in Seq(S), NEW t \in Seq(S),
         IsInjective(s), IsInjective(t), ToSet(s) \cap ToSet(t) = {}
  PROVE  /\ s \o t \in Seq(S)
         /\ ToSet(s \o t) = ToSet(s) \cup ToSet(t)
         /\ IsInjective(s \o t)
<1> DEFINE m == Len(s)
           n == Len(t)
           u == s \o t
<1>1. m \in Nat /\ n \in Nat /\ DOMAIN s = 1 .. m /\ DOMAIN t = 1 .. n
  BY LenProperties
<1>2. /\ u \in Seq(S) /\ Len(u) = m + n
      /\ \A i \in 1 .. m + n : u[i] = IF i <= m THEN s[i] ELSE t[i - m]
  BY ConcatProperties
<1>3. DOMAIN u = 1 .. m + n
  BY <1>2, LenProperties
<1> HIDE DEF m, n, u
<1>4. ToSet(u) = ToSet(s) \cup ToSet(t)
  <2>1. ASSUME NEW i \in 1 .. m + n PROVE u[i] \in ToSet(s) \cup ToSet(t)
    <3>1. CASE i <= m
      <4>1. i \in 1 .. m /\ u[i] = s[i]
        BY <1>1, <1>2, <3>1
      <4> QED BY <1>1, <4>1 DEF ToSet
    <3>2. CASE i > m
      <4>1. i - m \in 1 .. n /\ u[i] = t[i - m]
        BY <1>1, <1>2, <3>2
      <4> QED BY <1>1, <4>1 DEF ToSet
    <3> QED BY <1>1, <3>1, <3>2
  <2>2. ASSUME NEW i \in 1 .. m PROVE s[i] \in ToSet(u)
    <3>1. i \in 1 .. m + n /\ i <= m
      BY <1>1
    <3>2. u[i] = s[i]
      BY <1>1, <1>2, <3>1
    <3> QED BY <1>3, <3>1, <3>2 DEF ToSet
  <2>3. ASSUME NEW i \in 1 .. n PROVE t[i] \in ToSet(u)
    <3>1. i + m \in 1 .. m + n /\ ~(i + m <= m) /\ i + m - m = i
      BY <1>1
    <3>2. u[i + m] = t[i]
      BY <1>1, <1>2, <3>1
    <3> QED BY <1>3, <3>1, <3>2 DEF ToSet
  <2>4. /\ ToSet(u) = {u[i] : i \in 1 .. m + n}
        /\ ToSet(s) = {s[i] : i \in 1 .. m} /\ ToSet(t) = {t[i] : i \in 1 .. n}
    BY <1>1, <1>3 DEF ToSet
  <2> QED BY <2>1, <2>2, <2>3, <2>4
<1>5. IsInjective(u)
  <2> SUFFICES ASSUME NEW i \in 1 .. m + n, NEW j \in 1 .. m + n, u[i] = u[j]
               PROVE  i = j
    BY <1>3 DEF IsInjective
  <2>1. CASE i <= m /\ j <= m
    BY <1>1, <1>2, <2>1 DEF IsInjective
  <2>2. CASE i > m /\ j > m
    <3>1. i - m \in 1 .. n /\ j - m \in 1 .. n /\ t[i - m] = t[j - m]
      BY <1>1, <1>2, <2>2
    <3>2. i - m = j - m
      BY <1>1, <3>1 DEF IsInjective
    <3> QED BY <1>1, <3>2
  <2>3. ASSUME NEW k \in 1 .. m, NEW l \in 1 .. n PROVE s[k] # t[l]
    BY <1>1 DEF ToSet
  <2>4. CASE i <= m /\ j > m
    <3>1. i \in 1 .. m /\ j - m \in 1 .. n /\ s[i] = t[j - m]
      BY <1>1, <1>2, <2>4
    <3> QED BY <2>3, <3>1
  <2>5. CASE i > m /\ j <= m
    <3>1. j \in 1 .. m /\ i - m \in 1 .. n /\ s[j] = t[i - m]
      BY <1>1, <1>2, <2>5
    <3> QED BY <2>3, <3>1
  <2> QED BY <1>1, <2>1, <2>2, <2>4, <2>5
<1> QED BY <1>2, <1>4, <1>5 DEF u

(* Taking n entries from the head splits a list in two. *)
LEMMA SplitList ==
  ASSUME NEW S, NEW s \in Seq(S), IsInjective(s), NEW n \in Nat, n <= Len(s)
  PROVE  LET p == SubSeq(s, 1, n)
             q == SubSeq(s, n + 1, Len(s))
         IN  /\ p \in Seq(S) /\ q \in Seq(S)
             /\ IsInjective(p) /\ IsInjective(q)
             /\ ToSet(p) \cap ToSet(q) = {}
             /\ ToSet(s) = ToSet(p) \cup ToSet(q)
<1> DEFINE m == Len(s)
           p == SubSeq(s, 1, n)
           q == SubSeq(s, n + 1, m)
<1>1. m \in Nat /\ DOMAIN s = 1 .. m /\ \A i \in 1 .. m : s[i] \in S
  BY LenProperties
<1>2. \A i \in 1 .. n : s[i] \in S
  BY <1>1
<1>3. \A i \in n + 1 .. m : s[i] \in S
  BY <1>1
<1>4. /\ p \in Seq(S) /\ Len(p) = n
      /\ \A i \in 1 .. n : p[i] = s[i]
  <2>1. /\ p \in Seq(S) /\ Len(p) = (IF 1 <= n THEN n - 1 + 1 ELSE 0)
        /\ \A i \in 1 .. n - 1 + 1 : p[i] = s[1 + i - 1]
    BY <1>2, SubSeqProperties
  <2> QED BY <2>1
<1>5. /\ q \in Seq(S) /\ Len(q) = m - n
      /\ \A i \in 1 .. m - n : q[i] = s[n + i]
  <2> HIDE DEF m
  <2>1. /\ q \in Seq(S) /\ Len(q) = (IF n + 1 <= m THEN m - (n + 1) + 1 ELSE 0)
        /\ \A i \in 1 .. m - (n + 1) + 1 : q[i] = s[(n + 1) + i - 1]
    BY <1>1, <1>3, SubSeqProperties
  <2>2. n \in Nat /\ m \in Nat /\ n <= m
    BY <1>1 DEF m
  <2> HIDE DEF q
  <2> QED BY <2>1, <2>2
<1>6. DOMAIN p = 1 .. n /\ DOMAIN q = 1 .. m - n
  BY <1>4, <1>5, LenProperties
<1>7. n <= m
  OBVIOUS
<1> HIDE DEF m, p, q
<1>8. IsInjective(p)
  BY <1>1, <1>4, <1>6, <1>7 DEF IsInjective
<1>9. IsInjective(q)
  <2> SUFFICES ASSUME NEW i \in 1 .. m - n, NEW j \in 1 .. m - n, q[i] = q[j]
               PROVE  i = j
    BY <1>6 DEF IsInjective
  <2>1. n + i \in 1 .. m /\ n + j \in 1 .. m /\ s[n + i] = s[n + j]
    BY <1>1, <1>5, <1>7
  <2>2. n + i = n + j
    BY <1>1, <2>1 DEF IsInjective
  <2> QED BY <2>2
<1>10. ASSUME NEW i \in 1 .. n, NEW j \in 1 .. m - n PROVE p[i] # q[j]
  <2>1. i \in 1 .. m /\ n + j \in 1 .. m /\ i # n + j
    BY <1>1, <1>7
  <2>2. s[i] # s[n + j]
    BY <1>1, <2>1 DEF IsInjective
  <2> QED BY <1>4, <1>5, <2>2
<1>11. ASSUME NEW i \in 1 .. m PROVE s[i] \in ToSet(p) \cup ToSet(q)
  <2>1. CASE i <= n
    BY <1>1, <1>4, <1>6, <2>1 DEF ToSet
  <2>2. CASE i > n
    <3>1. i - n \in 1 .. m - n /\ n + (i - n) = i
      BY <1>1, <1>7, <2>2
    <3>2. q[i - n] = s[i]
      BY <1>5, <3>1
    <3> QED BY <1>6, <3>1, <3>2 DEF ToSet
  <2> QED BY <1>1, <2>1, <2>2
<1>12. ASSUME NEW i \in 1 .. n PROVE p[i] \in ToSet(s)
  BY <1>1, <1>4, <1>7 DEF ToSet
<1>13. ASSUME NEW i \in 1 .. m - n PROVE q[i] \in ToSet(s)
  <2>1. n + i \in 1 .. m
    BY <1>1, <1>7
  <2> QED BY <1>1, <1>5, <2>1 DEF ToSet
<1>14. ToSet(p) = {p[i] : i \in 1 .. n} /\ ToSet(q) = {q[i] : i \in 1 .. m - n}
       /\ ToSet(s) = {s[i] : i \in 1 .. m}
  BY <1>1, <1>6 DEF ToSet
<1>15. ToSet(p) \cap ToSet(q) = {}
  BY <1>10, <1>14
<1>16. ToSet(s) = ToSet(p) \cup ToSet(q)
  BY <1>11, <1>12, <1>13, <1>14
<1> QED BY <1>4, <1>5, <1>8, <1>9, <1>15, <1>16 DEF p, q, m

(* An order of a finite set lists each of its elements once. *)
LEMMA OrderList ==
  ASSUME NEW T, IsFiniteSet(T), NEW order \in SetToSeqs(T)
  PROVE  order \in Seq(T) /\ IsInjective(order) /\ ToSet(order) = T
<1> DEFINE D == 1 .. Cardinality(T)
<1>1. Cardinality(T) \in Nat
  BY FS_CardinalityType
<1>2. order \in [D -> T] /\ \A i, j \in D : i # j => order[i] # order[j]
  BY DEF SetToSeqs
<1>3. order \in Seq(T) /\ DOMAIN order = D
  BY <1>1, <1>2
<1>4. IsFiniteSet(D) /\ Cardinality(D) = Cardinality(T)
  <2>1. IsFiniteSet(D) /\ Cardinality(D) = IF 1 > Cardinality(T) THEN 0
                                           ELSE Cardinality(T) - 1 + 1
    BY <1>1, FS_Interval
  <2> QED BY <1>1, <2>1
<1> HIDE DEF D
<1>5. order \in Injection(D, T)
  BY <1>2 DEF Injection, IsInjective
<1>6. order \in Surjection(D, T)
  BY <1>4, <1>5, FS_Injection
<1>7. ToSet(order) = T
  BY <1>2, <1>3, <1>6 DEF Surjection, ToSet
<1> QED BY <1>2, <1>3, <1>7 DEF IsInjective

(* The tail of a list is the list without its head. *)
LEMMA TailList ==
  ASSUME NEW S, NEW s \in Seq(S), IsInjective(s), s # <<>>
  PROVE  /\ Tail(s) \in Seq(S) /\ IsInjective(Tail(s))
         /\ Head(s) \in ToSet(s) /\ ToSet(Tail(s)) = ToSet(s) \ {Head(s)}
<1> DEFINE m == Len(s)
           t == Tail(s)
<1>1. m \in Nat /\ m >= 1 /\ DOMAIN s = 1 .. m
  BY LenProperties, EmptySeq
<1>2. /\ t \in Seq(S) /\ Len(t) = m - 1 /\ Head(s) = s[1]
      /\ \A i \in 1 .. m - 1 : t[i] = s[i + 1]
  BY HeadTailProperties
<1>3. DOMAIN t = 1 .. m - 1
  BY <1>2, LenProperties
<1> HIDE DEF m, t
<1>4. IsInjective(t)
  <2> SUFFICES ASSUME NEW i \in 1 .. m - 1, NEW j \in 1 .. m - 1, t[i] = t[j]
               PROVE  i = j
    BY <1>3 DEF IsInjective
  <2>1. i + 1 \in 1 .. m /\ j + 1 \in 1 .. m /\ s[i + 1] = s[j + 1]
    BY <1>1, <1>2
  <2>2. i + 1 = j + 1
    BY <1>1, <2>1 DEF IsInjective
  <2> QED BY <2>2
<1>5. Head(s) \in ToSet(s)
  BY <1>1, <1>2 DEF ToSet
<1>6. ASSUME NEW i \in 1 .. m - 1 PROVE t[i] \in ToSet(s) \ {Head(s)}
  <2>1. i + 1 \in 1 .. m /\ 1 \in 1 .. m /\ i + 1 # 1
    BY <1>1
  <2>2. t[i] = s[i + 1] /\ s[i + 1] # s[1]
    BY <1>1, <1>2, <2>1 DEF IsInjective
  <2> QED BY <1>1, <1>2, <2>1, <2>2 DEF ToSet
<1>7. ASSUME NEW i \in 1 .. m, s[i] # Head(s) PROVE s[i] \in ToSet(t)
  <2>1. i # 1
    BY <1>2, <1>7
  <2>2. i - 1 \in 1 .. m - 1 /\ i - 1 + 1 = i
    BY <1>1, <2>1
  <2>3. t[i - 1] = s[i]
    BY <1>2, <2>2
  <2> QED BY <1>3, <2>2, <2>3 DEF ToSet
<1>8. ToSet(t) = {t[i] : i \in 1 .. m - 1} /\ ToSet(s) = {s[i] : i \in 1 .. m}
  BY <1>1, <1>3 DEF ToSet
<1>9. ToSet(t) = ToSet(s) \ {Head(s)}
  BY <1>6, <1>7, <1>8
<1> QED BY <1>2, <1>4, <1>5, <1>9 DEF t

(* Taking out the entry at position i. *)
LEMMA RemoveAtList ==
  ASSUME NEW S, NEW s \in Seq(S), IsInjective(s), NEW i \in DOMAIN s
  PROVE  /\ RemoveAt(s, i) \in Seq(S) /\ IsInjective(RemoveAt(s, i))
         /\ ToSet(RemoveAt(s, i)) = ToSet(s) \ {s[i]}
<1> DEFINE m == Len(s)
           p == SubSeq(s, 1, i - 1)
           h == SubSeq(s, 1, i)
           q == SubSeq(s, i + 1, m)
<1>1. m \in Nat /\ DOMAIN s = 1 .. m /\ i \in 1 .. m /\ \A k \in 1 .. m : s[k] \in S
  BY LenProperties
<1>2. i - 1 \in Nat /\ i \in Nat /\ i - 1 <= m /\ i <= m
  BY <1>1
<1>3. p \in Seq(S) /\ IsInjective(p)
  BY <1>2, SplitList
<1>4. /\ q \in Seq(S) /\ IsInjective(q) /\ h \in Seq(S)
      /\ ToSet(h) \cap ToSet(q) = {} /\ ToSet(s) = ToSet(h) \cup ToSet(q)
  BY <1>2, SplitList
<1>5. DOMAIN p = 1 .. i - 1 /\ \A k \in 1 .. i - 1 : p[k] = s[k]
  <2>1. \A k \in 1 .. i - 1 : s[k] \in S
    BY <1>1
  <2>2. /\ Len(p) = (IF 1 <= i - 1 THEN i - 1 - 1 + 1 ELSE 0)
        /\ \A k \in 1 .. i - 1 - 1 + 1 : p[k] = s[1 + k - 1]
    BY <1>2, <2>1, SubSeqProperties
  <2> QED BY <1>2, <1>3, <2>2, LenProperties
<1>6. DOMAIN h = 1 .. i /\ \A k \in 1 .. i : h[k] = s[k]
  <2>1. \A k \in 1 .. i : s[k] \in S
    BY <1>1
  <2>2. /\ Len(h) = (IF 1 <= i THEN i - 1 + 1 ELSE 0)
        /\ \A k \in 1 .. i - 1 + 1 : h[k] = s[1 + k - 1]
    BY <1>2, <2>1, SubSeqProperties
  <2> QED BY <1>2, <1>4, <2>2, LenProperties
<1> HIDE DEF p, h, q
<1>7. ToSet(h) = ToSet(p) \cup {s[i]}
  <2>1. ToSet(h) = {h[k] : k \in 1 .. i} /\ ToSet(p) = {p[k] : k \in 1 .. i - 1}
    BY <1>5, <1>6 DEF ToSet
  <2>2. \A k \in 1 .. i : k \in 1 .. i - 1 \/ k = i
    BY <1>2
  <2>3. 1 .. i - 1 \subseteq 1 .. i /\ i \in 1 .. i
    BY <1>1
  <2> QED BY <1>5, <1>6, <2>1, <2>2, <2>3
<1>8. s[i] \notin ToSet(p)
  <2>1. \A k \in 1 .. i - 1 : k \in 1 .. m /\ k # i
    BY <1>1
  <2>2. \A k \in 1 .. i - 1 : p[k] # s[i]
    BY <1>1, <1>5, <2>1 DEF IsInjective
  <2> QED BY <1>5, <2>2 DEF ToSet
<1>9. ToSet(p) \cap ToSet(q) = {} /\ ToSet(p) \cup ToSet(q) = ToSet(s) \ {s[i]}
  BY <1>4, <1>7, <1>8
<1>10. /\ p \o q \in Seq(S) /\ IsInjective(p \o q)
       /\ ToSet(p \o q) = ToSet(p) \cup ToSet(q)
  BY <1>3, <1>4, <1>9, AppendLists
<1>11. RemoveAt(s, i) = p \o q
  BY DEF RemoveAt, p, q, m
<1> QED BY <1>9, <1>10, <1>11

(* An entry occurs in a list once or not at all. *)
LEMMA CountInList ==
  ASSUME NEW s, IsInjective(s), NEW e
  PROVE  Cardinality({i \in DOMAIN s : s[i] = e}) = IF e \in ToSet(s) THEN 1 ELSE 0
<1>1. CASE e \in ToSet(s)
  <2>1. PICK i \in DOMAIN s : s[i] = e
    BY <1>1 DEF ToSet
  <2>2. {k \in DOMAIN s : s[k] = e} = {i}
    BY <2>1 DEF IsInjective
  <2> QED BY <1>1, <2>2, FS_Singleton
<1>2. CASE e \notin ToSet(s)
  <2>1. {k \in DOMAIN s : s[k] = e} = {}
    BY <1>2 DEF ToSet
  <2> QED BY <1>2, <2>1, FS_EmptySet
<1> QED BY <1>1, <1>2

(* Appending an entry that is not in the list. *)
LEMMA AppendEntry ==
  ASSUME NEW S, NEW s \in Seq(S), IsInjective(s), NEW e \in S, e \notin ToSet(s)
  PROVE  /\ Append(s, e) \in Seq(S) /\ IsInjective(Append(s, e))
         /\ ToSet(Append(s, e)) = ToSet(s) \cup {e}
<1>1. <<e>> \in Seq(S) /\ Len(<<e>>) = 1 /\ DOMAIN <<e>> = {1} /\ <<e>>[1] = e
  OBVIOUS
<1>2. IsInjective(<<e>>) /\ ToSet(<<e>>) = {e}
  BY <1>1 DEF IsInjective, ToSet
<1>3. Append(s, e) = s \o <<e>>
  BY AppendIsConcat
<1> DEFINE t == <<e>>
<1>4. t \in Seq(S) /\ IsInjective(t) /\ ToSet(t) = {e} /\ Append(s, e) = s \o t
  BY <1>1, <1>2, <1>3
<1> HIDE DEF t
<1>5. ToSet(s) \cap ToSet(t) = {}
  BY <1>4
<1>6. s \o t \in Seq(S) /\ IsInjective(s \o t) /\ ToSet(s \o t) = ToSet(s) \cup ToSet(t)
  BY <1>4, <1>5, AppendLists
<1> QED BY <1>4, <1>6

(* A list without repetitions has as many entries as members. *)
LEMMA ListSize ==
  ASSUME NEW S, NEW s \in Seq(S), IsInjective(s)
  PROVE  Cardinality(ToSet(s)) = Len(s)
<1> DEFINE D == 1 .. Len(s)
<1>1. s \in [D -> ToSet(s)] /\ DOMAIN s = D /\ Len(s) \in Nat
  BY DEF ToSet
<1> HIDE DEF D
<1>2. s \in Injection(D, ToSet(s))
  BY <1>1 DEF Injection
<1>3. s \in Surjection(D, ToSet(s))
  BY <1>1 DEF Surjection, ToSet
<1>4. ExistsBijection(D, ToSet(s))
  BY <1>2, <1>3 DEF ExistsBijection, Bijection
<1> QED BY <1>1, <1>4, FS_CountingElements DEF D
-----------------------------------------------------------------------------
(* What of s is left in t is in the order it had. *)
KeepsOrder(s, t) ==
  \A i, j \in DOMAIN s : i < j =>
    \A k, m \in DOMAIN t : t[k] = s[i] /\ t[m] = s[j] => k < m

(* So it is when every kept entry is at a place that grows with the old one. *)
LEMMA PlacesOrder ==
  ASSUME NEW s, NEW t, IsInjective(s), NEW from,
         \A k \in DOMAIN t : t[k] \in ToSet(s) => from[k] \in DOMAIN s /\ s[from[k]] = t[k],
         \A k, m \in DOMAIN t : from[k] < from[m] => k < m
  PROVE  KeepsOrder(s, t)
<1> SUFFICES ASSUME NEW i \in DOMAIN s, NEW j \in DOMAIN s, i < j,
                    NEW k \in DOMAIN t, NEW m \in DOMAIN t, t[k] = s[i], t[m] = s[j]
             PROVE  k < m
  BY DEF KeepsOrder
<1>1. t[k] \in ToSet(s) /\ t[m] \in ToSet(s)
  BY DEF ToSet
<1>2. from[k] = i /\ from[m] = j
  BY <1>1 DEF IsInjective
<1> QED BY <1>2

(* A list keeps its own order. *)
LEMMA SameOrder ==
  ASSUME NEW S, NEW s \in Seq(S), IsInjective(s)
  PROVE  KeepsOrder(s, s)
  BY LenProperties DEF KeepsOrder, IsInjective

(* It keeps it when an entry joins its end. *)
LEMMA AppendOrder ==
  ASSUME NEW S, NEW s \in Seq(S), IsInjective(s), NEW e \in S, e \notin ToSet(s)
  PROVE  KeepsOrder(s, Append(s, e))
<1>1. Len(s) \in Nat /\ DOMAIN s = 1 .. Len(s)
  BY LenProperties
<1> DEFINE t == Append(s, e)
           from == [k \in 1 .. Len(s) + 1 |-> k]
<1>2. /\ Len(t) = Len(s) + 1 /\ DOMAIN t = 1 .. Len(s) + 1
      /\ \A k \in 1 .. Len(s) : t[k] = s[k]
      /\ t[Len(s) + 1] = e
  BY AppendProperties, <1>1
<1>3. \A k \in DOMAIN t : t[k] \in ToSet(s) => from[k] \in DOMAIN s /\ s[from[k]] = t[k]
  <2> SUFFICES ASSUME NEW k \in 1 .. Len(s) + 1, t[k] \in ToSet(s)
               PROVE  k \in 1 .. Len(s) /\ s[k] = t[k]
    BY <1>1, <1>2
  <2>1. k # Len(s) + 1
    BY <1>2
  <2> QED BY <1>1, <1>2, <2>1
<1>4. \A k, m \in DOMAIN t : from[k] < from[m] => k < m
  BY <1>2
<1> HIDE DEF t, from
<1>5. KeepsOrder(s, t)
  BY <1>3, <1>4, PlacesOrder
<1> QED BY <1>5 DEF t

(* Taking an entry out keeps the order of the others. *)
LEMMA RemoveAtOrder ==
  ASSUME NEW S, NEW s \in Seq(S), IsInjective(s), NEW x \in DOMAIN s
  PROVE  KeepsOrder(s, RemoveAt(s, x))
<1> DEFINE n == Len(s)
           u == SubSeq(s, 1, x - 1)
           v == SubSeq(s, x + 1, n)
           t == u \o v
           from == [k \in 1 .. n - 1 |-> IF k < x THEN k ELSE k + 1]
<1>1. n \in Nat /\ DOMAIN s = 1 .. n /\ x \in 1 .. n /\ \A k \in 1 .. n : s[k] \in S
  BY LenProperties
<1>2. u \in Seq(S) /\ Len(u) = x - 1 /\ \A k \in 1 .. x - 1 : u[k] = s[k]
  <2>1. x - 1 \in Nat /\ \A k \in 1 .. x - 1 : s[k] \in S
    BY <1>1
  <2>2. /\ u \in Seq(S) /\ Len(u) = (IF 1 <= x - 1 THEN x - 1 - 1 + 1 ELSE 0)
        /\ \A k \in 1 .. x - 1 - 1 + 1 : u[k] = s[1 + k - 1]
    BY <2>1, SubSeqProperties
  <2> QED BY <2>1, <2>2
<1>3. v \in Seq(S) /\ Len(v) = n - x /\ \A k \in 1 .. n - x : v[k] = s[x + k]
  <2>1. x + 1 \in Int /\ n \in Int /\ \A k \in x + 1 .. n : s[k] \in S
    BY <1>1
  <2>2. /\ v \in Seq(S) /\ Len(v) = (IF x + 1 <= n THEN n - (x + 1) + 1 ELSE 0)
        /\ \A k \in 1 .. n - (x + 1) + 1 : v[k] = s[x + 1 + k - 1]
    BY <2>1, SubSeqProperties
  <2> HIDE DEF u, v
  <2>3. n - (x + 1) + 1 = n - x /\ (x + 1 <= n \/ n - x = 0)
    BY <1>1
  <2>4. Len(v) = n - x
    BY <1>1, <2>2, <2>3
  <2>5. \A k \in 1 .. n - x : x + 1 + k - 1 = x + k
    BY <1>1
  <2> QED BY <2>2, <2>3, <2>4, <2>5
<1> HIDE DEF u, v
<1>4. /\ t \in Seq(S) /\ Len(t) = Len(u) + Len(v)
      /\ \A k \in 1 .. Len(u) + Len(v) :
           t[k] = IF k <= Len(u) THEN u[k] ELSE v[k - Len(u)]
  BY <1>2, <1>3, ConcatProperties
<1> HIDE DEF t
<1>5. DOMAIN t = 1 .. n - 1
  BY <1>1, <1>2, <1>3, <1>4, LenProperties
<1>6. ASSUME NEW k \in 1 .. n - 1
      PROVE  from[k] \in DOMAIN s /\ s[from[k]] = t[k]
  <2>1. CASE k < x
    BY <1>1, <1>2, <1>3, <1>4, <2>1
  <2>2. CASE ~(k < x)
    <3>1. /\ k \in 1 .. Len(u) + Len(v) /\ ~(k <= Len(u))
          /\ k - (x - 1) \in 1 .. n - x /\ x + (k - (x - 1)) = k + 1
      BY <1>1, <1>2, <1>3, <2>2
    <3>2. t[k] = v[k - (x - 1)]
      BY <1>2, <1>4, <3>1
    <3>3. v[k - (x - 1)] = s[k + 1]
      BY <1>3, <3>1
    <3>4. from[k] = k + 1 /\ k + 1 \in 1 .. n
      BY <1>1, <2>2
    <3> QED BY <1>1, <3>2, <3>3, <3>4
  <2> QED BY <2>1, <2>2
<1>7. \A k, m \in DOMAIN t : from[k] < from[m] => k < m
  BY <1>1, <1>5
<1> HIDE DEF from
<1>8. RemoveAt(s, x) = t
  BY DEF RemoveAt, t, u, v
<1> QED BY <1>5, <1>6, <1>7, <1>8, PlacesOrder

(* So does taking its head out, or not, and putting others before it. *)
LEMMA PrependOrder ==
  ASSUME NEW S, NEW s \in Seq(S), IsInjective(s), NEW front \in Seq(S),
         ToSet(front) \cap ToSet(s) = {},
         NEW kept, kept = s \/ (s # <<>> /\ kept = Tail(s))
  PROVE  KeepsOrder(s, front \o kept)
<1>1. /\ Len(s) \in Nat /\ DOMAIN s = 1 .. Len(s)
      /\ Len(front) \in Nat /\ DOMAIN front = 1 .. Len(front)
  BY LenProperties
<1>2. PICK d \in {0, 1} : /\ kept \in Seq(S) /\ Len(kept) = Len(s) - d
                          /\ \A k \in 1 .. Len(s) - d : kept[k] = s[k + d]
  <2>1. CASE kept = s
    <3>1. /\ s \in Seq(S) /\ Len(s) = Len(s) - 0
          /\ \A k \in 1 .. Len(s) - 0 : s[k] = s[k + 0]
      BY <1>1
    <3> QED BY <2>1, <3>1
  <2>2. CASE s # <<>> /\ kept = Tail(s)
    <3>1. /\ kept \in Seq(S) /\ Len(kept) = Len(s) - 1
          /\ \A k \in 1 .. Len(kept) : kept[k] = s[k + 1]
      BY <2>2, HeadTailProperties
    <3> QED BY <3>1
  <2> QED BY <2>1, <2>2
<1> DEFINE t == front \o kept
           n == Len(front)
           from == [k \in 1 .. n + (Len(s) - d) |-> k - n + d]
<1>3. /\ DOMAIN t = 1 .. n + (Len(s) - d)
      /\ \A k \in 1 .. n + (Len(s) - d) :
           t[k] = IF k <= n THEN front[k] ELSE kept[k - n]
  <2>1. /\ t \in Seq(S) /\ Len(t) = n + (Len(s) - d)
        /\ \A k \in 1 .. n + (Len(s) - d) :
             t[k] = IF k <= n THEN front[k] ELSE kept[k - n]
    <3>1. kept \in Seq(S) /\ Len(kept) = Len(s) - d
      BY <1>2
    <3>2. /\ t \in Seq(S) /\ Len(t) = n + Len(kept)
          /\ \A k \in 1 .. n + Len(kept) :
               t[k] = IF k <= n THEN front[k] ELSE kept[k - n]
      BY <3>1, ConcatProperties
    <3> QED BY <3>1, <3>2
  <2> QED BY <2>1, LenProperties
<1> HIDE DEF t
<1>4. ASSUME NEW k \in DOMAIN t, t[k] \in ToSet(s)
      PROVE  from[k] \in DOMAIN s /\ s[from[k]] = t[k]
  <2>1. ~(k <= n)
    <3> SUFFICES ASSUME k <= n PROVE FALSE
      OBVIOUS
    <3>1. k \in DOMAIN front /\ t[k] = front[k]
      BY <1>1, <1>3
    <3>2. t[k] \in ToSet(front)
      BY <3>1 DEF ToSet
    <3> QED BY <1>4, <3>2
  <2>2. k - n \in 1 .. Len(s) - d /\ t[k] = kept[k - n]
    BY <1>1, <1>2, <1>3, <2>1
  <2>3. t[k] = s[k - n + d] /\ k - n + d \in 1 .. Len(s)
    BY <1>1, <1>2, <2>2
  <2> QED BY <1>1, <1>3, <2>3
<1>5. \A k, m \in DOMAIN t : from[k] < from[m] => k < m
  BY <1>1, <1>2, <1>3
<1> HIDE DEF from
<1> QED BY <1>4, <1>5, PlacesOrder DEF t
==============================================================================
