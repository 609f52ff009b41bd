---------------------------- MODULE SequenceLemmas ----------------------------
(***************************************************************************)
(* Facts about the sequence operators the models use, for the proofs.      *)
(***************************************************************************)
EXTENDS Subsequences, SequencesExt, SequenceTheorems, FiniteSetTheorems, WellFoundedInduction, TLAPS

(* The least element of a non-empty set of naturals exists.                *)
LEMMA MinOfNats ==
  ASSUME NEW S \in SUBSET Nat, S # {}
  PROVE  Min(S) \in S /\ \A y \in S : Min(S) <= y
<1> DEFINE R == {ss \in Nat \X Nat : ss[1] < ss[2]}
<1>1. R = OpToRel(<, Nat)
  BY DEF OpToRel
<1>2. IsWellFoundedOn(R, Nat)
  BY <1>1, NatLessThanWellFounded
<1>3. PICK x \in S : \A y \in S : ~ (<<y, x>> \in R)
  <2> HIDE DEF R
  <2> QED BY <1>2, WFMin, Zenon
<1>4. ASSUME NEW y \in S PROVE x <= y
  <2>1. x \in Nat /\ y \in Nat
    OBVIOUS
  <2>2. ~ (<<y, x>> \in R)
    BY <1>3
  <2>3. ASSUME y < x PROVE <<y, x>> \in R
    BY <2>1, <2>3
  <2> QED
    <3> HIDE DEF R
    <3> QED BY <2>1, <2>2, <2>3
<1> QED
  BY <1>4 DEF Min

(* RemoveAt closes the gap.                                                *)
LEMMA RemoveAtProperties ==
  ASSUME NEW S, NEW s \in Seq(S), NEW i \in 1..Len(s)
  PROVE  /\ RemoveAt(s, i) \in Seq(S)
         /\ Len(RemoveAt(s, i)) = Len(s) - 1
         /\ \A j \in 1..(Len(s) - 1) :
              RemoveAt(s, i)[j] = IF j < i THEN s[j] ELSE s[j + 1]
<1> DEFINE a == SubSeq(s, 1, i - 1)
           b == SubSeq(s, i + 1, Len(s))
<1>1. /\ a \in Seq(S) /\ Len(a) = i - 1 /\ \A j \in 1..(i - 1) : a[j] = s[j]
  <2>1. \A j \in 1..(i - 1) : s[j] \in S
    BY ElementOfSeq, LenProperties
  <2> QED
    BY <2>1, SubSeqProperties, LenProperties, i - 1 \in Int, 1 \in Int
<1>2. /\ b \in Seq(S) /\ Len(b) = Len(s) - i
      /\ \A j \in 1..(Len(s) - i) : b[j] = s[i + j]
  <2>1. \A j \in (i + 1)..Len(s) : s[j] \in S
    BY ElementOfSeq, LenProperties
  <2>2. /\ b \in Seq(S)
        /\ Len(b) = IF i + 1 <= Len(s) THEN Len(s) - (i + 1) + 1 ELSE 0
        /\ \A j \in 1..(Len(s) - (i + 1) + 1) : b[j] = s[i + 1 + j - 1]
    BY <2>1, SubSeqProperties, LenProperties, i + 1 \in Int, Len(s) \in Int
  <2> QED
    BY <2>2, LenProperties
<1>3. /\ a \o b \in Seq(S) /\ Len(a \o b) = Len(a) + Len(b)
      /\ \A j \in 1..(Len(a) + Len(b)) :
           (a \o b)[j] = IF j <= Len(a) THEN a[j] ELSE b[j - Len(a)]
  BY <1>1, <1>2, ConcatProperties
<1>4. RemoveAt(s, i) = a \o b
  BY DEF RemoveAt
<1> HIDE DEF a, b
<1>5. Len(s) \in Nat
  BY LenProperties
<1>6. Len(a) + Len(b) = Len(s) - 1
  BY <1>1, <1>2, <1>5
<1>7. ASSUME NEW j \in 1..(Len(s) - 1)
      PROVE  (a \o b)[j] = IF j < i THEN s[j] ELSE s[j + 1]
  <2>1. CASE j < i
    BY <2>1, <1>1, <1>3, <1>5, <1>6
  <2>2. CASE ~(j < i)
    <3>1. (a \o b)[j] = b[j - (i - 1)]
      BY <2>2, <1>1, <1>3, <1>5, <1>6
    <3>2. j - (i - 1) \in 1..(Len(s) - i) /\ i + (j - (i - 1)) = j + 1
      BY <2>2, <1>5
    <3> QED
      BY <2>2, <3>1, <3>2, <1>2
  <2> QED
    BY <2>1, <2>2
<1> QED
  BY <1>3, <1>4, <1>6, <1>7

(* RemoveFirst removes the first occurrence of e, or nothing.              *)
LEMMA RemoveFirstProperties ==
  ASSUME NEW S, NEW s \in Seq(S), NEW e
  PROVE  \/ /\ \A i \in 1..Len(s) : s[i] # e
            /\ RemoveFirst(s, e) = s
         \/ \E k \in 1..Len(s) : /\ s[k] = e
                                 /\ RemoveFirst(s, e) = RemoveAt(s, k)
<1> DEFINE I == {i \in 1..Len(s) : s[i] = e}
<1>1. CASE I = {}
  BY <1>1 DEF RemoveFirst
<1>2. CASE I # {}
  <2>1. I \in SUBSET Nat
    BY LenProperties
  <2>2. Min(I) \in I
    BY <1>2, <2>1, MinOfNats
  <2>3. RemoveFirst(s, e) = RemoveAt(s, Min(I))
    BY <1>2 DEF RemoveFirst, SelectInSeq
  <2> QED
    BY <2>2, <2>3
<1> QED
  BY <1>1, <1>2

(* What taking an element out of a sequence does to its type.              *)
LEMMA SeqTypes ==
  ASSUME NEW S
  PROVE  /\ \A s \in Seq(S), i \in Nat : i \in 1..Len(s) => RemoveAt(s, i) \in Seq(S)
         /\ \A s \in Seq(S) : \A e : RemoveFirst(s, e) \in Seq(S)
         /\ \A s \in Seq(S) : s # <<>> => /\ Front(s) \in Seq(S) /\ Tail(s) \in Seq(S)
                                         /\ Last(s) \in S /\ Head(s) \in S
<1>1. \A s \in Seq(S), i \in Nat : i \in 1..Len(s) => RemoveAt(s, i) \in Seq(S)
  BY RemoveAtProperties
<1>2. \A s \in Seq(S) : \A e : RemoveFirst(s, e) \in Seq(S)
  BY RemoveFirstProperties, RemoveAtProperties
<1>3. ASSUME NEW s \in Seq(S), s # <<>>
      PROVE  /\ Front(s) \in Seq(S) /\ Tail(s) \in Seq(S)
             /\ Last(s) \in S /\ Head(s) \in S
  <2>1. Len(s) \in Nat \ {0} /\ \A i \in 1..Len(s) : s[i] \in S
    BY <1>3, EmptySeq, ElementOfSeq
  <2>2. SubSeq(s, 1, Len(s) - 1) \in Seq(S)
    BY <2>1, SubSeqProperties, 1 \in Int, Len(s) - 1 \in Int
  <2> QED
    BY <2>1, <2>2, <1>3, HeadTailProperties DEF Front, Last
<1> QED
  BY <1>1, <1>2, <1>3

(* A sequence of positive length is not empty.                             *)
LEMMA LenZero == ASSUME NEW S, NEW s \in Seq(S), Len(s) # 0 PROVE s # <<>>
OBVIOUS

(* Front drops the last element.                                           *)
LEMMA FrontProperties ==
  ASSUME NEW S, NEW s \in Seq(S), s # <<>>
  PROVE  /\ Front(s) \in Seq(S)
         /\ Len(Front(s)) = Len(s) - 1
         /\ \A i \in 1..(Len(s) - 1) : Front(s)[i] = s[i]
         /\ Len(s) # 1 => Front(s) # <<>>
<1>1. PICK n \in Nat : n = Len(s) /\ n >= 1
  BY EmptySeq
<1>2. \A i \in 1..n : s[i] \in S
  BY <1>1, ElementOfSeq
<1>3. /\ SubSeq(s, 1, n - 1) \in Seq(S)
      /\ Len(SubSeq(s, 1, n - 1)) = IF 1 <= n - 1 THEN n - 1 - 1 + 1 ELSE 0
      /\ \A i \in 1..(n - 1 - 1 + 1) : SubSeq(s, 1, n - 1)[i] = s[1 + i - 1]
  BY <1>2, SubSeqProperties, 1 \in Int, n - 1 \in Int
<1>4. Front(s) = SubSeq(s, 1, n - 1)
  BY <1>1 DEF Front
<1>5. Len(SubSeq(s, 1, n - 1)) = n - 1
  BY <1>1, <1>3
<1>6. \A i \in 1..(n - 1) : SubSeq(s, 1, n - 1)[i] = s[i]
  BY <1>1, <1>3
<1>7. Len(s) # 1 => Len(Front(s)) # 0
  BY <1>1, <1>4, <1>5
<1> QED
  BY <1>1, <1>3, <1>4, <1>5, <1>6, <1>7, LenZero

Distinct(s) == \A i, j \in 1..Len(s) : s[i] = s[j] => i = j

(* r has the elements of s but e, none of them further to the right.       *)
AllBut(r, s, e) ==
  /\ \A j \in 1..Len(r) : \E m \in 1..Len(s) : r[j] = s[m] /\ s[m] # e /\ j <= m
  /\ \A m \in 1..Len(s) : s[m] # e => \E j \in 1..Len(r) : r[j] = s[m]

(* A list without duplicates loses exactly e, and keeps its order.         *)
LEMMA RemovedMembers ==
  ASSUME NEW S, NEW s \in Seq(S), NEW e, NEW k \in 1..Len(s), s[k] = e,
         Distinct(s),
         NEW r, r = RemoveFirst(s, e)
  PROVE  /\ r \in Seq(S) /\ Len(r) = Len(s) - 1
         /\ AllBut(r, s, e) /\ Distinct(r)
         /\ s[1] # e => Len(r) >= 1 /\ r[1] = s[1]
<1>1. r = RemoveAt(s, k)
  BY RemoveFirstProperties DEF Distinct
<1>2. PICK n \in Nat : n = Len(s) /\ n >= 1 /\ k \in 1..n
  BY LenProperties
<1>3. /\ r \in Seq(S) /\ Len(r) = n - 1
      /\ \A j \in 1..(n - 1) : r[j] = IF j < k THEN s[j] ELSE s[j + 1]
  <2>1. /\ RemoveAt(s, k) \in Seq(S) /\ Len(RemoveAt(s, k)) = Len(s) - 1
        /\ \A j \in 1..(Len(s) - 1) :
             RemoveAt(s, k)[j] = IF j < k THEN s[j] ELSE s[j + 1]
    BY RemoveAtProperties
  <2> QED
    BY <1>1, <1>2, <2>1
<1>4. ASSUME NEW j \in 1..(n - 1)
      PROVE  \E m \in 1..n : r[j] = s[m] /\ s[m] # e /\ j <= m
  <2>1. CASE j < k
    BY <1>2, <1>3, <2>1 DEF Distinct
  <2>2. CASE ~(j < k)
    <3>1. j + 1 \in 1..n /\ r[j] = s[j + 1] /\ j + 1 # k /\ j <= j + 1
      BY <1>2, <1>3, <2>2
    <3> QED
      BY <1>2, <3>1 DEF Distinct
  <2> QED
    BY <2>1, <2>2
<1>5. ASSUME NEW m \in 1..n, s[m] # e
      PROVE  \E j \in 1..(n - 1) : r[j] = s[m]
  <2>1. CASE m < k
    <3>1. m \in 1..(n - 1) /\ r[m] = s[m]
      BY <1>2, <1>3, <2>1
    <3> QED
      BY <3>1
  <2>2. CASE m > k
    <3>1. m - 1 \in 1..(n - 1) /\ ~(m - 1 < k) /\ (m - 1) + 1 = m
      BY <1>2, <2>2
    <3>2. r[m - 1] = s[m]
      BY <1>3, <3>1
    <3> QED
      BY <3>1, <3>2
  <2> QED
    BY <1>2, <1>5, <2>1, <2>2
<1>6. ASSUME NEW i \in 1..(n - 1), NEW j \in 1..(n - 1), r[i] = r[j]
      PROVE  i = j
  <2> DEFINE src(l) == IF l < k THEN l ELSE l + 1
  <2>1. /\ src(i) \in 1..n /\ src(j) \in 1..n
        /\ r[i] = s[src(i)] /\ r[j] = s[src(j)]
    BY <1>2, <1>3
  <2>2. src(i) = src(j)
    <3> HIDE DEF src
    <3> QED BY <1>2, <1>6, <2>1 DEF Distinct
  <2> QED
    BY <1>2, <2>2
<1>7. ASSUME s[1] # e PROVE Len(r) >= 1 /\ r[1] = s[1]
  <2>1. k > 1
    BY <1>2, <1>7
  <2> QED
    BY <1>2, <1>3, <2>1
<1> QED
  BY <1>2, <1>3, <1>4, <1>5, <1>6, <1>7 DEF Distinct, AllBut

(* Induction over the naturals, for a set.                                 *)
LEMMA SetInduction ==
  ASSUME NEW S, 0 \in S, \A n \in Nat : n \in S => n + 1 \in S
  PROVE  Nat \subseteq S
<1> DEFINE Out == Nat \ S
<1>1. SUFFICES ASSUME Out # {} PROVE FALSE
  OBVIOUS
<1>2. Min(Out) \in Out /\ \A y \in Out : Min(Out) <= y
  BY <1>1, MinOfNats
<1>3. PICK m \in Nat : m \notin S /\ \A y \in Out : m <= y
  BY <1>2
<1>4. m # 0 /\ m - 1 \in Nat /\ m - 1 \notin S
  BY <1>3
<1>5. m - 1 \in Out
  BY <1>4
<1> QED
  BY <1>3, <1>5

(* The recursion of Scan has a solution.                                   *)
LEMMA ScanStep ==
  ASSUME NEW s, NEW T, NEW n \in Nat
  PROVE  Scan(s, T, n) = [i \in 0..n |->
           IF i = 0 THEN <<>>
           ELSE IF s[i] \in T THEN Append(Scan(s, T, n)[i - 1], s[i]) ELSE Scan(s, T, n)[i - 1]]
<1> DEFINE Next(F, i) == IF i = 0 THEN <<>>
                         ELSE IF s[i] \in T THEN Append(F[i - 1], s[i]) ELSE F[i - 1]
           Solved == {m \in Nat : \E F : F = [i \in 0..m |-> Next(F, i)]}
<1>1. 0 \in Solved
  <2>1. [i \in 0..0 |-> <<>>] = [i \in 0..0 |-> Next([j \in 0..0 |-> <<>>], i)]
    OBVIOUS
  <2> QED
    BY <2>1
<1>2. ASSUME NEW m \in Nat, m \in Solved PROVE m + 1 \in Solved
  <2>1. PICK F : F = [i \in 0..m |-> Next(F, i)]
    BY <1>2
  <2> DEFINE G == [i \in 0..(m + 1) |-> IF i <= m THEN F[i] ELSE Next(F, m + 1)]
  <2>2. \A i \in 0..m : G[i] = F[i]
    OBVIOUS
  <2>3. ASSUME NEW i \in 0..(m + 1) PROVE G[i] = Next(G, i)
    <3>1. CASE i = 0
      <4>1. F[0] = Next(F, 0)
        BY <2>1
      <4> QED
        BY <3>1, <4>1
    <3>2. CASE i # 0 /\ i <= m
      <4>1. F[i] = Next(F, i)
        <5> DEFINE H == [j \in 0..m |-> Next(F, j)]
        <5>1. H[i] = Next(F, i)
          BY <3>2
        <5>2. F = H
          BY <2>1
        <5> HIDE DEF H, Next
        <5> QED BY <5>1, <5>2
      <4>2. G[i - 1] = F[i - 1] /\ G[i] = F[i]
        BY <3>2
      <4> HIDE DEF G
      <4> QED
        BY <3>2, <4>1, <4>2
    <3>3. CASE i = m + 1
      <4>1. G[i] = Next(F, m + 1) /\ G[m] = F[m] /\ m + 1 # 0 /\ (m + 1) - 1 = m
        BY <3>3
      <4> HIDE DEF G
      <4> QED
        BY <3>3, <4>1
    <3> QED
      BY <3>1, <3>2, <3>3
  <2>4. G = [i \in 0..(m + 1) |-> Next(G, i)]
    <3> DEFINE H == [i \in 0..(m + 1) |-> Next(G, i)]
    <3>1. \A i \in 0..(m + 1) : H[i] = G[i]
      <4> HIDE DEF G, Next
      <4> QED BY <2>3
    <3>2. DOMAIN G = 0..(m + 1) /\ DOMAIN H = 0..(m + 1)
      OBVIOUS
    <3> QED
      BY <3>1, <3>2
  <2> HIDE DEF G, Next
  <2> QED
    BY <2>4
<1>3. n \in Solved
  <2> HIDE DEF Solved
  <2> QED BY <1>1, <1>2, SetInduction
<1>4. PICK F : F = [i \in 0..n |-> Next(F, i)]
  BY <1>3
<1>5. Scan(s, T, n) = CHOOSE G : G = [i \in 0..n |-> Next(G, i)]
  BY DEF Scan
<1> QED
  BY <1>4, <1>5

Increasing(e) == \A j, k \in DOMAIN e : j < k => e[j] < e[k]

(* e says where in the first n elements of s those of r, which are in T, are found. *)
Picks(e, r, s, T, n) ==
  /\ e \in [1..Len(r) -> 1..n] /\ Increasing(e)
  /\ \A k \in 1..Len(r) : r[k] = s[e[k]] /\ r[k] \in T
  /\ \A j \in 1..n : s[j] \in T => \E k \in 1..Len(r) : e[k] = j

LEMMA FilteredPicks ==
  ASSUME NEW S, NEW s \in Seq(S), NEW T
  PROVE  Filtered(s, T) \in Seq(S) /\ \E e : Picks(e, Filtered(s, T), s, T, Len(s))
<1> DEFINE N == Len(s)
           F == Scan(s, T, N)
           Good(i) == F[i] \in Seq(S) /\ \E e : Picks(e, F[i], s, T, i)
           Scanned == {i \in Nat : i <= N => Good(i)}
<1>1. N \in Nat /\ \A i \in 1..N : s[i] \in S
  BY LenProperties, ElementOfSeq
<1>2. /\ F[0] = <<>>
      /\ \A i \in 1..N : F[i] = IF s[i] \in T THEN Append(F[i - 1], s[i]) ELSE F[i - 1]
  <2> DEFINE H == [i \in 0..N |-> IF i = 0 THEN <<>>
                     ELSE IF s[i] \in T THEN Append(F[i - 1], s[i]) ELSE F[i - 1]]
  <2>1. F = H
    BY <1>1, ScanStep
  <2>2. H[0] = <<>> /\ \A i \in 1..N : H[i] = IF s[i] \in T THEN Append(F[i - 1], s[i]) ELSE F[i - 1]
    <3> HIDE DEF F
    <3> QED BY <1>1
  <2> HIDE DEF H, F
  <2> QED BY <2>1, <2>2
<1> HIDE DEF F
<1>3. 0 \in Scanned
  <2>1. <<>> \in Seq(S) /\ Len(<<>>) = 0
    BY EmptySeq
  <2>2. Picks(<<>>, <<>>, s, T, 0)
    <3>1. <<>> \in [1..0 -> 1..0] /\ DOMAIN <<>> = {}
      OBVIOUS
    <3> QED BY <2>1, <3>1 DEF Picks, Increasing
  <2> QED
    BY <1>2, <2>1, <2>2
<1>4. ASSUME NEW i \in Nat, i \in Scanned PROVE i + 1 \in Scanned
  <2>1. SUFFICES ASSUME i + 1 <= N PROVE Good(i + 1)
    OBVIOUS
  <2>2. i \in 0..N /\ i + 1 \in 1..N /\ F[i] \in Seq(S)
    BY <1>1, <1>4, <2>1
  <2>3. PICK e : Picks(e, F[i], s, T, i)
    BY <1>1, <1>4, <2>1
  <2>4. F[i + 1] = IF s[i + 1] \in T THEN Append(F[i], s[i + 1]) ELSE F[i]
    BY <1>2, <2>2
  <2>5. CASE s[i + 1] \notin T
    <3>1. F[i + 1] = F[i]
      BY <2>4, <2>5
    <3>2. Picks(e, F[i], s, T, i + 1)
      BY <2>2, <2>3, <2>5 DEF Picks
    <3> QED
      BY <2>2, <3>1, <3>2
  <2>6. CASE s[i + 1] \in T
    <3> DEFINE r == F[i]
               q == F[i + 1]
    <3>1. q = Append(r, s[i + 1])
      BY <2>4, <2>6
    <3>2. PICK n \in Nat : n = Len(r)
      BY <2>2, LenProperties
    <3>3. /\ q \in Seq(S) /\ Len(q) = n + 1
          /\ \A k \in 1..n : q[k] = r[k]
          /\ q[n + 1] = s[i + 1]
      BY <1>1, <2>2, <3>1, <3>2, AppendProperties
    <3> DEFINE f == [k \in 1..(n + 1) |-> IF k <= n THEN e[k] ELSE i + 1]
    <3>4. /\ e \in [1..n -> 1..i] /\ Increasing(e)
          /\ \A k \in 1..n : r[k] = s[e[k]] /\ r[k] \in T
          /\ \A j \in 1..i : s[j] \in T => \E k \in 1..n : e[k] = j
      BY <2>3, <3>2 DEF Picks
    <3>5. f \in [1..(n + 1) -> 1..(i + 1)]
      BY <3>4
    <3>6. Increasing(f)
      BY <3>4 DEF Increasing
    <3>7. \A k \in 1..(n + 1) : q[k] = s[f[k]] /\ q[k] \in T
      <4>1. ASSUME NEW k \in 1..n PROVE q[k] = s[f[k]] /\ q[k] \in T
        <5>1. f[k] = e[k] /\ q[k] = r[k] /\ r[k] = s[e[k]] /\ r[k] \in T
          BY <3>3, <3>4
        <5> HIDE DEF f, q, r
        <5> QED BY <5>1
      <4>2. q[n + 1] = s[f[n + 1]] /\ q[n + 1] \in T
        BY <2>6, <3>3
      <4> HIDE DEF f, q, r
      <4> QED BY <4>1, <4>2
    <3>8. ASSUME NEW j \in 1..(i + 1), s[j] \in T PROVE \E k \in 1..(n + 1) : f[k] = j
      <4>1. CASE j = i + 1
        <5>1. f[n + 1] = j
          BY <4>1
        <5> QED BY <5>1
      <4>2. CASE j # i + 1
        <5>1. j \in 1..i
          BY <4>2
        <5>2. PICK k \in 1..n : e[k] = j
          BY <3>4, <3>8, <5>1
        <5>3. f[k] = j /\ k \in 1..(n + 1)
          BY <5>2
        <5> QED BY <5>3
      <4> QED BY <4>1, <4>2
    <3>9. Picks(f, q, s, T, i + 1)
      <4> HIDE DEF f, q
      <4> QED BY <3>3, <3>5, <3>6, <3>7, <3>8 DEF Picks
    <3> QED
      BY <3>3, <3>9
  <2> QED
    BY <2>5, <2>6
<1>5. N \in Scanned
  <2> HIDE DEF Scanned
  <2> QED BY <1>1, <1>3, <1>4, SetInduction
<1>6. Good(N)
  BY <1>1, <1>5
<1> QED
  BY <1>6 DEF Filtered, F

(* What Filtered keeps of a sequence without duplicates.                   *)
LEMMA FilteredProperties ==
  ASSUME NEW S, NEW s \in Seq(S), NEW T
  PROVE  /\ Filtered(s, T) \in Seq(S)
         /\ Len(Filtered(s, T)) \in Nat
         /\ \A k \in 1..Len(Filtered(s, T)) :
              Filtered(s, T)[k] \in T /\ \E j \in 1..Len(s) : s[j] = Filtered(s, T)[k]
         /\ \A j \in 1..Len(s) : s[j] \in T => \E k \in 1..Len(Filtered(s, T)) : Filtered(s, T)[k] = s[j]
         /\ Distinct(s) => Distinct(Filtered(s, T))
<1> DEFINE r == Filtered(s, T)
<1>1. r \in Seq(S) /\ \E e : Picks(e, r, s, T, Len(s))
  BY FilteredPicks
<1> HIDE DEF r
<1>2. PICK e : Picks(e, r, s, T, Len(s))
  BY <1>1
<1>3. Len(r) \in Nat /\ Len(s) \in Nat
  BY <1>1, LenProperties
<1>4. ASSUME Distinct(s), NEW j \in 1..Len(r), NEW k \in 1..Len(r), r[j] = r[k] PROVE j = k
  <2>1. e[j] \in 1..Len(s) /\ e[k] \in 1..Len(s) /\ s[e[j]] = s[e[k]]
    BY <1>2, <1>4 DEF Picks
  <2>2. e[j] = e[k]
    BY <1>4, <2>1 DEF Distinct
  <2>3. j \in DOMAIN e /\ k \in DOMAIN e /\ Increasing(e)
    BY <1>2 DEF Picks
  <2>4. ~(e[j] < e[k]) /\ ~(e[k] < e[j])
    BY <2>1, <2>2
  <2> QED
    BY <1>3, <2>3, <2>4 DEF Increasing
<1>5. \A k \in 1..Len(r) : r[k] \in T /\ \E j \in 1..Len(s) : s[j] = r[k]
  BY <1>2 DEF Picks
<1>6. \A j \in 1..Len(s) : s[j] \in T => \E k \in 1..Len(r) : r[k] = s[j]
  BY <1>2 DEF Picks
<1>7. Distinct(s) => Distinct(r)
  BY <1>4 DEF Distinct
<1> QED
  BY <1>1, <1>3, <1>5, <1>6, <1>7 DEF r

(* A first element that is kept stays first.                               *)
LEMMA FilteredHead ==
  ASSUME NEW S, NEW s \in Seq(S), s # <<>>, NEW T, Head(s) \in T
  PROVE  Filtered(s, T) # <<>> /\ Head(Filtered(s, T)) = Head(s)
<1> DEFINE r == Filtered(s, T)
<1>1. r \in Seq(S) /\ \E e : Picks(e, r, s, T, Len(s))
  BY FilteredPicks
<1> HIDE DEF r
<1>2. PICK e : Picks(e, r, s, T, Len(s))
  BY <1>1
<1>3. Len(r) \in Nat /\ Len(s) \in Nat \ {0} /\ Head(s) = s[1]
  BY <1>1, LenProperties, EmptySeq
<1>4. PICK k \in 1..Len(r) : e[k] = 1
  BY <1>2, <1>3 DEF Picks
<1>5. r # <<>> /\ 1 \in 1..Len(r)
  BY <1>3, <1>4, EmptySeq
<1>6. k = 1
  <2>1. e[1] \in 1..Len(s) /\ 1 \in DOMAIN e /\ k \in DOMAIN e /\ Increasing(e)
    BY <1>2, <1>5 DEF Picks
  <2>2. ~(e[1] < e[k])
    BY <1>4, <2>1
  <2> QED
    BY <1>3, <1>4, <2>1, <2>2 DEF Increasing
<1>7. r[1] = s[1]
  BY <1>2, <1>4, <1>6 DEF Picks
<1> QED
  BY <1>1, <1>3, <1>5, <1>7 DEF r

(* What has been scanned is a sequence, element by element.                *)
LEMMA ScanTypes ==
  ASSUME NEW S, NEW s \in Seq(S), NEW T
  PROVE  /\ Scan(s, T, Len(s))[0] = <<>>
         /\ \A i \in 1..Len(s) : Scan(s, T, Len(s))[i] =
              IF s[i] \in T THEN Append(Scan(s, T, Len(s))[i - 1], s[i]) ELSE Scan(s, T, Len(s))[i - 1]
         /\ \A i \in 0..Len(s) : Scan(s, T, Len(s))[i] \in Seq(S)
<1> DEFINE N == Len(s)
           F == Scan(s, T, N)
           Typed == {i \in Nat : i <= N => F[i] \in Seq(S)}
<1>1. N \in Nat /\ \A i \in 1..N : s[i] \in S
  BY LenProperties, ElementOfSeq
<1>2. /\ F[0] = <<>>
      /\ \A i \in 1..N : F[i] = IF s[i] \in T THEN Append(F[i - 1], s[i]) ELSE F[i - 1]
  <2> DEFINE H == [i \in 0..N |->
                     IF i = 0 THEN <<>>
                     ELSE IF s[i] \in T THEN Append(F[i - 1], s[i]) ELSE F[i - 1]]
  <2>1. F = H
    BY <1>1, ScanStep
  <2> HIDE DEF F
  <2>2. H[0] = <<>> /\ \A i \in 1..N : H[i] = IF s[i] \in T THEN Append(F[i - 1], s[i]) ELSE F[i - 1]
    BY <1>1
  <2> QED
    BY <2>1, <2>2
<1> HIDE DEF F
<1>3. Nat \subseteq Typed
  <2>1. 0 \in Typed
    <3>1. <<>> \in Seq(S)
      OBVIOUS
    <3> QED
      BY <1>2, <3>1
  <2>2. ASSUME NEW i \in Nat, i \in Typed
        PROVE  i + 1 \in Typed
    <3>1. SUFFICES ASSUME i + 1 <= N PROVE F[i + 1] \in Seq(S)
      OBVIOUS
    <3>2. i + 1 \in 1..N /\ (i + 1) - 1 = i /\ F[i] \in Seq(S)
      BY <1>1, <2>2, <3>1
    <3>3. F[i + 1] = IF s[i + 1] \in T THEN Append(F[i], s[i + 1]) ELSE F[i]
      BY <1>2, <3>2
    <3>4. s[i + 1] \in S
      BY <1>1, <3>2
    <3> QED
      BY <3>2, <3>3, <3>4
  <2> HIDE DEF Typed
  <2> QED
    BY <2>1, <2>2, SetInduction
<1>4. \A i \in 0..N : F[i] \in Seq(S)
  BY <1>1, <1>3
<1> QED
  BY <1>2, <1>4 DEF F

(* Appending to the second of two sequences.                               *)
LEMMA ConcatAppend ==
  ASSUME NEW S
  PROVE  \A s, t \in Seq(S), x \in S :
           /\ s \o Append(t, x) = Append(s \o t, x) /\ s \o <<>> = s /\ <<>> \o s = s
           /\ s \o t \in Seq(S) /\ Append(s, x) = s \o <<x>>
OBVIOUS

(* Of what is put together is kept what is kept of each part.              *)
LEMMA FilteredConcat ==
  ASSUME NEW S, NEW s \in Seq(S), NEW t \in Seq(S), NEW T
  PROVE  Filtered(s \o t, T) = Filtered(s, T) \o Filtered(t, T)
<1> DEFINE N == Len(s)
           M == Len(t)
           u == s \o t
           F == Scan(u, T, Len(u))
           A == Scan(s, T, N)
           B == Scan(t, T, M)
           First == {i \in Nat : i <= N => F[i] = A[i]}
           J(j) == A[N] \o B[j]
           Second == {j \in Nat : j <= M => F[N + j] = J(j)}
<1>1. N \in Nat /\ M \in Nat /\ u \in Seq(S) /\ Len(u) = N + M
  OBVIOUS
<1>2. /\ \A i \in 1..N : u[i] = s[i] /\ s[i] \in S
      /\ \A j \in 1..M : u[N + j] = t[j] /\ t[j] \in S
  OBVIOUS
<1> HIDE DEF u, N, M
<1>3. /\ F[0] = <<>>
      /\ \A i \in 1..(N + M) : F[i] = IF u[i] \in T THEN Append(F[i - 1], u[i]) ELSE F[i - 1]
  <2>1. /\ F[0] = <<>>
        /\ \A i \in 1..Len(u) : F[i] = IF u[i] \in T THEN Append(F[i - 1], u[i]) ELSE F[i - 1]
    BY <1>1, ScanTypes
  <2> HIDE DEF F
  <2> QED
    BY <1>1, <2>1
<1>4. /\ A[0] = <<>>
      /\ \A i \in 1..N : A[i] = IF s[i] \in T THEN Append(A[i - 1], s[i]) ELSE A[i - 1]
      /\ \A i \in 0..N : A[i] \in Seq(S)
  BY ScanTypes DEF N
<1>5. /\ B[0] = <<>>
      /\ \A i \in 1..M : B[i] = IF t[i] \in T THEN Append(B[i - 1], t[i]) ELSE B[i - 1]
      /\ \A i \in 0..M : B[i] \in Seq(S)
  BY ScanTypes DEF M
<1>6. F[N + M] = Filtered(u, T) /\ A[N] = Filtered(s, T) /\ B[M] = Filtered(t, T)
  BY <1>1 DEF Filtered, N, M
<1> HIDE DEF F, A, B
<1>7. Nat \subseteq First
  <2>1. 0 \in First
    BY <1>3, <1>4
  <2>2. ASSUME NEW i \in Nat, i \in First
        PROVE  i + 1 \in First
    <3>1. SUFFICES ASSUME i + 1 <= N PROVE F[i + 1] = A[i + 1]
      OBVIOUS
    <3>2. i + 1 \in 1..N /\ i + 1 \in 1..(N + M) /\ (i + 1) - 1 = i /\ F[i] = A[i]
      BY <1>1, <2>2, <3>1
    <3> QED
      BY <1>2, <1>3, <1>4, <3>2
  <2> HIDE DEF First
  <2> QED
    BY <2>1, <2>2, SetInduction
<1>8. F[N] = A[N]
  BY <1>1, <1>7
<1>9. /\ J(0) = A[N]
      /\ \A j \in 1..M : J(j) = IF t[j] \in T THEN Append(J(j - 1), t[j]) ELSE J(j - 1)
  <2>1. A[N] \in Seq(S)
    BY <1>1, <1>4
  <2>2. J(0) = A[N]
    BY <1>5, <2>1, ConcatAppend
  <2>3. ASSUME NEW j \in 1..M
        PROVE  J(j) = IF t[j] \in T THEN Append(J(j - 1), t[j]) ELSE J(j - 1)
    <3>1. t[j] \in S /\ j - 1 \in 0..M
      BY <1>1, <1>2
    <3>2. /\ B[j] = IF t[j] \in T THEN Append(B[j - 1], t[j]) ELSE B[j - 1]
          /\ B[j - 1] \in Seq(S)
      BY <1>5, <3>1
    <3>3. A[N] \o Append(B[j - 1], t[j]) = Append(A[N] \o B[j - 1], t[j])
      <4>1. \A p, q \in Seq(S), x \in S : p \o Append(q, x) = Append(p \o q, x)
        BY ConcatAppend
      <4> QED
        BY <2>1, <3>1, <3>2, <4>1, Zenon
    <3>4. CASE t[j] \in T
      BY <3>2, <3>3, <3>4
    <3>5. CASE t[j] \notin T
      BY <3>2, <3>5
    <3> QED
      BY <3>4, <3>5
  <2> QED
    BY <2>2, <2>3
<1> HIDE DEF J
<1>10. Nat \subseteq Second
  <2>1. 0 \in Second
    BY <1>1, <1>8, <1>9
  <2>2. ASSUME NEW j \in Nat, j \in Second
        PROVE  j + 1 \in Second
    <3>1. SUFFICES ASSUME j + 1 <= M PROVE F[N + (j + 1)] = J(j + 1)
      OBVIOUS
    <3>2. /\ j + 1 \in 1..M /\ N + (j + 1) \in 1..(N + M) /\ (N + (j + 1)) - 1 = N + j /\ (j + 1) - 1 = j
      BY <1>1, <3>1
    <3>3. F[N + j] = J(j)
      BY <1>1, <2>2, <3>1
    <3>4. u[N + (j + 1)] = t[j + 1]
      BY <1>2, <3>2
    <3>5. F[N + (j + 1)] = IF t[j + 1] \in T THEN Append(J(j), t[j + 1]) ELSE J(j)
      BY <1>3, <3>2, <3>3, <3>4
    <3>6. J(j + 1) = IF t[j + 1] \in T THEN Append(J(j), t[j + 1]) ELSE J(j)
      BY <1>9, <3>2
    <3> QED
      BY <3>5, <3>6
  <2> HIDE DEF Second
  <2> QED
    BY <2>1, <2>2, SetInduction
<1>11. F[N + M] = J(M)
  BY <1>1, <1>10
<1> QED
  BY <1>6, <1>11 DEF u, J

(* Of none nothing is kept; of one that is in T, it.                       *)
LEMMA FilteredOne ==
  ASSUME NEW x, NEW T
  PROVE  Filtered(<<>>, T) = <<>> /\ Filtered(<<x>>, T) = IF x \in T THEN <<x>> ELSE <<>>
<1>1. <<>> \in Seq({x}) /\ Len(<<>>) = 0 /\ <<x>> \in Seq({x}) /\ Len(<<x>>) = 1 /\ <<x>>[1] = x
  OBVIOUS
<1>2. \A s \in Seq({x}) :
        /\ Scan(s, T, Len(s))[0] = <<>>
        /\ \A i \in 1..Len(s) : Scan(s, T, Len(s))[i] =
             IF s[i] \in T THEN Append(Scan(s, T, Len(s))[i - 1], s[i]) ELSE Scan(s, T, Len(s))[i - 1]
  BY ScanTypes
<1>3. Filtered(<<>>, T) = <<>>
  BY <1>1, <1>2 DEF Filtered
<1> DEFINE u == <<x>>
           F == Scan(u, T, Len(u))
<1>5. F[0] = <<>> /\ \A i \in 1..Len(u) : F[i] = IF u[i] \in T THEN Append(F[i - 1], u[i]) ELSE F[i - 1]
  BY <1>1, <1>2
<1>6. Filtered(u, T) = F[1]
  BY <1>1 DEF Filtered
<1> HIDE DEF F
<1>7. F[1] = IF x \in T THEN Append(F[0], x) ELSE F[0]
  <2>1. 1 \in 1..Len(u) /\ u[1] = x /\ 1 - 1 = 0
    BY <1>1
  <2> HIDE DEF u
  <2>2. F[1] = IF u[1] \in T THEN Append(F[1 - 1], u[1]) ELSE F[1 - 1]
    BY <1>5, <2>1
  <2> QED
    BY <2>1, <2>2
<1> QED
  BY <1>3, <1>5, <1>6, <1>7

(* An element that is added is kept, or is not.                            *)
LEMMA FilteredAppend ==
  ASSUME NEW S, NEW s \in Seq(S), NEW x \in S, NEW T
  PROVE  Filtered(Append(s, x), T) = IF x \in T THEN Append(Filtered(s, T), x) ELSE Filtered(s, T)
<1>1. Append(s, x) = s \o <<x>> /\ <<x>> \in Seq(S)
  OBVIOUS
<1>2. Filtered(s, T) \in Seq(S)
  BY FilteredPicks
<1>3. Filtered(Append(s, x), T) = Filtered(s, T) \o Filtered(<<x>>, T)
  <2>1. \A p, q \in Seq(S) : Filtered(p \o q, T) = Filtered(p, T) \o Filtered(q, T)
    BY FilteredConcat
  <2> QED
    BY <1>1, <2>1, Zenon
<1>4. \A r \in Seq(S) : r \o <<x>> = Append(r, x) /\ r \o <<>> = r
  OBVIOUS
<1> QED
  BY <1>2, <1>3, <1>4, FilteredOne

(* A first element that is kept stays first; without it nothing else changes. *)
LEMMA FilteredTail ==
  ASSUME NEW S, NEW s \in Seq(S), s # <<>>, NEW T
  PROVE  /\ Head(s) \in T => /\ Filtered(s, T) # <<>> /\ Head(Filtered(s, T)) = Head(s)
                            /\ Filtered(Tail(s), T) = Tail(Filtered(s, T))
         /\ Head(s) \notin T => Filtered(Tail(s), T) = Filtered(s, T)
<1>1. s = <<Head(s)>> \o Tail(s) /\ Head(s) \in S /\ Tail(s) \in Seq(S) /\ <<Head(s)>> \in Seq(S)
  OBVIOUS
<1>2. Filtered(Tail(s), T) \in Seq(S)
  BY <1>1, FilteredPicks
<1>3. Filtered(s, T) = Filtered(<<Head(s)>>, T) \o Filtered(Tail(s), T)
  <2>1. \A p, q \in Seq(S) : Filtered(p \o q, T) = Filtered(p, T) \o Filtered(q, T)
    BY FilteredConcat
  <2> QED
    BY <1>1, <2>1, Zenon
<1>4. \A r \in Seq(S), x \in S :
        <<>> \o r = r /\ <<x>> \o r # <<>> /\ Head(<<x>> \o r) = x /\ Tail(<<x>> \o r) = r
  OBVIOUS
<1>5. CASE Head(s) \in T
  <2>1. Filtered(s, T) = <<Head(s)>> \o Filtered(Tail(s), T)
    BY <1>3, <1>5, FilteredOne
  <2> QED
    BY <1>1, <1>2, <1>4, <1>5, <2>1
<1>6. CASE Head(s) \notin T
  <2>1. Filtered(s, T) = <<>> \o Filtered(Tail(s), T)
    BY <1>3, <1>6, FilteredOne
  <2> QED
    BY <1>1, <1>2, <1>4, <1>6, <2>1
<1> QED
  BY <1>5, <1>6

(* Keeping fewer of those that were kept.                                  *)
LEMMA FilteredTwice ==
  ASSUME NEW S, NEW s \in Seq(S), NEW T, NEW U, T \cap S \subseteq U
  PROVE  Filtered(Filtered(s, U), T) = Filtered(s, T)
<1> DEFINE N == Len(s)
           A == Scan(s, T, N)
           B == Scan(s, U, N)
           Done == {i \in Nat : i <= N => Filtered(B[i], T) = A[i]}
<1>1. N \in Nat /\ \A i \in 1..N : s[i] \in S
  OBVIOUS
<1>2. /\ A[0] = <<>>
      /\ \A i \in 1..N : A[i] = IF s[i] \in T THEN Append(A[i - 1], s[i]) ELSE A[i - 1]
  BY ScanTypes
<1>3. /\ B[0] = <<>>
      /\ \A i \in 1..N : B[i] = IF s[i] \in U THEN Append(B[i - 1], s[i]) ELSE B[i - 1]
      /\ \A i \in 0..N : B[i] \in Seq(S)
  BY ScanTypes
<1>4. A[N] = Filtered(s, T) /\ B[N] = Filtered(s, U)
  BY DEF Filtered
<1> HIDE DEF A, B, N
<1>5. Nat \subseteq Done
  <2>1. 0 \in Done
    BY <1>2, <1>3, FilteredOne
  <2>2. ASSUME NEW i \in Nat, i \in Done
        PROVE  i + 1 \in Done
    <3>1. SUFFICES ASSUME i + 1 <= N PROVE Filtered(B[i + 1], T) = A[i + 1]
      OBVIOUS
    <3>2. /\ i + 1 \in 1..N /\ (i + 1) - 1 = i /\ Filtered(B[i], T) = A[i]
          /\ B[i] \in Seq(S) /\ s[i + 1] \in S
      BY <1>1, <1>3, <2>2, <3>1
    <3>3. /\ A[i + 1] = IF s[i + 1] \in T THEN Append(A[i], s[i + 1]) ELSE A[i]
          /\ B[i + 1] = IF s[i + 1] \in U THEN Append(B[i], s[i + 1]) ELSE B[i]
      BY <1>2, <1>3, <3>2
    <3>4. Filtered(Append(B[i], s[i + 1]), T) =
            IF s[i + 1] \in T THEN Append(Filtered(B[i], T), s[i + 1]) ELSE Filtered(B[i], T)
      <4>1. \A r \in Seq(S), x \in S :
              Filtered(Append(r, x), T) = IF x \in T THEN Append(Filtered(r, T), x) ELSE Filtered(r, T)
        BY FilteredAppend
      <4> QED
        BY <3>2, <4>1
    <3> QED
      BY <3>2, <3>3, <3>4
  <2> HIDE DEF Done
  <2> QED
    BY <2>1, <2>2, SetInduction
<1>6. Filtered(B[N], T) = A[N]
  BY <1>1, <1>5
<1> QED
  BY <1>4, <1>6

(* Nothing is kept of a sequence without elements of T.                    *)
LEMMA FilteredNone ==
  ASSUME NEW S, NEW s \in Seq(S), NEW T, \A j \in 1..Len(s) : s[j] \notin T
  PROVE  Filtered(s, T) = <<>>
<1>1. /\ Filtered(s, T) \in Seq(S) /\ Len(Filtered(s, T)) \in Nat
      /\ \A k \in 1..Len(Filtered(s, T)) :
              Filtered(s, T)[k] \in T /\ \E j \in 1..Len(s) : s[j] = Filtered(s, T)[k]
  BY FilteredProperties
<1>2. Len(Filtered(s, T)) = 0
  BY <1>1
<1> QED
  BY <1>1, <1>2, LenZero

(* The only element of T is all that is kept.                              *)
LEMMA FilteredOnly ==
  ASSUME NEW S, NEW s \in Seq(S), NEW T, NEW k \in 1..Len(s), s[k] \in T,
         \A j \in 1..Len(s) : s[j] \in T => j = k
  PROVE  Filtered(s, T) = <<s[k]>>
<1> DEFINE r == Filtered(s, T)
<1>1. /\ r \in Seq(S) /\ Len(r) \in Nat /\ \E e : Picks(e, r, s, T, Len(s))
  BY FilteredPicks
<1>2. PICK e : Picks(e, r, s, T, Len(s))
  BY <1>1
<1> HIDE DEF r
<1>3. /\ \A i \in 1..Len(r) : e[i] \in 1..Len(s) /\ r[i] = s[e[i]] /\ r[i] \in T
      /\ DOMAIN e = 1..Len(r)
      /\ \A i, j \in DOMAIN e : i < j => e[i] < e[j]
      /\ \E i \in 1..Len(r) : e[i] = k
  BY <1>2 DEF Picks, Increasing
<1>4. \A i \in 1..Len(r) : e[i] = k
  BY <1>3
<1>5. Len(r) >= 1
  BY <1>1, <1>3
<1>6. Len(r) <= 1
  <2>1. SUFFICES ASSUME Len(r) >= 2 PROVE FALSE
    BY <1>1
  <2>2. 1 \in DOMAIN e /\ 2 \in DOMAIN e
    BY <1>1, <1>3, <2>1
  <2>3. e[1] < e[2] /\ e[1] = k /\ e[2] = k
    BY <1>3, <1>4, <2>2
  <2> QED
    BY <2>3
<1>7. Len(r) = 1 /\ r[1] = s[k]
  <2>1. Len(r) = 1
    <3>1. Len(r) \in Nat
      BY <1>1
    <3>2. \A n \in Nat : n >= 1 /\ n <= 1 => n = 1
      OBVIOUS
    <3> QED
      BY <3>1, <3>2, <1>5, <1>6, Zenon
  <2>2. 1 \in 1..Len(r)
    BY <2>1
  <2> QED
    BY <1>3, <1>4, <2>1, <2>2
<1>8. r = <<s[k]>>
  BY <1>1, <1>7
<1> QED
  BY <1>8 DEF r

(* The elements of a sequence.                                             *)
LEMMA Elements ==
  ASSUME NEW S, NEW s \in Seq(S)
  PROVE  /\ \A x : x \in ToSet(s) <=> \E i \in 1..Len(s) : s[i] = x
         /\ ToSet(s) \subseteq S
<1>1. DOMAIN s = 1..Len(s) /\ \A i \in 1..Len(s) : s[i] \in S
  OBVIOUS
<1> QED
  BY <1>1 DEF ToSet

(* One more element.                                                       *)
LEMMA AppendedElements ==
  ASSUME NEW S, NEW s \in Seq(S), NEW x \in S
  PROVE  /\ ToSet(Append(s, x)) = ToSet(s) \cup {x}
         /\ Distinct(s) /\ x \notin ToSet(s) => Distinct(Append(s, x))
<1> DEFINE a == Append(s, x)
           N == Len(s)
<1>1. /\ N \in Nat /\ a \in Seq(S) /\ Len(a) = N + 1 /\ a[N + 1] = x
      /\ \A i \in 1..N : a[i] = s[i]
  OBVIOUS
<1> HIDE DEF a
<1>2. /\ \A y : y \in ToSet(a) <=> \E i \in 1..Len(a) : a[i] = y
      /\ \A y : y \in ToSet(s) <=> \E i \in 1..N : s[i] = y
  BY <1>1, Elements
<1> HIDE DEF N
<1>3. /\ N + 1 \in 1..Len(a) /\ \A i \in 1..Len(a) : i = N + 1 \/ i \in 1..N
      /\ \A i \in 1..N : i \in 1..Len(a)
  BY <1>1
<1>4. \A y : y \in ToSet(a) <=> y \in ToSet(s) \/ y = x
  BY <1>1, <1>2, <1>3
<1>5. ASSUME Distinct(s), x \notin ToSet(s) PROVE Distinct(a)
  BY <1>1, <1>2, <1>3, <1>5 DEF Distinct, N
<1> QED
  BY <1>4, <1>5 DEF a

(* One element less, of a sequence without duplicates.                     *)
LEMMA RemovedElements ==
  ASSUME NEW S, NEW s \in Seq(S), Distinct(s), NEW k \in 1..Len(s)
  PROVE  /\ ToSet(RemoveAt(s, k)) = ToSet(s) \ {s[k]} /\ Distinct(RemoveAt(s, k))
<1> DEFINE r == RemoveAt(s, k)
           N == Len(s)
<1>1. /\ N \in Nat /\ k \in 1..N
  OBVIOUS
<1>2. /\ r \in Seq(S) /\ Len(r) = N - 1
      /\ \A j \in 1..(N - 1) : r[j] = IF j < k THEN s[j] ELSE s[j + 1]
  BY RemoveAtProperties
<1>3. /\ \A y : y \in ToSet(s) <=> \E i \in 1..N : s[i] = y
  BY Elements
<1>4. \A y : y \in ToSet(r) <=> \E i \in 1..Len(r) : r[i] = y
  <2> HIDE DEF r
  <2> QED
    BY <1>2, Elements
<1> HIDE DEF r, N
<1>5. \A i, j \in 1..N : s[i] = s[j] => i = j
  BY DEF Distinct, N
<1>6. \A i \in 1..N : i # k => IF i < k THEN i \in 1..(N - 1) /\ r[i] = s[i]
                              ELSE i - 1 \in 1..(N - 1) /\ r[i - 1] = s[i]
  BY <1>1, <1>2
<1>7. \A j \in 1..(N - 1) : IF j < k THEN j \in 1..N /\ r[j] = s[j] /\ j # k
                                     ELSE j + 1 \in 1..N /\ r[j] = s[j + 1] /\ j + 1 # k
  BY <1>1, <1>2
<1>8. \A y : y \in ToSet(r) => y \in ToSet(s) /\ y # s[k]
  <2>1. SUFFICES ASSUME NEW y, y \in ToSet(r) PROVE y \in ToSet(s) /\ y # s[k]
    OBVIOUS
  <2>2. PICK j \in 1..(N - 1) : r[j] = y
    BY <1>2, <1>4, <2>1
  <2>3. PICK m \in 1..N : r[j] = s[m] /\ m # k
    BY <1>1, <1>7
  <2> QED
    BY <1>1, <1>3, <1>5, <2>2, <2>3
<1>9. \A y : y \in ToSet(s) /\ y # s[k] => y \in ToSet(r)
  BY <1>1, <1>2, <1>3, <1>4, <1>6
<1>10. ASSUME NEW i \in 1..(N - 1), NEW j \in 1..(N - 1), r[i] = r[j]
       PROVE  i = j
  <2>1. PICK m \in 1..N : r[i] = s[m] /\ (i < k => m = i) /\ (~(i < k) => m = i + 1)
    BY <1>1, <1>7
  <2>2. PICK n \in 1..N : r[j] = s[n] /\ (j < k => n = j) /\ (~(j < k) => n = j + 1)
    BY <1>1, <1>7
  <2>3. m = n
    BY <1>5, <1>10, <2>1, <2>2
  <2> QED
    BY <1>1, <2>1, <2>2, <2>3
<1>11. ToSet(r) = ToSet(s) \ {s[k]}
  BY <1>8, <1>9
<1>12. Distinct(r)
  BY <1>2, <1>10 DEF Distinct
<1> QED
  BY <1>11, <1>12 DEF r

(* A sequence without duplicates has as many elements as it is long.       *)
LEMMA DistinctLength ==
  ASSUME NEW S, NEW s \in Seq(S), Distinct(s)
  PROVE  IsFiniteSet(ToSet(s)) /\ Cardinality(ToSet(s)) = Len(s)
<1> DEFINE N == Len(s)
<1>1. N \in Nat /\ DOMAIN s = 1..N
  OBVIOUS
<1>2. \A x : x \in ToSet(s) <=> \E i \in 1..N : s[i] = x
  BY Elements
<1>3. s \in Bijection(1..N, ToSet(s))
  <2>1. s \in [1..N -> ToSet(s)]
    BY <1>1, <1>2
  <2> QED
    BY <1>2, <2>1 DEF Bijection, Injection, Surjection, IsInjective, Distinct
<1>4. IsFiniteSet(1..N) /\ Cardinality(1..N) = N
  BY <1>1, FS_Interval
<1> QED
  BY <1>3, <1>4, FS_Bijection DEF ExistsBijection

(* Where an element is found.                                              *)
LEMMA SelectedElement ==
  ASSUME NEW S, NEW s \in Seq(S), NEW x \in ToSet(s)
  PROVE  /\ SelectInSeq(s, LAMBDA y : y = x) \in 1..Len(s)
         /\ s[SelectInSeq(s, LAMBDA y : y = x)] = x
<1> DEFINE I == {i \in 1..Len(s) : s[i] = x}
<1>1. I # {} /\ I \in SUBSET Nat
  BY Elements, LenProperties
<1>2. Min(I) \in I
  BY <1>1, MinOfNats
<1>3. SelectInSeq(s, LAMBDA y : y = x) = Min(I)
  BY <1>1 DEF SelectInSeq
<1> QED
  BY <1>2, <1>3

(* The first occurrence is the only one.                                   *)
LEMMA FirstRemoved ==
  ASSUME NEW S, NEW s \in Seq(S), Distinct(s), NEW x
  PROVE  /\ RemoveFirst(s, x) \in Seq(S) /\ Distinct(RemoveFirst(s, x))
         /\ ToSet(RemoveFirst(s, x)) = ToSet(s) \ {x}
         /\ s = <<>> => RemoveFirst(s, x) = <<>>
<1>1. CASE RemoveFirst(s, x) = s /\ \A i \in 1..Len(s) : s[i] # x
  <2>1. x \notin ToSet(s)
    BY <1>1, Elements
  <2> QED
    BY <1>1, <2>1
<1>2. CASE \E k \in 1..Len(s) : s[k] = x /\ RemoveFirst(s, x) = RemoveAt(s, k)
  <2>1. PICK k \in 1..Len(s) : s[k] = x /\ RemoveFirst(s, x) = RemoveAt(s, k)
    BY <1>2
  <2>2. /\ RemoveAt(s, k) \in Seq(S) /\ Distinct(RemoveAt(s, k))
        /\ ToSet(RemoveAt(s, k)) = ToSet(s) \ {s[k]}
    BY RemovedElements, RemoveAtProperties
  <2>3. s # <<>>
    BY <2>1
  <2> QED
    BY <2>1, <2>2, <2>3
<1> QED
  BY <1>1, <1>2, RemoveFirstProperties

(* Messages one after the other.                                           *)

(* Induction over sequences, for a set.                                    *)
LEMMA SeqInduction ==
  ASSUME NEW V, NEW G, <<>> \in G, \A s \in Seq(V), x \in V : s \in G => Append(s, x) \in G
  PROVE  Seq(V) \subseteq G
<1> DEFINE S == {n \in Nat : \A s \in Seq(V) : Len(s) = n => s \in G}
<1>1. 0 \in S
  <2>1. \A s \in Seq(V) : Len(s) = 0 => s = <<>>
    OBVIOUS
  <2> QED
    BY <2>1
<1>2. ASSUME NEW n \in Nat, n \in S PROVE n + 1 \in S
  <2> SUFFICES ASSUME NEW s \in Seq(V), Len(s) = n + 1 PROVE s \in G
    OBVIOUS
  <2>1. s # <<>>
    BY LenZero
  <2>2. PICK t \in Seq(V), x \in V : s = Append(t, x)
    BY <2>1, SequenceEmptyOrAppend
  <2>3. Len(t) = n
    BY <2>2, AppendProperties, LenProperties
  <2> QED
    BY <1>2, <2>2, <2>3
<1> HIDE DEF S
<1>3. Nat \subseteq S
  BY <1>1, <1>2, SetInduction
<1>4. ASSUME NEW s \in Seq(V) PROVE s \in G
  <2>1. Len(s) \in S
    BY <1>3, LenProperties
  <2> QED
    BY <2>1 DEF S
<1> QED
  BY <1>4

(* The recursion of FlattenSeq has a solution.                             *)
LEMMA FlattenSolved ==
  ASSUME NEW V, NEW ms \in Seq(Seq(V)), ms # <<>>
  PROVE  \E f : /\ f = [i \in 1..Len(ms) |-> IF i = 1 THEN ms[i] ELSE f[i - 1] \o ms[i]]
                /\ FlattenSeq(ms) = f[Len(ms)]
<1> DEFINE N == Len(ms)
           Step(f, i) == IF i = 1 THEN ms[i] ELSE f[i - 1] \o ms[i]
           Solved == {n \in Nat : \E f : f = [i \in 1..n |-> Step(f, i)]}
<1>0. N \in Nat \ {0}
  BY EmptySeq
<1>1. 0 \in Solved
  <2> DEFINE h == [i \in 1..0 |-> <<>>]
  <2>1. h = [i \in 1..0 |-> Step(h, i)]
    OBVIOUS
  <2> QED
    BY <2>1
<1>2. ASSUME NEW n \in Nat, n \in Solved PROVE n + 1 \in Solved
  <2>1. PICK f : f = [i \in 1..n |-> Step(f, i)]
    BY <1>2
  <2> DEFINE g == [i \in 1..(n + 1) |-> Step(f, i)]
  <2>2. ASSUME NEW i \in 1..n PROVE g[i] = f[i]
    <3>1. f[i] = Step(f, i)
      BY <2>1
    <3>2. g[i] = Step(f, i)
      OBVIOUS
    <3> QED
      BY <3>1, <3>2
  <2>3. ASSUME NEW i \in 1..(n + 1) PROVE g[i] = Step(g, i)
    <3>1. i # 1 => i - 1 \in 1..n
      OBVIOUS
    <3>2. i # 1 => g[i - 1] = f[i - 1]
      BY <3>1, <2>2
    <3>3. g[i] = Step(f, i)
      OBVIOUS
    <3> HIDE DEF g
    <3> QED
      BY <3>2, <3>3
  <2>4. g = [i \in 1..(n + 1) |-> g[i]]
    OBVIOUS
  <2> HIDE DEF g
  <2>5. g = [i \in 1..(n + 1) |-> Step(g, i)]
    BY <2>3, <2>4
  <2>6. \E h : h = [i \in 1..(n + 1) |-> Step(h, i)]
    BY <2>5, Zenon
  <2>7. n + 1 \in Nat
    OBVIOUS
  <2> HIDE DEF Step
  <2> QED
    BY <2>6, <2>7, Zenon
<1> HIDE DEF Solved
<1>3. N \in Solved
  BY <1>0, <1>1, <1>2, SetInduction
<1>4. \E f : f = [i \in 1..N |-> Step(f, i)]
  BY <1>3 DEF Solved
<1> DEFINE F == CHOOSE f : f = [i \in 1..N |-> Step(f, i)]
<1>5. F = [i \in 1..N |-> Step(F, i)]
  BY <1>4
<1>6. FlattenSeq(ms) = F[N]
  BY <1>0 DEF FlattenSeq
<1> HIDE DEF F
<1> QED
  BY <1>5, <1>6

(* Nothing, and one message more.                                          *)
LEMMA FlattenEmpty == FlattenSeq(<<>>) = <<>>
BY DEF FlattenSeq

(* One more message.                                                       *)
LEMMA FlattenAppend ==
  ASSUME NEW V, NEW ms \in Seq(Seq(V)), NEW m \in Seq(V)
  PROVE  FlattenSeq(Append(ms, m)) = FlattenSeq(ms) \o m
<1> DEFINE N == Len(ms)
           a == Append(ms, m)
<1>1. /\ a \in Seq(Seq(V)) /\ a # <<>> /\ Len(a) = N + 1 /\ N \in Nat
      /\ \A i \in 1..N : a[i] = ms[i]
      /\ a[N + 1] = m
  BY AppendProperties, LenProperties
<1> HIDE DEF a
<1>2. PICK f : /\ f = [i \in 1..Len(a) |-> IF i = 1 THEN a[i] ELSE f[i - 1] \o a[i]]
               /\ FlattenSeq(a) = f[Len(a)]
  BY <1>1, FlattenSolved
<1>2a. \A i \in 1..(N + 1) : f[i] = IF i = 1 THEN a[i] ELSE f[i - 1] \o a[i]
  BY <1>1, <1>2
<1>3. CASE ms = <<>>
  <2>1. N = 0 /\ FlattenSeq(ms) = <<>>
    BY <1>3, FlattenEmpty
  <2>2. FlattenSeq(a) = m
    BY <1>1, <1>2, <1>2a, <2>1
  <2>3. <<>> \o m = m
    BY ConcatEmptySeq
  <2> QED
    BY <2>1, <2>2, <2>3 DEF a
<1>4. CASE ms # <<>>
  <2>0. N \in Nat \ {0}
    BY <1>4, EmptySeq
  <2>1. PICK g : /\ g = [i \in 1..N |-> IF i = 1 THEN ms[i] ELSE g[i - 1] \o ms[i]]
                 /\ FlattenSeq(ms) = g[N]
    BY <1>4, FlattenSolved
  <2>1a. \A i \in 1..N : g[i] = IF i = 1 THEN ms[i] ELSE g[i - 1] \o ms[i]
    BY <2>1
  <2> DEFINE Same == {n \in Nat : n + 1 \in 1..N => f[n + 1] = g[n + 1]}
  <2>2. 0 \in Same
    BY <1>1, <1>2a, <2>0, <2>1a
  <2>3. ASSUME NEW n \in Nat, n \in Same PROVE n + 1 \in Same
    <3> SUFFICES ASSUME (n + 1) + 1 \in 1..N PROVE f[(n + 1) + 1] = g[(n + 1) + 1]
      OBVIOUS
    <3>1. n + 1 \in 1..N /\ (n + 1) + 1 # 1 /\ ((n + 1) + 1) - 1 = n + 1
      OBVIOUS
    <3>2. f[n + 1] = g[n + 1]
      BY <2>3, <3>1
    <3>2a. (n + 1) + 1 \in 1..(N + 1)
      BY <1>1, <3>1
    <3>3. f[(n + 1) + 1] = f[((n + 1) + 1) - 1] \o a[(n + 1) + 1]
      BY <1>2a, <3>1, <3>2a
    <3>4. g[(n + 1) + 1] = g[n + 1] \o ms[(n + 1) + 1]
      BY <2>1a, <3>1
    <3> QED
      BY <1>1, <3>1, <3>2, <3>3, <3>4
  <2> HIDE DEF Same
  <2>4. Nat \subseteq Same
    BY <2>2, <2>3, SetInduction
  <2>5. f[N] = g[N]
    <3>1. N - 1 \in Nat /\ (N - 1) + 1 = N /\ N \in 1..N
      BY <2>0
    <3>2. N - 1 \in Same
      BY <2>4, <3>1
    <3> QED
      BY <3>1, <3>2 DEF Same
  <2>6. f[N + 1] = f[N] \o a[N + 1]
    <3>1. N + 1 \in 1..(N + 1) /\ N + 1 # 1 /\ (N + 1) - 1 = N
      BY <2>0
    <3>2. f[N + 1] = f[(N + 1) - 1] \o a[N + 1]
      BY <1>2a, <3>1
    <3> QED
      BY <3>1, <3>2
  <2> QED
    BY <1>1, <1>2, <2>1, <2>5, <2>6 DEF a
<1> QED
  BY <1>3, <1>4

(* What is in messages of V is in V.                                       *)
LEMMA FlattenType ==
  ASSUME NEW V, NEW ms \in Seq(Seq(V))
  PROVE  FlattenSeq(ms) \in Seq(V)
<1> DEFINE G == {s \in Seq(Seq(V)) : FlattenSeq(s) \in Seq(V)}
<1>1. <<>> \in G
  <2>1. <<>> \in Seq(V) /\ <<>> \in Seq(Seq(V))
    OBVIOUS
  <2> QED
    BY <2>1, FlattenEmpty
<1>2. ASSUME NEW s \in Seq(Seq(V)), NEW x \in Seq(V), s \in G PROVE Append(s, x) \in G
  BY <1>2, FlattenAppend, AppendProperties, ConcatProperties
<1> HIDE DEF G
<1>3. Seq(Seq(V)) \subseteq G
  BY <1>1, <1>2, SeqInduction
<1> QED
  BY <1>3 DEF G

(* Messages after messages.                                                *)
LEMMA FlattenConcat ==
  ASSUME NEW V, NEW ms \in Seq(Seq(V)), NEW ns \in Seq(Seq(V))
  PROVE  FlattenSeq(ms \o ns) = FlattenSeq(ms) \o FlattenSeq(ns)
<1> DEFINE G == {s \in Seq(Seq(V)) : FlattenSeq(ms \o s) = FlattenSeq(ms) \o FlattenSeq(s)}
<1>1. <<>> \in G
  <2>1. ms \o <<>> = ms /\ FlattenSeq(ms) \o <<>> = FlattenSeq(ms) /\ <<>> \in Seq(Seq(V))
    BY FlattenType, ConcatEmptySeq, EmptySeq
  <2> QED
    BY <2>1, FlattenEmpty
<1>2. ASSUME NEW s \in Seq(Seq(V)), NEW x \in Seq(V), s \in G PROVE Append(s, x) \in G
  <2>1. ms \o Append(s, x) = Append(ms \o s, x) /\ ms \o s \in Seq(Seq(V))
    BY ConcatAppend
  <2>2. FlattenSeq(Append(ms \o s, x)) = FlattenSeq(ms \o s) \o x /\ FlattenSeq(Append(s, x)) = FlattenSeq(s) \o x
    BY <2>1, FlattenAppend
  <2>3. FlattenSeq(ms) \in Seq(V) /\ FlattenSeq(s) \in Seq(V)
    BY FlattenType
  <2>4. (FlattenSeq(ms) \o FlattenSeq(s)) \o x = FlattenSeq(ms) \o (FlattenSeq(s) \o x)
    BY <2>3, ConcatAssociative
  <2>5. FlattenSeq(ms \o s) = FlattenSeq(ms) \o FlattenSeq(s) /\ Append(s, x) \in Seq(Seq(V))
    BY <1>2, AppendProperties
  <2> QED
    BY <2>1, <2>2, <2>4, <2>5
<1> HIDE DEF G
<1>3. Seq(Seq(V)) \subseteq G
  BY <1>1, <1>2, SeqInduction
<1> QED
  BY <1>3 DEF G

(* One message.                                                            *)
LEMMA FlattenOne == ASSUME NEW V, NEW m \in Seq(V) PROVE FlattenSeq(<<m>>) = m
<1>1. <<m>> = Append(<<>>, m) /\ <<>> \in Seq(Seq(V)) /\ <<>> \o m = m
  OBVIOUS
<1> QED
  BY <1>1, FlattenAppend, FlattenEmpty

(* What is in a sequence of messages is in one of them.                    *)
LEMMA ConcatElements ==
  ASSUME NEW V, NEW p \in Seq(V), NEW q \in Seq(V)
  PROVE  ToSet(p \o q) = ToSet(p) \cup ToSet(q)
<1>1. /\ p \o q \in Seq(V) /\ Len(p \o q) = Len(p) + Len(q) /\ Len(p) \in Nat /\ Len(q) \in Nat
      /\ \A i \in 1 .. Len(p) + Len(q) : (p \o q)[i] = IF i <= Len(p) THEN p[i] ELSE q[i - Len(p)]
  BY ConcatProperties, LenProperties
<1>2. /\ \A x : x \in ToSet(p \o q) <=> \E i \in 1..Len(p \o q) : (p \o q)[i] = x
      /\ \A x : x \in ToSet(p) <=> \E i \in 1..Len(p) : p[i] = x
      /\ \A x : x \in ToSet(q) <=> \E i \in 1..Len(q) : q[i] = x
  BY <1>1, Elements
<1>3. ASSUME NEW x, x \in ToSet(p \o q) PROVE x \in ToSet(p) \cup ToSet(q)
  <2>1. PICK i \in 1..(Len(p) + Len(q)) : (p \o q)[i] = x
    BY <1>1, <1>2, <1>3
  <2>2. CASE i <= Len(p)
    <3>1. i \in 1..Len(p) /\ p[i] = x
      BY <1>1, <2>1, <2>2
    <3> QED
      BY <1>2, <3>1
  <2>3. CASE ~(i <= Len(p))
    <3>1. i - Len(p) \in 1..Len(q) /\ q[i - Len(p)] = x
      BY <1>1, <2>1, <2>3
    <3> QED
      BY <1>2, <3>1
  <2> QED
    BY <2>2, <2>3
<1>4. ASSUME NEW x, x \in ToSet(p) PROVE x \in ToSet(p \o q)
  <2>1. PICK i \in 1..Len(p) : p[i] = x
    BY <1>2, <1>4
  <2>2. i \in 1..Len(p \o q) /\ (p \o q)[i] = x
    BY <1>1, <2>1
  <2> QED
    BY <1>2, <2>2
<1>5. ASSUME NEW x, x \in ToSet(q) PROVE x \in ToSet(p \o q)
  <2>1. PICK i \in 1..Len(q) : q[i] = x
    BY <1>2, <1>5
  <2>2. Len(p) + i \in 1..Len(p \o q) /\ ~(Len(p) + i <= Len(p)) /\ (Len(p) + i) - Len(p) = i
    BY <1>1, <2>1
  <2>3. (p \o q)[Len(p) + i] = x
    BY <1>1, <2>1, <2>2
  <2> QED
    BY <1>2, <2>2, <2>3
<1> QED
  BY <1>3, <1>4, <1>5

(* What is in the messages is in one of them.                              *)
LEMMA FlattenElements ==
  ASSUME NEW V, NEW ms \in Seq(Seq(V)), NEW e
  PROVE  e \in ToSet(FlattenSeq(ms)) <=> \E m \in ToSet(ms) : e \in ToSet(m)
<1> DEFINE G == {s \in Seq(Seq(V)) : e \in ToSet(FlattenSeq(s)) <=> \E m \in ToSet(s) : e \in ToSet(m)}
<1>1. <<>> \in G
  <2>1. <<>> \in Seq(Seq(V)) /\ ToSet(<<>>) = {}
    BY DEF ToSet
  <2> QED
    BY <2>1, FlattenEmpty
<1>2. ASSUME NEW s \in Seq(Seq(V)), NEW x \in Seq(V), s \in G PROVE Append(s, x) \in G
  <2>1. FlattenSeq(Append(s, x)) = FlattenSeq(s) \o x /\ FlattenSeq(s) \in Seq(V)
    BY FlattenAppend, FlattenType
  <2>2. ToSet(FlattenSeq(s) \o x) = ToSet(FlattenSeq(s)) \cup ToSet(x)
    BY <2>1, ConcatElements
  <2>3. ToSet(Append(s, x)) = ToSet(s) \cup {x} /\ Append(s, x) \in Seq(Seq(V))
    BY AppendedElements, AppendProperties
  <2>4. e \in ToSet(FlattenSeq(s)) <=> \E m \in ToSet(s) : e \in ToSet(m)
    BY <1>2
  <2> QED
    BY <2>1, <2>2, <2>3, <2>4
<1> HIDE DEF G
<1>3. Seq(Seq(V)) \subseteq G
  BY <1>1, <1>2, SeqInduction
<1> QED
  BY <1>3 DEF G

(* An enumeration of a finite set.                                         *)
LEMMA Enumerated ==
  ASSUME NEW S, IsFiniteSet(S)
  PROVE  /\ SetToSeq(S) \in Seq(S)
         /\ \A x : x \in S <=> \E i \in 1..Len(SetToSeq(S)) : SetToSeq(S)[i] = x
         /\ \A i, j \in 1..Len(SetToSeq(S)) : SetToSeq(S)[i] = SetToSeq(S)[j] => i = j
         /\ ToSet(SetToSeq(S)) = S
<1> DEFINE n == Cardinality(S)
           f == SetToSeq(S)
<1>1. n \in Nat /\ ExistsBijection(1..n, S)
  BY FS_CardinalityType
<1>2. PICK g \in [1..n -> S] : IsInjective(g)
  BY <1>1 DEF ExistsBijection, Bijection, Injection, IsInjective
<1>4. f \in [1..n -> S] /\ IsInjective(f)
  <2>1. f = CHOOSE h \in [1..n -> S] : IsInjective(h)
    BY DEF SetToSeq
  <2> HIDE DEF f, n
  <2> QED
    BY <1>2, <2>1
<1> HIDE DEF f
<1>5. f \in Injection(1..n, S)
  BY <1>4 DEF Injection, IsInjective
<1>6. Cardinality(1..n) = n /\ IsFiniteSet(1..n)
  BY <1>1, FS_Interval
<1>7. f \in Surjection(1..n, S)
  BY <1>1, <1>5, <1>6, FS_Injection
<1>8. f \in Seq(S) /\ Len(f) = n
  BY <1>1, <1>4
<1>9. \A x \in S : \E i \in 1..n : f[i] = x
  BY <1>7 DEF Surjection
<1>10. \A i, j \in 1..n : f[i] = f[j] => i = j
  BY <1>4 DEF IsInjective
<1> HIDE DEF n
<1>11. ToSet(f) = S
  <2>1. (\A x : x \in ToSet(f) <=> \E i \in 1..Len(f) : f[i] = x) /\ ToSet(f) \subseteq S
    BY <1>8, Elements
  <2> QED
    BY <1>8, <1>9, <2>1
<1> QED
  BY <1>4, <1>8, <1>9, <1>10, <1>11 DEF f

(* A sequence of two.                                                      *)
LEMMA SequenceOfTwo ==
  ASSUME NEW V, NEW d \in V, NEW e \in V
  PROVE  <<d, e>> \in Seq(V) /\ <<d, e>> = <<d>> \o <<e>>
<1>0. <<d, e>> \in Seq(V) /\ <<d>> \in Seq(V) /\ <<e>> \in Seq(V)
  OBVIOUS
<1>1. Append(<<d>>, e) = <<d, e>>
  <2>1. PICK p \in Seq(V) : p = <<d>>
    BY <1>0
  <2>2. PICK q \in Seq(V) : q = <<d, e>>
    BY <1>0
  <2>3. Len(p) = 1 /\ p[1] = d /\ Len(q) = 2 /\ q[1] = d /\ q[2] = e
    BY <2>1, <2>2
  <2>40. Append(p, e) \in Seq(V) /\ Len(Append(p, e)) = 2 /\ Append(p, e)[1] = d /\ Append(p, e)[2] = e
    <3>1. /\ Append(p, e) \in Seq(V) /\ Len(Append(p, e)) = Len(p) + 1
          /\ (\A i \in 1..Len(p) : Append(p, e)[i] = p[i]) /\ Append(p, e)[Len(p) + 1] = e
      BY AppendProperties
    <3>2. 1 \in 1..Len(p) /\ Len(p) + 1 = 2
      BY <2>3
    <3> QED
      BY <2>3, <3>1, <3>2
  <2>4. \A i \in 1..2 : Append(p, e)[i] = q[i]
    <3>1. \A i \in 1..2 : i = 1 \/ i = 2
      OBVIOUS
    <3> QED
      BY <2>3, <2>40, <3>1
  <2>5. Append(p, e) = q
    BY <2>3, <2>40, <2>4, SeqEqual
  <2> QED
    BY <2>1, <2>2, <2>5
<1>2. Append(<<d>>, e) = <<d>> \o <<e>>
  BY <1>0, ConcatAppend
<1> QED
  BY <1>0, <1>1, <1>2
===============================================================================
