--------------------------- MODULE Sheduler_proofs ---------------------------
(***************************************************************************)
(* What is proved of the scheduler, for any number of objects, of calls    *)
(* within their updates, and of operations that wait.                      *)
(*                                                                         *)
(* The heart is a condition on what waits in Registration that every call  *)
(* and every turn of internal_Registration keeps (QueueSound): the first   *)
(* operation that waits for an object in the lists takes it out of them,   *)
(* and between two registrations of an object waits an unregistration.     *)
(* Then who is registered, and as what, never depends on how much of what  *)
(* waits has been carried out (SameKinds), and no object gets two places.  *)
(***************************************************************************)
EXTENDS Sheduler, SequenceLemmas

-----------------------------------------------------------------------------
(* What waits in Registration, for the objects R that are in the list of   *)
(* real-time objects and the objects I that are in the heap.               *)
NoneFor(q, o) == \A k \in 1..Len(q) : q[k].Object # o
FirstFor(q, k) == \A j \in 1..Len(q) : q[j].Object = q[k].Object => k <= j
LastFor(q, k) == \A j \in 1..Len(q) : q[j].Object = q[k].Object => j <= k

(* The first operation that waits for an object in the lists takes it out  *)
(* of them.                                                                *)
FirstErases(R, I, q) ==
  \A k \in 1..Len(q) : FirstFor(q, k) =>
    /\ q[k].Object \in R => ~q[k].OP /\ q[k].RT
    /\ q[k].Object \in I => ~q[k].OP /\ ~q[k].RT

(* Between two registrations of an object waits an unregistration.         *)
Alternate(q) ==
  \A j, k \in 1..Len(q) : j < k /\ q[j].OP /\ q[k].OP /\ q[j].Object = q[k].Object =>
    \E i \in 1..Len(q) : j < i /\ i < k /\ ~q[i].OP /\ q[i].Object = q[k].Object

(* The last operation that waits for o registers it, as a real-time object *)
(* or not.                                                                 *)
WillRegister(q, o, f) ==
  \E k \in 1..Len(q) : q[k].Object = o /\ LastFor(q, k) /\ q[k].OP /\ q[k].RT = f

(* o is registered, as a real-time object (f) or not.                      *)
HasKind(R, I, q, o, f) ==
  WillRegister(q, o, f) \/ (NoneFor(q, o) /\ o \in IF f THEN R ELSE I)
SameKinds(R, I, q, R2, I2, q2) ==
  \A o \in Objects, f \in BOOLEAN : HasKind(R2, I2, q2, o, f) <=> HasKind(R, I, q, o, f)

QueueSound(R, I, q) == R \cap I = {} /\ FirstErases(R, I, q) /\ Alternate(q)

(* The greatest element of a bounded set of naturals exists.               *)
LEMMA MaxOfNats ==
  ASSUME NEW S \in SUBSET Nat, S # {}, NEW n \in Nat, \A y \in S : y <= n
  PROVE  Max(S) \in S /\ \A y \in S : y <= Max(S)
<1> DEFINE T == {m \in Nat : \A y \in S : y <= m}
           m == Min(T)
<1>2. m \in T /\ \A k \in T : m <= k
  <2>1. T \in SUBSET Nat /\ T # {}
    OBVIOUS
  <2> HIDE DEF T
  <2> QED
    BY <2>1, MinOfNats
<1> HIDE DEF m
<1>3. m \in S
  <2> SUFFICES ASSUME m \notin S PROVE FALSE
    OBVIOUS
  <2>1. \A y \in S : y <= m /\ y # m
    BY <1>2
  <2>2. PICK y \in S : TRUE
    OBVIOUS
  <2>3. m \in Nat /\ m >= 1
    BY <1>2, <2>1, <2>2
  <2>4. m - 1 \in T
    BY <2>1, <2>3
  <2> QED
    BY <1>2, <2>3, <2>4
<1>4. \E x \in S : \A y \in S : x >= y
  BY <1>2, <1>3
<1> QED
  BY <1>4 DEF Max

(* What the operations that wait say when the first of them is taken out.  *)
LEMMA QueueTail ==
  ASSUME NEW q \in Seq(ItemReg), q # <<>>, NEW o, o = Head(q).Object
  PROVE  /\ Tail(q) \in Seq(ItemReg) /\ Len(Tail(q)) = Len(q) - 1
         /\ Head(q) \in ItemReg /\ o \in Objects /\ FirstFor(q, 1) /\ q[1] = Head(q)
         /\ Alternate(q) => Alternate(Tail(q))
         /\ \A j \in 1..(Len(q) - 1) : Tail(q)[j] = q[j + 1]
         /\ \A k \in 1..(Len(q) - 1) :
              FirstFor(Tail(q), k) /\ Tail(q)[k].Object # o => FirstFor(q, k + 1)
         /\ \A x, f : WillRegister(Tail(q), x, f) => WillRegister(q, x, f)
         /\ \A x, f : WillRegister(q, x, f) =>
              \/ WillRegister(Tail(q), x, f)
              \/ x = o /\ Head(q).OP /\ Head(q).RT = f /\ NoneFor(Tail(q), o)
         /\ \A x : NoneFor(q, x) <=> x # o /\ NoneFor(Tail(q), x)
<1> DEFINE N == Len(q)
           t == Tail(q)
<1>1. /\ N \in Nat /\ N >= 1 /\ Len(t) = N - 1 /\ Head(q) = q[1]
      /\ \A j \in 1..(N - 1) : t[j] = q[j + 1]
      /\ \A j \in 1..N : q[j] \in ItemReg
      /\ t \in Seq(ItemReg)
  OBVIOUS
<1> HIDE DEF t, N
<1>2. FirstFor(q, 1)
  BY <1>1 DEF FirstFor, N
<1>3. ASSUME NEW k \in 1..(N - 1), FirstFor(t, k), t[k].Object # o
      PROVE  FirstFor(q, k + 1)
  <2> SUFFICES ASSUME NEW j \in 1..N, q[j].Object = q[k + 1].Object PROVE k + 1 <= j
    BY DEF FirstFor, N
  <2>1. t[k] = q[k + 1] /\ j # 1
    BY <1>1, <1>3
  <2>2. j - 1 \in 1..(N - 1) /\ t[j - 1] = q[j]
    BY <1>1, <2>1
  <2>3. t[j - 1].Object = t[k].Object /\ j - 1 \in 1..Len(t)
    BY <1>1, <2>1, <2>2
  <2>4. k <= j - 1
    BY <1>3, <2>3 DEF FirstFor
  <2> QED
    BY <1>1, <2>4
<1>4. ASSUME Alternate(q) PROVE Alternate(t)
  <2> SUFFICES ASSUME NEW j \in 1..(N - 1), NEW k \in 1..(N - 1),
                      j < k, t[j].OP, t[k].OP, t[j].Object = t[k].Object
               PROVE  \E i \in 1..(N - 1) : j < i /\ i < k /\ ~t[i].OP /\ t[i].Object = t[k].Object
    BY <1>1 DEF Alternate
  <2>1. PICK i \in 1..N : j + 1 < i /\ i < k + 1 /\ ~q[i].OP /\ q[i].Object = q[k + 1].Object
    <3>1. j + 1 \in 1..N /\ k + 1 \in 1..N /\ t[j] = q[j + 1] /\ t[k] = q[k + 1] /\ j + 1 < k + 1
      BY <1>1
    <3> QED
      BY <1>4, <3>1 DEF Alternate, N
  <2>2. i - 1 \in 1..(N - 1) /\ t[i - 1] = q[i] /\ t[k] = q[k + 1]
    BY <1>1, <2>1
  <2> QED
    BY <2>1, <2>2
<1>5. ASSUME NEW x, NoneFor(t, x), NEW k \in 1..N, q[k].Object = x PROVE k = 1
  <2>1. CASE k # 1
    <3>1. k - 1 \in 1..(N - 1) /\ t[k - 1] = q[k]
      BY <1>1, <2>1
    <3> QED
      BY <1>1, <1>5, <3>1 DEF NoneFor
  <2> QED
    BY <2>1
<1>6. ASSUME NEW x PROVE NoneFor(q, x) <=> x # o /\ NoneFor(t, x)
  <2>1. ASSUME NoneFor(q, x), NEW k \in 1..(N - 1) PROVE t[k].Object # x
    <3>1. k + 1 \in 1..N /\ t[k] = q[k + 1]
      BY <1>1
    <3> QED
      BY <2>1, <3>1 DEF NoneFor, N
  <2>2. NoneFor(q, x) => NoneFor(t, x) /\ x # o
    BY <1>1, <2>1 DEF NoneFor, N
  <2>3. NoneFor(t, x) /\ x # o => NoneFor(q, x)
    BY <1>1, <1>5 DEF NoneFor, N
  <2> QED
    BY <2>2, <2>3
<1>7. ASSUME NEW x, NEW f, WillRegister(t, x, f) PROVE WillRegister(q, x, f)
  <2>1. PICK k \in 1..(N - 1) : t[k].Object = x /\ LastFor(t, k) /\ t[k].OP /\ t[k].RT = f
    BY <1>1, <1>7 DEF WillRegister
  <2>2. k + 1 \in 1..N /\ q[k + 1] = t[k]
    BY <1>1
  <2>3. LastFor(q, k + 1)
    <3> SUFFICES ASSUME NEW j \in 1..N, q[j].Object = q[k + 1].Object PROVE j <= k + 1
      BY DEF LastFor, N
    <3>1. CASE j # 1
      <4>1. j - 1 \in 1..(N - 1) /\ t[j - 1] = q[j]
        BY <1>1, <3>1
      <4> QED
        BY <1>1, <2>1, <2>2, <4>1 DEF LastFor
    <3> QED
      BY <3>1
  <2> QED
    BY <2>1, <2>2, <2>3 DEF WillRegister, N
<1>8. ASSUME NEW x, NEW f, WillRegister(q, x, f)
      PROVE  \/ WillRegister(t, x, f)
             \/ x = o /\ Head(q).OP /\ Head(q).RT = f /\ NoneFor(t, o)
  <2>1. PICK k \in 1..N : q[k].Object = x /\ LastFor(q, k) /\ q[k].OP /\ q[k].RT = f
    BY <1>8 DEF WillRegister, N
  <2>2. CASE k # 1
    <3>1. k - 1 \in 1..(N - 1) /\ t[k - 1] = q[k]
      BY <1>1, <2>2
    <3>2. LastFor(t, k - 1)
      <4> SUFFICES ASSUME NEW j \in 1..(N - 1), t[j].Object = t[k - 1].Object PROVE j <= k - 1
        BY <1>1 DEF LastFor
      <4>1. j + 1 \in 1..N /\ q[j + 1] = t[j]
        BY <1>1
      <4> QED
        BY <2>1, <3>1, <4>1 DEF LastFor, N
    <3> QED
      BY <1>1, <2>1, <3>1, <3>2 DEF WillRegister
  <2>3. CASE k = 1
    <3>1. ASSUME NEW j \in 1..(N - 1) PROVE t[j].Object # x
      <4>1. j + 1 \in 1..N /\ q[j + 1] = t[j]
        BY <1>1
      <4> QED
        BY <2>1, <2>3, <4>1 DEF LastFor, N
    <3> QED
      BY <1>1, <2>1, <2>3, <3>1 DEF NoneFor
  <2> QED
    BY <2>2, <2>3
<1>9. Head(q) \in ItemReg /\ o \in Objects
  BY <1>1 DEF ItemReg
<1> QED
  BY <1>1, <1>2, <1>3, <1>4, <1>6, <1>7, <1>8, <1>9 DEF t, N

(* What they say when one of them, the first for its object, is taken out  *)
(* from their midst.                                                       *)
LEMMA QueueRemove ==
  ASSUME NEW q \in Seq(ItemReg), NEW p \in 1..Len(q), FirstFor(q, p), ~q[p].OP,
         NEW r, r = RemoveAt(q, p), NEW e, e = q[p].Object
  PROVE  /\ r \in Seq(ItemReg) /\ Len(r) = Len(q) - 1
         /\ Alternate(q) => Alternate(r)
         /\ \A k \in 1..Len(r) : FirstFor(r, k) /\ r[k].Object # e =>
              \E m \in 1..Len(q) : q[m] = r[k] /\ FirstFor(q, m)
         /\ \A x, f : WillRegister(r, x, f) <=> WillRegister(q, x, f)
         /\ \A x : x # e => (NoneFor(q, x) <=> NoneFor(r, x))
<1> DEFINE N == Len(q)
           src(j) == IF j < p THEN j ELSE j + 1
           dst(m) == IF m < p THEN m ELSE m - 1
<1>1. /\ N \in Nat /\ p \in 1..N /\ Len(r) = N - 1 /\ r \in Seq(ItemReg)
      /\ \A j \in 1..(N - 1) : r[j] = IF j < p THEN q[j] ELSE q[j + 1]
  <2>1. /\ RemoveAt(q, p) \in Seq(ItemReg) /\ Len(RemoveAt(q, p)) = Len(q) - 1
        /\ \A j \in 1..(Len(q) - 1) : RemoveAt(q, p)[j] = IF j < p THEN q[j] ELSE q[j + 1]
    BY RemoveAtProperties
  <2>2. Len(q) \in Nat
    OBVIOUS
  <2> QED
    BY <2>1, <2>2
<1>2. /\ \A j \in 1..(N - 1) : src(j) \in 1..N /\ src(j) # p /\ r[j] = q[src(j)] /\ dst(src(j)) = j
      /\ \A m \in 1..N : m # p => dst(m) \in 1..(N - 1) /\ r[dst(m)] = q[m] /\ src(dst(m)) = m
      /\ \A j, k \in 1..(N - 1) : (j < k <=> src(j) < src(k)) /\ (j <= k <=> src(j) <= src(k))
  <2> HIDE DEF N
  <2> QED
    BY <1>1
<1> HIDE DEF N, src, dst
<1>3. ASSUME NEW m \in 1..N, q[m].Object = e PROVE p <= m
  BY <1>3 DEF FirstFor, N
<1>4. ASSUME Alternate(q) PROVE Alternate(r)
  <2> SUFFICES ASSUME NEW j \in 1..(N - 1), NEW k \in 1..(N - 1),
                      j < k, r[j].OP, r[k].OP, r[j].Object = r[k].Object
               PROVE  \E i \in 1..(N - 1) : j < i /\ i < k /\ ~r[i].OP /\ r[i].Object = r[k].Object
    BY <1>1 DEF Alternate
  <2>0. /\ src(j) \in 1..N /\ src(k) \in 1..N /\ src(j) < src(k) /\ src(j) # p
        /\ q[src(j)] = r[j] /\ q[src(k)] = r[k]
    BY <1>2
  <2>1. PICK i \in 1..N : src(j) < i /\ i < src(k) /\ ~q[i].OP /\ q[i].Object = q[src(k)].Object
    BY <2>0, <1>4 DEF Alternate, N
  <2>2. i # p
    <3>1. CASE q[i].Object = e
      <4>1. p <= src(j) /\ src(j) # p
        BY <1>3, <2>0, <2>1, <3>1
      <4> QED
        BY <1>1, <2>0, <2>1, <4>1
    <3> QED
      BY <3>1
  <2>3. dst(i) \in 1..(N - 1) /\ r[dst(i)] = q[i] /\ src(dst(i)) = i
    BY <1>2, <2>2
  <2>4. j < dst(i) /\ dst(i) < k
    BY <1>2, <2>1, <2>3
  <2> QED
    BY <2>0, <2>1, <2>3, <2>4
<1>5. ASSUME NEW k \in 1..(N - 1), FirstFor(r, k), r[k].Object # e
      PROVE  \E m \in 1..N : q[m] = r[k] /\ FirstFor(q, m)
  <2>1. src(k) \in 1..N /\ q[src(k)] = r[k]
    BY <1>2
  <2>2. FirstFor(q, src(k))
    <3> SUFFICES ASSUME NEW j \in 1..N, q[j].Object = q[src(k)].Object PROVE src(k) <= j
      BY DEF FirstFor, N
    <3>1. j # p
      BY <1>5, <2>1
    <3>2. dst(j) \in 1..(N - 1) /\ r[dst(j)] = q[j] /\ src(dst(j)) = j
      BY <1>2, <3>1
    <3>3. k <= dst(j)
      BY <1>1, <1>5, <2>1, <3>2 DEF FirstFor
    <3> QED
      BY <1>2, <3>2, <3>3
  <2> QED
    BY <2>1, <2>2
<1>6. ASSUME NEW x, NEW f, WillRegister(r, x, f) PROVE WillRegister(q, x, f)
  <2>1. PICK k \in 1..(N - 1) : r[k].Object = x /\ LastFor(r, k) /\ r[k].OP /\ r[k].RT = f
    BY <1>1, <1>6 DEF WillRegister
  <2>2. src(k) \in 1..N /\ q[src(k)] = r[k]
    BY <1>2
  <2>3. LastFor(q, src(k))
    <3> SUFFICES ASSUME NEW j \in 1..N, q[j].Object = q[src(k)].Object PROVE j <= src(k)
      BY DEF LastFor, N
    <3>1. CASE j # p
      <4>1. dst(j) \in 1..(N - 1) /\ r[dst(j)] = q[j] /\ src(dst(j)) = j
        BY <1>2, <3>1
      <4>2. dst(j) <= k
        BY <1>1, <2>1, <2>2, <4>1 DEF LastFor
      <4> QED
        BY <1>2, <4>1, <4>2
    <3>2. CASE j = p
      BY <1>3, <2>2, <3>2
    <3> QED
      BY <3>1, <3>2
  <2> QED
    BY <2>1, <2>2, <2>3 DEF WillRegister, N
<1>7. ASSUME NEW x, NEW f, WillRegister(q, x, f) PROVE WillRegister(r, x, f)
  <2>1. PICK k \in 1..N : q[k].Object = x /\ LastFor(q, k) /\ q[k].OP /\ q[k].RT = f
    BY <1>7 DEF WillRegister, N
  <2>2. dst(k) \in 1..(N - 1) /\ r[dst(k)] = q[k] /\ src(dst(k)) = k
    BY <1>2, <2>1
  <2>3. LastFor(r, dst(k))
    <3> SUFFICES ASSUME NEW j \in 1..(N - 1), r[j].Object = r[dst(k)].Object PROVE j <= dst(k)
      BY <1>1 DEF LastFor
    <3>1. src(j) <= k
      BY <1>2, <2>1, <2>2 DEF LastFor, N
    <3> QED
      BY <1>2, <2>2, <3>1
  <2> QED
    BY <1>1, <2>1, <2>2, <2>3 DEF WillRegister
<1>8. ASSUME NEW x, x # e PROVE NoneFor(q, x) <=> NoneFor(r, x)
  <2>1. ASSUME NoneFor(q, x), NEW k \in 1..(N - 1) PROVE r[k].Object # x
    BY <1>2, <2>1 DEF NoneFor, N
  <2>2. ASSUME NoneFor(r, x), NEW k \in 1..N PROVE q[k].Object # x
    <3>1. CASE k # p
      <4>1. dst(k) \in 1..(N - 1) /\ r[dst(k)] = q[k]
        BY <1>2, <3>1
      <4> QED
        BY <1>1, <2>2, <4>1 DEF NoneFor
    <3> QED
      BY <1>8, <3>1
  <2> QED
    BY <1>1, <2>1, <2>2 DEF NoneFor, N
<1> QED
  BY <1>1, <1>4, <1>5, <1>6, <1>7, <1>8 DEF N

(* An unregistration is carried out.                                       *)
LEMMA TurnErases ==
  ASSUME NEW R, NEW I, NEW q \in Seq(ItemReg), q # <<>>, QueueSound(R, I, q),
         ~Head(q).OP, NEW R2, NEW I2,
         R2 = IF Head(q).RT THEN R \ {Head(q).Object} ELSE R,
         I2 = IF Head(q).RT THEN I ELSE I \ {Head(q).Object}
  PROVE  QueueSound(R2, I2, Tail(q)) /\ SameKinds(R, I, q, R2, I2, Tail(q))
<1> DEFINE N == Len(q)
           t == Tail(q)
           o == Head(q).Object
<1>1. /\ t \in Seq(ItemReg) /\ N \in Nat /\ N >= 1 /\ Len(t) = N - 1 /\ q[1] = Head(q)
      /\ FirstFor(q, 1) /\ Alternate(t)
      /\ \A j \in 1..(N - 1) : t[j] = q[j + 1]
      /\ \A k \in 1..(N - 1) : FirstFor(t, k) /\ t[k].Object # o => FirstFor(q, k + 1)
      /\ \A x, f : WillRegister(t, x, f) <=> WillRegister(q, x, f)
      /\ \A x : NoneFor(q, x) <=> x # o /\ NoneFor(t, x)
  BY QueueTail DEF QueueSound
<1> HIDE DEF t, N
<1>2. (o \in R => Head(q).RT) /\ (o \in I => ~Head(q).RT)
  BY <1>1 DEF QueueSound, FirstErases, N
<1>3. /\ o \notin R2 /\ o \notin I2 /\ R2 \subseteq R /\ I2 \subseteq I
      /\ \A x : x # o => (x \in R2 <=> x \in R) /\ (x \in I2 <=> x \in I)
  BY <1>2
<1> HIDE DEF o
<1>4. FirstErases(R2, I2, t)
  <2> SUFFICES ASSUME NEW k \in 1..(N - 1), FirstFor(t, k)
               PROVE  /\ t[k].Object \in R2 => ~t[k].OP /\ t[k].RT
                      /\ t[k].Object \in I2 => ~t[k].OP /\ ~t[k].RT
    BY <1>1 DEF FirstErases
  <2>1. CASE t[k].Object = o
    BY <1>3, <2>1
  <2>2. CASE t[k].Object # o
    <3>1. FirstFor(q, k + 1) /\ k + 1 \in 1..N /\ t[k] = q[k + 1]
      BY <1>1, <2>2
    <3> QED
      BY <1>3, <3>1 DEF QueueSound, FirstErases, N
  <2> QED
    BY <2>1, <2>2
<1>5. SameKinds(R, I, q, R2, I2, t)
  <2> SUFFICES ASSUME NEW x \in Objects, NEW f \in BOOLEAN
               PROVE  HasKind(R2, I2, t, x, f) <=> HasKind(R, I, q, x, f)
    BY DEF SameKinds
  <2> QED
    BY <1>1, <1>3 DEF HasKind
<1> QED
  BY <1>1, <1>3, <1>4, <1>5 DEF QueueSound, t

(* A registration that no unregistration follows is carried out.           *)
LEMMA TurnEnters ==
  ASSUME NEW R, NEW I, NEW q \in Seq(ItemReg), q # <<>>, QueueSound(R, I, q),
         Head(q).OP, \A j \in 1..Len(Tail(q)) : Tail(q)[j].Object = Head(q).Object => Tail(q)[j].OP,
         NEW R2, NEW I2,
         R2 = IF Head(q).RT THEN R \cup {Head(q).Object} ELSE R,
         I2 = IF Head(q).RT THEN I ELSE I \cup {Head(q).Object}
  PROVE  /\ Head(q).Object \notin R \cup I
         /\ QueueSound(R2, I2, Tail(q)) /\ SameKinds(R, I, q, R2, I2, Tail(q))
<1> DEFINE N == Len(q)
           t == Tail(q)
           o == Head(q).Object
<1>1. /\ t \in Seq(ItemReg) /\ N \in Nat /\ N >= 1 /\ Len(t) = N - 1 /\ q[1] = Head(q)
      /\ FirstFor(q, 1) /\ Alternate(t) /\ Head(q) \in ItemReg
      /\ \A j \in 1..(N - 1) : t[j] = q[j + 1]
      /\ \A k \in 1..(N - 1) : FirstFor(t, k) /\ t[k].Object # o => FirstFor(q, k + 1)
      /\ \A x, f : WillRegister(t, x, f) => WillRegister(q, x, f)
      /\ \A x, f : WillRegister(q, x, f) =>
           \/ WillRegister(t, x, f)
           \/ x = o /\ Head(q).RT = f /\ NoneFor(t, o)
      /\ \A x : NoneFor(q, x) <=> x # o /\ NoneFor(t, x)
  BY QueueTail DEF QueueSound
<1>0. \A j \in 1..(N - 1) : t[j].Object = o => t[j].OP
  BY <1>1
<1> HIDE DEF t, N
<1>2. o \notin R /\ o \notin I
  BY <1>1 DEF QueueSound, FirstErases, N
<1>3. NoneFor(t, o)
  <2> SUFFICES ASSUME NEW k \in 1..(N - 1), t[k].Object = o PROVE FALSE
    BY <1>1 DEF NoneFor
  <2>1. k + 1 \in 1..N /\ q[k + 1] = t[k] /\ 1 \in 1..N /\ 1 < k + 1 /\ q[k + 1].OP
    BY <1>0, <1>1
  <2>2. PICK i \in 1..N : 1 < i /\ i < k + 1 /\ ~q[i].OP /\ q[i].Object = q[k + 1].Object
    BY <1>1, <2>1 DEF QueueSound, Alternate, N
  <2>3. N \in Nat /\ i \in 1..N /\ 1 < i
    BY <1>1, <2>2
  <2>4. i - 1 \in 1..(N - 1) /\ (i - 1) + 1 = i
    BY <2>3
  <2>5. t[i - 1] = q[i]
    BY <1>1, <2>4
  <2> QED
    BY <1>0, <2>1, <2>2, <2>4, <2>5
<1>4. /\ \A x : x # o => (x \in R2 <=> x \in R) /\ (x \in I2 <=> x \in I)
      /\ o \in R2 <=> Head(q).RT
      /\ o \in I2 <=> ~Head(q).RT
  BY <1>2
<1>5. ~WillRegister(t, o, TRUE) /\ ~WillRegister(t, o, FALSE)
  BY <1>3 DEF NoneFor, WillRegister
<1> HIDE DEF o
<1>6. FirstErases(R2, I2, t)
  <2> SUFFICES ASSUME NEW k \in 1..(N - 1), FirstFor(t, k)
               PROVE  /\ t[k].Object \in R2 => ~t[k].OP /\ t[k].RT
                      /\ t[k].Object \in I2 => ~t[k].OP /\ ~t[k].RT
    BY <1>1 DEF FirstErases
  <2>1. t[k].Object # o
    BY <1>1, <1>3 DEF NoneFor
  <2>2. FirstFor(q, k + 1) /\ k + 1 \in 1..N /\ t[k] = q[k + 1]
    BY <1>1, <2>1
  <2> QED
    BY <1>4, <2>1, <2>2 DEF QueueSound, FirstErases, N
<1>7. SameKinds(R, I, q, R2, I2, t)
  <2> SUFFICES ASSUME NEW x \in Objects, NEW f \in BOOLEAN
               PROVE  HasKind(R2, I2, t, x, f) <=> HasKind(R, I, q, x, f)
    BY DEF SameKinds
  <2>1. CASE x # o
    BY <1>1, <1>4, <2>1 DEF HasKind
  <2>2. CASE x = o
    <3>1. WillRegister(q, o, f) <=> Head(q).RT = f
      <4>1. LastFor(q, 1)
        <5> SUFFICES ASSUME NEW j \in 1..N, q[j].Object = q[1].Object, j # 1 PROVE FALSE
          BY <1>1 DEF LastFor, N
        <5>1. j - 1 \in 1..(N - 1) /\ t[j - 1] = q[j]
          BY <1>1
        <5> QED
          BY <1>1, <1>3, <5>1 DEF NoneFor, o
      <4>2. Head(q).RT = f => WillRegister(q, o, f)
        BY <1>1, <4>1 DEF WillRegister, N, o
      <4> QED
        BY <1>1, <1>5, <4>2
    <3>2. Head(q).RT \in BOOLEAN
      BY <1>1 DEF ItemReg
    <3> QED
      BY <1>1, <1>3, <1>4, <1>5, <2>2, <3>1, <3>2 DEF HasKind
  <2> QED
    BY <2>1, <2>2
<1>8. R2 \cap I2 = {}
  BY <1>2, <1>4 DEF QueueSound
<1> QED
  BY <1>1, <1>2, <1>6, <1>7, <1>8 DEF QueueSound, t, o

(* A registration is dropped with the unregistration that follows it.      *)
LEMMA TurnDropsPair ==
  ASSUME NEW R, NEW I, NEW q \in Seq(ItemReg), q # <<>>, QueueSound(R, I, q), Head(q).OP,
         NEW p \in 1..Len(Tail(q)), ~Tail(q)[p].OP, Tail(q)[p].Object = Head(q).Object,
         \A j \in 1..Len(Tail(q)) : j < p /\ Tail(q)[j].Object = Head(q).Object => Tail(q)[j].OP
  PROVE  LET r == RemoveAt(Tail(q), p) IN
         r \in Seq(ItemReg) /\ Len(r) = Len(q) - 2 /\ QueueSound(R, I, r) /\ SameKinds(R, I, q, R, I, r)
<1> DEFINE N == Len(q)
           t == Tail(q)
           o == Head(q).Object
           r == RemoveAt(t, p)
<1>1. /\ t \in Seq(ItemReg) /\ N \in Nat /\ N >= 1 /\ Len(t) = N - 1 /\ q[1] = Head(q)
      /\ FirstFor(q, 1) /\ Alternate(t)
      /\ \A j \in 1..(N - 1) : t[j] = q[j + 1]
      /\ \A k \in 1..(N - 1) : FirstFor(t, k) /\ t[k].Object # o => FirstFor(q, k + 1)
      /\ \A x, f : WillRegister(t, x, f) => WillRegister(q, x, f)
      /\ \A x, f : WillRegister(q, x, f) =>
           \/ WillRegister(t, x, f)
           \/ x = o /\ NoneFor(t, o)
      /\ \A x : NoneFor(q, x) <=> x # o /\ NoneFor(t, x)
  BY QueueTail DEF QueueSound
<1>0. /\ p \in 1..(N - 1) /\ ~t[p].OP /\ t[p].Object = o
      /\ \A j \in 1..(N - 1) : j < p /\ t[j].Object = o => t[j].OP
  BY <1>1
<1> HIDE DEF t, N
<1>2. o \notin R /\ o \notin I
  BY <1>1 DEF QueueSound, FirstErases, N
<1> HIDE DEF o
<1>3. FirstFor(t, p)
  <2> SUFFICES ASSUME NEW k \in 1..(N - 1), t[k].Object = o, k < p PROVE FALSE
    BY <1>0, <1>1 DEF FirstFor
  <2>1. k + 1 \in 1..N /\ q[k + 1] = t[k] /\ 1 \in 1..N /\ 1 < k + 1 /\ q[k + 1].OP
    BY <1>0, <1>1
  <2>2. PICK i \in 1..N : 1 < i /\ i < k + 1 /\ ~q[i].OP /\ q[i].Object = q[k + 1].Object
    BY <1>1, <2>1 DEF QueueSound, Alternate, N, o
  <2>3. i - 1 \in 1..(N - 1) /\ (i - 1) + 1 = i /\ i - 1 < p
    BY <1>0, <1>1, <2>2
  <2>4. t[i - 1] = q[i]
    BY <1>1, <2>3
  <2> QED
    BY <1>0, <2>1, <2>2, <2>3, <2>4
<1>4. /\ r \in Seq(ItemReg) /\ Len(r) = N - 2 /\ Alternate(r)
      /\ \A k \in 1..Len(r) : FirstFor(r, k) /\ r[k].Object # o =>
           \E m \in 1..(N - 1) : t[m] = r[k] /\ FirstFor(t, m)
      /\ \A x, f : WillRegister(r, x, f) <=> WillRegister(t, x, f)
      /\ \A x : x # o => (NoneFor(t, x) <=> NoneFor(r, x))
  <2>1. p \in 1..Len(t) /\ (N - 1) - 1 = N - 2
    BY <1>0, <1>1
  <2>2. /\ r \in Seq(ItemReg) /\ Len(r) = Len(t) - 1
        /\ Alternate(t) => Alternate(r)
        /\ \A k \in 1..Len(r) : FirstFor(r, k) /\ r[k].Object # o =>
             \E m \in 1..Len(t) : t[m] = r[k] /\ FirstFor(t, m)
        /\ \A x, f : WillRegister(r, x, f) <=> WillRegister(t, x, f)
        /\ \A x : x # o => (NoneFor(t, x) <=> NoneFor(r, x))
    <3>1. /\ t \in Seq(ItemReg) /\ p \in 1..Len(t) /\ FirstFor(t, p) /\ ~t[p].OP /\ o = t[p].Object
      BY <1>0, <1>1, <1>3, <2>1
    <3> QED
      BY <3>1, QueueRemove
  <2> HIDE DEF r
  <2> QED
    BY <1>1, <2>1, <2>2
<1> HIDE DEF r
<1>5. FirstErases(R, I, r)
  <2> SUFFICES ASSUME NEW k \in 1..Len(r), FirstFor(r, k)
               PROVE  /\ r[k].Object \in R => ~r[k].OP /\ r[k].RT
                      /\ r[k].Object \in I => ~r[k].OP /\ ~r[k].RT
    BY DEF FirstErases
  <2>1. CASE r[k].Object = o
    BY <1>2, <2>1
  <2>2. CASE r[k].Object # o
    <3>1. PICK m \in 1..(N - 1) : t[m] = r[k] /\ FirstFor(t, m)
      BY <1>4, <2>2
    <3>2. FirstFor(q, m + 1) /\ m + 1 \in 1..N /\ q[m + 1] = r[k]
      BY <1>1, <2>2, <3>1
    <3> QED
      BY <3>2 DEF QueueSound, FirstErases, N
  <2> QED
    BY <2>1, <2>2
<1>6. SameKinds(R, I, q, R, I, r)
  <2> SUFFICES ASSUME NEW x \in Objects, NEW f \in BOOLEAN
               PROVE  HasKind(R, I, r, x, f) <=> HasKind(R, I, q, x, f)
    BY DEF SameKinds
  <2>1. ~NoneFor(t, o)
    BY <1>0, <1>1 DEF NoneFor
  <2> QED
    BY <1>1, <1>2, <1>4, <2>1 DEF HasKind
<1> QED
  BY <1>4, <1>5, <1>6 DEF QueueSound, r, N, t

(* An operation joins those that wait.                                     *)
LEMMA QueueAppend ==
  ASSUME NEW q \in Seq(ItemReg), NEW e \in ItemReg, NEW o, o = e.Object,
         NEW r, r = Append(q, e)
  PROVE  /\ r \in Seq(ItemReg) /\ Len(r) = Len(q) + 1 /\ r[Len(q) + 1] = e
         /\ \A k \in 1..Len(q) : r[k] = q[k]
         /\ \A k \in 1..Len(q) : FirstFor(r, k) => FirstFor(q, k)
         /\ FirstFor(r, Len(q) + 1) => NoneFor(q, o)
         /\ \A x : NoneFor(r, x) <=> x # o /\ NoneFor(q, x)
         /\ \A x, f : WillRegister(r, x, f) <=>
              IF x = o THEN e.OP /\ e.RT = f ELSE WillRegister(q, x, f)
<1> DEFINE N == Len(q)
<1>1. /\ N \in Nat /\ r \in Seq(ItemReg) /\ Len(r) = N + 1 /\ r[N + 1] = e
      /\ \A k \in 1..N : r[k] = q[k]
  OBVIOUS
<1> HIDE DEF N
<1>2. \A k \in 1..N : FirstFor(r, k) => FirstFor(q, k)
  BY <1>1 DEF FirstFor, N
<1>3. FirstFor(r, N + 1) => NoneFor(q, o)
  BY <1>1 DEF FirstFor, NoneFor, N
<1>4. ASSUME NEW x PROVE NoneFor(r, x) <=> x # o /\ NoneFor(q, x)
  BY <1>1 DEF NoneFor, N
<1>5. LastFor(r, N + 1)
  BY <1>1 DEF LastFor
<1>6. ASSUME NEW x, NEW f
      PROVE  WillRegister(r, x, f) <=> IF x = o THEN e.OP /\ e.RT = f ELSE WillRegister(q, x, f)
  <2>1. CASE x = o
    <3>1. e.OP /\ e.RT = f => WillRegister(r, x, f)
      BY <1>1, <1>5, <2>1 DEF WillRegister
    <3>2. ASSUME WillRegister(r, x, f) PROVE e.OP /\ e.RT = f
      <4>1. PICK k \in 1..(N + 1) : r[k].Object = x /\ LastFor(r, k) /\ r[k].OP /\ r[k].RT = f
        BY <1>1, <3>2 DEF WillRegister
      <4>2. N + 1 <= k
        BY <1>1, <2>1, <4>1 DEF LastFor
      <4>3. k = N + 1
        BY <1>1, <4>2
      <4> QED
        BY <1>1, <4>1, <4>3
    <3> QED
      BY <2>1, <3>1, <3>2
  <2>2. CASE x # o
    <3>1. ASSUME WillRegister(q, x, f) PROVE WillRegister(r, x, f)
      <4>1. PICK k \in 1..N : q[k].Object = x /\ LastFor(q, k) /\ q[k].OP /\ q[k].RT = f
        BY <3>1 DEF WillRegister, N
      <4>2. k \in 1..Len(r) /\ r[k] = q[k]
        BY <1>1
      <4>3. LastFor(r, k)
        <5> SUFFICES ASSUME NEW j \in 1..(N + 1), r[j].Object = r[k].Object PROVE j <= k
          BY <1>1 DEF LastFor
        <5>1. j # N + 1
          BY <1>1, <2>2, <4>1, <4>2
        <5>2. j \in 1..N
          BY <1>1, <5>1
        <5> QED
          BY <1>1, <4>1, <4>2, <5>2 DEF LastFor, N
      <4> QED
        BY <4>1, <4>2, <4>3 DEF WillRegister
    <3>2. ASSUME WillRegister(r, x, f) PROVE WillRegister(q, x, f)
      <4>1. PICK k \in 1..(N + 1) : r[k].Object = x /\ LastFor(r, k) /\ r[k].OP /\ r[k].RT = f
        BY <1>1, <3>2 DEF WillRegister
      <4>2. k # N + 1
        BY <1>1, <2>2, <4>1
      <4>3. k \in 1..N /\ r[k] = q[k]
        BY <1>1, <4>2
      <4>4. LastFor(q, k)
        BY <1>1, <4>1, <4>3 DEF LastFor, N
      <4> QED
        BY <4>1, <4>3, <4>4 DEF WillRegister, N
    <3> QED
      BY <2>2, <3>1, <3>2
  <2> QED
    BY <2>1, <2>2
<1> QED
  BY <1>1, <1>2, <1>3, <1>4, <1>6 DEF N

(* o joins the objects for which an operation waits.                       *)
Joined(q, op, rt, o) == Append(q, [OP |-> op, RT |-> rt, Object |-> o])

(* What waits is an operation.                                             *)
LEMMA JoinedType ==
  ASSUME NEW q \in Seq(ItemReg), NEW op \in BOOLEAN, NEW rt \in BOOLEAN, NEW o \in Objects
  PROVE  Joined(q, op, rt, o) \in Seq(ItemReg)
<1>1. [OP |-> op, RT |-> rt, Object |-> o] \in ItemReg
  BY DEF ItemReg
<1> QED
  BY <1>1 DEF Joined

(* A registration waits, of an object that is not registered.              *)
LEMMA RegistrationWaits ==
  ASSUME NEW R, NEW I, NEW q \in Seq(ItemReg), QueueSound(R, I, q),
         NEW o \in Objects, NEW rt \in BOOLEAN,
         ~HasKind(R, I, q, o, TRUE), ~HasKind(R, I, q, o, FALSE),
         NEW r \in Seq(ItemReg), r = Joined(q, TRUE, rt, o)
  PROVE  /\ QueueSound(R, I, r)
         /\ HasKind(R, I, r, o, TRUE) <=> rt
         /\ HasKind(R, I, r, o, FALSE) <=> ~rt
         /\ \A x \in Objects \ {o}, f \in BOOLEAN : HasKind(R, I, r, x, f) <=> HasKind(R, I, q, x, f)
<1> DEFINE N == Len(q)
           e == [OP |-> TRUE, RT |-> rt, Object |-> o]
<1>0. r = Append(q, [OP |-> TRUE, RT |-> rt, Object |-> o])
  BY DEF Joined
<1>1. e \in ItemReg /\ e.OP /\ e.RT = rt /\ e.Object = o
  BY DEF ItemReg
<1> HIDE DEF e
<1>2. /\ r \in Seq(ItemReg) /\ Len(r) = N + 1 /\ r[N + 1] = e
      /\ \A k \in 1..N : r[k] = q[k]
      /\ \A k \in 1..N : FirstFor(r, k) => FirstFor(q, k)
      /\ FirstFor(r, N + 1) => NoneFor(q, o)
      /\ \A x : NoneFor(r, x) <=> x # o /\ NoneFor(q, x)
      /\ \A x, f : WillRegister(r, x, f) <=> IF x = o THEN rt = f ELSE WillRegister(q, x, f)
  <2>1. r = Append(q, e)
    BY <1>0 DEF e
  <2>2. /\ r \in Seq(ItemReg) /\ Len(r) = N + 1 /\ r[N + 1] = e
        /\ \A k \in 1..N : r[k] = q[k]
        /\ \A k \in 1..N : FirstFor(r, k) => FirstFor(q, k)
        /\ FirstFor(r, N + 1) => NoneFor(q, e.Object)
        /\ \A x : NoneFor(r, x) <=> x # e.Object /\ NoneFor(q, x)
        /\ \A x, f : WillRegister(r, x, f) <=>
             IF x = e.Object THEN e.OP /\ e.RT = f ELSE WillRegister(q, x, f)
    BY <1>0, <1>1, <2>1, QueueAppend
  <2> QED
    BY <1>1, <2>2
<1>3. N \in Nat /\ \A k \in 1..(N + 1) : k \in 1..N \/ k = N + 1
  OBVIOUS
<1>4. FirstErases(R, I, r)
  <2> SUFFICES ASSUME NEW k \in 1..(N + 1), FirstFor(r, k)
               PROVE  /\ r[k].Object \in R => ~r[k].OP /\ r[k].RT
                      /\ r[k].Object \in I => ~r[k].OP /\ ~r[k].RT
    BY <1>2 DEF FirstErases
  <2>1. CASE k \in 1..N
    BY <1>2, <2>1 DEF QueueSound, FirstErases
  <2>2. CASE k = N + 1
    BY <1>1, <1>2, <2>2 DEF HasKind
  <2> QED
    BY <1>3, <2>1, <2>2
<1>5. ASSUME NEW j \in 1..N, q[j].Object = o, q[j].OP
      PROVE  \E i \in 1..N : j < i /\ ~q[i].OP /\ q[i].Object = o
  <2> DEFINE W == {k \in 1..N : q[k].Object = o}
  <2>1. PICK k \in W : \A m \in W : m <= k
    <3>1. W \in SUBSET Nat /\ W # {} /\ \A m \in W : m <= N
      BY <1>3, <1>5
    <3> HIDE DEF W
    <3> QED
      BY <1>3, <3>1, MaxOfNats
  <2>2. LastFor(q, k) /\ q[k].Object = o /\ j <= k
    BY <1>5, <2>1 DEF LastFor
  <2>3. ~q[k].OP
    <3>1. q[k].RT \in BOOLEAN
      <4>1. q[k] \in ItemReg
        BY <2>1
      <4> QED
        BY <4>1 DEF ItemReg
    <3>2. q[k].OP => WillRegister(q, o, q[k].RT)
      BY <2>1, <2>2 DEF WillRegister
    <3> QED
      BY <3>1, <3>2 DEF HasKind
  <2>4. j # k
    BY <1>5, <2>3
  <2> QED
    BY <1>3, <2>1, <2>2, <2>3, <2>4
<1>9. /\ N \in Nat /\ Len(r) = N + 1 /\ r[N + 1] = e
      /\ \A k \in 1..N : r[k] = q[k]
      /\ \A k \in 1..(N + 1) : k \in 1..N \/ k = N + 1
  BY <1>2, <1>3
<1>6. Alternate(r)
  <2> SUFFICES ASSUME NEW j \in 1..(N + 1), NEW k \in 1..(N + 1),
                      j < k, r[j].OP, r[k].OP, r[j].Object = r[k].Object
               PROVE  \E i \in 1..(N + 1) : j < i /\ i < k /\ ~r[i].OP /\ r[i].Object = r[k].Object
    BY <1>9 DEF Alternate, N
  <2>0. j \in 1..N
    BY <1>9
  <2>1. j \in 1..N /\ r[j] = q[j]
    BY <1>9, <2>0
  <2>2. CASE k \in 1..N
    <3>1. r[k] = q[k]
      BY <1>9, <2>2
    <3>2. PICK i \in 1..N : j < i /\ i < k /\ ~q[i].OP /\ q[i].Object = q[k].Object
      BY <2>1, <2>2, <3>1 DEF QueueSound, Alternate, N
    <3>3. i \in 1..(N + 1)
      BY <1>9
    <3>4. r[i] = q[i]
      BY <1>9
    <3> QED
      BY <3>1, <3>2, <3>3, <3>4
  <2>3. CASE k = N + 1
    <3>1. PICK i \in 1..N : j < i /\ ~q[i].OP /\ q[i].Object = o
      BY <1>1, <1>9, <1>5, <2>1, <2>3
    <3>2. i \in 1..(N + 1) /\ i < k
      BY <1>9, <2>3
    <3>3. r[i] = q[i]
      BY <1>9
    <3>4. r[k].Object = o
      BY <1>1, <1>9, <2>3
    <3> QED
      BY <3>1, <3>2, <3>3, <3>4
  <2> QED
    BY <1>3, <2>2, <2>3
<1>7. (WillRegister(r, o, TRUE) <=> rt) /\ (WillRegister(r, o, FALSE) <=> ~rt) /\ ~NoneFor(r, o)
  <2>1. \A f : WillRegister(r, o, f) <=> rt = f
    BY <1>2
  <2>2. ~NoneFor(r, o)
    BY <1>2
  <2>3. (WillRegister(r, o, TRUE) <=> rt = TRUE) /\ (WillRegister(r, o, FALSE) <=> rt = FALSE)
    BY <2>1
  <2>4. rt = TRUE \/ rt = FALSE
    OBVIOUS
  <2> QED
    BY <2>2, <2>3, <2>4
<1>8. ASSUME NEW x \in Objects, NEW f \in BOOLEAN, x # o
      PROVE  HasKind(R, I, r, x, f) <=> HasKind(R, I, q, x, f)
  <2>1. (WillRegister(r, x, f) <=> WillRegister(q, x, f)) /\ (NoneFor(r, x) <=> NoneFor(q, x))
    BY <1>2, <1>8
  <2> QED
    BY <2>1 DEF HasKind
<1>10. QueueSound(R, I, r)
  BY <1>4, <1>6 DEF QueueSound
<1>11. (HasKind(R, I, r, o, TRUE) <=> rt) /\ (HasKind(R, I, r, o, FALSE) <=> ~rt)
  BY <1>7 DEF HasKind
<1> QED
  BY <1>8, <1>10, <1>11

(* An unregistration waits, made for the list the object is in.            *)
LEMMA UnregistrationWaits ==
  ASSUME NEW R, NEW I, NEW q \in Seq(ItemReg), QueueSound(R, I, q),
         NEW o \in Objects, NEW rt \in BOOLEAN, HasKind(R, I, q, o, TRUE) => rt, HasKind(R, I, q, o, FALSE) => ~rt,
         NEW r \in Seq(ItemReg), r = Joined(q, FALSE, rt, o)
  PROVE  /\ QueueSound(R, I, r)
         /\ \A x \in Objects, f \in BOOLEAN :
              HasKind(R, I, r, x, f) <=> x # o /\ HasKind(R, I, q, x, f)
<1> DEFINE N == Len(q)
           e == [OP |-> FALSE, RT |-> rt, Object |-> o]
<1>0. r = Append(q, [OP |-> FALSE, RT |-> rt, Object |-> o])
  BY DEF Joined
<1>1. e \in ItemReg /\ ~e.OP /\ e.RT = rt /\ e.Object = o
  BY DEF ItemReg
<1> HIDE DEF e
<1>2. /\ r \in Seq(ItemReg) /\ Len(r) = N + 1 /\ r[N + 1] = e
      /\ \A k \in 1..N : r[k] = q[k]
      /\ \A k \in 1..N : FirstFor(r, k) => FirstFor(q, k)
      /\ FirstFor(r, N + 1) => NoneFor(q, o)
      /\ \A x : NoneFor(r, x) <=> x # o /\ NoneFor(q, x)
      /\ \A x, f : WillRegister(r, x, f) <=> x # o /\ WillRegister(q, x, f)
  <2>1. r = Append(q, e)
    BY <1>0 DEF e
  <2>2. /\ r \in Seq(ItemReg) /\ Len(r) = N + 1 /\ r[N + 1] = e
        /\ \A k \in 1..N : r[k] = q[k]
        /\ \A k \in 1..N : FirstFor(r, k) => FirstFor(q, k)
        /\ FirstFor(r, N + 1) => NoneFor(q, e.Object)
        /\ \A x : NoneFor(r, x) <=> x # e.Object /\ NoneFor(q, x)
        /\ \A x, f : WillRegister(r, x, f) <=>
             IF x = e.Object THEN e.OP /\ e.RT = f ELSE WillRegister(q, x, f)
    BY <1>1, <2>1, QueueAppend
  <2> QED
    BY <1>1, <2>2
<1>3. N \in Nat /\ \A k \in 1..(N + 1) : k \in 1..N \/ k = N + 1
  OBVIOUS
<1>4. FirstErases(R, I, r)
  <2> SUFFICES ASSUME NEW k \in 1..(N + 1), FirstFor(r, k)
               PROVE  /\ r[k].Object \in R => ~r[k].OP /\ r[k].RT
                      /\ r[k].Object \in I => ~r[k].OP /\ ~r[k].RT
    BY <1>2 DEF FirstErases
  <2>1. CASE k \in 1..N
    BY <1>2, <2>1 DEF QueueSound, FirstErases
  <2>2. CASE k = N + 1
    <3>1. NoneFor(q, o) /\ r[k] = e
      BY <1>2, <2>2
    <3>2. (o \in R => rt) /\ (o \in I => ~rt)
      BY <3>1 DEF HasKind
    <3> QED
      BY <1>1, <3>1, <3>2
  <2> QED
    BY <1>3, <2>1, <2>2
<1>9. /\ N \in Nat /\ Len(r) = N + 1 /\ r[N + 1] = e
      /\ \A k \in 1..N : r[k] = q[k]
      /\ \A k \in 1..(N + 1) : k \in 1..N \/ k = N + 1
  BY <1>2, <1>3
<1>5. Alternate(r)
  <2> SUFFICES ASSUME NEW j \in 1..(N + 1), NEW k \in 1..(N + 1),
                      j < k, r[j].OP, r[k].OP, r[j].Object = r[k].Object
               PROVE  \E i \in 1..(N + 1) : j < i /\ i < k /\ ~r[i].OP /\ r[i].Object = r[k].Object
    BY <1>9 DEF Alternate, N
  <2>1. j \in 1..N /\ r[j] = q[j] /\ k \in 1..N /\ r[k] = q[k]
    BY <1>1, <1>9
  <2>2. PICK i \in 1..N : j < i /\ i < k /\ ~q[i].OP /\ q[i].Object = q[k].Object
    BY <2>1 DEF QueueSound, Alternate, N
  <2>3. i \in 1..(N + 1)
    BY <1>9
  <2>4. r[i] = q[i]
    BY <1>9
  <2> QED
    BY <2>1, <2>2, <2>3, <2>4
<1> QED
  BY <1>2, <1>4, <1>5 DEF QueueSound, HasKind, N

-----------------------------------------------------------------------------
(* No object is in the heap twice.                                         *)
ObjectOnce(items) ==
  \A j, k \in 1..Len(items) :
    items[j].Object = items[k].Object /\ items[j].Object # NoObject => j = k

(* The objects of the entries.                                             *)
Held(items) == {o \in Objects : InItems(items, o)}

(* An entry, by its place.                                                 *)
LEMMA HeldItems ==
  ASSUME NEW items \in Seq(Entries)
  PROVE  /\ \A o : o \in Held(items) <=> o \in Objects /\ \E k \in 1..Len(items) : items[k].Object = o
         /\ \A o : InItems(items, o) <=> \E k \in 1..Len(items) : items[k].Object = o
         /\ \A k \in 1..Len(items) :
              items[k] \in Entries /\ items[k].Object \in Objects \cup {NoObject}
<1>1. DOMAIN items = 1..Len(items) /\ \A k \in 1..Len(items) : items[k] \in Entries
  OBVIOUS
<1> QED
  BY <1>1 DEF Held, InItems, Entries

(* The k-th entry loses its object.                                        *)
Emptied(items, k) == [items EXCEPT ![k].Object = NoObject]

(* internal_Unregister: an entry loses its object.                         *)
LEMMA ItemErased ==
  ASSUME NEW items \in Seq(Entries), ObjectOnce(items), NEW k \in 1..Len(items),
         items[k].Object \in Objects,
         NEW r, r = Emptied(items, k)
  PROVE  /\ r \in Seq(Entries) /\ Len(r) = Len(items) /\ ObjectOnce(r)
         /\ Held(r) = Held(items) \ {items[k].Object}
         /\ r[k].Object = NoObject /\ \A j \in 1..Len(items) : j # k => r[j] = items[j]
<1> DEFINE N == Len(items)
<1>1. PICK at : items[k] = [Object |-> items[k].Object, at |-> at] /\ at \in (-MaxLate)..Period
  <2>1. items[k] \in Entries
    OBVIOUS
  <2> QED
    BY <2>1 DEF Entries
<1>2. [items[k] EXCEPT !.Object = NoObject] = [Object |-> NoObject, at |-> at]
  BY <1>1
<1>3. [Object |-> NoObject, at |-> at] \in Entries
  BY <1>1 DEF Entries
<1>4. /\ r \in Seq(Entries) /\ Len(r) = N /\ N \in Nat
      /\ r[k].Object = NoObject /\ \A j \in 1..N : j # k => r[j] = items[j]
  BY <1>2, <1>3 DEF Emptied
<1>5. ObjectOnce(r)
  BY <1>4 DEF ObjectOnce
<1>6. ASSUME NEW o \in Objects PROVE o \in Held(r) <=> o \in Held(items) /\ o # items[k].Object
  <2>1. ASSUME NEW j \in 1..N, r[j].Object = o
        PROVE  items[j].Object = o /\ o # items[k].Object
    <3>1. j # k
      BY <1>4, <2>1, ObjectsAssumption
    <3> QED
      BY <1>4, <2>1, <3>1, ObjectsAssumption DEF ObjectOnce
  <2>2. ASSUME NEW j \in 1..N, items[j].Object = o, o # items[k].Object
        PROVE  r[j].Object = o
    BY <1>4, <2>2
  <2>3. o \in Held(items) <=> \E j \in 1..N : items[j].Object = o
    BY HeldItems
  <2>4. o \in Held(r) <=> \E j \in 1..N : r[j].Object = o
    <3>1. \A x : x \in Held(r) <=> x \in Objects /\ \E j \in 1..Len(r) : r[j].Object = x
      BY <1>4, HeldItems
    <3> QED
      BY <1>4, <3>1
  <2> QED
    BY <2>1, <2>2, <2>3, <2>4
<1>7. Held(r) \subseteq Objects /\ Held(items) \subseteq Objects
  BY DEF Held
<1> QED
  BY <1>4, <1>5, <1>6, <1>7

(* An object enters the heap.                                              *)
LEMMA ItemEntered ==
  ASSUME NEW items \in Seq(Entries), ObjectOnce(items), NEW o \in Objects, o \notin Held(items),
         NEW e \in Entries, e.Object = o, NEW r, r = Append(items, e)
  PROVE  /\ r \in Seq(Entries) /\ ObjectOnce(r) /\ Held(r) = Held(items) \cup {o}
<1> DEFINE N == Len(items)
<1>1. e \in Entries /\ e.Object = o
  OBVIOUS
<1>2. /\ r \in Seq(Entries) /\ Len(r) = N + 1 /\ N \in Nat /\ r[N + 1] = e
      /\ \A j \in 1..N : r[j] = items[j]
  OBVIOUS
<1>3. \A j \in 1..N : items[j].Object # o
  BY HeldItems
<1>4. ObjectOnce(r)
  BY <1>1, <1>2, <1>3 DEF ObjectOnce
<1>5. ASSUME NEW x PROVE x \in Held(r) <=> x \in Held(items) \/ x = o
  <2>1. ASSUME NEW j \in 1..(N + 1), r[j].Object = x
        PROVE  x = o \/ \E k \in 1..N : items[k].Object = x
    BY <1>1, <1>2, <2>1
  <2>2. ASSUME NEW j \in 1..N, items[j].Object = x PROVE \E k \in 1..(N + 1) : r[k].Object = x
    BY <1>2, <2>2
  <2>3. \E k \in 1..(N + 1) : r[k].Object = o
    BY <1>1, <1>2
  <2>4. x \in Held(items) <=> x \in Objects /\ \E j \in 1..N : items[j].Object = x
    BY HeldItems
  <2>5. x \in Held(r) <=> x \in Objects /\ \E j \in 1..(N + 1) : r[j].Object = x
    <3>1. \A y : y \in Held(r) <=> y \in Objects /\ \E j \in 1..Len(r) : r[j].Object = y
      BY <1>2, HeldItems
    <3> QED
      BY <1>2, <3>1
  <2> QED
    BY <2>1, <2>2, <2>3, <2>4, <2>5
<1> QED
  BY <1>2, <1>4, <1>5

(* The top of the heap is taken.                                           *)
LEMMA ItemTaken ==
  ASSUME NEW items \in Seq(Entries), ObjectOnce(items), NEW k \in 1..Len(items),
         NEW r, r = RemoveAt(items, k)
  PROVE  /\ r \in Seq(Entries) /\ ObjectOnce(r) /\ Held(r) = Held(items) \ {items[k].Object}
         /\ \A j \in 1..Len(r) : \E m \in 1..Len(items) : r[j] = items[m] /\ m # k
<1> DEFINE N == Len(items)
           src(j) == IF j < k THEN j ELSE j + 1
<1>1. /\ N \in Nat /\ k \in 1..N /\ Len(r) = N - 1 /\ r \in Seq(Entries)
      /\ \A j \in 1..(N - 1) : r[j] = IF j < k THEN items[j] ELSE items[j + 1]
  <2>1. /\ RemoveAt(items, k) \in Seq(Entries) /\ Len(RemoveAt(items, k)) = Len(items) - 1
        /\ \A j \in 1..(Len(items) - 1) :
             RemoveAt(items, k)[j] = IF j < k THEN items[j] ELSE items[j + 1]
    BY RemoveAtProperties
  <2>2. Len(items) \in Nat
    OBVIOUS
  <2> QED
    BY <2>1, <2>2
<1>2. /\ \A j \in 1..(N - 1) : src(j) \in 1..N /\ src(j) # k /\ r[j] = items[src(j)]
      /\ \A m \in 1..N : m # k => \E j \in 1..(N - 1) : src(j) = m
      /\ \A i, j \in 1..(N - 1) : src(i) = src(j) => i = j
  <2> HIDE DEF N
  <2>1. \A j \in 1..(N - 1) : src(j) \in 1..N /\ src(j) # k /\ r[j] = items[src(j)]
    BY <1>1
  <2>2. ASSUME NEW m \in 1..N, m # k PROVE \E j \in 1..(N - 1) : src(j) = m
    <3>1. CASE m < k
      <4>1. m \in 1..(N - 1) /\ src(m) = m
        BY <1>1, <3>1
      <4> QED
        BY <4>1
    <3>2. CASE m > k
      <4>1. m - 1 \in 1..(N - 1) /\ src(m - 1) = m
        BY <1>1, <3>2
      <4> QED
        BY <4>1
    <3> QED
      BY <1>1, <2>2, <3>1, <3>2
  <2>3. \A i, j \in 1..(N - 1) : src(i) = src(j) => i = j
    BY <1>1
  <2> QED
    BY <2>1, <2>2, <2>3
<1> HIDE DEF N, src
<1>3. ObjectOnce(r)
  <2> SUFFICES ASSUME NEW i \in 1..(N - 1), NEW j \in 1..(N - 1),
                      r[i].Object = r[j].Object, r[i].Object # NoObject
               PROVE  i = j
    BY <1>1 DEF ObjectOnce
  <2>1. src(i) = src(j)
    BY <1>2 DEF ObjectOnce, N
  <2> QED
    BY <1>2, <2>1
<1>4. ASSUME NEW o \in Objects PROVE o \in Held(r) <=> o \in Held(items) /\ o # items[k].Object
  <2>1. ASSUME NEW j \in 1..(N - 1), r[j].Object = o
        PROVE  (\E m \in 1..N : items[m].Object = o) /\ o # items[k].Object
    <3>1. src(j) \in 1..N /\ src(j) # k /\ items[src(j)].Object = o /\ o # NoObject
      BY <1>2, <2>1, ObjectsAssumption
    <3> QED
      BY <1>1, <3>1 DEF ObjectOnce, N
  <2>2. ASSUME NEW m \in 1..N, items[m].Object = o, o # items[k].Object
        PROVE  \E j \in 1..(N - 1) : r[j].Object = o
    <3>1. m # k
      BY <2>2
    <3>2. PICK j \in 1..(N - 1) : src(j) = m
      BY <1>2, <3>1
    <3> QED
      BY <1>2, <2>2, <3>2
  <2>3. o \in Held(items) <=> \E j \in 1..N : items[j].Object = o
    BY HeldItems DEF N
  <2>4. o \in Held(r) <=> \E j \in 1..(N - 1) : r[j].Object = o
    BY <1>1, HeldItems
  <2> QED
    BY <2>1, <2>2, <2>3, <2>4
<1>5. Held(r) \subseteq Objects /\ Held(items) \subseteq Objects
  BY DEF Held
<1>6. ASSUME NEW j \in 1..(N - 1) PROVE \E m \in 1..N : r[j] = items[m] /\ m # k
  BY <1>2
<1> QED
  BY <1>1, <1>3, <1>4, <1>5, <1>6 DEF N

(* What was updated is pushed back.                                        *)
LEMMA ItemsJoined ==
  ASSUME NEW a \in Seq(Entries), NEW b \in Seq(Entries), ObjectOnce(a), ObjectOnce(b),
         Held(a) \cap Held(b) = {}
  PROVE  /\ a \o b \in Seq(Entries) /\ ObjectOnce(a \o b) /\ Held(a \o b) = Held(a) \cup Held(b)
<1> DEFINE N == Len(a)
           M == Len(b)
           r == a \o b
<1>1. /\ N \in Nat /\ M \in Nat /\ r \in Seq(Entries) /\ Len(r) = N + M
      /\ \A j \in 1..(N + M) : r[j] = IF j <= N THEN a[j] ELSE b[j - N]
  OBVIOUS
<1> HIDE DEF N, M, r
<1>2. \A j \in 1..(N + M) :
        (j <= N => j \in 1..N /\ r[j] = a[j]) /\ (j > N => j - N \in 1..M /\ r[j] = b[j - N])
  BY <1>1
<1>3. /\ \A j \in 1..N : j \in 1..(N + M) /\ r[j] = a[j]
      /\ \A j \in 1..M : N + j \in 1..(N + M) /\ r[N + j] = b[j]
  <2>1. \A j \in 1..M : N + j \in 1..(N + M) /\ (N + j) - N = j /\ ~(N + j <= N)
    BY <1>1
  <2> QED
    BY <1>1, <2>1
<1>4. \A i \in 1..N, j \in 1..M : a[i].Object = b[j].Object => a[i].Object = NoObject
  BY HeldItems DEF N, M
<1>5. ObjectOnce(r)
  <2> SUFFICES ASSUME NEW i \in 1..(N + M), NEW j \in 1..(N + M),
                      r[i].Object = r[j].Object, r[i].Object # NoObject
               PROVE  i = j
    BY <1>1 DEF ObjectOnce
  <2>1. CASE i <= N /\ j <= N
    BY <1>2, <2>1 DEF ObjectOnce, N
  <2>2. CASE i > N /\ j > N
    <3>1. i - N = j - N
      BY <1>2, <2>2 DEF ObjectOnce, M
    <3> QED
      BY <1>1, <3>1
  <2>3. CASE i <= N /\ j > N
    BY <1>2, <1>4, <2>3
  <2>4. CASE i > N /\ j <= N
    BY <1>2, <1>4, <2>4
  <2> QED
    BY <1>1, <2>1, <2>2, <2>3, <2>4
<1>6. ASSUME NEW o PROVE o \in Held(r) <=> o \in Held(a) \/ o \in Held(b)
  <2>1. ASSUME NEW j \in 1..(N + M), r[j].Object = o
        PROVE  (\E k \in 1..N : a[k].Object = o) \/ (\E k \in 1..M : b[k].Object = o)
    <3>1. CASE j <= N
      BY <1>2, <2>1, <3>1
    <3>2. CASE j > N
      <4>1. j - N \in 1..M /\ b[j - N].Object = o
        BY <1>2, <2>1, <3>2
      <4> QED
        BY <4>1
    <3>3. j <= N \/ j > N
      BY <1>1
    <3> QED
      BY <3>1, <3>2, <3>3
  <2>2. ASSUME NEW j \in 1..N, a[j].Object = o PROVE \E k \in 1..(N + M) : r[k].Object = o
    BY <1>3, <2>2
  <2>3. ASSUME NEW j \in 1..M, b[j].Object = o PROVE \E k \in 1..(N + M) : r[k].Object = o
    BY <1>3, <2>3
  <2>4. o \in Held(a) <=> o \in Objects /\ \E j \in 1..N : a[j].Object = o
    BY HeldItems DEF N
  <2>5. o \in Held(b) <=> o \in Objects /\ \E j \in 1..M : b[j].Object = o
    BY HeldItems DEF M
  <2>6. o \in Held(r) <=> o \in Objects /\ \E j \in 1..(N + M) : r[j].Object = o
    BY <1>1, HeldItems
  <2> QED
    BY <2>1, <2>2, <2>3, <2>4, <2>5, <2>6
<1> QED
  BY <1>1, <1>5, <1>6 DEF r

(* Time passes.                                                            *)
LEMMA ItemsLater ==
  ASSUME NEW items \in Seq(Entries), ObjectOnce(items), NEW ticks \in 0..1
  PROVE  /\ Later(items, ticks) \in Seq(Entries) /\ ObjectOnce(Later(items, ticks))
         /\ Held(Later(items, ticks)) = Held(items)
<1> DEFINE r == Later(items, ticks)
           N == Len(items)
<1>1. N \in Nat /\ DOMAIN items = 1..N /\ \A k \in 1..N : items[k] \in Entries
  OBVIOUS
<1> HIDE DEF N
<1>2. ASSUME NEW k \in 1..N
      PROVE  r[k] \in Entries /\ r[k].Object = items[k].Object
  <2>1. PICK at \in (-MaxLate)..Period : items[k] = [Object |-> items[k].Object, at |-> at]
    BY <1>1 DEF Entries
  <2> DEFINE A == {at - ticks, -MaxLate}
  <2>2. MaxLate \in Nat /\ Period \in Nat
    BY BoundsAssumption
  <2>3. Max(A) \in A /\ Max(A) >= at - ticks /\ Max(A) >= -MaxLate
    <3>1. \E x \in A : \A y \in A : x >= y
      BY <2>2
    <3> QED
      BY <3>1 DEF Max
  <2>4. Max(A) \in (-MaxLate)..Period
    BY <2>2, <2>3
  <2>5. r[k] = [items[k] EXCEPT !.at = Max({@ - ticks, -MaxLate})]
    BY <1>1 DEF Later
  <2>6. items[k].at = at
    BY <2>1
  <2>7. r[k] = [Object |-> items[k].Object, at |-> Max(A)]
    <3> DEFINE x == items[k]
               y == Max({x.at - ticks, -MaxLate})
    <3>1. r[k] = [x EXCEPT !.at = y]
      BY <2>5
    <3>2. y = Max(A)
      BY <2>6
    <3> HIDE DEF y, A
    <3> QED
      BY <2>1, <3>1, <3>2
  <2>8. items[k].Object \in Objects \cup {NoObject}
    BY <1>1 DEF Entries
  <2> HIDE DEF A
  <2> QED
    BY <2>4, <2>7, <2>8 DEF Entries
<1>3. r \in Seq(Entries) /\ Len(r) = N
  <2>1. r = [k \in 1..N |-> r[k]]
    BY <1>1 DEF Later
  <2> HIDE DEF r
  <2> QED
    BY <1>1, <1>2, <2>1
<1> HIDE DEF r
<1>4. ObjectOnce(r)
  BY <1>2, <1>3 DEF ObjectOnce, N
<1>5. Held(r) = Held(items)
  <2>1. \A x : x \in Held(items) <=> x \in Objects /\ \E j \in 1..N : items[j].Object = x
    BY HeldItems DEF N
  <2>2. \A x : x \in Held(r) <=> x \in Objects /\ \E j \in 1..N : r[j].Object = x
    BY <1>3, HeldItems
  <2> QED
    BY <1>2, <2>1, <2>2
<1> QED
  BY <1>3, <1>4, <1>5 DEF r

-----------------------------------------------------------------------------
(* What internal_Unregister finds: an entry in the list it looks into, the *)
(* object that is being updated, or nothing.                               *)
ErasesRT(s, o, rt, r) ==
  /\ rt /\ o \in ToSet(s.rt) /\ r.found
  /\ r.rt = RemoveFirst(s.rt, o) /\ r.items = s.items /\ r.current = s.current
ErasesItem(s, o, rt, r) ==
  /\ ~rt /\ r.found /\ r.rt = s.rt /\ r.current = s.current
  /\ \E k \in 1..Len(s.items) :
       s.items[k].Object = o /\ r.items = Emptied(s.items, k)
ErasesCurrent(s, o, rt, r) ==
  /\ s.current = o /\ r.found /\ r.current = NoObject
  /\ r.rt = s.rt /\ r.items = s.items
ErasesNothing(s, o, rt, r) ==
  /\ s.current # o /\ ~r.found /\ r.rt = s.rt /\ r.items = s.items /\ r.current = s.current

(* internal_Unregister does one of these, and a real-time object is erased *)
(* or an entry loses its object before what is being updated does.         *)
LEMMA UnregisteredIs ==
  ASSUME NEW s \in AllLists, NEW o \in Objects, NEW rt \in BOOLEAN, NEW r, r = Unregistered(s, o, rt)
  PROVE  /\ r \in AllLists /\ r.todo = s.todo
         /\ \/ ErasesRT(s, o, rt, r) \/ ErasesItem(s, o, rt, r)
            \/ /\ IF rt THEN o \notin ToSet(s.rt) ELSE ~InItems(s.items, o)
               /\ ErasesCurrent(s, o, rt, r) \/ ErasesNothing(s, o, rt, r)
<1> DEFINE I == {i \in 1..Len(s.items) : s.items[i].Object = o}
           k == SelectInSeq(s.items, LAMBDA T : T.Object = o)
<1>1. /\ s.rt \in Seq(Objects) /\ s.items \in Seq(Entries) /\ s.todo \in Seq(ItemReg)
      /\ s.current \in Objects \cup {NoObject}
      /\ s = [rt |-> s.rt, items |-> s.items, current |-> s.current, found |-> s.found, todo |-> s.todo]
  BY DEF AllLists
<1>2. k = IF I # {} THEN Min(I) ELSE 0
  BY DEF SelectInSeq
<1>3. /\ k # 0 => k \in 1..Len(s.items) /\ s.items[k].Object = o
      /\ k = 0 => \A i \in 1..Len(s.items) : s.items[i].Object # o
  <2>1. I \in SUBSET Nat
    OBVIOUS
  <2>2. CASE I # {}
    <3>1. Min(I) \in I
      <4> HIDE DEF I
      <4> QED
        BY <2>1, <2>2, MinOfNats
    <3> HIDE DEF k
    <3> QED
      BY <1>2, <2>2, <3>1
  <2>3. CASE I = {}
    <3> HIDE DEF k
    <3> QED
      BY <1>2, <2>3
  <2> QED
    BY <2>2, <2>3
<1>4. r = IF rt /\ o \in ToSet(s.rt)
          THEN [s EXCEPT !.rt = RemoveFirst(@, o), !.found = TRUE]
          ELSE IF ~rt /\ k # 0
          THEN [s EXCEPT !.items[k].Object = NoObject, !.found = TRUE]
          ELSE IF s.current = o
          THEN [s EXCEPT !.current = NoObject, !.found = TRUE]
          ELSE [s EXCEPT !.found = FALSE]
  BY DEF Unregistered
<1> HIDE DEF k, I
<1>5. CASE rt /\ o \in ToSet(s.rt)
  <2>1. RemoveFirst(s.rt, o) \in Seq(Objects)
    BY <1>1, SeqTypes
  <2>2. r = [rt |-> RemoveFirst(s.rt, o), items |-> s.items, current |-> s.current,
             found |-> TRUE, todo |-> s.todo]
    BY <1>1, <1>4, <1>5
  <2>3. r \in AllLists
    BY <1>1, <2>1, <2>2 DEF AllLists
  <2>4. r.found /\ r.rt = RemoveFirst(s.rt, o) /\ r.items = s.items /\ r.current = s.current
    BY <2>2
  <2>5. r.todo = s.todo
    BY <2>2
  <2> QED
    BY <1>5, <2>3, <2>4, <2>5 DEF ErasesRT
<1>6. CASE ~rt /\ k # 0
  <2> DEFINE items == [s.items EXCEPT ![k].Object = NoObject]
  <2>1. items \in Seq(Entries)
    <3>1. s.items[k] \in Entries
      BY <1>1, <1>3, <1>6
    <3>2. [s.items[k] EXCEPT !.Object = NoObject] \in Entries
      BY <3>1 DEF Entries
    <3> QED
      BY <1>1, <1>3, <1>6, <3>2
  <2>2. r = [rt |-> s.rt, items |-> items, current |-> s.current, found |-> TRUE, todo |-> s.todo]
    <3>1. r = [s EXCEPT !.items[k].Object = NoObject, !.found = TRUE]
      BY <1>4, <1>6
    <3>2. r = [s EXCEPT !.items = items, !.found = TRUE]
      BY <3>1
    <3> HIDE DEF items
    <3> QED
      BY <1>1, <3>2
  <2>3. r \in AllLists
    <3> HIDE DEF items
    <3> QED
      BY <1>1, <2>1, <2>2 DEF AllLists
  <2>4. /\ r.found /\ r.rt = s.rt /\ r.current = s.current /\ r.todo = s.todo /\ r.items = items
    <3> HIDE DEF items
    <3> QED
      BY <2>2
  <2>5. ErasesItem(s, o, rt, r)
    BY <1>3, <1>6, <2>4 DEF ErasesItem, Emptied
  <2> QED
    BY <2>3, <2>4, <2>5
<1>7. CASE /\ ~(rt /\ o \in ToSet(s.rt)) /\ ~(~rt /\ k # 0)
  <2>1. IF rt THEN o \notin ToSet(s.rt) ELSE ~InItems(s.items, o)
    BY <1>1, <1>3, <1>7, HeldItems
  <2>2. CASE s.current = o
    <3>1. r = [rt |-> s.rt, items |-> s.items, current |-> NoObject, found |-> TRUE, todo |-> s.todo]
      BY <1>1, <1>4, <1>7, <2>2
    <3>2. r \in AllLists
      BY <1>1, <3>1 DEF AllLists
    <3> QED
      BY <2>1, <2>2, <3>1, <3>2 DEF ErasesCurrent
  <2>3. CASE s.current # o
    <3>1. r = [rt |-> s.rt, items |-> s.items, current |-> s.current, found |-> FALSE, todo |-> s.todo]
      BY <1>1, <1>4, <1>7, <2>3
    <3>2. r \in AllLists
      BY <1>1, <3>1 DEF AllLists
    <3> QED
      BY <2>1, <2>3, <3>1, <3>2 DEF ErasesNothing
  <2> QED
    BY <2>2, <2>3
<1> QED
  BY <1>5, <1>6, <1>7

(* The unregistration that follows, the first.                             *)
LEMMA PairIs ==
  ASSUME NEW t \in Seq(ItemReg), NEW R, NEW p, p = Pair(R, t)
  PROVE  \/ /\ p = 0
            /\ \A j \in 1..Len(t) : t[j].Object = R.Object => t[j].OP
         \/ /\ p \in 1..Len(t) /\ p # 0 /\ ~t[p].OP /\ t[p].Object = R.Object
            /\ \A j \in 1..Len(t) : j < p /\ t[j].Object = R.Object => t[j].OP
<1> DEFINE I == {i \in 1..Len(t) : ~t[i].OP /\ t[i].Object = R.Object}
<1>1. p = IF I # {} THEN Min(I) ELSE 0
  BY DEF Pair, SelectInSeq
<1>2. CASE I = {}
  BY <1>1, <1>2
<1>3. CASE I # {}
  <2>1. I \in SUBSET Nat
    OBVIOUS
  <2>2. p \in I /\ \A y \in I : p <= y
    <3> HIDE DEF I
    <3> QED
      BY <1>1, <1>3, <2>1, MinOfNats
  <2>3. ASSUME NEW j \in 1..Len(t), j < p, t[j].Object = R.Object PROVE t[j].OP
    BY <2>2, <2>3
  <2> QED
    BY <2>2, <2>3
<1> QED
  BY <1>2, <1>3

(* A turn takes at least one operation out of those that wait.             *)
LEMMA TurnType ==
  ASSUME NEW s \in AllLists, s.todo # <<>>
  PROVE  /\ OneRegistration(s) \in AllLists
         /\ Len(OneRegistration(s).todo) < Len(s.todo)
<1> DEFINE R == Head(s.todo)
           rest == Tail(s.todo)
           pair == Pair(R, rest)
           t == [s EXCEPT !.todo = rest]
<1>1. /\ s.rt \in Seq(Objects) /\ s.items \in Seq(Entries) /\ s.todo \in Seq(ItemReg)
      /\ s = [rt |-> s.rt, items |-> s.items, current |-> s.current, found |-> s.found, todo |-> s.todo]
      /\ s.current \in Objects \cup {NoObject} /\ s.found \in BOOLEAN
  BY DEF AllLists
<1>2. R \in ItemReg /\ rest \in Seq(ItemReg) /\ Len(rest) < Len(s.todo) /\ Len(rest) \in Nat
  BY <1>1
<1>3. t \in AllLists /\ t.todo = rest
  <2> HIDE DEF rest
  <2> QED
    BY <1>1, <1>2 DEF AllLists
<1>4. R.OP \in BOOLEAN /\ R.RT \in BOOLEAN /\ R.Object \in Objects
  BY <1>2 DEF ItemReg
<1>5. OneRegistration(s) =
        IF ~R.OP THEN Unregistered(t, R.Object, R.RT)
        ELSE IF pair # 0 THEN [s EXCEPT !.todo = RemoveAt(rest, pair)]
        ELSE Entered(t, R.Object, R.RT)
  BY DEF OneRegistration
<1> HIDE DEF R, rest, pair, t
<1>6. CASE ~R.OP
  BY <1>2, <1>3, <1>4, <1>5, <1>6, UnregisteredIs
<1>7. CASE R.OP /\ pair # 0
  <2>1. pair \in 1..Len(rest)
    BY <1>2, <1>7, PairIs DEF pair
  <2>2. RemoveAt(rest, pair) \in Seq(ItemReg) /\ Len(RemoveAt(rest, pair)) = Len(rest) - 1
    BY <1>2, <2>1, RemoveAtProperties
  <2>3. OneRegistration(s) = [rt |-> s.rt, items |-> s.items, current |-> s.current,
                              found |-> s.found, todo |-> RemoveAt(rest, pair)]
    BY <1>1, <1>5, <1>7
  <2> QED
    BY <1>1, <1>2, <2>2, <2>3 DEF AllLists
<1>8. CASE R.OP /\ ~(pair # 0)
  <2> DEFINE e == [Object |-> R.Object, at |-> 0]
  <2>1. e \in Entries
    BY <1>4, BoundsAssumption DEF Entries
  <2>2. Append(t.rt, R.Object) \in Seq(Objects) /\ Append(t.items, e) \in Seq(Entries)
    BY <1>3, <1>4, <2>1 DEF AllLists
  <2>3. OneRegistration(s) = IF R.RT THEN [t EXCEPT !.rt = Append(t.rt, R.Object)]
                             ELSE [t EXCEPT !.items = Append(t.items, e)]
    BY <1>5, <1>8 DEF Entered
  <2> HIDE DEF e
  <2> QED
    BY <1>2, <1>3, <1>4, <2>2, <2>3 DEF AllLists
<1> QED
  BY <1>4, <1>6, <1>7, <1>8

(* What internal_Registration starts with and keeps from turn to turn.     *)
LoopInv(s) ==
  /\ s \in AllLists /\ s.current = NoObject /\ Distinct(s.rt) /\ ObjectOnce(s.items)
  /\ QueueSound(ToSet(s.rt), Held(s.items), s.todo)
SameLists(s, t) ==
  SameKinds(ToSet(s.rt), Held(s.items), s.todo, ToSet(t.rt), Held(t.items), t.todo)

(* A turn of internal_Registration changes nobody's registration: what is  *)
(* carried out or dropped is what the operations that waited have said.    *)
LEMMA TurnSound ==
  ASSUME NEW s, LoopInv(s), s.todo # <<>>
  PROVE  LoopInv(OneRegistration(s)) /\ SameLists(s, OneRegistration(s))
<1> DEFINE q == s.todo
           R == Head(q)
           rest == Tail(q)
           pair == Pair(R, rest)
           t == [s EXCEPT !.todo = rest]
           u == OneRegistration(s)
           RT == ToSet(s.rt)
           IT == Held(s.items)
<1>1. /\ s \in AllLists /\ s.rt \in Seq(Objects) /\ s.items \in Seq(Entries) /\ q \in Seq(ItemReg)
      /\ s = [rt |-> s.rt, items |-> s.items, current |-> s.current, found |-> s.found, todo |-> s.todo]
      /\ s.current = NoObject /\ s.found \in BOOLEAN /\ q # <<>>
      /\ Distinct(s.rt) /\ ObjectOnce(s.items) /\ QueueSound(RT, IT, q)
  BY DEF LoopInv, AllLists
<1>2. R \in ItemReg /\ rest \in Seq(ItemReg)
  BY <1>1
<1>3. t \in AllLists /\ t.todo = rest /\ t.rt = s.rt /\ t.items = s.items /\ t.current = NoObject
  <2> HIDE DEF rest
  <2> QED
    BY <1>1, <1>2 DEF AllLists
<1>4. R.OP \in BOOLEAN /\ R.RT \in BOOLEAN /\ R.Object \in Objects
  BY <1>2 DEF ItemReg
<1>5. u =
        IF ~R.OP THEN Unregistered(t, R.Object, R.RT)
        ELSE IF pair # 0 THEN [s EXCEPT !.todo = RemoveAt(rest, pair)]
        ELSE Entered(t, R.Object, R.RT)
  BY DEF OneRegistration
<1>6. u \in AllLists
  BY <1>1, TurnType
<1> SUFFICES LoopInv(u) /\ SameLists(s, u)
  OBVIOUS
<1> HIDE DEF u, t, pair
<1>7. CASE ~R.OP
  <2> DEFINE o == R.Object
             R2 == IF R.RT THEN RT \ {o} ELSE RT
             I2 == IF R.RT THEN IT ELSE IT \ {o}
  <2>1. u = Unregistered(t, o, R.RT)
    BY <1>5, <1>7
  <2>2. /\ u.todo = rest
        /\ \/ ErasesRT(t, o, R.RT, u) \/ ErasesItem(t, o, R.RT, u)
           \/ /\ IF R.RT THEN o \notin ToSet(t.rt) ELSE ~InItems(t.items, o)
              /\ ErasesCurrent(t, o, R.RT, u) \/ ErasesNothing(t, o, R.RT, u)
    BY <1>3, <1>4, <2>1, UnregisteredIs
  <2>3. QueueSound(R2, I2, rest) /\ SameKinds(RT, IT, q, R2, I2, rest)
    BY <1>1, <1>7, TurnErases
  <2>4. /\ ToSet(u.rt) = R2 /\ Held(u.items) = I2 /\ u.current = NoObject
        /\ Distinct(u.rt) /\ ObjectOnce(u.items)
    <3>1. CASE ErasesRT(t, o, R.RT, u)
      <4>1. R.RT /\ u.rt = RemoveFirst(s.rt, o) /\ u.items = s.items /\ u.current = NoObject
        BY <1>3, <3>1 DEF ErasesRT
      <4>2. Distinct(u.rt) /\ ToSet(u.rt) = ToSet(s.rt) \ {o}
        BY <1>1, <4>1, FirstRemoved
      <4> QED
        BY <1>1, <4>1, <4>2
    <3>2. CASE ErasesItem(t, o, R.RT, u)
      <4>1. /\ ~R.RT /\ u.rt = s.rt /\ u.current = NoObject
            /\ \E k \in 1..Len(s.items) :
                 s.items[k].Object = o /\ u.items = Emptied(s.items, k)
        BY <1>3, <3>2 DEF ErasesItem
      <4>2. PICK k \in 1..Len(s.items) :
                 s.items[k].Object = o /\ u.items = Emptied(s.items, k)
        BY <4>1
      <4>3. s.items[k].Object \in Objects
        BY <1>4, <4>2
      <4>4. ObjectOnce(u.items) /\ Held(u.items) = IT \ {s.items[k].Object}
        <5>1. ObjectOnce(u.items) /\ Held(u.items) = Held(s.items) \ {s.items[k].Object}
          BY <1>1, <4>2, <4>3, ItemErased
        <5> QED
          BY <5>1
      <4> QED
        BY <1>1, <4>1, <4>2, <4>4
    <3>3. CASE /\ IF R.RT THEN o \notin ToSet(t.rt) ELSE ~InItems(t.items, o)
               /\ ErasesCurrent(t, o, R.RT, u) \/ ErasesNothing(t, o, R.RT, u)
      <4>1. u.rt = s.rt /\ u.items = s.items /\ u.current = NoObject
        BY <1>3, <3>3 DEF ErasesCurrent, ErasesNothing
      <4>2. IF R.RT THEN o \notin RT ELSE o \notin IT
        BY <1>3, <3>3 DEF Held
      <4> QED
        BY <1>1, <4>1, <4>2
    <3> QED
      BY <2>2, <3>1, <3>2, <3>3
  <2> HIDE DEF R2, I2
  <2> QED
    BY <1>6, <2>2, <2>3, <2>4 DEF LoopInv, SameLists
<1>8. CASE R.OP /\ pair # 0
  <2>1. /\ pair \in 1..Len(rest) /\ ~rest[pair].OP /\ rest[pair].Object = R.Object
        /\ \A j \in 1..Len(rest) : j < pair /\ rest[j].Object = R.Object => rest[j].OP
    <3> HIDE DEF rest, R
    <3> QED
      BY <1>2, <1>8, PairIs DEF pair
  <2>2. QueueSound(RT, IT, RemoveAt(rest, pair)) /\ SameKinds(RT, IT, q, RT, IT, RemoveAt(rest, pair))
    BY <1>1, <1>8, <2>1, TurnDropsPair
  <2>3. u = [s EXCEPT !.todo = RemoveAt(rest, pair)]
    BY <1>5, <1>8
  <2>4. u.rt = s.rt /\ u.items = s.items /\ u.current = NoObject /\ u.todo = RemoveAt(rest, pair)
    BY <1>1, <2>3
  <2> QED
    BY <1>1, <1>6, <2>2, <2>4 DEF LoopInv, SameLists
<1>9. CASE R.OP /\ ~(pair # 0)
  <2> DEFINE o == R.Object
             e == [Object |-> o, at |-> 0]
             R2 == IF R.RT THEN RT \cup {o} ELSE RT
             I2 == IF R.RT THEN IT ELSE IT \cup {o}
  <2>1. \A j \in 1..Len(rest) : rest[j].Object = R.Object => rest[j].OP
    BY <1>2, <1>9, PairIs DEF pair
  <2>2. o \notin RT \cup IT /\ QueueSound(R2, I2, rest) /\ SameKinds(RT, IT, q, R2, I2, rest)
    BY <1>1, <1>9, <2>1, TurnEnters
  <2>3. u = IF R.RT THEN [t EXCEPT !.rt = Append(t.rt, o)] ELSE [t EXCEPT !.items = Append(t.items, e)]
    BY <1>5, <1>9 DEF Entered
  <2>4. /\ u.todo = rest /\ u.current = NoObject
        /\ u.rt = IF R.RT THEN Append(s.rt, o) ELSE s.rt
        /\ u.items = IF R.RT THEN s.items ELSE Append(s.items, e)
    <3> HIDE DEF e
    <3> QED
      BY <1>3, <1>4, <2>3 DEF AllLists
  <2>5. /\ ToSet(u.rt) = R2 /\ Held(u.items) = I2
        /\ Distinct(u.rt) /\ ObjectOnce(u.items)
    <3>1. CASE R.RT
      BY <1>1, <1>4, <2>2, <2>4, <3>1, AppendedElements
    <3>2. CASE ~R.RT
      <4>1. e \in Entries /\ e.Object = o
        BY <1>4, BoundsAssumption DEF Entries
      <4>2. ObjectOnce(u.items) /\ Held(u.items) = IT \cup {o}
        <5>1. o \in Objects /\ o \notin Held(s.items) /\ u.items = Append(s.items, e)
          BY <1>4, <2>2, <2>4, <3>2
        <5>2. ObjectOnce(u.items) /\ Held(u.items) = Held(s.items) \cup {o}
          <6>1. s.items \in Seq(Entries) /\ ObjectOnce(s.items)
            BY <1>1
          <6>2. \A x \in Entries : x.Object = o =>
                  ObjectOnce(Append(s.items, x)) /\ Held(Append(s.items, x)) = Held(s.items) \cup {o}
            <7> HIDE DEF o
            <7> QED
              BY <5>1, <6>1, ItemEntered
          <6> HIDE DEF o, e
          <6> QED
            BY <4>1, <5>1, <6>2
        <5> QED
          BY <5>2
      <4> QED
        BY <1>1, <2>4, <3>2, <4>2
    <3> QED
      BY <3>1, <3>2
  <2> HIDE DEF R2, I2
  <2> QED
    BY <1>6, <2>2, <2>4, <2>5 DEF LoopInv, SameLists
<1> QED
  BY <1>7, <1>8, <1>9 DEF u

(* The function that internal_Registration's loop computes, and that it    *)
(* exists: no operation waits for ever.                                    *)
Registering == LET done[s \in AllLists] == IF s.todo = <<>> THEN s ELSE done[OneRegistration(s)] IN done

(* A solution for the lists in which not more than n operations wait.      *)
AtMost(n) == {s \in AllLists : Len(s.todo) <= n}
Solves(f, n) ==
  f = [s \in AtMost(n) |-> IF s.todo = <<>> THEN s ELSE f[OneRegistration(s)]]

(* There is a function that goes through n operations, by induction on n.  *)
LEMMA SolutionExists == \A n \in Nat : \E f : Solves(f, n)
<1> DEFINE Solved == {n \in Nat : \E f : Solves(f, n)}
<1>1. \A s \in AllLists : s.todo \in Seq(ItemReg) /\ Len(s.todo) \in Nat
  BY DEF AllLists
<1>2. 0 \in Solved
  <2> DEFINE f == [s \in AtMost(0) |-> s]
  <2>1. \A s \in AtMost(0) : s.todo = <<>>
    BY <1>1 DEF AtMost
  <2>2. f = [s \in AtMost(0) |-> IF s.todo = <<>> THEN s ELSE f[OneRegistration(s)]]
    BY <2>1
  <2> QED
    BY <2>2 DEF Solves
<1>3. ASSUME NEW n \in Nat, n \in Solved PROVE n + 1 \in Solved
  <2>1. PICK f : Solves(f, n)
    BY <1>3
  <2> DEFINE g == [s \in AtMost(n + 1) |-> IF s.todo = <<>> THEN s ELSE f[OneRegistration(s)]]
  <2>2. ASSUME NEW s \in AtMost(n + 1), s.todo # <<>>
        PROVE  OneRegistration(s) \in AtMost(n)
    <3>1. s \in AllLists /\ Len(s.todo) <= n + 1
      BY <2>2 DEF AtMost
    <3>2. OneRegistration(s) \in AllLists /\ Len(OneRegistration(s).todo) < Len(s.todo)
      BY <2>2, <3>1, TurnType
    <3> QED
      BY <1>1, <3>1, <3>2 DEF AtMost
  <2>3. \A s \in AtMost(n) : s \in AtMost(n + 1)
    BY <1>1 DEF AtMost
  <2>4. ASSUME NEW s \in AtMost(n) PROVE g[s] = f[s]
    <3>1. f[s] = IF s.todo = <<>> THEN s ELSE f[OneRegistration(s)]
      BY <2>1 DEF Solves
    <3> QED
      BY <2>3, <3>1
  <2>5. ASSUME NEW s \in AtMost(n + 1)
        PROVE  g[s] = IF s.todo = <<>> THEN s ELSE g[OneRegistration(s)]
    BY <2>2, <2>4
  <2>6. g = [s \in AtMost(n + 1) |-> g[s]]
    OBVIOUS
  <2> HIDE DEF g
  <2>7. g = [s \in AtMost(n + 1) |-> IF s.todo = <<>> THEN s ELSE g[OneRegistration(s)]]
    BY <2>5, <2>6
  <2> QED
    BY <2>7 DEF Solves
<1> HIDE DEF Solved
<1>4. Nat \subseteq Solved
  BY <1>2, <1>3, SetInduction
<1> QED
  BY <1>4 DEF Solved

(* Two solutions agree where both are defined.                             *)
LEMMA SolutionsAgree ==
  ASSUME NEW f, NEW m \in Nat, Solves(f, m), NEW g, NEW n \in Nat, Solves(g, n)
  PROVE  \A s \in AtMost(m) \cap AtMost(n) : f[s] = g[s]
<1> DEFINE Agree == {l \in Nat : \A s \in AllLists :
                       Len(s.todo) <= l /\ Len(s.todo) <= m /\ Len(s.todo) <= n => f[s] = g[s]}
<1>1. \A s \in AllLists : s.todo \in Seq(ItemReg) /\ Len(s.todo) \in Nat
  BY DEF AllLists
<1>2. ASSUME NEW s \in AllLists, Len(s.todo) <= m, Len(s.todo) <= n
      PROVE  /\ f[s] = IF s.todo = <<>> THEN s ELSE f[OneRegistration(s)]
             /\ g[s] = IF s.todo = <<>> THEN s ELSE g[OneRegistration(s)]
  <2>1. s \in AtMost(m) /\ s \in AtMost(n)
    BY <1>2 DEF AtMost
  <2>2. f[s] = IF s.todo = <<>> THEN s ELSE f[OneRegistration(s)]
    <3> HIDE DEF Agree
    <3> QED
      BY <2>1 DEF Solves
  <2>3. g[s] = IF s.todo = <<>> THEN s ELSE g[OneRegistration(s)]
    <3> HIDE DEF Agree
    <3> QED
      BY <2>1 DEF Solves
  <2> QED
    BY <2>2, <2>3
<1>3. 0 \in Agree
  <2> SUFFICES ASSUME NEW s \in AllLists, Len(s.todo) <= 0 PROVE f[s] = g[s]
    OBVIOUS
  <2>1. s.todo = <<>> /\ Len(s.todo) <= m /\ Len(s.todo) <= n
    BY <1>1
  <2> QED
    BY <1>2, <2>1
<1>4. ASSUME NEW l \in Nat, l \in Agree PROVE l + 1 \in Agree
  <2> SUFFICES ASSUME NEW s \in AllLists,
                      Len(s.todo) <= l + 1, Len(s.todo) <= m, Len(s.todo) <= n
               PROVE  f[s] = g[s]
    OBVIOUS
  <2>1. CASE s.todo = <<>>
    BY <1>2, <2>1
  <2>2. CASE s.todo # <<>>
    <3> DEFINE t == OneRegistration(s)
    <3>1. t \in AllLists /\ Len(t.todo) < Len(s.todo)
      BY <2>2, TurnType
    <3> HIDE DEF t
    <3>2. Len(t.todo) <= l /\ Len(t.todo) <= m /\ Len(t.todo) <= n
      BY <1>1, <3>1
    <3>3. f[t] = g[t]
      BY <1>4, <3>1, <3>2
    <3> QED
      BY <1>2, <2>2, <3>3 DEF t
  <2> QED
    BY <2>1, <2>2
<1> HIDE DEF Agree
<1>5. Nat \subseteq Agree
  BY <1>3, <1>4, SetInduction
<1>6. m \in Agree
  BY <1>5
<1> QED
  BY <1>1, <1>6 DEF AtMost, Agree

(* The loop is what its text says.                                         *)
LEMMA RegisteringStep ==
  \A s \in AllLists : Registering[s] = IF s.todo = <<>> THEN s ELSE Registering[OneRegistration(s)]
<1> DEFINE sol(n) == CHOOSE f : Solves(f, n)
           Value(s) == sol(Len(s.todo))[s]
           F == [s \in AllLists |-> Value(s)]
<1>1. \A n \in Nat : Solves(sol(n), n)
  BY SolutionExists
<1> HIDE DEF sol
<1>2. \A s \in AllLists : s.todo \in Seq(ItemReg) /\ Len(s.todo) \in Nat
  BY DEF AllLists
<1>3. ASSUME NEW s \in AllLists
      PROVE  F[s] = IF s.todo = <<>> THEN s ELSE F[OneRegistration(s)]
  <2> DEFINE n == Len(s.todo)
             t == OneRegistration(s)
  <2>1. n \in Nat /\ s \in AtMost(n)
    BY <1>2 DEF AtMost
  <2>2. sol(n)[s] = IF s.todo = <<>> THEN s ELSE sol(n)[t]
    <3>1. Solves(sol(n), n)
      BY <1>1, <2>1
    <3> HIDE DEF n
    <3> QED
      BY <2>1, <3>1 DEF Solves
  <2>3. CASE s.todo = <<>>
    BY <2>2, <2>3
  <2>4. CASE s.todo # <<>>
    <3> DEFINE m == Len(t.todo)
    <3>1. t \in AllLists /\ m < n /\ m \in Nat
      BY <1>2, <2>4, TurnType
    <3>2. t \in AtMost(m) /\ t \in AtMost(n)
      BY <2>1, <3>1 DEF AtMost
    <3>3. sol(n)[t] = sol(m)[t]
      <4>1. Solves(sol(n), n) /\ Solves(sol(m), m)
        BY <1>1, <2>1, <3>1
      <4> HIDE DEF n, m, t, F
      <4> QED
        BY <2>1, <3>1, <3>2, <4>1, SolutionsAgree
    <3>4. F[t] = sol(m)[t] /\ F[s] = sol(n)[s]
      BY <3>1
    <3> HIDE DEF F, n, m, t
    <3> QED
      BY <2>2, <2>4, <3>3, <3>4 DEF t
  <2> QED
    BY <2>3, <2>4
<1>4. F = [s \in AllLists |-> IF s.todo = <<>> THEN s ELSE F[OneRegistration(s)]]
  <2>1. F = [s \in AllLists |-> F[s]]
    OBVIOUS
  <2> HIDE DEF F
  <2> QED
    BY <1>3, <2>1
<1>5. Registering = CHOOSE f : f = [s \in AllLists |-> IF s.todo = <<>> THEN s ELSE f[OneRegistration(s)]]
  BY DEF Registering
<1> HIDE DEF F
<1>6. Registering = [s \in AllLists |-> IF s.todo = <<>> THEN s ELSE Registering[OneRegistration(s)]]
  BY <1>4, <1>5
<1> QED
  BY <1>6

(* internal_Registration ends with nothing that waits, and nobody's        *)
(* registration is changed by it.                                          *)
LEMMA LoopDone ==
  ASSUME NEW s, LoopInv(s)
  PROVE  LoopInv(Registering[s]) /\ Registering[s].todo = <<>> /\ SameLists(s, Registering[s])
<1> DEFINE Good(x) == LoopInv(Registering[x]) /\ Registering[x].todo = <<>> /\ SameLists(x, Registering[x])
           Done == {n \in Nat : \A x \in AllLists : Len(x.todo) <= n /\ LoopInv(x) => Good(x)}
<1>1. \A x \in AllLists : x.todo \in Seq(ItemReg) /\ Len(x.todo) \in Nat
  BY DEF AllLists
<1>2. ASSUME NEW x \in AllLists, LoopInv(x), x.todo = <<>> PROVE Good(x)
  <2>1. Registering[x] = x
    BY <1>2, RegisteringStep
  <2>2. SameLists(x, x)
    BY DEF SameLists, SameKinds
  <2> QED
    BY <1>2, <2>1, <2>2
<1>3. 0 \in Done
  <2> SUFFICES ASSUME NEW x \in AllLists, Len(x.todo) <= 0, LoopInv(x) PROVE Good(x)
    OBVIOUS
  <2>1. x.todo = <<>>
    BY <1>1
  <2> HIDE DEF Good
  <2> QED
    BY <1>2, <2>1
<1>4. ASSUME NEW n \in Nat, n \in Done PROVE n + 1 \in Done
  <2> SUFFICES ASSUME NEW x \in AllLists, Len(x.todo) <= n + 1, LoopInv(x) PROVE Good(x)
    OBVIOUS
  <2>1. CASE x.todo = <<>>
    <3> HIDE DEF Good
    <3> QED
      BY <1>2, <2>1
  <2>2. CASE x.todo # <<>>
    <3> DEFINE t == OneRegistration(x)
    <3>1. t \in AllLists /\ Len(t.todo) < Len(x.todo)
      BY <2>2, TurnType
    <3>2. LoopInv(t) /\ SameLists(x, t)
      BY <2>2, TurnSound
    <3>3. Registering[x] = Registering[t]
      BY <2>2, RegisteringStep
    <3> HIDE DEF t
    <3>4. Good(t)
      <4>1. Len(t.todo) <= n
        BY <1>1, <3>1
      <4> HIDE DEF Good
      <4> QED
        BY <1>4, <3>1, <3>2, <4>1
    <3>5. SameLists(x, Registering[t])
      <4>1. \A r : SameLists(t, r) => SameLists(x, r)
        BY <3>2 DEF SameLists, SameKinds
      <4> QED
        BY <3>4, <4>1
    <3> QED
      BY <3>3, <3>4, <3>5
  <2> QED
    BY <2>1, <2>2
<1> HIDE DEF Done
<1>5. Nat \subseteq Done
  BY <1>3, <1>4, SetInduction
<1>6. s \in AllLists
  BY DEF LoopInv
<1>7. Len(s.todo) \in Done
  BY <1>1, <1>5, <1>6
<1> QED
  BY <1>1, <1>6, <1>7 DEF Done

(* internal_Registration, by this function.                                *)
LEMMA RegistrationIs ==
  ASSUME NEW items, internal_Registration(items), NEW s, s = Registering[Lists(items)]
  PROVE  ItemsRT' = s.rt /\ Items' = s.items /\ m_current_step_obj' = s.current /\ Registration' = <<>>
BY DEF internal_Registration, Registering

-----------------------------------------------------------------------------
(* Who is in the lists, and who is registered, as a real-time object (f)   *)
(* or not.                                                                 *)
Realtime == ToSet(ItemsRT)
Current == {m_current_step_obj} \cap Objects
InHeap == Held(Items) \cup Held(ItemsProcessed) \cup Current
Kind(o, f) == HasKind(Realtime, InHeap, Registration, o, f)

(* What the loops of Update still look at.                                 *)
Busy == Realtime \cup Held(Items) \cup Current

PhaseInv ==
  /\ phase \in {"idle", "rt"} => ItemsProcessed = <<>>
  /\ phase \in {"idle", "rt", "done"} => m_current_step_obj = NoObject
  /\ phase \in {"idle", "done"} => updating = NoObject
  /\ m_current_step_obj \in {NoObject, updating}
  /\ phase = "rt" => it >= 1

(* No object is in two places.                                             *)
ListsInv ==
  /\ Distinct(ItemsRT) /\ ObjectOnce(Items) /\ ObjectOnce(ItemsProcessed)
  /\ Held(Items) \cap Held(ItemsProcessed) = {}
  /\ m_current_step_obj \notin Held(Items) \cup Held(ItemsProcessed)

(* What waits fits what is in the lists, and while Update runs nothing     *)
(* waits for an object that the loops still look at.                       *)
QueueInv ==
  /\ QueueSound(Realtime, InHeap, Registration)
  /\ m_processing_now => \A o \in Busy : NoneFor(Registration, o)

(* The registered live, and b_RT says which list they are in.              *)
OwnersInv ==
  \A o \in Objects, f \in BOOLEAN : Kind(o, f) => o \in alive /\ (o \in b_RT <=> f)

(* Who is still to be looked at has not been updated in this frame.        *)
FrameInv ==
  /\ m_processing_now => Held(Items) \cap executed = {}
  /\ phase = "rt" => \A k \in 1..Len(ItemsRT) :
       k > it \/ (k = it /\ updating = NoObject) => ItemsRT[k] \notin executed

(* The real-time objects that the loop has passed without updating them.   *)
Seen == IF updating = NoObject THEN it - 1 ELSE it
Missed == {o \in needed \ executed : \E k \in 1..Len(ItemsRT) : k <= Seen /\ ItemsRT[k] = o}
MissedInv == phase = "rt" => Cardinality(Missed) <= erased

IInv == TypeOK /\ PhaseInv /\ ListsInv /\ QueueInv /\ OwnersInv /\ FrameInv /\ MissedInv

(* Who waits is decided by the last operation.                             *)
LEMMA LastDecides ==
  ASSUME NEW q \in Seq(ItemReg), NEW o \in Objects,
         NEW W, W = {k \in DOMAIN q : q[k].Object = o}
  PROVE  /\ W = {} => NoneFor(q, o) /\ \A f \in BOOLEAN : ~WillRegister(q, o, f)
         /\ W # {} => /\ ~NoneFor(q, o)
                      /\ q[Max(W)].OP <=> WillRegister(q, o, TRUE) \/ WillRegister(q, o, FALSE)
<1>1. Len(q) \in Nat /\ DOMAIN q = 1..Len(q) /\ \A k \in 1..Len(q) : q[k] \in ItemReg
  OBVIOUS
<1>2. CASE W = {}
  BY <1>1, <1>2 DEF NoneFor, WillRegister
<1>3. CASE W # {}
  <2> DEFINE m == Max(W)
  <2>1. m \in W /\ \A k \in W : k <= m
    <3>1. W \in SUBSET Nat /\ \A k \in W : k <= Len(q)
      BY <1>1
    <3> QED
      BY <1>1, <1>3, <3>1, MaxOfNats
  <2> HIDE DEF m
  <2>2. m \in 1..Len(q) /\ q[m].Object = o /\ LastFor(q, m)
    BY <1>1, <2>1 DEF LastFor
  <2>3. q[m].RT \in BOOLEAN
    BY <1>1, <2>2 DEF ItemReg
  <2>4. q[m].OP => WillRegister(q, o, q[m].RT)
    BY <2>2 DEF WillRegister
  <2>5. ASSUME NEW f, WillRegister(q, o, f) PROVE q[m].OP
    <3>1. PICK k \in 1..Len(q) : q[k].Object = o /\ LastFor(q, k) /\ q[k].OP
      BY <2>5 DEF WillRegister
    <3>2. m <= k /\ k <= m
      BY <2>2, <3>1 DEF LastFor
    <3>3. m = k
      BY <1>1, <2>2, <3>1, <3>2
    <3> QED
      BY <3>1, <3>3
  <2>6. ~NoneFor(q, o)
    BY <2>2 DEF NoneFor
  <2>7. q[m].OP => WillRegister(q, o, TRUE) \/ WillRegister(q, o, FALSE)
    BY <2>3, <2>4
  <2> QED
    BY <1>3, <2>5, <2>6, <2>7 DEF m
<1> QED
  BY <1>2, <1>3

(* An object is registered when it has a kind.                             *)
LEMMA RegisteredIsKind ==
  ASSUME TypeOK, NEW o \in Objects
  PROVE  Registered(o) <=> Kind(o, TRUE) \/ Kind(o, FALSE)
<1> DEFINE W == {k \in DOMAIN Registration : Registration[k].Object = o}
<1>1. Waiting(o) = W /\ Registration \in Seq(ItemReg)
  BY DEF Waiting, TypeOK
<1>2. CASE W = {}
  <2>1. NoneFor(Registration, o) /\ ~WillRegister(Registration, o, TRUE) /\ ~WillRegister(Registration, o, FALSE)
    BY <1>1, <1>2, LastDecides
  <2>2. Registered(o) <=> Listed(o) \/ m_current_step_obj = o
    BY <1>1, <1>2 DEF Registered
  <2>3. Listed(o) \/ m_current_step_obj = o <=> o \in Realtime \/ o \in InHeap
    BY DEF Listed, Realtime, InHeap, Held, Current
  <2> QED
    BY <2>1, <2>2, <2>3 DEF Kind, HasKind
<1>3. CASE W # {}
  <2>1. /\ ~NoneFor(Registration, o)
        /\ Registration[Max(W)].OP <=>
             WillRegister(Registration, o, TRUE) \/ WillRegister(Registration, o, FALSE)
    BY <1>1, <1>3, LastDecides
  <2>2. Registered(o) <=> Registration[Max(W)].OP
    BY <1>1, <1>3 DEF Registered
  <2> QED
    BY <2>1, <2>2 DEF Kind, HasKind
<1> QED
  BY <1>2, <1>3

(* The same of the next state.                                             *)
LEMMA RegisteredIsKindNext ==
  ASSUME TypeOK', NEW o \in Objects
  PROVE  Registered(o)' <=> Kind(o, TRUE)' \/ Kind(o, FALSE)'
<1> DEFINE q == Registration'
           W == {k \in DOMAIN q : q[k].Object = o}
<1>1. Waiting(o)' = W /\ q \in Seq(ItemReg)
  BY DEF Waiting, TypeOK
<1>2. CASE W = {}
  <2>1. NoneFor(q, o) /\ ~WillRegister(q, o, TRUE) /\ ~WillRegister(q, o, FALSE)
    <3> HIDE DEF q
    <3> QED
      BY <1>1, <1>2, LastDecides
  <2>2. Registered(o)' <=> Listed(o)' \/ m_current_step_obj' = o
    BY <1>1, <1>2 DEF Registered
  <2>3. Listed(o)' \/ m_current_step_obj' = o <=> o \in Realtime' \/ o \in InHeap'
    BY DEF Listed, Realtime, InHeap, Held, Current
  <2> QED
    BY <2>1, <2>2, <2>3 DEF Kind, HasKind
<1>3. CASE W # {}
  <2>1. /\ ~NoneFor(q, o)
        /\ q[Max(W)].OP <=> WillRegister(q, o, TRUE) \/ WillRegister(q, o, FALSE)
    <3> HIDE DEF q
    <3> QED
      BY <1>1, <1>3, LastDecides
  <2>2. Registered(o)' <=> q[Max(W)].OP
    BY <1>1, <1>3 DEF Registered
  <2> QED
    BY <2>1, <2>2 DEF Kind, HasKind
<1> QED
  BY <1>2, <1>3

(* What the loops look at is registered as what it is, and alive.          *)
LEMMA BusyRegistered ==
  ASSUME IInv, m_processing_now, NEW o \in Busy
  PROVE  /\ o \in Objects /\ o \in alive /\ (o \in b_RT <=> o \in Realtime)
         /\ Kind(o, o \in Realtime) /\ Registered(o) /\ NoneFor(Registration, o)
<1>1. NoneFor(Registration, o)
  BY DEF IInv, QueueInv
<1>2. o \in Objects
  <2>1. ItemsRT \in Seq(Objects)
    BY DEF IInv, TypeOK
  <2>2. Realtime \subseteq Objects
    BY <2>1, Elements DEF Realtime
  <2> QED
    BY <2>2 DEF Busy, Held, Current
<1>3. CASE o \in Realtime
  <2>1. Kind(o, TRUE)
    BY <1>1, <1>3 DEF Kind, HasKind
  <2>2. o \in alive /\ o \in b_RT
    BY <1>2, <2>1 DEF IInv, OwnersInv
  <2>3. Registered(o)
    BY <1>2, <2>1, RegisteredIsKind DEF IInv
  <2>4. Kind(o, o \in Realtime)
    BY <1>1, <1>3 DEF Kind, HasKind
  <2> QED
    BY <1>1, <1>2, <1>3, <2>2, <2>3, <2>4
<1>4. CASE o \notin Realtime
  <2>1. o \in InHeap
    BY <1>4 DEF Busy, InHeap
  <2>2. Kind(o, FALSE)
    BY <1>1, <2>1 DEF Kind, HasKind
  <2>3. o \in alive /\ o \notin b_RT
    BY <1>2, <2>2 DEF IInv, OwnersInv
  <2>4. Registered(o)
    BY <1>2, <2>2, RegisteredIsKind DEF IInv
  <2>5. Kind(o, o \in Realtime)
    BY <1>1, <1>4, <2>1 DEF Kind, HasKind
  <2> QED
    BY <1>1, <1>2, <1>4, <2>3, <2>4, <2>5
<1> QED
  BY <1>3, <1>4

(* An object for which nothing waits leaves the lists.                     *)
LEMMA LeavesLists ==
  ASSUME NEW R, NEW I, NEW q \in Seq(ItemReg), QueueSound(R, I, q), NEW o \in Objects,
         NoneFor(q, o), NEW R2, R2 = R \ {o}, NEW I2, I2 = I \ {o}
  PROVE  /\ QueueSound(R2, I2, q)
         /\ \A x \in Objects, f \in BOOLEAN :
              HasKind(R2, I2, q, x, f) <=> x # o /\ HasKind(R, I, q, x, f)
<1>1. QueueSound(R2, I2, q)
  BY DEF QueueSound, FirstErases
<1>2. \A f : ~WillRegister(q, o, f)
  BY DEF WillRegister, NoneFor
<1> QED
  BY <1>1, <1>2 DEF HasKind

(* internal_Registration.                                                  *)
LEMMA RegistrationDone ==
  ASSUME NEW items \in Seq(Entries), ObjectOnce(items), ItemsRT \in Seq(Objects), Distinct(ItemsRT),
         Registration \in Seq(ItemReg), m_current_step_obj = NoObject,
         QueueSound(Realtime, Held(items), Registration),
         internal_Registration(items)
  PROVE  /\ ItemsRT' \in Seq(Objects) /\ Items' \in Seq(Entries)
         /\ m_current_step_obj' = NoObject /\ Registration' = <<>>
         /\ Distinct(ItemsRT') /\ ObjectOnce(Items')
         /\ QueueSound(Realtime', Held(Items'), <<>>)
         /\ SameKinds(Realtime, Held(items), Registration, Realtime', Held(Items'), <<>>)
<1> DEFINE s == Lists(items)
           r == Registering[s]
<1>1. /\ s.rt = ItemsRT /\ s.items = items /\ s.current = NoObject /\ s.todo = Registration
      /\ s \in AllLists
  BY DEF Lists, AllLists
<1>2. ItemsRT' = r.rt /\ Items' = r.items /\ m_current_step_obj' = r.current /\ Registration' = <<>>
  BY RegistrationIs
<1> HIDE DEF s
<1>3. LoopInv(s)
  BY <1>1 DEF LoopInv, Realtime
<1>4. LoopInv(r) /\ r.todo = <<>> /\ SameLists(s, r)
  BY <1>3, LoopDone
<1> HIDE DEF r
<1>5. Realtime' = ToSet(r.rt) /\ Realtime = ToSet(s.rt)
  BY <1>1, <1>2 DEF Realtime
<1>6. r.rt \in Seq(Objects) /\ r.items \in Seq(Entries)
  BY <1>4 DEF LoopInv, AllLists
<1> QED
  BY <1>1, <1>2, <1>4, <1>5, <1>6 DEF LoopInv, SameLists

(* What Unregister does: the object is registered no more.                 *)
LEMMA UnregisteringIs ==
  ASSUME IInv, NEW o \in Objects, Unregistering(o),
         ItemsProcessed' = ItemsProcessed, phase' = phase
  PROVE  /\ ItemsRT' \in Seq(Objects) /\ Items' \in Seq(Entries) /\ Registration' \in Seq(ItemReg)
         /\ m_current_step_obj' \in {NoObject, m_current_step_obj}
         /\ ListsInv' /\ QueueInv'
         /\ \A x \in Objects, f \in BOOLEAN : Kind(x, f)' <=> x # o /\ Kind(x, f)
         /\ Held(Items') \subseteq Held(Items)
         /\ \/ ItemsRT' = ItemsRT /\ erased' = erased
            \/ /\ erased' = erased + 1
               /\ \E k \in 1..Len(ItemsRT) : ItemsRT' = RemoveAt(ItemsRT, k)
<1> DEFINE s == Lists(Items)
           rt == o \in b_RT
           u == Unregistered(s, o, rt)
<1>1. /\ ItemsRT \in Seq(Objects) /\ Items \in Seq(Entries) /\ ItemsProcessed \in Seq(Entries)
      /\ Registration \in Seq(ItemReg) /\ m_current_step_obj \in Objects \cup {NoObject}
      /\ erased \in Nat
  BY DEF IInv, TypeOK
<1>2. /\ s.rt = ItemsRT /\ s.items = Items /\ s.current = m_current_step_obj /\ s.todo = Registration
      /\ s \in AllLists
  BY <1>1 DEF Lists, AllLists
<1>3. /\ Distinct(ItemsRT) /\ ObjectOnce(Items) /\ ObjectOnce(ItemsProcessed)
      /\ Held(Items) \cap Held(ItemsProcessed) = {}
      /\ m_current_step_obj \notin Held(Items) \cup Held(ItemsProcessed)
      /\ QueueSound(Realtime, InHeap, Registration) /\ Realtime \cap InHeap = {}
  BY DEF IInv, ListsInv, QueueInv, QueueSound
<1>4. /\ u \in AllLists
      /\ \/ ErasesRT(s, o, rt, u) \/ ErasesItem(s, o, rt, u)
         \/ /\ IF rt THEN o \notin ToSet(s.rt) ELSE ~InItems(s.items, o)
            /\ ErasesCurrent(s, o, rt, u) \/ ErasesNothing(s, o, rt, u)
  <2>1. rt \in BOOLEAN
    OBVIOUS
  <2> HIDE DEF s, rt
  <2> QED
    BY <1>2, <2>1, UnregisteredIs
<1>5. IF m_processing_now /\ u.found
      THEN /\ ItemsRT' = u.rt /\ Items' = u.items /\ m_current_step_obj' = u.current
           /\ erased' = erased + Len(ItemsRT) - Len(u.rt)
           /\ Registration' = Registration
      ELSE /\ Registration' = Append(Registration, [OP |-> FALSE, RT |-> rt, Object |-> o])
           /\ ItemsRT' = ItemsRT /\ Items' = Items /\ m_current_step_obj' = m_current_step_obj
           /\ erased' = erased
  BY DEF Unregistering
<1>6. ASSUME m_processing_now
      PROVE  \A x \in Busy : NoneFor(Registration, x) /\ x \in Objects /\ (x \in b_RT <=> x \in Realtime)
  BY <1>6, BusyRegistered
<1> HIDE DEF u, s
<1>7. CASE m_processing_now /\ u.found
  <2>1. SUFFICES
          /\ u.rt \in Seq(Objects) /\ u.items \in Seq(Entries) /\ u.current \in {NoObject, m_current_step_obj}
          /\ o \in Busy
          /\ ToSet(u.rt) = Realtime \ {o} /\ Held(u.items) \subseteq Held(Items)
          /\ Held(u.items) \cup Held(ItemsProcessed) \cup ({u.current} \cap Objects) = InHeap \ {o}
          /\ Distinct(u.rt) /\ ObjectOnce(u.items) /\ u.current \notin Held(u.items) \cup Held(ItemsProcessed)
          /\ \/ u.rt = ItemsRT
             \/ \E k \in 1..Len(ItemsRT) : u.rt = RemoveAt(ItemsRT, k)
    <3>1. /\ ItemsRT' = u.rt /\ Items' = u.items /\ m_current_step_obj' = u.current
          /\ erased' = erased + Len(ItemsRT) - Len(u.rt)
          /\ Registration' = Registration
      BY <1>5, <1>7
    <3>2. ListsInv'
      BY <1>3, <2>1, <3>1 DEF ListsInv
    <3>3. Realtime' = Realtime \ {o} /\ InHeap' = InHeap \ {o}
      BY <2>1, <3>1 DEF Realtime, InHeap, Current
    <3>4. NoneFor(Registration, o)
      BY <1>6, <1>7, <2>1
    <3>5. /\ QueueSound(Realtime', InHeap', Registration)
          /\ \A x \in Objects, f \in BOOLEAN :
               HasKind(Realtime', InHeap', Registration, x, f) <=>
                 x # o /\ HasKind(Realtime, InHeap, Registration, x, f)
      <4>1. Registration \in Seq(ItemReg) /\ QueueSound(Realtime, InHeap, Registration)
        BY <1>1, <1>3
      <4>2. QueueSound(Realtime \ {o}, InHeap \ {o}, Registration)
        BY <3>4, <4>1, LeavesLists
      <4>3. \A x \in Objects, f \in BOOLEAN :
              HasKind(Realtime \ {o}, InHeap \ {o}, Registration, x, f) <=>
                x # o /\ HasKind(Realtime, InHeap, Registration, x, f)
        BY <3>4, <4>1, LeavesLists
      <4> QED
        BY <3>3, <4>2, <4>3
    <3>6. Busy' \subseteq Busy
      BY <2>1, <3>1, <3>3, ObjectsAssumption DEF Busy, Current
    <3>7. QueueInv'
      BY <1>6, <1>7, <3>1, <3>5, <3>6 DEF QueueInv
    <3>8. \A x \in Objects, f \in BOOLEAN : Kind(x, f)' <=> x # o /\ Kind(x, f)
      BY <3>1, <3>5 DEF Kind
    <3>9. \/ u.rt = ItemsRT /\ erased' = erased
          \/ erased' = erased + 1 /\ \E k \in 1..Len(ItemsRT) : u.rt = RemoveAt(ItemsRT, k)
      <4>1. CASE u.rt = ItemsRT
        <5>1. Len(ItemsRT) \in Nat
          BY <1>1
        <5> QED
          BY <1>1, <3>1, <4>1, <5>1
      <4>2. CASE \E k \in 1..Len(ItemsRT) : u.rt = RemoveAt(ItemsRT, k)
        <5>1. Len(ItemsRT) \in Nat /\ Len(u.rt) = Len(ItemsRT) - 1
          BY <1>1, <4>2, RemoveAtProperties
        <5> QED
          BY <1>1, <3>1, <4>2, <5>1
      <4> QED
        BY <2>1, <4>1, <4>2
    <3> QED
      BY <1>1, <2>1, <3>1, <3>2, <3>7, <3>8, <3>9
  <2>2. u.rt \in Seq(Objects) /\ u.items \in Seq(Entries)
    BY <1>4 DEF AllLists
  <2>3. NoObject \notin Objects
    BY ObjectsAssumption
  <2>4. CASE ErasesRT(s, o, rt, u)
    <3>1. o \in Realtime /\ u.rt = RemoveFirst(ItemsRT, o) /\ u.items = Items /\ u.current = m_current_step_obj
      BY <1>2, <2>4 DEF ErasesRT, Realtime
    <3>2. Distinct(u.rt) /\ ToSet(u.rt) = Realtime \ {o}
      BY <1>1, <1>3, <3>1, FirstRemoved DEF Realtime
    <3>3. \E k \in 1..Len(ItemsRT) : u.rt = RemoveAt(ItemsRT, k)
      <4>1. \E k \in 1..Len(ItemsRT) : ItemsRT[k] = o
        BY <1>1, <3>1, Elements DEF Realtime
      <4> QED
        BY <1>1, <3>1, <4>1, RemoveFirstProperties
    <3> QED
      BY <1>3, <2>2, <3>1, <3>2, <3>3 DEF Busy, InHeap, Current
  <2>5. CASE ErasesItem(s, o, rt, u)
    <3>1. u.rt = ItemsRT /\ u.current = m_current_step_obj
      BY <1>2, <2>5 DEF ErasesItem
    <3>2. PICK k \in 1..Len(Items) : Items[k].Object = o /\ u.items = Emptied(Items, k)
      BY <1>2, <2>5 DEF ErasesItem
    <3>3. ObjectOnce(u.items) /\ Held(u.items) = Held(Items) \ {o}
      BY <1>1, <1>3, <3>2, ItemErased
    <3>4. o \in Held(Items)
      BY <1>1, <3>2, HeldItems
    <3> QED
      BY <1>3, <2>2, <3>1, <3>3, <3>4 DEF Busy, InHeap, Current, Realtime
  <2>6. CASE ErasesCurrent(s, o, rt, u)
    <3>1. m_current_step_obj = o /\ u.rt = ItemsRT /\ u.items = Items /\ u.current = NoObject
      BY <1>2, <2>6 DEF ErasesCurrent
    <3>2. o \in Busy /\ o \in InHeap /\ o \notin Realtime
      BY <1>3, <3>1 DEF Busy, Current, InHeap
    <3>3. NoObject \notin Held(Items) \cup Held(ItemsProcessed)
      BY <2>3 DEF Held
    <3>4. Held(Items) \cup Held(ItemsProcessed) \cup ({u.current} \cap Objects) = InHeap \ {o}
      BY <1>3, <2>3, <3>1 DEF InHeap, Current
    <3> QED
      BY <1>3, <2>2, <3>1, <3>2, <3>3, <3>4 DEF Realtime
  <2>7. CASE ErasesNothing(s, o, rt, u)
    BY <1>7, <2>7 DEF ErasesNothing
  <2> QED
    BY <1>4, <2>4, <2>5, <2>6, <2>7
<1>8. CASE ~(m_processing_now /\ u.found)
  <2>1. /\ Registration' = Append(Registration, [OP |-> FALSE, RT |-> rt, Object |-> o])
        /\ ItemsRT' = ItemsRT /\ Items' = Items /\ m_current_step_obj' = m_current_step_obj
        /\ erased' = erased
    BY <1>5, <1>8
  <2>2. /\ HasKind(Realtime, InHeap, Registration, o, TRUE) => rt
        /\ HasKind(Realtime, InHeap, Registration, o, FALSE) => ~rt
    BY DEF IInv, OwnersInv, Kind
  <2>3. /\ Registration' \in Seq(ItemReg) /\ QueueSound(Realtime, InHeap, Registration')
        /\ \A x \in Objects, f \in BOOLEAN :
             HasKind(Realtime, InHeap, Registration', x, f) <=>
               x # o /\ HasKind(Realtime, InHeap, Registration, x, f)
    <3>1. rt \in BOOLEAN
      OBVIOUS
    <3> HIDE DEF rt
    <3>2. Registration \in Seq(ItemReg) /\ QueueSound(Realtime, InHeap, Registration)
      BY <1>1, <1>3
    <3> DEFINE r == Joined(Registration, FALSE, rt, o)
    <3>0. r \in Seq(ItemReg)
      BY <3>1, <3>2, JoinedType
    <3>3. QueueSound(Realtime, InHeap, r)
      BY <2>2, <3>1, <3>2, <3>0, UnregistrationWaits
    <3>4. \A x \in Objects, f \in BOOLEAN :
            HasKind(Realtime, InHeap, r, x, f) <=>
              x # o /\ HasKind(Realtime, InHeap, Registration, x, f)
      BY <2>2, <3>1, <3>2, <3>0, UnregistrationWaits
    <3> QED
      BY <2>1, <3>0, <3>3, <3>4 DEF Joined
  <2>4. Realtime' = Realtime /\ InHeap' = InHeap /\ Busy' = Busy
    BY <2>1 DEF Realtime, InHeap, Current, Busy
  <2>5. ASSUME m_processing_now PROVE o \notin Busy
    <3>1. ErasesNothing(s, o, rt, u) /\ IF rt THEN o \notin ToSet(s.rt) ELSE ~InItems(s.items, o)
      BY <1>4, <1>8, <2>5 DEF ErasesRT, ErasesItem, ErasesCurrent
    <3>2. m_current_step_obj # o /\ IF rt THEN o \notin Realtime ELSE o \notin Held(Items)
      BY <1>2, <3>1 DEF ErasesNothing, Realtime, Held
    <3>3. o \in Busy => (o \in b_RT <=> o \in Realtime)
      BY <1>6, <2>5
    <3>4. o \in Held(Items) => o \notin Realtime
      BY <1>3 DEF InHeap
    <3> QED
      BY <3>2, <3>3, <3>4 DEF Busy, Current
  <2>6. QueueInv'
    <3>1. ASSUME m_processing_now, NEW x \in Busy PROVE NoneFor(Registration', x)
      <4>1. NoneFor(Registration, x) /\ x # o
        BY <1>6, <2>5, <3>1
      <4>2. [OP |-> FALSE, RT |-> rt, Object |-> o] \in ItemReg
        BY DEF ItemReg
      <4>3. \A k \in 1..Len(Registration') :
              \/ k \in 1..Len(Registration) /\ Registration'[k] = Registration[k]
              \/ Registration'[k] = [OP |-> FALSE, RT |-> rt, Object |-> o]
        BY <1>1, <2>1, <4>2
      <4> QED
        BY <4>1, <4>3 DEF NoneFor
    <3> QED
      BY <2>3, <2>4, <3>1 DEF QueueInv, m_processing_now
  <2>7. \A x \in Objects, f \in BOOLEAN : Kind(x, f)' <=> x # o /\ Kind(x, f)
    BY <2>3, <2>4 DEF Kind
  <2>8. ListsInv'
    BY <1>3, <2>1 DEF ListsInv
  <2> QED
    BY <1>1, <2>1, <2>3, <2>6, <2>7, <2>8
<1> QED
  BY <1>7, <1>8

-----------------------------------------------------------------------------
(* A step that leaves the lists and what waits alone.                      *)
LEMMA ListsAlone ==
  ASSUME IInv, UNCHANGED <<lists, Registration, m_current_step_obj>>
  PROVE  /\ ItemsRT' = ItemsRT /\ Items' = Items /\ ItemsProcessed' = ItemsProcessed
         /\ Registration' = Registration /\ m_current_step_obj' = m_current_step_obj
         /\ ListsInv' /\ ((m_processing_now' => m_processing_now) => QueueInv')
         /\ \A x, f : Kind(x, f)' <=> Kind(x, f)
<1>1. /\ ItemsRT' = ItemsRT /\ Items' = Items /\ ItemsProcessed' = ItemsProcessed
      /\ Registration' = Registration /\ m_current_step_obj' = m_current_step_obj
  BY DEF lists
<1>2. ListsInv'
  BY <1>1 DEF IInv, ListsInv
<1>3. Realtime' = Realtime /\ InHeap' = InHeap /\ Busy' = Busy
  BY <1>1 DEF Realtime, InHeap, Current, Busy
<1>4. (m_processing_now' => m_processing_now) => QueueInv'
  BY <1>1, <1>3 DEF IInv, QueueInv
<1>5. \A x, f : Kind(x, f)' <=> Kind(x, f)
  BY <1>1, <1>3 DEF Kind
<1> QED
  BY <1>1, <1>2, <1>4, <1>5

(* Who counts as missed is in the list.                                    *)
LEMMA MissedFinite ==
  ASSUME TypeOK, ListsInv
  PROVE  IsFiniteSet(Missed) /\ Cardinality(Missed) \in Nat
<1>1. ItemsRT \in Seq(Objects) /\ Distinct(ItemsRT)
  BY DEF TypeOK, ListsInv
<1>2. IsFiniteSet(ToSet(ItemsRT))
  BY <1>1, DistinctLength
<1>3. Missed \subseteq ToSet(ItemsRT)
  BY <1>1, Elements DEF Missed
<1>4. IsFiniteSet(Missed)
  BY <1>2, <1>3, FS_Subset
<1> QED
  BY <1>4, FS_CardinalityType

(* Nobody new is missed.                                                   *)
LEMMA NoMoreMissed ==
  ASSUME IInv, phase' = "rt" => phase = "rt" /\ erased' = erased /\ Missed' \subseteq Missed
  PROVE  MissedInv'
<1> SUFFICES ASSUME phase' = "rt" PROVE Cardinality(Missed') <= erased'
  BY DEF MissedInv
<1>1. Cardinality(Missed) <= erased /\ erased' = erased /\ erased \in Nat
  BY DEF IInv, MissedInv, TypeOK
<1>2. IsFiniteSet(Missed) /\ Cardinality(Missed) \in Nat
  BY MissedFinite DEF IInv
<1>3. Missed' \subseteq Missed
  OBVIOUS
<1> HIDE DEF Missed
<1>4. \A T \in SUBSET Missed : Cardinality(T) <= Cardinality(Missed) /\ IsFiniteSet(T)
  BY <1>2, FS_Subset
<1>5. Cardinality(Missed') <= Cardinality(Missed) /\ Cardinality(Missed') \in Nat
  BY <1>3, <1>4, FS_CardinalityType
<1> QED
  BY <1>1, <1>2, <1>5

(* What an unregistration costs: one real-time object its turn.            *)
LEMMA FrameAfterUnregister ==
  ASSUME IInv, phase' = phase, it' = it, updating' = updating, executed' = executed,
         needed' \subseteq needed, Held(Items') \subseteq Held(Items),
         \/ ItemsRT' = ItemsRT /\ erased' = erased
         \/ /\ erased' = erased + 1
            /\ \E k \in 1..Len(ItemsRT) : ItemsRT' = RemoveAt(ItemsRT, k)
  PROVE  FrameInv' /\ MissedInv'
<1>1. /\ ItemsRT \in Seq(Objects) /\ erased \in Nat /\ it \in Nat
      /\ m_processing_now' = m_processing_now
  BY DEF IInv, TypeOK, m_processing_now
<1>2. m_processing_now => Held(Items') \cap executed = {}
  BY DEF IInv, FrameInv
<1>3. CASE ItemsRT' = ItemsRT /\ erased' = erased
  <2>1. FrameInv'
    BY <1>1, <1>2, <1>3 DEF IInv, FrameInv
  <2>2. Missed' \subseteq Missed
    BY <1>3 DEF Missed, Seen
  <2> QED
    BY <1>3, <2>1, <2>2, NoMoreMissed
<1>4. CASE erased' = erased + 1 /\ \E k \in 1..Len(ItemsRT) : ItemsRT' = RemoveAt(ItemsRT, k)
  <2> DEFINE r == ItemsRT'
             N == Len(ItemsRT)
  <2>1. PICK p \in 1..N : r = RemoveAt(ItemsRT, p)
    BY <1>4
  <2>2. /\ N \in Nat /\ Len(r) = N - 1
        /\ \A j \in 1..(N - 1) : r[j] = IF j < p THEN ItemsRT[j] ELSE ItemsRT[j + 1]
    <3>1. N \in Nat
      BY <1>1
    <3>2. /\ Len(RemoveAt(ItemsRT, p)) = Len(ItemsRT) - 1
          /\ \A j \in 1..(Len(ItemsRT) - 1) :
               RemoveAt(ItemsRT, p)[j] = IF j < p THEN ItemsRT[j] ELSE ItemsRT[j + 1]
      BY <1>1, RemoveAtProperties
    <3> QED
      BY <2>1, <3>1, <3>2
  <2> HIDE DEF r, N
  <2>3. ASSUME NEW j \in 1..(N - 1)
        PROVE  \E m \in 1..N : r[j] = ItemsRT[m] /\ (m = j \/ m = j + 1)
    <3>1. j \in 1..N /\ j + 1 \in 1..N
      BY <2>2
    <3>2. r[j] = ItemsRT[j] \/ r[j] = ItemsRT[j + 1]
      BY <2>2
    <3> QED
      BY <3>1, <3>2
  <2>4. FrameInv'
    <3> SUFFICES ASSUME phase = "rt", NEW j \in 1..(N - 1), j > it \/ (j = it /\ updating = NoObject)
                 PROVE  r[j] \notin executed
      BY <1>1, <1>2, <2>2 DEF FrameInv, r
    <3>1. PICK m \in 1..N : r[j] = ItemsRT[m] /\ (m = j \/ m = j + 1)
      BY <2>3
    <3>2. m > it \/ (m = it /\ updating = NoObject)
      BY <1>1, <2>2, <3>1
    <3> QED
      BY <3>1, <3>2 DEF IInv, FrameInv, N
  <2>5. MissedInv'
    <3> SUFFICES ASSUME phase = "rt" PROVE Cardinality(Missed') <= erased + 1
      BY <1>4 DEF MissedInv
    <3> DEFINE x == ItemsRT[Seen + 1]
    <3>1. Seen \in Nat /\ Seen' = Seen
      BY <1>1 DEF Seen, IInv, PhaseInv
    <3>2. Missed' \subseteq Missed \cup {x}
      <4> SUFFICES ASSUME NEW o \in Missed' PROVE o \in Missed \cup {x}
        OBVIOUS
      <4>1. o \in needed \ executed
        BY DEF Missed
      <4>2. PICK j \in 1..(N - 1) : j <= Seen /\ r[j] = o
        BY <2>2, <3>1 DEF Missed, r
      <4>3. PICK m \in 1..N : o = ItemsRT[m] /\ (m = j \/ m = j + 1)
        BY <2>3, <4>2
      <4>4. m <= Seen \/ m = Seen + 1
        BY <2>2, <3>1, <4>2, <4>3
      <4> QED
        BY <4>1, <4>3, <4>4 DEF Missed, N
    <3>3. IsFiniteSet(Missed) /\ Cardinality(Missed) \in Nat /\ Cardinality(Missed) <= erased
      BY MissedFinite DEF IInv, MissedInv
    <3> HIDE DEF x
    <3> DEFINE U == Missed \cup {x}
    <3>4. IsFiniteSet(U) /\ Cardinality(U) \in Nat /\ Cardinality(U) <= Cardinality(Missed) + 1
      <4>1. IsFiniteSet(U) /\ (Cardinality(U) = Cardinality(Missed) \/ Cardinality(U) = Cardinality(Missed) + 1)
        BY <3>3, FS_AddElement
      <4> HIDE DEF U
      <4> QED
        BY <3>3, <4>1
    <3>5. \A T \in SUBSET U : Cardinality(T) <= Cardinality(U) /\ IsFiniteSet(T) /\ Cardinality(T) \in Nat
      <4> HIDE DEF U
      <4> QED
        BY <3>4, FS_Subset, FS_CardinalityType
    <3>6. Cardinality(Missed') <= Cardinality(U) /\ Cardinality(Missed') \in Nat
      BY <3>2, <3>5
    <3> HIDE DEF U
    <3> QED
      BY <1>1, <3>3, <3>4, <3>6
  <2> QED
    BY <2>4, <2>5
<1> QED
  BY <1>3, <1>4

-----------------------------------------------------------------------------
(* The calls.                                                              *)
LEMMA RegisterKeeps ==
  ASSUME IInv, NEW o \in Objects, NEW rt \in BOOLEAN, Register(o, rt)
  PROVE  IInv' /\ \A x \in Objects, f \in BOOLEAN :
                    Kind(x, f)' <=> (x = o /\ f = rt) \/ (x # o /\ Kind(x, f))
<1>1. /\ o \in needed /\ ~Registered(o)
      /\ Registration' = Joined(Registration, TRUE, rt, o)
      /\ b_RT' = IF rt THEN b_RT \cup {o} ELSE b_RT \ {o}
      /\ ItemsRT' = ItemsRT /\ Items' = Items /\ ItemsProcessed' = ItemsProcessed
      /\ m_current_step_obj' = m_current_step_obj /\ alive' = alive /\ needed' = needed
      /\ phase' = phase /\ it' = it /\ executed' = executed /\ updating' = updating /\ erased' = erased
  BY DEF Register, lists, frame, Joined
<1>2. Registration \in Seq(ItemReg) /\ QueueSound(Realtime, InHeap, Registration)
  BY DEF IInv, TypeOK, QueueInv
<1>3. Registration' \in Seq(ItemReg)
  BY <1>1, <1>2, JoinedType
<1>4. ~Kind(o, TRUE) /\ ~Kind(o, FALSE)
  BY <1>1, RegisteredIsKind DEF IInv
<1>5. Realtime' = Realtime /\ InHeap' = InHeap /\ Busy' = Busy /\ m_processing_now' = m_processing_now
  BY <1>1 DEF Realtime, InHeap, Current, Busy, m_processing_now
<1>6. /\ QueueSound(Realtime, InHeap, Registration')
      /\ HasKind(Realtime, InHeap, Registration', o, TRUE) <=> rt
      /\ HasKind(Realtime, InHeap, Registration', o, FALSE) <=> ~rt
      /\ \A x \in Objects, f \in BOOLEAN :
           x # o => (HasKind(Realtime, InHeap, Registration', x, f) <=>
                       HasKind(Realtime, InHeap, Registration, x, f))
  <2> DEFINE r == Registration'
  <2>1. ~HasKind(Realtime, InHeap, Registration, o, TRUE) /\ ~HasKind(Realtime, InHeap, Registration, o, FALSE)
    BY <1>4 DEF Kind
  <2>2. r \in Seq(ItemReg) /\ r = Joined(Registration, TRUE, rt, o)
    BY <1>1, <1>3
  <2> HIDE DEF r
  <2>3. QueueSound(Realtime, InHeap, r)
    BY <1>2, <2>1, <2>2, RegistrationWaits
  <2>4. (HasKind(Realtime, InHeap, r, o, TRUE) <=> rt) /\ (HasKind(Realtime, InHeap, r, o, FALSE) <=> ~rt)
    BY <1>2, <2>1, <2>2, RegistrationWaits
  <2>5. \A x \in Objects \ {o}, f \in BOOLEAN :
          HasKind(Realtime, InHeap, r, x, f) <=> HasKind(Realtime, InHeap, Registration, x, f)
    <3> SUFFICES ASSUME NEW x \in Objects \ {o}, NEW f \in BOOLEAN
                 PROVE  HasKind(Realtime, InHeap, r, x, f) <=> HasKind(Realtime, InHeap, Registration, x, f)
      OBVIOUS
    <3>1. f = TRUE \/ f = FALSE
      OBVIOUS
    <3>2. HasKind(Realtime, InHeap, r, x, TRUE) <=> HasKind(Realtime, InHeap, Registration, x, TRUE)
      BY <1>2, <2>1, <2>2, RegistrationWaits
    <3>3. HasKind(Realtime, InHeap, r, x, FALSE) <=> HasKind(Realtime, InHeap, Registration, x, FALSE)
      BY <1>2, <2>1, <2>2, RegistrationWaits
    <3> QED
      BY <3>1, <3>2, <3>3
  <2> QED
    BY <2>3, <2>4, <2>5 DEF r
<1>7. \A x \in Objects, f \in BOOLEAN : Kind(x, f)' <=> (x = o /\ f = rt) \/ (x # o /\ Kind(x, f))
  <2> SUFFICES ASSUME NEW x \in Objects, NEW f \in BOOLEAN
               PROVE  Kind(x, f)' <=> (x = o /\ f = rt) \/ (x # o /\ Kind(x, f))
    OBVIOUS
  <2>1. CASE x # o
    BY <1>5, <1>6, <2>1 DEF Kind
  <2>2. CASE x = o /\ f = TRUE
    <3>1. HasKind(Realtime', InHeap', Registration', x, f) <=> rt
      BY <1>5, <1>6, <2>2
    <3> QED
      BY <2>2, <3>1 DEF Kind
  <2>3. CASE x = o /\ f = FALSE
    <3>1. HasKind(Realtime', InHeap', Registration', x, f) <=> ~rt
      BY <1>5, <1>6, <2>3
    <3> QED
      BY <2>3, <3>1 DEF Kind
  <2> QED
    BY <2>1, <2>2, <2>3
<1>8. TypeOK'
  BY <1>1, <1>3 DEF IInv, TypeOK
<1>9. PhaseInv' /\ ListsInv'
  BY <1>1 DEF IInv, PhaseInv, ListsInv
<1>10. QueueInv'
  <2> SUFFICES ASSUME m_processing_now, NEW x \in Busy PROVE NoneFor(Registration', x)
    BY <1>5, <1>6 DEF QueueInv
  <2>1. NoneFor(Registration, x) /\ x # o
    BY <1>1, BusyRegistered
  <2>2. [OP |-> TRUE, RT |-> rt, Object |-> o] \in ItemReg
    BY DEF ItemReg
  <2>3. \A k \in 1..Len(Registration') :
          \/ k \in 1..Len(Registration) /\ Registration'[k] = Registration[k]
          \/ Registration'[k] = [OP |-> TRUE, RT |-> rt, Object |-> o]
    BY <1>1, <1>2, <2>2 DEF Joined
  <2> QED
    BY <2>1, <2>3 DEF NoneFor
<1>11. OwnersInv'
  <2> SUFFICES ASSUME NEW x \in Objects, NEW f \in BOOLEAN, Kind(x, f)'
               PROVE  x \in alive /\ (x \in b_RT' <=> f)
    BY <1>1 DEF OwnersInv
  <2>1. CASE x = o
    <3>1. f = rt /\ o \in alive
      BY <1>1, <1>7, <2>1 DEF IInv, TypeOK
    <3> QED
      BY <1>1, <2>1, <3>1
  <2>2. CASE x # o
    <3>1. Kind(x, f)
      BY <1>7, <2>2
    <3>2. x \in alive /\ (x \in b_RT <=> f)
      BY <3>1 DEF IInv, OwnersInv
    <3> QED
      BY <1>1, <2>2, <3>2
  <2> QED
    BY <2>1, <2>2
<1>12. FrameInv'
  BY <1>1, <1>5 DEF IInv, FrameInv
<1>13. MissedInv'
  <2>1. Missed' \subseteq Missed
    BY <1>1 DEF Missed, Seen
  <2> QED
    BY <1>1, <2>1, NoMoreMissed
<1> QED
  BY <1>7, <1>8, <1>9, <1>10, <1>11, <1>12, <1>13 DEF IInv

(* What an unregistration leaves, with alive and needed as they are or     *)
(* without the object.                                                     *)
LEMMA UnregisteringKeeps ==
  ASSUME IInv, NEW o \in Objects, Unregistering(o), UNCHANGED <<ItemsProcessed, b_RT, frame, updating>>,
         alive' \in SUBSET alive, alive \ {o} \subseteq alive', needed' \in SUBSET needed, needed' \subseteq alive'
  PROVE  IInv' /\ \A x \in Objects, f \in BOOLEAN : Kind(x, f)' <=> x # o /\ Kind(x, f)
<1>1. /\ ItemsProcessed' = ItemsProcessed /\ b_RT' = b_RT /\ updating' = updating
      /\ phase' = phase /\ it' = it /\ executed' = executed
  BY DEF frame
<1>2. /\ ItemsRT' \in Seq(Objects) /\ Items' \in Seq(Entries) /\ Registration' \in Seq(ItemReg)
      /\ m_current_step_obj' \in {NoObject, m_current_step_obj}
      /\ ListsInv' /\ QueueInv'
      /\ \A x \in Objects, f \in BOOLEAN : Kind(x, f)' <=> x # o /\ Kind(x, f)
      /\ Held(Items') \subseteq Held(Items)
      /\ \/ ItemsRT' = ItemsRT /\ erased' = erased
         \/ /\ erased' = erased + 1
            /\ \E k \in 1..Len(ItemsRT) : ItemsRT' = RemoveAt(ItemsRT, k)
  BY <1>1, UnregisteringIs
<1>3. TypeOK'
  <2>1. erased' \in Nat
    BY <1>2 DEF IInv, TypeOK
  <2> QED
    BY <1>1, <1>2, <2>1 DEF IInv, TypeOK
<1>4. PhaseInv'
  BY <1>1, <1>2 DEF IInv, PhaseInv
<1>5. OwnersInv'
  BY <1>1, <1>2 DEF IInv, OwnersInv
<1>6. FrameInv' /\ MissedInv'
  BY <1>1, <1>2, FrameAfterUnregister
<1> QED
  BY <1>2, <1>3, <1>4, <1>5, <1>6 DEF IInv

(* Unregister and the destructor.                                          *)
LEMMA UnregisterKeeps ==
  ASSUME IInv, NEW o \in Objects, Unregister(o) \/ Delete(o)
  PROVE  IInv' /\ \A x \in Objects, f \in BOOLEAN : Kind(x, f)' <=> x # o /\ Kind(x, f)
<1>1. CASE Unregister(o)
  <2>1. Unregistering(o) /\ UNCHANGED <<ItemsProcessed, b_RT, frame, updating>> /\ alive' = alive /\ needed' = needed
    BY <1>1 DEF Unregister, owners
  <2>2. needed \subseteq alive
    BY DEF IInv, TypeOK
  <2> QED
    BY <2>1, <2>2, UnregisteringKeeps
<1>2. CASE Delete(o)
  <2>1. /\ Unregistering(o) /\ UNCHANGED <<ItemsProcessed, b_RT, frame, updating>>
        /\ alive' = alive \ {o} /\ needed' = needed \ {o}
    BY <1>2 DEF Delete
  <2>2. needed \subseteq alive
    BY DEF IInv, TypeOK
  <2>3. /\ alive' \in SUBSET alive /\ alive \ {o} \subseteq alive'
        /\ needed' \in SUBSET needed /\ needed' \subseteq alive'
    BY <2>1, <2>2
  <2> QED
    BY <2>1, <2>3, UnregisteringKeeps
<1> QED
  BY <1>1, <1>2

(* A new object, and one that needs no more updates: nobody is registered  *)
(* or unregistered.                                                        *)
LEMMA CreateKeeps ==
  ASSUME IInv, NEW o \in Objects, Create(o) \/ NotNeeded(o)
  PROVE  IInv' /\ \A x, f : Kind(x, f)' <=> Kind(x, f)
<1>1. /\ UNCHANGED <<lists, Registration, m_current_step_obj>>
      /\ phase' = phase /\ it' = it /\ executed' = executed /\ updating' = updating /\ erased' = erased
  BY DEF Create, NotNeeded, frame
<1>2. m_processing_now' = m_processing_now
  BY <1>1 DEF m_processing_now
<1>3. /\ ItemsRT' = ItemsRT /\ Items' = Items /\ ItemsProcessed' = ItemsProcessed
      /\ Registration' = Registration /\ m_current_step_obj' = m_current_step_obj
      /\ ListsInv' /\ QueueInv' /\ \A x, f : Kind(x, f)' <=> Kind(x, f)
  <2>1. ListsInv' /\ QueueInv'
    BY <1>1, <1>2, ListsAlone
  <2>2. \A x, f : Kind(x, f)' <=> Kind(x, f)
    BY <1>1, ListsAlone
  <2> QED
    BY <1>1, <2>1, <2>2 DEF lists
<1>4. PhaseInv'
  BY <1>1, <1>3 DEF IInv, PhaseInv
<1>5. FrameInv'
  BY <1>1, <1>2, <1>3 DEF IInv, FrameInv
<1>6. CASE Create(o)
  <2>1. /\ o \notin alive /\ alive' = alive \cup {o} /\ needed' = needed \cup {o}
        /\ b_RT' \in {b_RT \ {o}, b_RT \cup {o}}
    BY <1>6 DEF Create
  <2>2. TypeOK'
    BY <1>1, <1>3, <2>1 DEF IInv, TypeOK
  <2>3. OwnersInv'
    <3> SUFFICES ASSUME NEW x \in Objects, NEW f \in BOOLEAN, Kind(x, f)
                 PROVE  x \in alive' /\ (x \in b_RT' <=> f)
      BY <1>3 DEF OwnersInv
    <3>1. x \in alive /\ (x \in b_RT <=> f)
      BY DEF IInv, OwnersInv
    <3> QED
      BY <2>1, <3>1
  <2>4. ASSUME phase = "rt" PROVE Missed' \subseteq Missed
    <3>1. o \notin Realtime
      <4>1. m_processing_now
        BY <2>4 DEF m_processing_now
      <4> QED
        BY <2>1, <4>1, BusyRegistered DEF Busy
    <3>2. \A k \in 1..Len(ItemsRT) : ItemsRT[k] # o
      <4>1. ItemsRT \in Seq(Objects)
        BY DEF IInv, TypeOK
      <4> QED
        BY <3>1, <4>1, Elements DEF Realtime
    <3> QED
      BY <1>1, <1>3, <2>1, <3>2 DEF Missed, Seen
  <2>5. MissedInv'
    BY <1>1, <2>4, NoMoreMissed
  <2> QED
    BY <1>3, <1>4, <1>5, <2>2, <2>3, <2>5 DEF IInv
<1>7. CASE NotNeeded(o)
  <2>1. alive' = alive /\ needed' = needed \ {o} /\ b_RT' = b_RT
    BY <1>7 DEF NotNeeded
  <2>2. TypeOK'
    BY <1>1, <1>3, <2>1 DEF IInv, TypeOK
  <2>3. OwnersInv'
    BY <1>3, <2>1 DEF IInv, OwnersInv
  <2>4. Missed' \subseteq Missed
    BY <1>1, <1>3, <2>1 DEF Missed, Seen
  <2>5. MissedInv'
    BY <1>1, <2>4, NoMoreMissed
  <2> QED
    BY <1>3, <1>4, <1>5, <2>2, <2>3, <2>5 DEF IInv
<1> QED
  BY <1>6, <1>7

-----------------------------------------------------------------------------
(* Update.                                                                 *)

(* What internal_Registration leaves, of the entries it finds in the heap. *)
LEMMA AfterRegistration ==
  ASSUME IInv, m_current_step_obj = NoObject, NEW items \in Seq(Entries), ObjectOnce(items),
         Held(items) = InHeap, internal_Registration(items), ItemsProcessed' = <<>>
  PROVE  /\ ItemsRT' \in Seq(Objects) /\ Items' \in Seq(Entries) /\ Registration' \in Seq(ItemReg)
         /\ m_current_step_obj' = NoObject /\ Registration' = <<>>
         /\ ListsInv' /\ QueueInv' /\ \A x \in Objects, f \in BOOLEAN : Kind(x, f)' <=> Kind(x, f)
<1>1. /\ ItemsRT \in Seq(Objects) /\ Registration \in Seq(ItemReg) /\ Distinct(ItemsRT)
      /\ QueueSound(Realtime, InHeap, Registration)
  BY DEF IInv, TypeOK, ListsInv, QueueInv
<1>2. QueueSound(Realtime, Held(items), Registration)
  BY <1>1
<1>3. /\ ItemsRT' \in Seq(Objects) /\ Items' \in Seq(Entries)
      /\ m_current_step_obj' = NoObject /\ Registration' = <<>>
      /\ Distinct(ItemsRT') /\ ObjectOnce(Items')
      /\ QueueSound(Realtime', Held(Items'), <<>>)
      /\ SameKinds(Realtime, Held(items), Registration, Realtime', Held(Items'), <<>>)
  BY <1>1, <1>2, RegistrationDone
<1>4. Held(<<>>) = {}
  BY DEF Held, InItems
<1>5. InHeap' = Held(Items')
  BY <1>3, <1>4, ObjectsAssumption DEF InHeap, Current
<1>6. ListsInv'
  <2>1. ObjectOnce(<<>>)
    BY DEF ObjectOnce
  <2>2. NoObject \notin Held(Items')
    BY ObjectsAssumption DEF Held
  <2> QED
    BY <1>3, <1>4, <2>1, <2>2 DEF ListsInv
<1>7. \A x : NoneFor(<<>>, x)
  BY DEF NoneFor
<1>8. QueueInv'
  BY <1>3, <1>5, <1>7 DEF QueueInv
<1>9. \A x \in Objects, f \in BOOLEAN : Kind(x, f)' <=> Kind(x, f)
  <2> SUFFICES ASSUME NEW x \in Objects, NEW f \in BOOLEAN PROVE Kind(x, f)' <=> Kind(x, f)
    OBVIOUS
  <2>1. HasKind(Realtime', InHeap', Registration', x, f) <=> HasKind(Realtime, InHeap, Registration, x, f)
    BY <1>3, <1>5 DEF SameKinds
  <2> QED
    BY <2>1 DEF Kind
<1>10. Registration' \in Seq(ItemReg)
  BY <1>3, EmptySeq
<1> QED
  BY <1>3, <1>6, <1>8, <1>9, <1>10

(* A frame begins: what waits is carried out, nobody has been updated.     *)
LEMMA UpdateKeeps ==
  ASSUME IInv, NEW ticks \in 0..1, Update(ticks)
  PROVE  IInv' /\ \A x \in Objects, f \in BOOLEAN : Kind(x, f)' <=> Kind(x, f)
<1> DEFINE items == Later(Items, ticks)
<1>1. /\ phase = "idle" /\ internal_Registration(items)
      /\ phase' = "rt" /\ it' = 1 /\ executed' = {} /\ erased' = 0
      /\ ItemsProcessed' = ItemsProcessed /\ b_RT' = b_RT /\ alive' = alive /\ needed' = needed
      /\ updating' = updating
  BY DEF Update, owners
<1>2. ItemsProcessed = <<>> /\ m_current_step_obj = NoObject /\ updating = NoObject
  BY <1>1 DEF IInv, PhaseInv
<1>3. items \in Seq(Entries) /\ ObjectOnce(items) /\ Held(items) = Held(Items)
  <2>1. Items \in Seq(Entries) /\ ObjectOnce(Items)
    BY DEF IInv, TypeOK, ListsInv
  <2> QED
    BY <2>1, ItemsLater
<1> HIDE DEF items
<1>4. Held(items) = InHeap
  <2>1. Held(<<>>) = {}
    BY DEF Held, InItems
  <2> QED
    BY <1>2, <1>3, <2>1, ObjectsAssumption DEF InHeap, Current
<1>5. /\ ItemsRT' \in Seq(Objects) /\ Items' \in Seq(Entries) /\ Registration' \in Seq(ItemReg)
      /\ m_current_step_obj' = NoObject
      /\ ListsInv' /\ QueueInv' /\ \A x \in Objects, f \in BOOLEAN : Kind(x, f)' <=> Kind(x, f)
  BY <1>1, <1>2, <1>3, <1>4, AfterRegistration
<1>6. TypeOK'
  BY <1>1, <1>5 DEF IInv, TypeOK
<1>7. PhaseInv'
  BY <1>1, <1>2, <1>5 DEF PhaseInv
<1>8. OwnersInv'
  BY <1>1, <1>5 DEF IInv, OwnersInv
<1>9. FrameInv'
  BY <1>1 DEF FrameInv
<1>10. MissedInv'
  <2>1. Seen' = 0
    BY <1>1, <1>2 DEF Seen
  <2>2. Missed' = {}
    BY <2>1 DEF Missed
  <2> QED
    BY <1>1, <2>2, FS_EmptySet DEF MissedInv
<1> QED
  BY <1>5, <1>6, <1>7, <1>8, <1>9, <1>10 DEF IInv

(* A frame ends: what has been updated is in the heap again.               *)
LEMMA EndUpdateKeeps ==
  ASSUME IInv, EndUpdate
  PROVE  /\ IInv' /\ \A x \in Objects, f \in BOOLEAN : Kind(x, f)' <=> Kind(x, f)
         /\ updating = NoObject /\ updating' = NoObject /\ needed' = needed
<1> DEFINE items == Items \o ItemsProcessed
<1>1. /\ phase = "done" \/ (phase = "step" /\ updating = NoObject)
      /\ internal_Registration(items)
      /\ ItemsProcessed' = <<>> /\ phase' = "idle" /\ it' = 0
      /\ b_RT' = b_RT /\ alive' = alive /\ needed' = needed
      /\ updating' = updating /\ executed' = executed /\ erased' = erased
  BY DEF EndUpdate, owners
<1>2. m_current_step_obj = NoObject /\ updating = NoObject
  BY <1>1 DEF IInv, PhaseInv
<1>3. items \in Seq(Entries) /\ ObjectOnce(items) /\ Held(items) = Held(Items) \cup Held(ItemsProcessed)
  <2>1. /\ Items \in Seq(Entries) /\ ObjectOnce(Items) /\ ItemsProcessed \in Seq(Entries)
        /\ ObjectOnce(ItemsProcessed) /\ Held(Items) \cap Held(ItemsProcessed) = {}
    BY DEF IInv, TypeOK, ListsInv
  <2> QED
    BY <2>1, ItemsJoined
<1> HIDE DEF items
<1>4. Held(items) = InHeap
  BY <1>2, <1>3, ObjectsAssumption DEF InHeap, Current
<1>5. /\ ItemsRT' \in Seq(Objects) /\ Items' \in Seq(Entries) /\ Registration' \in Seq(ItemReg)
      /\ m_current_step_obj' = NoObject
      /\ ListsInv' /\ QueueInv' /\ \A x \in Objects, f \in BOOLEAN : Kind(x, f)' <=> Kind(x, f)
  BY <1>1, <1>2, <1>3, <1>4, AfterRegistration
<1>6. TypeOK'
  BY <1>1, <1>5, EmptySeq DEF IInv, TypeOK
<1>7. PhaseInv'
  BY <1>1, <1>2, <1>5 DEF PhaseInv
<1>8. OwnersInv'
  BY <1>1, <1>5 DEF IInv, OwnersInv
<1>9. FrameInv'
  BY <1>1 DEF FrameInv, m_processing_now
<1>10. MissedInv'
  BY <1>1 DEF MissedInv
<1> QED
  BY <1>1, <1>2, <1>5, <1>6, <1>7, <1>8, <1>9, <1>10 DEF IInv

(* The loop over the real-time objects.                                    *)
LEMMA RealtimeKeeps ==
  ASSUME IInv, UpdateRT \/ ReturnRT \/ EndRT
  PROVE  IInv' /\ (\A x, f : Kind(x, f)' <=> Kind(x, f)) /\ needed' = needed
<1>1. /\ phase = "rt" /\ UNCHANGED <<lists, Registration, m_current_step_obj>>
      /\ b_RT' = b_RT /\ alive' = alive /\ needed' = needed /\ erased' = erased
      /\ phase' \in {"rt", "step"}
  BY DEF UpdateRT, ReturnRT, EndRT, owners
<1>2. /\ ItemsRT' = ItemsRT /\ Items' = Items /\ ItemsProcessed' = ItemsProcessed
      /\ Registration' = Registration /\ m_current_step_obj' = m_current_step_obj
  BY <1>1 DEF lists
<1>3. ListsInv' /\ QueueInv'
  BY <1>1, ListsAlone DEF m_processing_now
<1>4. \A x, f : Kind(x, f)' <=> Kind(x, f)
  BY <1>1, ListsAlone
<1>5. /\ ItemsProcessed = <<>> /\ m_current_step_obj = NoObject
      /\ it \in Nat /\ it >= 1 /\ ItemsRT \in Seq(Objects) /\ executed \subseteq Objects
      /\ updating \in Objects \cup {NoObject} /\ needed \subseteq alive /\ alive \subseteq Objects
      /\ Held(Items) \cap executed = {}
      /\ \A k \in 1..Len(ItemsRT) : k > it \/ (k = it /\ updating = NoObject) => ItemsRT[k] \notin executed
  BY <1>1 DEF IInv, PhaseInv, TypeOK, FrameInv, m_processing_now
<1>6. OwnersInv'
  BY <1>1, <1>4 DEF IInv, OwnersInv
<1>7. SUFFICES /\ it' \in Nat /\ updating' \in Objects \cup {NoObject} /\ executed' \subseteq Objects
               /\ FrameInv' /\ (phase' = "rt" => it' >= 1 /\ Missed' \subseteq Missed)
  <2>1. TypeOK'
    BY <1>1, <1>2, <1>7 DEF IInv, TypeOK
  <2>2. PhaseInv'
    BY <1>1, <1>2, <1>5, <1>7 DEF PhaseInv
  <2>3. MissedInv'
    BY <1>1, <1>7, NoMoreMissed
  <2> QED
    BY <1>1, <1>3, <1>4, <1>6, <1>7, <2>1, <2>2, <2>3 DEF IInv
<1>8. CASE UpdateRT
  <2>1. /\ updating = NoObject /\ it <= Len(ItemsRT) /\ phase' = phase
        /\ \/ /\ ItemsRT[it] \in needed /\ updating' = ItemsRT[it]
              /\ executed' = executed \cup {ItemsRT[it]} /\ it' = it
           \/ /\ ItemsRT[it] \notin needed /\ it' = it + 1 /\ updating' = updating /\ executed' = executed
    BY <1>8 DEF UpdateRT
  <2>2. it \in 1..Len(ItemsRT) /\ ItemsRT[it] \in Objects /\ Len(ItemsRT) \in Nat
    BY <1>5, <2>1
  <2>3. CASE /\ ItemsRT[it] \in needed /\ updating' = ItemsRT[it]
             /\ executed' = executed \cup {ItemsRT[it]} /\ it' = it
    <3> DEFINE o == ItemsRT[it]
    <3>1. o \in Realtime /\ Realtime \cap InHeap = {} /\ Held(Items) \subseteq InHeap
      BY <1>5, <2>2, Elements DEF Realtime, IInv, QueueInv, QueueSound, InHeap
    <3>2. \A k \in 1..Len(ItemsRT) : k > it => ItemsRT[k] # o
      BY <2>2, <1>5 DEF IInv, ListsInv, Distinct
    <3>3. o # NoObject
      BY <2>2, ObjectsAssumption
    <3> HIDE DEF o
    <3>4. updating' = o /\ executed' = executed \cup {o} /\ it' = it
      BY <2>3 DEF o
    <3>5. FrameInv'
      BY <1>2, <1>5, <2>1, <3>1, <3>2, <3>3, <3>4 DEF FrameInv
    <3>6. Missed' \subseteq Missed
      <4>1. Seen' = it /\ Seen = it - 1
        BY <2>1, <3>3, <3>4 DEF Seen
      <4> SUFFICES ASSUME NEW x \in Missed' PROVE x \in Missed
        OBVIOUS
      <4>2. PICK k \in 1..Len(ItemsRT) : k <= it /\ ItemsRT[k] = x
        BY <1>2, <4>1 DEF Missed
      <4>3. x \in needed \ executed /\ x # o
        BY <1>1, <3>4 DEF Missed
      <4>4. k # it
        BY <4>2, <4>3 DEF o
      <4>5. k <= Seen
        BY <1>5, <4>1, <4>2, <4>4
      <4> QED
        BY <4>2, <4>3, <4>5 DEF Missed
    <3> QED
      BY <1>1, <1>5, <2>2, <3>4, <3>5, <3>6 DEF o
  <2>4. CASE ItemsRT[it] \notin needed /\ it' = it + 1 /\ updating' = updating /\ executed' = executed
    <3>1. FrameInv'
      <4>1. \A k \in 1..Len(ItemsRT) : k > it + 1 \/ k = it + 1 => k > it
        BY <1>5
      <4> QED
        BY <1>2, <1>5, <2>4, <4>1 DEF FrameInv
    <3>2. Missed' \subseteq Missed
      <4>1. Seen' = it /\ Seen = it - 1
        BY <1>5, <2>1, <2>4 DEF Seen
      <4> SUFFICES ASSUME NEW x \in Missed' PROVE x \in Missed
        OBVIOUS
      <4>2. PICK k \in 1..Len(ItemsRT) : k <= it /\ ItemsRT[k] = x
        BY <1>2, <4>1 DEF Missed
      <4>3. x \in needed \ executed
        BY <1>1, <2>4 DEF Missed
      <4>4. k # it
        BY <2>4, <4>2, <4>3
      <4>5. k <= Seen
        BY <1>5, <4>1, <4>2, <4>4
      <4> QED
        BY <4>2, <4>3, <4>5 DEF Missed
    <3> QED
      BY <1>5, <2>4, <3>1, <3>2
  <2> QED
    BY <2>1, <2>3, <2>4
<1>9. CASE ReturnRT
  <2>1. updating # NoObject /\ updating' = NoObject /\ it' = it + 1 /\ executed' = executed /\ phase' = phase
    BY <1>9 DEF ReturnRT
  <2>2. FrameInv'
    <3>1. \A k \in 1..Len(ItemsRT) : k > it + 1 \/ k = it + 1 => k > it
      BY <1>5
    <3> QED
      BY <1>2, <1>5, <2>1, <3>1 DEF FrameInv
  <2>3. Missed' \subseteq Missed
    <3>1. Seen' = Seen
      BY <1>5, <2>1 DEF Seen
    <3> QED
      BY <1>1, <1>2, <2>1, <3>1 DEF Missed
  <2> QED
    BY <1>5, <2>1, <2>2, <2>3
<1>10. CASE EndRT
  <2>1. phase' = "step" /\ it' = 0 /\ updating' = updating /\ executed' = executed
    BY <1>10 DEF EndRT
  <2>2. FrameInv'
    BY <1>2, <1>5, <2>1 DEF FrameInv
  <2> QED
    BY <1>5, <2>1, <2>2
<1> QED
  BY <1>8, <1>9, <1>10

(* The counter of ProcessStep's loop.                                      *)
LEMMA BatchCount ==
  ASSUME it \in Nat
  PROVE  (it + 1) % Batch \in Nat
<1>1. Batch \in Nat /\ Batch > 0
  BY BoundsAssumption
<1> QED
  BY <1>1

(* The top of the heap is taken: it is updated, or forgotten.              *)
LEMMA ProcessKeeps ==
  ASSUME IInv, ProcessStep
  PROVE  /\ IInv' /\ needed' = needed
         /\ \/ /\ updating' \in needed /\ updating' \in Held(Items)
               /\ \A x \in Objects, f \in BOOLEAN : Kind(x, f)' <=> Kind(x, f)
            \/ /\ updating' = updating
               /\ \E o \in Objects \ needed :
                    \A x \in Objects, f \in BOOLEAN : Kind(x, f)' <=> x # o /\ Kind(x, f)
            \/ updating' = updating /\ \A x \in Objects, f \in BOOLEAN : Kind(x, f)' <=> Kind(x, f)
<1>1. /\ phase = "step" /\ updating = NoObject
      /\ ItemsRT' = ItemsRT /\ ItemsProcessed' = ItemsProcessed /\ Registration' = Registration
      /\ b_RT' = b_RT /\ alive' = alive /\ needed' = needed /\ phase' = phase /\ erased' = erased
      /\ m_processing_now /\ m_processing_now'
  BY DEF ProcessStep, owners, m_processing_now
<1>2. PICK k \in DOMAIN Items :
        /\ Items' = RemoveAt(Items, k)
        /\ \/ /\ Items[k].Object \in needed
              /\ updating' = Items[k].Object /\ m_current_step_obj' = Items[k].Object
              /\ executed' = executed \cup {Items[k].Object} /\ it' = it
           \/ /\ Items[k].Object \notin needed /\ it' = (it + 1) % Batch
              /\ updating' = updating /\ m_current_step_obj' = m_current_step_obj /\ executed' = executed
  BY DEF ProcessStep
<1> DEFINE o == Items[k].Object
<1>3. /\ Items \in Seq(Entries) /\ ItemsRT \in Seq(Objects) /\ ItemsProcessed \in Seq(Entries)
      /\ Registration \in Seq(ItemReg) /\ it \in Nat /\ executed \subseteq Objects
      /\ needed \subseteq alive /\ alive \subseteq Objects
      /\ Distinct(ItemsRT) /\ ObjectOnce(Items) /\ ObjectOnce(ItemsProcessed)
      /\ Held(Items) \cap Held(ItemsProcessed) = {}
      /\ QueueSound(Realtime, InHeap, Registration) /\ Realtime \cap InHeap = {}
      /\ \A x \in Busy : NoneFor(Registration, x)
      /\ Held(Items) \cap executed = {}
      /\ m_current_step_obj = NoObject /\ NoObject \notin Objects
  BY <1>1, ObjectsAssumption DEF IInv, TypeOK, ListsInv, QueueInv, QueueSound, FrameInv, PhaseInv
<1>4. k \in 1..Len(Items) /\ o \in Objects \cup {NoObject} /\ (o \in Objects => o \in Held(Items))
  <2>1. k \in 1..Len(Items)
    BY <1>3
  <2>2. o \in Objects \cup {NoObject} /\ (o \in Objects => o \in Held(Items))
    BY <1>3, <2>1, HeldItems
  <2> QED
    BY <2>1, <2>2
<1>5. /\ Items' \in Seq(Entries) /\ ObjectOnce(Items') /\ Held(Items') = Held(Items) \ {o}
  BY <1>2, <1>3, <1>4, ItemTaken
<1> HIDE DEF o
<1>6. Realtime' = Realtime
  BY <1>1 DEF Realtime
<1>7. MissedInv'
  BY <1>1 DEF MissedInv
<1>8. CASE /\ o \in needed /\ updating' = o /\ m_current_step_obj' = o
           /\ executed' = executed \cup {o} /\ it' = it
  <2>1. o \in Objects /\ o \in Held(Items) /\ o # NoObject
    BY <1>3, <1>4, <1>8
  <2>2. InHeap' = InHeap
    BY <1>1, <1>3, <1>5, <1>8, <2>1 DEF InHeap, Current
  <2>3. Busy' = Busy
    BY <1>3, <1>5, <1>6, <1>8, <2>1 DEF Busy, Current
  <2>4. TypeOK'
    BY <1>1, <1>5, <1>8, <2>1 DEF IInv, TypeOK
  <2>5. PhaseInv'
    BY <1>1, <1>8 DEF PhaseInv
  <2>6. ListsInv'
    BY <1>1, <1>3, <1>5, <1>8, <2>1 DEF ListsInv
  <2>7. QueueInv'
    BY <1>1, <1>3, <1>6, <2>2, <2>3 DEF QueueInv
  <2>8. \A x \in Objects, f \in BOOLEAN : Kind(x, f)' <=> Kind(x, f)
    BY <1>1, <1>6, <2>2 DEF Kind
  <2>9. OwnersInv'
    BY <1>1, <2>8 DEF IInv, OwnersInv
  <2>10. FrameInv'
    BY <1>1, <1>3, <1>5, <1>8 DEF FrameInv
  <2> QED
    BY <1>1, <1>7, <1>8, <2>1, <2>4, <2>5, <2>6, <2>7, <2>8, <2>9, <2>10 DEF IInv
<1>9. CASE /\ o \notin needed /\ it' = (it + 1) % Batch
           /\ updating' = updating /\ m_current_step_obj' = m_current_step_obj /\ executed' = executed
  <2>1. it' \in Nat
    BY <1>3, <1>9, BatchCount
  <2>2. InHeap' = InHeap \ {o}
    BY <1>1, <1>3, <1>4, <1>5, <1>9 DEF InHeap, Current, Held
  <2>3. Busy' \subseteq Busy
    BY <1>3, <1>5, <1>6, <1>9 DEF Busy, Current
  <2>4. TypeOK'
    BY <1>1, <1>5, <1>9, <2>1 DEF IInv, TypeOK
  <2>5. PhaseInv'
    BY <1>1, <1>3, <1>9 DEF PhaseInv
  <2>6. ListsInv'
    <3>1. NoObject \notin Held(Items') \cup Held(ItemsProcessed)
      BY <1>3 DEF Held
    <3> QED
      BY <1>1, <1>3, <1>5, <1>9, <3>1 DEF ListsInv
  <2>7. FrameInv'
    BY <1>1, <1>3, <1>5, <1>9 DEF FrameInv
  <2>8. CASE o \in Objects
    <3>1. NoneFor(Registration, o) /\ o \notin Realtime
      BY <1>3, <1>4, <2>8 DEF Busy, InHeap
    <3>2. Registration \in Seq(ItemReg) /\ QueueSound(Realtime, InHeap, Registration)
      BY <1>3
    <3>3. QueueSound(Realtime \ {o}, InHeap \ {o}, Registration)
      BY <2>8, <3>1, <3>2, LeavesLists
    <3>4. \A x \in Objects, f \in BOOLEAN :
            HasKind(Realtime \ {o}, InHeap \ {o}, Registration, x, f) <=>
              x # o /\ HasKind(Realtime, InHeap, Registration, x, f)
      BY <2>8, <3>1, <3>2, LeavesLists
    <3>5. Realtime' = Realtime \ {o}
      BY <1>6, <3>1
    <3>6. QueueInv'
      BY <1>1, <1>3, <2>2, <2>3, <3>3, <3>5 DEF QueueInv
    <3>7. \A x \in Objects, f \in BOOLEAN : Kind(x, f)' <=> x # o /\ Kind(x, f)
      BY <1>1, <2>2, <3>4, <3>5 DEF Kind
    <3>8. OwnersInv'
      BY <1>1, <3>7 DEF IInv, OwnersInv
    <3>9. o \in Objects \ needed
      BY <1>9, <2>8
    <3>10. \E y \in Objects \ needed :
             \A x \in Objects, f \in BOOLEAN : Kind(x, f)' <=> x # y /\ Kind(x, f)
      BY <3>7, <3>9
    <3> QED
      BY <1>1, <1>7, <1>9, <2>4, <2>5, <2>6, <2>7, <3>6, <3>8, <3>10 DEF IInv
  <2>9. CASE o \notin Objects
    <3>1. InHeap' = InHeap
      BY <2>2, <2>9 DEF InHeap, Current, Held
    <3>2. QueueInv'
      BY <1>1, <1>3, <1>6, <2>3, <3>1 DEF QueueInv
    <3>3. \A x \in Objects, f \in BOOLEAN : Kind(x, f)' <=> Kind(x, f)
      BY <1>1, <1>6, <3>1 DEF Kind
    <3>4. OwnersInv'
      BY <1>1, <3>3 DEF IInv, OwnersInv
    <3> QED
      BY <1>1, <1>7, <1>9, <2>4, <2>5, <2>6, <2>7, <3>2, <3>3, <3>4 DEF IInv
  <2> QED
    BY <2>8, <2>9
<1> QED
  BY <1>2, <1>8, <1>9 DEF o

(* The update returns: what was updated waits to be pushed back.           *)
LEMMA ReturnStepKeeps ==
  ASSUME IInv, ReturnStep
  PROVE  /\ IInv' /\ needed' = needed /\ updating' = NoObject /\ phase' \in {"step", "done"}
         /\ \A x \in Objects, f \in BOOLEAN : Kind(x, f)' <=> Kind(x, f)
<1>1. /\ phase = "step" /\ updating # NoObject
      /\ updating' = NoObject /\ m_current_step_obj' = NoObject /\ it' = (it + 1) % Batch
      /\ ItemsRT' = ItemsRT /\ Items' = Items /\ Registration' = Registration
      /\ b_RT' = b_RT /\ alive' = alive /\ needed' = needed /\ executed' = executed /\ erased' = erased
  BY DEF ReturnStep, owners
<1>2. \/ /\ m_current_step_obj = NoObject /\ ItemsProcessed' = ItemsProcessed /\ phase' = phase
      \/ /\ m_current_step_obj # NoObject /\ phase' \in {"step", "done"}
         /\ \E p \in Interval : ItemsProcessed' = Append(ItemsProcessed, [Object |-> updating, at |-> p])
  BY DEF ReturnStep, SelfUnregistered
<1>3. /\ Items \in Seq(Entries) /\ ItemsProcessed \in Seq(Entries) /\ it \in Nat
      /\ updating \in Objects /\ m_current_step_obj \in {NoObject, updating} /\ NoObject \notin Objects
      /\ Distinct(ItemsRT) /\ ObjectOnce(Items) /\ ObjectOnce(ItemsProcessed)
      /\ Held(Items) \cap Held(ItemsProcessed) = {}
      /\ m_current_step_obj \notin Held(Items) \cup Held(ItemsProcessed)
      /\ QueueSound(Realtime, InHeap, Registration)
      /\ \A x \in Busy : NoneFor(Registration, x)
      /\ Held(Items) \cap executed = {}
  BY <1>1, ObjectsAssumption DEF IInv, TypeOK, ListsInv, QueueInv, FrameInv, PhaseInv, m_processing_now
<1>4. Realtime' = Realtime /\ Busy' \subseteq Busy
  BY <1>1, <1>3 DEF Realtime, Busy, Current
<1>5. /\ ItemsProcessed' \in Seq(Entries) /\ ObjectOnce(ItemsProcessed')
      /\ Held(ItemsProcessed') = Held(ItemsProcessed) \cup Current
  <2>1. CASE m_current_step_obj = NoObject /\ ItemsProcessed' = ItemsProcessed
    BY <1>3, <2>1 DEF Current
  <2>2. CASE /\ m_current_step_obj # NoObject
             /\ \E p \in Interval : ItemsProcessed' = Append(ItemsProcessed, [Object |-> updating, at |-> p])
    <3>1. PICK p \in Interval : ItemsProcessed' = Append(ItemsProcessed, [Object |-> updating, at |-> p])
      BY <2>2
    <3> DEFINE e == [Object |-> updating, at |-> p]
    <3>2. e \in Entries /\ e.Object = updating
      BY <1>3, <3>1, BoundsAssumption DEF Entries, Interval
    <3>3. updating \notin Held(ItemsProcessed) /\ Current = {updating}
      BY <1>3, <2>2 DEF Current
    <3> HIDE DEF e
    <3>4. \A x \in Entries : x.Object = updating =>
            /\ Append(ItemsProcessed, x) \in Seq(Entries) /\ ObjectOnce(Append(ItemsProcessed, x))
            /\ Held(Append(ItemsProcessed, x)) = Held(ItemsProcessed) \cup {updating}
      <4>1. ItemsProcessed \in Seq(Entries) /\ ObjectOnce(ItemsProcessed) /\ updating \in Objects
        BY <1>3
      <4> QED
        BY <3>3, <4>1, ItemEntered
    <3>5. ItemsProcessed' = Append(ItemsProcessed, e)
      BY <3>1 DEF e
    <3> QED
      BY <3>2, <3>3, <3>4, <3>5
  <2> QED
    BY <1>2, <2>1, <2>2
<1>6. phase' \in {"step", "done"}
  BY <1>1, <1>2
<1>7. InHeap' = InHeap
  BY <1>1, <1>3, <1>5 DEF InHeap, Current
<1>8. TypeOK'
  <2>1. it' \in Nat
    BY <1>1, <1>3, BatchCount
  <2> QED
    BY <1>1, <1>5, <1>6, <2>1 DEF IInv, TypeOK
<1>9. PhaseInv'
  BY <1>1, <1>6 DEF PhaseInv
<1>10. ListsInv'
  <2>1. NoObject \notin Held(Items) \cup Held(ItemsProcessed')
    BY <1>3 DEF Held
  <2>2. Held(Items) \cap Held(ItemsProcessed') = {}
    BY <1>3, <1>5 DEF Current
  <2> QED
    BY <1>1, <1>3, <1>5, <2>1, <2>2 DEF ListsInv
<1>11. QueueInv'
  BY <1>1, <1>3, <1>4, <1>7 DEF QueueInv
<1>12. \A x \in Objects, f \in BOOLEAN : Kind(x, f)' <=> Kind(x, f)
  BY <1>1, <1>4, <1>7 DEF Kind
<1>13. OwnersInv'
  BY <1>1, <1>12 DEF IInv, OwnersInv
<1>14. FrameInv' /\ MissedInv'
  BY <1>1, <1>3, <1>6 DEF FrameInv, MissedInv
<1> QED
  BY <1>1, <1>6, <1>8, <1>9, <1>10, <1>11, <1>12, <1>13, <1>14 DEF IInv

-----------------------------------------------------------------------------
(* The scheduler starts with empty lists.                                  *)
LEMMA InitIInv == Init => IInv
<1> SUFFICES ASSUME Init PROVE IInv
  OBVIOUS
<1>1. /\ ItemsRT = <<>> /\ Items = <<>> /\ ItemsProcessed = <<>> /\ Registration = <<>>
      /\ m_current_step_obj = NoObject /\ b_RT = {} /\ alive = {} /\ needed = {}
      /\ phase = "idle" /\ it = 0 /\ updating = NoObject /\ executed = {} /\ erased = 0
      /\ NoObject \notin Objects
  BY ObjectsAssumption DEF Init
<1>2. TypeOK
  BY <1>1 DEF TypeOK
<1>3. PhaseInv /\ FrameInv /\ MissedInv /\ m_processing_now = FALSE
  BY <1>1 DEF PhaseInv, FrameInv, MissedInv, m_processing_now
<1>4. Realtime = {} /\ InHeap = {} /\ Held(Items) = {} /\ Held(ItemsProcessed) = {}
  <2>1. Realtime = {}
    BY <1>1 DEF Realtime, ToSet
  <2>2. Held(Items) = {} /\ Held(ItemsProcessed) = {}
    BY <1>1 DEF Held, InItems
  <2>3. Current = {}
    BY <1>1 DEF Current
  <2> QED
    BY <2>1, <2>2, <2>3 DEF InHeap
<1>5. ListsInv
  <2>1. Distinct(ItemsRT)
    BY <1>1 DEF Distinct
  <2>2. ObjectOnce(Items) /\ ObjectOnce(ItemsProcessed)
    BY <1>1 DEF ObjectOnce
  <2> QED
    BY <1>1, <1>4, <2>1, <2>2 DEF ListsInv
<1>6. Len(Registration) = 0
  BY <1>1
<1>7. QueueInv
  <2>1. FirstErases(Realtime, InHeap, Registration) /\ Alternate(Registration)
    BY <1>6 DEF FirstErases, Alternate
  <2> QED
    BY <1>3, <1>4, <2>1 DEF QueueInv, QueueSound
<1>8. \A o, f : ~Kind(o, f)
  BY <1>4, <1>6 DEF Kind, HasKind, WillRegister
<1>9. OwnersInv
  BY <1>8 DEF OwnersInv
<1> QED
  BY <1>2, <1>3, <1>5, <1>7, <1>9 DEF IInv

(* A step that changes nothing.                                            *)
LEMMA StutterKeeps ==
  ASSUME IInv, UNCHANGED vars
  PROVE  IInv' /\ \A x, f : Kind(x, f)' <=> Kind(x, f)
<1>1. /\ UNCHANGED <<lists, Registration, m_current_step_obj>>
      /\ ItemsRT' = ItemsRT /\ Items' = Items /\ ItemsProcessed' = ItemsProcessed
      /\ Registration' = Registration /\ m_current_step_obj' = m_current_step_obj
      /\ b_RT' = b_RT /\ alive' = alive /\ needed' = needed
      /\ phase' = phase /\ it' = it /\ executed' = executed /\ updating' = updating /\ erased' = erased
  BY DEF vars, lists, owners, frame
<1>2. TypeOK' /\ PhaseInv' /\ m_processing_now' = m_processing_now
  BY <1>1 DEF IInv, TypeOK, PhaseInv, m_processing_now
<1>3. ListsInv' /\ QueueInv'
  BY <1>1, <1>2, ListsAlone
<1>4. \A x, f : Kind(x, f)' <=> Kind(x, f)
  BY <1>1, ListsAlone
<1>5. OwnersInv'
  BY <1>1, <1>4 DEF IInv, OwnersInv
<1>6. FrameInv'
  BY <1>1, <1>2 DEF IInv, FrameInv
<1>7. Missed' = Missed /\ MissedInv'
  BY <1>1 DEF IInv, Missed, Seen, MissedInv
<1> QED
  BY <1>2, <1>3, <1>4, <1>5, <1>6, <1>7 DEF IInv

(* The steps, one by one.                                                  *)
LEMMA NextCases ==
  ASSUME Next
  PROVE  \/ \E o \in Objects, rt \in BOOLEAN : Register(o, rt)
         \/ \E o \in Objects : Unregister(o) \/ Delete(o)
         \/ \E o \in Objects : Create(o) \/ NotNeeded(o)
         \/ \E ticks \in 0..1 : Update(ticks)
         \/ UpdateRT \/ ReturnRT \/ EndRT
         \/ ProcessStep
         \/ ReturnStep
         \/ EndUpdate
BY DEF Next, Working

(* Every step keeps the invariant.                                         *)
LEMMA StepKeeps == IInv /\ [Next]_vars => IInv'
<1> SUFFICES ASSUME IInv, [Next]_vars PROVE IInv'
  OBVIOUS
<1>1. ASSUME NEW o \in Objects, NEW rt \in BOOLEAN, Register(o, rt) PROVE IInv'
  BY <1>1, RegisterKeeps
<1>2. ASSUME NEW o \in Objects, Unregister(o) \/ Delete(o) PROVE IInv'
  BY <1>2, UnregisterKeeps
<1>3. ASSUME NEW o \in Objects, Create(o) \/ NotNeeded(o) PROVE IInv'
  BY <1>3, CreateKeeps
<1>4. ASSUME NEW ticks \in 0..1, Update(ticks) PROVE IInv'
  BY <1>4, UpdateKeeps
<1>5. ASSUME UpdateRT \/ ReturnRT \/ EndRT PROVE IInv'
  BY <1>5, RealtimeKeeps
<1>6. ASSUME ProcessStep PROVE IInv'
  BY <1>6, ProcessKeeps
<1>7. ASSUME ReturnStep PROVE IInv'
  BY <1>7, ReturnStepKeeps
<1>8. ASSUME EndUpdate PROVE IInv'
  BY <1>8, EndUpdateKeeps
<1>9. ASSUME UNCHANGED vars PROVE IInv'
  BY <1>9, StutterKeeps
<1>10. ASSUME Next PROVE IInv'
  BY <1>1, <1>2, <1>3, <1>4, <1>5, <1>6, <1>7, <1>8, <1>10, NextCases
<1> QED
  BY <1>9, <1>10

(* The inductive invariant holds.                                          *)
LEMMA Invariance == Spec => []IInv
BY InitIInv, StepKeeps, PTL DEF Spec

-----------------------------------------------------------------------------
(* The properties.                                                         *)

(* Every variable keeps its type through every call and every frame.       *)
THEOREM TypeCorrect == Spec => []TypeOK
<1>1. IInv => TypeOK
  BY DEF IInv
<1> QED
  BY <1>1, Invariance, PTL

(* No object has two places.                                               *)
LEMMA OnePlace ==
  ASSUME TypeOK, ListsInv, QueueInv, NEW o \in Objects
  PROVE  Cardinality({<<"rt", k>> : k \in {k \in DOMAIN ItemsRT : ItemsRT[k] = o}}
                \cup {<<"items", k>> : k \in {k \in DOMAIN Items : Items[k].Object = o}}
                \cup {<<"done", k>> : k \in {k \in DOMAIN ItemsProcessed :
                                               ItemsProcessed[k].Object = o}}) <= 1
<1> DEFINE RT == {<<"rt", k>> : k \in {k \in DOMAIN ItemsRT : ItemsRT[k] = o}}
           Heap == {<<"items", k>> : k \in {k \in DOMAIN Items : Items[k].Object = o}}
           Done == {<<"done", k>> : k \in {k \in DOMAIN ItemsProcessed : ItemsProcessed[k].Object = o}}
           All == RT \cup Heap \cup Done
<1>1. /\ ItemsRT \in Seq(Objects) /\ Items \in Seq(Entries) /\ ItemsProcessed \in Seq(Entries)
      /\ o # NoObject
  BY ObjectsAssumption DEF TypeOK
<1>2. /\ DOMAIN ItemsRT = 1..Len(ItemsRT) /\ DOMAIN Items = 1..Len(Items)
      /\ DOMAIN ItemsProcessed = 1..Len(ItemsProcessed)
  BY <1>1
<1>3. \A x, y \in RT : x = y
  BY <1>1, <1>2 DEF ListsInv, Distinct
<1>4. \A x, y \in Heap : x = y
  BY <1>1, <1>2 DEF ListsInv, ObjectOnce
<1>5. \A x, y \in Done : x = y
  BY <1>1, <1>2 DEF ListsInv, ObjectOnce
<1>6. RT # {} => o \in Realtime
  BY <1>1, Elements DEF Realtime
<1>7. Heap # {} => o \in Held(Items)
  BY DEF Held, InItems
<1>8. Done # {} => o \in Held(ItemsProcessed)
  BY DEF Held, InItems
<1>9. Realtime \cap InHeap = {} /\ Held(Items) \cap Held(ItemsProcessed) = {}
  BY DEF QueueInv, QueueSound, ListsInv
<1> HIDE DEF RT, Heap, Done
<1>10. (RT = {} \/ Heap = {}) /\ (RT = {} \/ Done = {}) /\ (Heap = {} \/ Done = {})
  BY <1>6, <1>7, <1>8, <1>9 DEF InHeap
<1>11. \A x, y \in All : x = y
  BY <1>3, <1>4, <1>5, <1>10
<1> HIDE DEF All
<1>12. Cardinality(All) <= 1
  <2>1. CASE All = {}
    BY <2>1, FS_EmptySet
  <2>2. CASE All # {}
    <3>1. PICK x : x \in All
      BY <2>2
    <3>2. All = {x}
      BY <1>11, <3>1
    <3> QED
      BY <3>2, FS_Singleton
  <2> QED
    BY <2>1, <2>2
<1> QED
  BY <1>12 DEF All, RT, Heap, Done

(* Whatever registers, unregisters, deletes and creates objects while      *)
(* Update runs, its loops go through lists in which every object has one   *)
(* place, and only living ones have any.                                   *)
THEOREM ListsAreSound == Spec => []ListsSound
<1>1. IInv => ListsSound
  <2> SUFFICES ASSUME IInv PROVE ListsSound
    OBVIOUS
  <2>1. TypeOK /\ ListsInv /\ QueueInv
    BY DEF IInv
  <2>2. ListedOnce
    BY <2>1, OnePlace DEF ListedOnce
  <2>3. LoopsSeeTheLiving
    <3> SUFFICES ASSUME m_processing_now, NEW o \in Objects, o \in ToSet(ItemsRT) \/ InItems(Items, o)
                 PROVE  o \in alive
      BY DEF LoopsSeeTheLiving
    <3>1. o \in Busy
      BY DEF Busy, Realtime, Held
    <3> QED
      BY <3>1, BusyRegistered
  <2> QED
    BY <2>1, <2>2, <2>3 DEF ListsSound
<1> QED
  BY <1>1, Invariance, PTL

(* What an update can start with has not been updated in this frame.       *)
LEMMA StartsOnce ==
  ASSUME IInv, [Next]_vars, updating = NoObject, updating' # NoObject
  PROVE  updating' \notin executed
<1>1. ASSUME NEW o \in Objects, NEW rt \in BOOLEAN, Register(o, rt) PROVE FALSE
  BY <1>1 DEF Register
<1>2. ASSUME NEW o \in Objects, Unregister(o) \/ Delete(o) PROVE FALSE
  BY <1>2 DEF Unregister, Delete
<1>3. ASSUME NEW o \in Objects, Create(o) \/ NotNeeded(o) PROVE FALSE
  BY <1>3 DEF Create, NotNeeded
<1>4. ASSUME NEW ticks \in 0..1, Update(ticks) PROVE FALSE
  BY <1>4 DEF Update
<1>5. ASSUME UpdateRT PROVE updating' \notin executed
  <2>1. /\ phase = "rt" /\ it <= Len(ItemsRT) /\ updating' = ItemsRT[it]
    BY <1>5 DEF UpdateRT
  <2>2. it \in 1..Len(ItemsRT)
    BY <2>1 DEF IInv, TypeOK, PhaseInv
  <2> QED
    BY <2>1, <2>2 DEF IInv, FrameInv
<1>6. ASSUME ReturnRT \/ EndRT PROVE FALSE
  BY <1>6 DEF ReturnRT, EndRT
<1>7. ASSUME ProcessStep PROVE updating' \notin executed
  <2>1. PICK k \in DOMAIN Items : phase = "step" /\ updating' = Items[k].Object
    BY <1>7 DEF ProcessStep
  <2>2. Items \in Seq(Entries)
    BY DEF IInv, TypeOK
  <2>3. k \in 1..Len(Items)
    BY <2>1, <2>2
  <2>4. updating' \in Objects
    BY <2>1, <2>2, <2>3, HeldItems
  <2>5. updating' \in Held(Items)
    BY <2>1, <2>4 DEF Held, InItems
  <2> QED
    BY <2>1, <2>5 DEF IInv, FrameInv, m_processing_now
<1>8. ASSUME ReturnStep \/ EndUpdate PROVE FALSE
  BY <1>8, EndUpdateKeeps DEF ReturnStep
<1>9. ASSUME UNCHANGED vars PROVE FALSE
  BY <1>9 DEF vars
<1>10. CASE Next
  BY <1>1, <1>2, <1>3, <1>4, <1>5, <1>6, <1>7, <1>8, <1>10, NextCases
<1> QED
  BY <1>9, <1>10

(* No object is updated twice in a frame, whatever the updates register    *)
(* and unregister: the assertion VERIFY(dbg_startframe != dwFrame).        *)
THEOREM UpdatedOncePerFrame == Spec => OncePerFrame
<1>1. IInv /\ [Next]_vars =>
        [updating = NoObject /\ updating' # NoObject => updating' \notin executed]_vars
  BY StartsOnce
<1> QED
  BY <1>1, Invariance, PTL DEF Spec, OncePerFrame

(* What the loop has passed when it ends is the whole list.                *)
LEMMA LoopEnds ==
  ASSUME IInv, EndRT
  PROVE  Cardinality({o \in ToSet(ItemsRT) \cap needed : o \notin executed}) <= erased
<1>1. phase = "rt" /\ updating = NoObject /\ it > Len(ItemsRT)
  BY DEF EndRT
<1>2. ItemsRT \in Seq(Objects) /\ it \in Nat
  BY DEF IInv, TypeOK
<1>3. \A o : o \in ToSet(ItemsRT) <=> \E k \in 1..Len(ItemsRT) : ItemsRT[k] = o
  BY <1>2, Elements
<1>4. \A k \in 1..Len(ItemsRT) : k <= Seen
  BY <1>1, <1>2 DEF Seen
<1>5. {o \in ToSet(ItemsRT) \cap needed : o \notin executed} = Missed
  BY <1>3, <1>4 DEF Missed
<1> QED
  BY <1>1, <1>5 DEF IInv, MissedInv

(* Every real-time object that needs it is updated in every frame, but for *)
(* at most one for each real-time object unregistered by an update of the  *)
(* same frame.                                                             *)
THEOREM RealtimeAreUpdated == Spec => RealtimeUpdated
<1>1. IInv /\ [Next]_vars =>
        [EndRT => Cardinality({o \in ToSet(ItemsRT) \cap needed : o \notin executed}) <= erased]_vars
  BY LoopEnds
<1> QED
  BY <1>1, Invariance, PTL DEF Spec, RealtimeUpdated

-----------------------------------------------------------------------------
(* The scheduler implements ShedulerSpec.                                  *)
RegisteredNow == {o \in Objects : Registered(o)}

(* Steps that register and unregister nobody.                              *)
LEMMA SameRegistered ==
  ASSUME IInv, IInv', \A x \in Objects, f \in BOOLEAN : Kind(x, f)' <=> Kind(x, f)
  PROVE  RegisteredNow' = RegisteredNow
<1>1. \A o \in Objects : Registered(o) <=> Kind(o, TRUE) \/ Kind(o, FALSE)
  BY RegisteredIsKind DEF IInv
<1>2. \A o \in Objects : Registered(o)' <=> Kind(o, TRUE)' \/ Kind(o, FALSE)'
  BY RegisteredIsKindNext DEF IInv
<1>3. \A o \in Objects : (Kind(o, TRUE)' <=> Kind(o, TRUE)) /\ (Kind(o, FALSE)' <=> Kind(o, FALSE))
  OBVIOUS
<1>4. \A o \in Objects : Registered(o)' <=> Registered(o)
  BY <1>1, <1>2, <1>3
<1> QED
  BY <1>4 DEF RegisteredNow

(* One object is registered no more.                                       *)
LEMMA OneLess ==
  ASSUME IInv, IInv', NEW o \in Objects,
         \A x \in Objects, f \in BOOLEAN : Kind(x, f)' <=> x # o /\ Kind(x, f)
  PROVE  RegisteredNow' = RegisteredNow \ {o}
<1>1. \A x \in Objects : Registered(x) <=> Kind(x, TRUE) \/ Kind(x, FALSE)
  BY RegisteredIsKind DEF IInv
<1>2. \A x \in Objects : Registered(x)' <=> Kind(x, TRUE)' \/ Kind(x, FALSE)'
  BY RegisteredIsKindNext DEF IInv
<1>3. \A x \in Objects : /\ Kind(x, TRUE)' <=> x # o /\ Kind(x, TRUE)
                         /\ Kind(x, FALSE)' <=> x # o /\ Kind(x, FALSE)
  OBVIOUS
<1>4. \A x \in Objects : Registered(x)' <=> x # o /\ Registered(x)
  BY <1>1, <1>2, <1>3
<1> QED
  BY <1>4 DEF RegisteredNow

(* One object is registered that was not.                                  *)
LEMMA OneMore ==
  ASSUME IInv, IInv', NEW o \in Objects, NEW rt \in BOOLEAN,
         \A x \in Objects, f \in BOOLEAN : Kind(x, f)' <=> (x = o /\ f = rt) \/ (x # o /\ Kind(x, f))
  PROVE  RegisteredNow' = RegisteredNow \cup {o}
<1>1. \A x \in Objects : Registered(x) <=> Kind(x, TRUE) \/ Kind(x, FALSE)
  BY RegisteredIsKind DEF IInv
<1>2. \A x \in Objects : Registered(x)' <=> Kind(x, TRUE)' \/ Kind(x, FALSE)'
  BY RegisteredIsKindNext DEF IInv
<1>3. Kind(o, rt)'
  OBVIOUS
<1>4. Registered(o)'
  <2>1. CASE rt = TRUE
    BY <1>2, <1>3, <2>1
  <2>2. CASE rt = FALSE
    BY <1>2, <1>3, <2>2
  <2> QED
    BY <2>1, <2>2
<1>5. \A x \in Objects : x # o => /\ Kind(x, TRUE)' <=> Kind(x, TRUE)
                                  /\ Kind(x, FALSE)' <=> Kind(x, FALSE)
  OBVIOUS
<1>6. \A x \in Objects : x # o => (Registered(x)' <=> Registered(x))
  BY <1>1, <1>2, <1>5
<1> QED
  BY <1>4, <1>6 DEF RegisteredNow

(* Calls is a truth value, and tells when the scheduler runs alone.        *)
LEMMA CallsIs ==
  /\ Calls \in BOOLEAN /\ (Calls <=> phase = "idle" \/ updating # NoObject)
  /\ Calls' \in BOOLEAN /\ (Calls' <=> phase' = "idle" \/ updating' # NoObject)
BY DEF Calls

(* Nothing is promised before the scheduler starts.                        *)
LEMMA PromiseInit == Init => Promise!Init
<1> SUFFICES ASSUME Init PROVE Promise!Init
  OBVIOUS
<1>1. /\ ItemsRT = <<>> /\ Items = <<>> /\ ItemsProcessed = <<>> /\ Registration = <<>>
      /\ m_current_step_obj = NoObject /\ phase = "idle" /\ updating = NoObject /\ needed = {}
      /\ NoObject \notin Objects
  BY ObjectsAssumption DEF Init
<1>2. TypeOK
  BY InitIInv DEF IInv
<1>3. \A o, f : ~Kind(o, f)
  <2>1. Realtime = {}
    BY <1>1 DEF Realtime, ToSet
  <2>2. InHeap = {}
    BY <1>1 DEF InHeap, Held, InItems, Current
  <2> QED
    BY <1>1, <2>1, <2>2 DEF Kind, HasKind, WillRegister
<1>4. \A o \in Objects : ~Registered(o)
  BY <1>2, <1>3, RegisteredIsKind
<1>5. RegisteredNow = {}
  BY <1>4 DEF RegisteredNow
<1>6. Calls = TRUE
  BY <1>1, CallsIs
<1> QED
  BY <1>1, <1>5, <1>6 DEF Promise!Init, RegisteredNow

(* Where the step goes in ShedulerSpec, told by what it changes there.     *)
LEMMA PromiseSteps ==
  /\ \A o \in Objects :
       /\ (Calls /\ o \notin RegisteredNow /\ RegisteredNow' = RegisteredNow \cup {o}
           /\ updating' = updating /\ needed' = needed /\ Calls' = Calls) => Promise!Next
       /\ (Calls /\ RegisteredNow' = RegisteredNow \ {o}
           /\ updating' = updating /\ needed' = needed /\ Calls' = Calls) => Promise!Next
       /\ (~Calls /\ o \notin needed /\ RegisteredNow' = RegisteredNow \ {o}
           /\ updating' = updating /\ needed' = needed /\ Calls' = Calls) => Promise!Next
       /\ (~Calls /\ o \in RegisteredNow /\ o \in needed /\ RegisteredNow' = RegisteredNow
           /\ updating' = o /\ needed' = needed /\ Calls' = TRUE) => Promise!Next
  /\ (Calls /\ needed' \in SUBSET Objects /\ RegisteredNow' = RegisteredNow
      /\ updating' = updating /\ Calls' = Calls) => Promise!Next
  /\ (updating' = NoObject /\ (updating # NoObject => ~Calls')
      /\ RegisteredNow' = RegisteredNow /\ needed' = needed) => Promise!Next
  /\ (RegisteredNow' = RegisteredNow /\ updating' = updating /\ needed' = needed
      /\ Calls' = Calls) => UNCHANGED Promise!vars
<1>1. ASSUME NEW o \in Objects, Calls, o \notin RegisteredNow, RegisteredNow' = RegisteredNow \cup {o},
             updating' = updating, needed' = needed, Calls' = Calls
      PROVE  Promise!Next
  <2>1. Promise!Register(o)
    BY <1>1 DEF Promise!Register, RegisteredNow
  <2> QED
    BY <2>1 DEF Promise!Next
<1>2. ASSUME NEW o \in Objects, Calls, RegisteredNow' = RegisteredNow \ {o},
             updating' = updating, needed' = needed, Calls' = Calls
      PROVE  Promise!Next
  <2>1. Promise!Unregister(o)
    BY <1>2 DEF Promise!Unregister, RegisteredNow
  <2> QED
    BY <2>1 DEF Promise!Next
<1>3. ASSUME NEW o \in Objects, ~Calls, o \notin needed, RegisteredNow' = RegisteredNow \ {o},
             updating' = updating, needed' = needed, Calls' = Calls
      PROVE  Promise!Next
  <2>1. Promise!Forget(o)
    BY <1>3 DEF Promise!Forget, RegisteredNow
  <2> QED
    BY <2>1 DEF Promise!Next
<1>4. ASSUME NEW o \in Objects, ~Calls, o \in RegisteredNow, o \in needed, RegisteredNow' = RegisteredNow,
             updating' = o, needed' = needed, Calls' = TRUE
      PROVE  Promise!Next
  <2>1. Promise!Execute(o)
    BY <1>4 DEF Promise!Execute, RegisteredNow
  <2> QED
    BY <2>1 DEF Promise!Next
<1>5. ASSUME Calls, needed' \in SUBSET Objects, RegisteredNow' = RegisteredNow,
             updating' = updating, Calls' = Calls
      PROVE  Promise!Next
  <2>1. Promise!Need(needed')
    BY <1>5 DEF Promise!Need, RegisteredNow
  <2>2. \E N \in SUBSET Objects : Promise!Need(N)
    BY <1>5, <2>1
  <2> QED
    BY <2>2 DEF Promise!Next
<1>6. ASSUME updating' = NoObject, updating # NoObject => ~Calls', RegisteredNow' = RegisteredNow,
             needed' = needed
      PROVE  Promise!Next
  <2>1. Promise!Proceed
    BY <1>6 DEF Promise!Proceed, RegisteredNow
  <2> QED
    BY <2>1 DEF Promise!Next
<1>7. ASSUME RegisteredNow' = RegisteredNow, updating' = updating, needed' = needed, Calls' = Calls
      PROVE  UNCHANGED Promise!vars
  BY <1>7 DEF Promise!vars, RegisteredNow
<1> QED
  BY <1>1, <1>2, <1>3, <1>4, <1>5, <1>6, <1>7

(* The calls of the owners.                                                *)
LEMMA PromiseCalls ==
  ASSUME IInv, NEW o \in Objects,
         \/ \E rt \in BOOLEAN : Register(o, rt)
         \/ Unregister(o) \/ Delete(o) \/ Create(o) \/ NotNeeded(o)
  PROVE  Promise!Next
<1>1. Calls /\ updating' = updating /\ phase' = phase
  BY DEF Register, Unregister, Delete, Create, NotNeeded, frame
<1>2. Calls' = Calls
  BY <1>1, CallsIs
<1>3. CASE \E rt \in BOOLEAN : Register(o, rt)
  <2>1. PICK rt \in BOOLEAN : Register(o, rt)
    BY <1>3
  <2>2. IInv' /\ \A x \in Objects, f \in BOOLEAN :
                    Kind(x, f)' <=> (x = o /\ f = rt) \/ (x # o /\ Kind(x, f))
    BY <2>1, RegisterKeeps
  <2>3. RegisteredNow' = RegisteredNow \cup {o}
    BY <2>2, OneMore
  <2>4. o \notin RegisteredNow /\ needed' = needed
    BY <2>1 DEF Register, RegisteredNow
  <2> QED
    BY <1>1, <1>2, <2>3, <2>4, PromiseSteps
<1>4. CASE Unregister(o)
  <2>1. IInv' /\ \A x \in Objects, f \in BOOLEAN : Kind(x, f)' <=> x # o /\ Kind(x, f)
    BY <1>4, UnregisterKeeps
  <2>2. RegisteredNow' = RegisteredNow \ {o}
    BY <2>1, OneLess
  <2>3. needed' = needed
    BY <1>4 DEF Unregister, owners
  <2> QED
    BY <1>1, <1>2, <2>2, <2>3, PromiseSteps
<1>5. CASE Delete(o)
  <2>1. IInv' /\ \A x \in Objects, f \in BOOLEAN : Kind(x, f)' <=> x # o /\ Kind(x, f)
    BY <1>5, UnregisterKeeps
  <2>2. RegisteredNow' = RegisteredNow \ {o}
    BY <2>1, OneLess
  <2>3. o \notin RegisteredNow
    BY <1>5 DEF Delete, RegisteredNow
  <2>4. RegisteredNow' = RegisteredNow
    BY <2>2, <2>3
  <2>5. needed' \in SUBSET Objects
    BY <2>1 DEF IInv, TypeOK
  <2> QED
    BY <1>1, <1>2, <2>4, <2>5, PromiseSteps
<1>6. CASE Create(o) \/ NotNeeded(o)
  <2>1. IInv' /\ \A x, f : Kind(x, f)' <=> Kind(x, f)
    BY <1>6, CreateKeeps
  <2>2. RegisteredNow' = RegisteredNow
    BY <2>1, SameRegistered
  <2>3. needed' \in SUBSET Objects
    BY <2>1 DEF IInv, TypeOK
  <2> QED
    BY <1>1, <1>2, <2>2, <2>3, PromiseSteps
<1> QED
  BY <1>3, <1>4, <1>5, <1>6

(* The loop over the real-time objects.                                    *)
LEMMA PromiseRealtime ==
  ASSUME IInv, UpdateRT \/ ReturnRT \/ EndRT
  PROVE  Promise!Next \/ UNCHANGED Promise!vars
<1>1. IInv' /\ (\A x, f : Kind(x, f)' <=> Kind(x, f)) /\ needed' = needed
  BY RealtimeKeeps
<1>2. RegisteredNow' = RegisteredNow
  BY <1>1, SameRegistered
<1>3. NoObject \notin Objects
  BY ObjectsAssumption
<1>4. CASE UpdateRT
  <2>1. /\ phase = "rt" /\ phase' = "rt" /\ updating = NoObject /\ it <= Len(ItemsRT)
        /\ \/ ItemsRT[it] \in needed /\ updating' = ItemsRT[it]
           \/ updating' = updating
    BY <1>4 DEF UpdateRT
  <2>2. ~Calls
    BY <2>1, CallsIs
  <2>3. CASE ItemsRT[it] \in needed /\ updating' = ItemsRT[it]
    <3>1. ItemsRT \in Seq(Objects) /\ it \in 1..Len(ItemsRT)
      BY <2>1 DEF IInv, TypeOK, PhaseInv
    <3>2. ItemsRT[it] \in Busy
      BY <3>1, Elements DEF Busy, Realtime
    <3>3. ItemsRT[it] \in Objects /\ Registered(ItemsRT[it])
      BY <2>1, <3>2, BusyRegistered DEF m_processing_now
    <3>4. ItemsRT[it] \in RegisteredNow
      BY <3>3 DEF RegisteredNow
    <3>5. Calls' = TRUE
      BY <1>3, <2>3, <3>3, CallsIs
    <3> QED
      BY <1>1, <1>2, <2>2, <2>3, <3>3, <3>4, <3>5, PromiseSteps
  <2>4. CASE updating' = updating
    <3>1. Calls' = Calls
      BY <2>1, <2>4, CallsIs
    <3> QED
      BY <1>1, <1>2, <2>4, <3>1, PromiseSteps
  <2> QED
    BY <2>1, <2>3, <2>4
<1>5. CASE ReturnRT
  <2>1. phase' = "rt" /\ updating' = NoObject
    BY <1>5 DEF ReturnRT
  <2>2. ~Calls'
    BY <2>1, CallsIs
  <2> QED
    BY <1>1, <1>2, <2>1, <2>2, PromiseSteps
<1>6. CASE EndRT
  <2>1. phase = "rt" /\ phase' = "step" /\ updating = NoObject /\ updating' = updating
    BY <1>6 DEF EndRT
  <2>2. Calls' = Calls
    BY <2>1, CallsIs
  <2> QED
    BY <1>1, <1>2, <2>1, <2>2, PromiseSteps
<1> QED
  BY <1>4, <1>5, <1>6

(* The top of the heap is updated, forgotten, or an entry without object   *)
(* is thrown away.                                                         *)
LEMMA PromiseProcess ==
  ASSUME IInv, ProcessStep
  PROVE  Promise!Next \/ UNCHANGED Promise!vars
<1>1. phase = "step" /\ phase' = "step" /\ updating = NoObject /\ NoObject \notin Objects
  BY ObjectsAssumption DEF ProcessStep
<1>2. ~Calls
  BY <1>1, CallsIs
<1>3. IInv' /\ needed' = needed
  BY ProcessKeeps
<1>4. CASE /\ updating' \in needed /\ updating' \in Held(Items)
           /\ \A x \in Objects, f \in BOOLEAN : Kind(x, f)' <=> Kind(x, f)
  <2>1. RegisteredNow' = RegisteredNow
    BY <1>3, <1>4, SameRegistered
  <2>2. updating' \in Busy
    BY <1>4 DEF Busy
  <2>3. updating' \in Objects /\ Registered(updating')
    BY <1>1, <2>2, BusyRegistered DEF m_processing_now
  <2>4. updating' \in RegisteredNow
    BY <2>3 DEF RegisteredNow
  <2>5. Calls' = TRUE
    BY <1>1, <2>3, CallsIs
  <2> QED
    BY <1>2, <1>3, <1>4, <2>1, <2>3, <2>4, <2>5, PromiseSteps
<1>5. CASE /\ updating' = updating
           /\ \E o \in Objects \ needed :
                \A x \in Objects, f \in BOOLEAN : Kind(x, f)' <=> x # o /\ Kind(x, f)
  <2>1. PICK o \in Objects \ needed :
               \A x \in Objects, f \in BOOLEAN : Kind(x, f)' <=> x # o /\ Kind(x, f)
    BY <1>5
  <2>2. RegisteredNow' = RegisteredNow \ {o}
    BY <1>3, <2>1, OneLess
  <2>3. Calls' = Calls
    BY <1>1, <1>5, CallsIs
  <2> QED
    BY <1>2, <1>3, <1>5, <2>1, <2>2, <2>3, PromiseSteps
<1>6. CASE /\ updating' = updating
           /\ \A x \in Objects, f \in BOOLEAN : Kind(x, f)' <=> Kind(x, f)
  <2>1. RegisteredNow' = RegisteredNow
    BY <1>3, <1>6, SameRegistered
  <2>2. Calls' = Calls
    BY <1>1, <1>6, CallsIs
  <2> QED
    BY <1>3, <1>6, <2>1, <2>2, PromiseSteps
<1> QED
  BY <1>4, <1>5, <1>6, ProcessKeeps

(* Every step of the scheduler is one of ShedulerSpec, or changes nothing  *)
(* there.                                                                  *)
LEMMA PromiseNext == IInv /\ [Next]_vars => Promise!Next \/ UNCHANGED Promise!vars
<1> SUFFICES ASSUME IInv, [Next]_vars PROVE Promise!Next \/ UNCHANGED Promise!vars
  OBVIOUS
<1>1. ASSUME NEW o \in Objects, NEW rt \in BOOLEAN, Register(o, rt) PROVE Promise!Next
  BY <1>1, PromiseCalls
<1>2. ASSUME NEW o \in Objects, Unregister(o) \/ Delete(o) PROVE Promise!Next
  BY <1>2, PromiseCalls
<1>3. ASSUME NEW o \in Objects, Create(o) \/ NotNeeded(o) PROVE Promise!Next
  BY <1>3, PromiseCalls
<1>4. ASSUME NEW ticks \in 0..1, Update(ticks) PROVE Promise!Next
  <2>1. IInv' /\ \A x \in Objects, f \in BOOLEAN : Kind(x, f)' <=> Kind(x, f)
    BY <1>4, UpdateKeeps
  <2>2. RegisteredNow' = RegisteredNow
    BY <2>1, SameRegistered
  <2>3. phase = "idle" /\ updating' = updating /\ needed' = needed
    BY <1>4 DEF Update, owners
  <2>4. updating = NoObject
    BY <2>3 DEF IInv, PhaseInv
  <2> QED
    BY <2>2, <2>3, <2>4, PromiseSteps
<1>5. ASSUME UpdateRT \/ ReturnRT \/ EndRT PROVE Promise!Next \/ UNCHANGED Promise!vars
  BY <1>5, PromiseRealtime
<1>6. ASSUME ProcessStep PROVE Promise!Next \/ UNCHANGED Promise!vars
  BY <1>6, PromiseProcess
<1>7. ASSUME ReturnStep PROVE Promise!Next
  <2>1. /\ IInv' /\ needed' = needed /\ updating' = NoObject /\ phase' \in {"step", "done"}
        /\ \A x \in Objects, f \in BOOLEAN : Kind(x, f)' <=> Kind(x, f)
    BY <1>7, ReturnStepKeeps
  <2>2. RegisteredNow' = RegisteredNow
    BY <2>1, SameRegistered
  <2>3. ~Calls'
    BY <2>1, CallsIs
  <2> QED
    BY <2>1, <2>2, <2>3, PromiseSteps
<1>8. ASSUME EndUpdate PROVE Promise!Next
  <2>1. /\ IInv' /\ \A x \in Objects, f \in BOOLEAN : Kind(x, f)' <=> Kind(x, f)
        /\ updating = NoObject /\ updating' = NoObject /\ needed' = needed
    BY <1>8, EndUpdateKeeps
  <2>2. RegisteredNow' = RegisteredNow
    BY <2>1, SameRegistered
  <2> QED
    BY <2>1, <2>2, PromiseSteps
<1>9. ASSUME UNCHANGED vars PROVE UNCHANGED Promise!vars
  <2>1. IInv' /\ \A x, f : Kind(x, f)' <=> Kind(x, f)
    BY <1>9, StutterKeeps
  <2>2. RegisteredNow' = RegisteredNow
    BY <2>1, SameRegistered
  <2>3. phase' = phase /\ updating' = updating /\ needed' = needed
    BY <1>9 DEF vars, frame, owners
  <2>4. Calls' = Calls
    BY <2>3, CallsIs
  <2> QED
    BY <2>2, <2>3, <2>4, PromiseSteps
<1>10. ASSUME Next PROVE Promise!Next \/ UNCHANGED Promise!vars
  BY <1>1, <1>2, <1>3, <1>4, <1>5, <1>6, <1>7, <1>8, <1>10, NextCases
<1> QED
  BY <1>9, <1>10

(* An object is updated only while it is registered and needs it, and no   *)
(* step of the scheduler ends a registration but the object's own          *)
(* unregistration, or the loop's passing an object that needs no updates.  *)
THEOREM DoesWhatItPromises == Spec => KeepsPromise
<1>1. Init => Promise!Init
  BY PromiseInit
<1>2. IInv /\ [Next]_vars => [Promise!Next]_Promise!vars
  BY PromiseNext
<1> QED
  BY <1>1, <1>2, Invariance, PTL DEF Spec, KeepsPromise, Promise!Spec

=============================================================================
