---------------------- MODULE WorldReplication_proofs -----------------------
(***************************************************************************)
(* WorldReplication, for any number of ids and of clients and for queues   *)
(* of any length: once the queue of a client has been handled its object   *)
(* list shows the tree of the server, and every event a client handles     *)
(* meets the objects and the parents it names.  The events on their way to *)
(* a client lead from the world that it sees to the tree of the server:    *)
(* that is the invariant, and every handler of the server is shown to      *)
(* append events that lead from the old tree to the new one.               *)
(***************************************************************************)
EXTENDS WorldReplication, SequenceLemmas

-----------------------------------------------------------------------------
(* What events do to a world, that is to who exists and who carries them.  *)

(* A thing may have been put where it is.                                  *)
MayCarry(p, x) == (x \in Bags /\ p \in Actors) \/ (x \in Items /\ p \in Actors \cup Bags)

With(A, x, p) == [ents |-> A.ents, par |-> [A.par EXCEPT ![x] = p]]
Bearing(A, x, p) == [ents |-> A.ents \cup {x}, par |-> [A.par EXCEPT ![x] = p]]
Without(A, x) == [ents |-> A.ents \ {x}, par |-> A.par]

Change(A, e, B) ==
  \/ /\ e.type = "spawn" /\ e.id \notin A.ents
     /\ e.dest = none \/ (e.dest \in A.ents /\ MayCarry(e.dest, e.id))
     /\ B = Bearing(A, e.id, e.dest)
  \/ /\ e.type = "take" /\ e.id \in A.ents /\ e.dest \in A.ents /\ A.par[e.id] = none
     /\ MayCarry(e.dest, e.id) /\ B = With(A, e.id, e.dest)
  \/ /\ e.type = "reject" /\ A.par[e.id] = e.dest /\ e.dest # none /\ B = With(A, e.id, none)
  \/ /\ e.type = "destroy" /\ e.dest = e.id /\ e.id \in A.ents /\ A.par[e.id] = none
     /\ (\A y \in ObjectIds : A.par[y] # e.id) /\ B = Without(A, e.id)
  \/ /\ e.type = "die" /\ e.dest \in Actors /\ e.id = e.dest /\ B = A

(* Events that turn A into B, one by one.                                  *)
Leads(A, q, B) ==
  \E T : T[0] = A /\ T[Len(q)] = B /\ \A n \in 1..Len(q) : Change(T[n - 1], q[n], T[n])

(* No event leads nowhere, an event to what it changes.                    *)
LEMMA LeadsNowhere == ASSUME NEW A PROVE Leads(A, <<>>, A)
<1> DEFINE T == [n \in 0..0 |-> A]
<1>1. T[0] = A /\ Len(<<>>) = 0 /\ \A n \in 1..0 : Change(T[n - 1], <<>>[n], T[n])
  OBVIOUS
<1> HIDE DEF T
<1> QED
  BY <1>1 DEF Leads

LEMMA LeadsOne == ASSUME NEW A, NEW B, NEW e, Change(A, e, B) PROVE Leads(A, <<e>>, B)
<1> DEFINE T == [n \in 0..1 |-> IF n = 0 THEN A ELSE B]
<1>1. T[0] = A /\ T[1] = B /\ Len(<<e>>) = 1 /\ <<e>>[1] = e
  OBVIOUS
<1> HIDE DEF T
<1>2. \A n \in 1..1 : Change(T[n - 1], <<e>>[n], T[n])
  <2>1. \A n \in 1..1 : n = 1 /\ n - 1 = 0
    OBVIOUS
  <2>2. Change(T[1 - 1], <<e>>[1], T[1])
    <3>1. 1 - 1 = 0
      OBVIOUS
    <3> QED
      BY <1>1, <3>1
  <2> QED
    BY <2>1, <2>2
<1> QED
  BY <1>1, <1>2 DEF Leads

(* Events after events.                                                    *)
LEMMA LeadsOn ==
  ASSUME NEW V, NEW p \in Seq(V), NEW q \in Seq(V), NEW A, NEW B, NEW C, Leads(A, p, B), Leads(B, q, C)
  PROVE  Leads(A, p \o q, C)
<1> DEFINE P == Len(p)
           Q == Len(q)
<1>1. PICK S : S[0] = A /\ S[P] = B /\ \A n \in 1..P : Change(S[n - 1], p[n], S[n])
  BY DEF Leads
<1>2. PICK R : R[0] = B /\ R[Q] = C /\ \A n \in 1..Q : Change(R[n - 1], q[n], R[n])
  BY DEF Leads
<1> DEFINE T == [n \in 0..(P + Q) |-> IF n <= P THEN S[n] ELSE R[n - P]]
<1>3. /\ P \in Nat /\ Q \in Nat /\ Len(p \o q) = P + Q
      /\ \A i \in 1 .. P + Q : (p \o q)[i] = IF i <= P THEN p[i] ELSE q[i - P]
  BY ConcatProperties, LenProperties
<1> HIDE DEF P, Q
<1>4. T[0] = A
  BY <1>1, <1>3
<1>5. T[P + Q] = C
  <2>1. CASE Q = 0
    BY <1>1, <1>2, <1>3, <2>1
  <2>2. CASE Q # 0
    BY <1>1, <1>2, <1>3, <2>2
  <2> QED
    BY <2>1, <2>2
<1>6. ASSUME NEW n \in 1..(P + Q) PROVE Change(T[n - 1], (p \o q)[n], T[n])
  <2>1. CASE n <= P
    <3>1. T[n] = S[n] /\ T[n - 1] = S[n - 1] /\ n \in 1..P
      BY <1>3, <2>1
    <3> HIDE DEF T
    <3> QED
      BY <1>1, <1>3, <2>1, <3>1
  <2>2. CASE ~(n <= P)
    <3>1. T[n] = R[n - P] /\ n - P \in 1..Q
      BY <1>3, <2>2
    <3>2. T[n - 1] = R[(n - P) - 1]
      <4>1. CASE n = P + 1
        BY <1>1, <1>2, <1>3, <4>1
      <4>2. CASE n # P + 1
        BY <1>3, <2>2, <4>2
      <4> QED
        BY <4>1, <4>2
    <3>3. (p \o q)[n] = q[n - P]
      BY <1>3, <2>2
    <3>4. Change(R[(n - P) - 1], q[n - P], R[n - P])
      BY <1>2, <3>1
    <3> HIDE DEF T
    <3> QED
      BY <3>1, <3>2, <3>3, <3>4
  <2> QED
    BY <2>1, <2>2
<1> HIDE DEF T
<1> QED
  BY <1>3, <1>4, <1>5, <1>6 DEF Leads

(* Events in two parts.                                                    *)
LEMMA LeadsSplit ==
  ASSUME NEW V, NEW p \in Seq(V), NEW q \in Seq(V), NEW A, NEW C, Leads(A, p \o q, C)
  PROVE  \E B : Leads(A, p, B) /\ Leads(B, q, C)
<1> DEFINE P == Len(p)
           Q == Len(q)
<1>3. /\ P \in Nat /\ Q \in Nat /\ Len(p \o q) = P + Q
      /\ \A i \in 1 .. P + Q : (p \o q)[i] = IF i <= P THEN p[i] ELSE q[i - P]
  BY ConcatProperties, LenProperties
<1>1. PICK T : T[0] = A /\ T[P + Q] = C /\ \A n \in 1..(P + Q) : Change(T[n - 1], (p \o q)[n], T[n])
  BY <1>3 DEF Leads
<1> HIDE DEF P, Q
<1>2. \A n \in 1..P : Change(T[n - 1], p[n], T[n])
  <2>1. \A n \in 1..P : n \in 1..(P + Q) /\ (p \o q)[n] = p[n]
    BY <1>3
  <2> QED
    BY <1>1, <2>1
<1>4. Leads(A, p, T[P])
  BY <1>1, <1>2 DEF Leads, P
<1> DEFINE R == [n \in 0..Q |-> T[P + n]]
<1>5. R[0] = T[P] /\ R[Q] = C
  BY <1>1, <1>3
<1>6. ASSUME NEW n \in 1..Q PROVE Change(R[n - 1], q[n], R[n])
  <2>1. P + n \in 1..(P + Q) /\ (p \o q)[P + n] = q[n] /\ R[n] = T[P + n] /\ R[n - 1] = T[(P + n) - 1]
    BY <1>3
  <2> HIDE DEF R
  <2> QED
    BY <1>1, <2>1
<1> HIDE DEF R
<1>7. Leads(T[P], q, C)
  BY <1>5, <1>6 DEF Leads, Q
<1> QED
  BY <1>4, <1>7

(* Messages, each of which leads on.                                       *)
LEMMA LeadsThrough ==
  ASSUME NEW V, NEW ms \in Seq(Seq(V)), NEW T,
         \A i \in 1..Len(ms) : Leads(T[i - 1], ms[i], T[i])
  PROVE  Leads(T[0], FlattenSeq(ms), T[Len(ms)])
<1> DEFINE Through(s) == (\A i \in 1..Len(s) : Leads(T[i - 1], s[i], T[i])) =>
                            Leads(T[0], FlattenSeq(s), T[Len(s)])
           G == {s \in Seq(Seq(V)) : Through(s)}
<1>1. <<>> \in G
  <2>1. <<>> \in Seq(Seq(V)) /\ Len(<<>>) = 0
    OBVIOUS
  <2> QED
    BY <2>1, FlattenEmpty, LeadsNowhere
<1>2. ASSUME NEW s \in Seq(Seq(V)), NEW x \in Seq(V), s \in G PROVE Append(s, x) \in G
  <2> DEFINE a == Append(s, x)
             N == Len(s)
  <2>1. /\ a \in Seq(Seq(V)) /\ Len(a) = N + 1 /\ a[N + 1] = x /\ N \in Nat
        /\ \A i \in 1..N : a[i] = s[i]
    BY AppendProperties, LenProperties
  <2>2. FlattenSeq(a) = FlattenSeq(s) \o x /\ FlattenSeq(s) \in Seq(V)
    BY FlattenAppend, FlattenType
  <2> HIDE DEF a
  <2> SUFFICES ASSUME \A i \in 1..(N + 1) : Leads(T[i - 1], a[i], T[i])
               PROVE  Leads(T[0], FlattenSeq(a), T[N + 1])
    BY <2>1 DEF a
  <2>3. \A i \in 1..N : Leads(T[i - 1], s[i], T[i])
    <3>1. \A i \in 1..N : i \in 1..(N + 1)
      BY <2>1
    <3> QED
      BY <2>1, <3>1
  <2>4. Leads(T[0], FlattenSeq(s), T[N])
    BY <1>2, <2>3
  <2>5. Leads(T[N], x, T[N + 1])
    <3>1. N + 1 \in 1..(N + 1) /\ (N + 1) - 1 = N
      BY <2>1
    <3> QED
      BY <2>1, <3>1
  <2> HIDE DEF N
  <2> QED
    BY <2>2, <2>4, <2>5, LeadsOn
<1> HIDE DEF G
<1>3. Seq(Seq(V)) \subseteq G
  BY <1>1, <1>2, SeqInduction
<1> QED
  BY <1>3 DEF G

(* Messages for each of a set of things, in the order of their enumeration: *)
(* each leads from the world in which it has not been handled, R[N] for    *)
(* those that have, to the one in which it has.                            *)
Messages(F, S) == {F[x] : x \in S}
OneByOne(F, S, R) ==
  /\ \A x, y \in S : F[x] = F[y] => x = y
  /\ \A N \in SUBSET S : \A x \in S : x \notin N => Leads(R[N], F[x], R[N \cup {x}])

(* A message for each member of a set, in whatever order they are taken.   *)
LEMMA LeadsForEach ==
  ASSUME NEW V, NEW S, IsFiniteSet(S), NEW F \in [S -> Seq(V)], NEW R, OneByOne(F, S, R),
         NEW M, M = Messages(F, S)
  PROVE  /\ SetToSeq(M) \in Seq(Seq(V)) /\ ToSet(SetToSeq(M)) = M
         /\ Leads(R[{}], FlattenSeq(SetToSeq(M)), R[S])
<1> DEFINE s == SetToSeq(M)
<1>0. /\ M = {F[x] : x \in S}
      /\ \A x, y \in S : F[x] = F[y] => x = y
      /\ \A N \in SUBSET S : \A x \in S : x \notin N => Leads(R[N], F[x], R[N \cup {x}])
  BY DEF Messages, OneByOne
<1>1. IsFiniteSet(M)
  <2>1. F \in Surjection(S, M)
    BY <1>0 DEF Surjection
  <2> QED
    BY <2>1, FS_Surjection
<1>2. /\ s \in Seq(M) /\ ToSet(s) = M
      /\ \A x : x \in M <=> \E i \in 1..Len(s) : s[i] = x
      /\ \A i, j \in 1..Len(s) : s[i] = s[j] => i = j
  BY <1>1, Enumerated
<1> HIDE DEF s
<1>3. M \subseteq Seq(V)
  BY <1>0
<1>4. s \in Seq(Seq(V)) /\ Len(s) \in Nat
  BY <1>2, <1>3, SeqMonotonic, LenProperties
<1> DEFINE Done(i) == {x \in S : \E j \in 1..i : s[j] = F[x]}
           T == [i \in 0..Len(s) |-> R[Done(i)]]
<1>5. Done(0) = {}
  OBVIOUS
<1>6. Done(Len(s)) = S
  <2>1. ASSUME NEW x \in S PROVE \E j \in 1..Len(s) : s[j] = F[x]
    <3>1. F[x] \in M
      BY <1>0
    <3> QED
      BY <1>2, <3>1
  <2> QED
    BY <2>1
<1>7. ASSUME NEW i \in 1..Len(s) PROVE Leads(T[i - 1], s[i], T[i])
  <2>1. PICK x \in S : s[i] = F[x]
    <3>1. s[i] \in M
      BY <1>2
    <3> QED
      BY <1>0, <3>1
  <2>2. x \notin Done(i - 1)
    <3> SUFFICES ASSUME NEW j \in 1..(i - 1), s[j] = F[x] PROVE FALSE
      OBVIOUS
    <3>1. j \in 1..Len(s) /\ j # i
      BY <1>4
    <3> QED
      BY <1>2, <2>1, <3>1
  <2>3. Done(i) = Done(i - 1) \cup {x}
    <3>1. ASSUME NEW y \in Done(i) PROVE y \in Done(i - 1) \cup {x}
      <4>1. PICK j \in 1..i : s[j] = F[y]
        BY <3>1
      <4>2. CASE j = i
        BY <1>0, <2>1, <3>1, <4>1, <4>2
      <4>3. CASE j # i
        <5>1. j \in 1..(i - 1)
          BY <1>4, <4>3
        <5> QED
          BY <3>1, <4>1, <5>1
      <4> QED
        BY <4>2, <4>3
    <3>2. ASSUME NEW y \in Done(i - 1) PROVE y \in Done(i)
      <4>1. PICK j \in 1..(i - 1) : s[j] = F[y]
        BY <3>2
      <4>2. j \in 1..i
        BY <1>4
      <4> QED
        BY <3>2, <4>1, <4>2
    <3>3. x \in Done(i)
      <4>1. i \in 1..i
        BY <1>4
      <4> QED
        BY <2>1, <4>1
    <3> QED
      BY <3>1, <3>2, <3>3
  <2>4. T[i] = R[Done(i)] /\ T[i - 1] = R[Done(i - 1)]
    <3>1. i \in 0..Len(s) /\ i - 1 \in 0..Len(s)
      BY <1>4
    <3> HIDE DEF Done
    <3> QED
      BY <3>1
  <2>5. Done(i - 1) \in SUBSET S
    OBVIOUS
  <2> HIDE DEF T, Done
  <2>6. Leads(R[Done(i - 1)], F[x], R[Done(i - 1) \cup {x}])
    BY <1>0, <2>2, <2>5
  <2> QED
    BY <2>1, <2>3, <2>4, <2>6
<1>8. T[0] = R[{}] /\ T[Len(s)] = R[S]
  <2>1. 0 \in 0..Len(s) /\ Len(s) \in 0..Len(s)
    BY <1>4
  <2>2. T[0] = R[Done(0)] /\ T[Len(s)] = R[Done(Len(s))]
    BY <2>1
  <2> HIDE DEF T, Done
  <2> QED
    BY <1>5, <1>6, <2>2
<1> HIDE DEF T, Done
<1>9. Leads(T[0], FlattenSeq(s), T[Len(s)])
  BY <1>4, <1>7, LeadsThrough
<1> QED
  BY <1>2, <1>4, <1>8, <1>9 DEF s

(* A world is well formed; an object list shows a world, but for what was  *)
(* given to the dead and for the queue of objects to destroy.              *)
Formed(A) ==
  /\ A.ents \subseteq ObjectIds /\ A.par \in [ObjectIds -> ObjectIds \cup {none}]
  /\ \A x \in ObjectIds : A.par[x] # none => x \in A.ents /\ A.par[x] \in A.ents /\ MayCarry(A.par[x], x)

Sees(s, A) ==
  /\ s \in ObjectList /\ Formed(A) /\ s.unmet = {} /\ s.destroy_queue \subseteq s.objs
  /\ A.ents = s.objs \ s.destroy_queue /\ s.dead \subseteq s.objs
  /\ \A x \in ObjectIds : s.parent[x] = A.par[x] \/ (s.parent[x] = none /\ A.par[x] \in s.dead)

(* What the handling of e may do to an object list besides.                *)
Handles(s, e, t) ==
  /\ \A x \in t.destroy_queue : x \in s.destroy_queue \/ (e.type = "destroy" /\ x = e.id)
  /\ s.dead \subseteq t.dead
  /\ \A a \in t.dead : a \in s.dead \/ (e.type = "die" /\ a = e.dest)
  /\ \A b \in t.dropping :
       b \in s.dropping \/ (e.type = "die" /\ s.parent[b] = e.dest /\ e.dest \in t.dead)
  /\ \A x \in ObjectIds :
       t.parent[x] = s.parent[x] \/ (x = e.id /\ e.type \in {"spawn", "take", "reject"})

(* What the names are, and are not.                                        *)
LEMMA Names ==
  /\ Actors \subseteq ObjectIds /\ Bags \subseteq ObjectIds /\ Items \subseteq ObjectIds
  /\ none \notin ObjectIds /\ none \notin Actors /\ none \notin Bags
  /\ Actors \cap Bags = {} /\ Actors \cap Items = {} /\ Bags \cap Items = {}
  /\ \A p, x : MayCarry(p, x) => p \in ObjectIds /\ x \in ObjectIds /\ p # x /\ x \notin Actors
BY NamesDiffer DEF ObjectIds, MayCarry

(* What a change of one parent, a birth and a death keep.                  *)
LEMMA FormedWith ==
  ASSUME NEW A, Formed(A), NEW x \in A.ents, NEW p, p = none \/ (p \in A.ents /\ MayCarry(p, x))
  PROVE  Formed(With(A, x, p))
<1>1. /\ With(A, x, p).ents = A.ents /\ With(A, x, p).par = [A.par EXCEPT ![x] = p]
  BY DEF With
<1>2. x \in ObjectIds /\ p \in ObjectIds \cup {none}
  BY Names DEF Formed
<1> QED
  BY <1>1, <1>2 DEF Formed

LEMMA FormedBearing ==
  ASSUME NEW A, Formed(A), NEW x \in ObjectIds, x \notin A.ents, NEW p, p = none \/ (p \in A.ents /\ MayCarry(p, x))
  PROVE  Formed(Bearing(A, x, p))
<1>1. /\ Bearing(A, x, p).ents = A.ents \cup {x} /\ Bearing(A, x, p).par = [A.par EXCEPT ![x] = p]
  BY DEF Bearing
<1>2. x \in ObjectIds /\ p \in ObjectIds \cup {none}
  BY Names DEF Formed
<1> QED
  BY <1>1, <1>2 DEF Formed

LEMMA FormedWithout ==
  ASSUME NEW A, Formed(A), NEW x \in A.ents, A.par[x] = none, \A y \in ObjectIds : A.par[y] # x
  PROVE  Formed(Without(A, x))
<1>1. /\ Without(A, x).ents = A.ents \ {x} /\ Without(A, x).par = A.par
  BY DEF Without
<1> QED
  BY <1>1 DEF Formed

(* H_SetParent sets the parent and nothing besides.                        *)
LEMMA ParentSet ==
  ASSUME NEW s \in ObjectList, NEW x \in ObjectIds, NEW p \in ObjectIds \cup {none}
  PROVE  LET t == H_SetParent(s, x, p) IN
         /\ t \in ObjectList /\ t.objs = s.objs /\ t.dead = s.dead /\ t.destroy_queue = s.destroy_queue
         /\ t.dropping = s.dropping /\ t.unmet = s.unmet /\ t.parent = [s.parent EXCEPT ![x] = p]
BY DEF H_SetParent, ObjectList

(* The parent of what the server carries nowhere else is set.              *)
LEMMA SetSeen ==
  ASSUME NEW s, NEW A, Sees(s, A), NEW x \in A.ents, NEW p, p = none \/ (p \in A.ents /\ MayCarry(p, x))
  PROVE  Sees(H_SetParent(s, x, p), With(A, x, p))
<1>1. s \in ObjectList /\ x \in ObjectIds /\ p \in ObjectIds \cup {none} /\ Formed(A)
  BY Names DEF Sees, Formed
<1> DEFINE t == H_SetParent(s, x, p)
           B == With(A, x, p)
<1>2. /\ t \in ObjectList /\ t.objs = s.objs /\ t.dead = s.dead /\ t.destroy_queue = s.destroy_queue
      /\ t.unmet = s.unmet /\ t.parent = [s.parent EXCEPT ![x] = p]
  BY <1>1, ParentSet
<1>3. B.ents = A.ents /\ B.par = [A.par EXCEPT ![x] = p] /\ Formed(B)
  BY <1>1, FormedWith DEF With
<1>4. s.parent \in [ObjectIds -> ObjectIds \cup {none}] /\ A.par \in [ObjectIds -> ObjectIds \cup {none}]
  BY <1>1 DEF ObjectList, Formed
<1> HIDE DEF t, B
<1>5. \A y \in ObjectIds : t.parent[y] = B.par[y] \/ (t.parent[y] = none /\ B.par[y] \in t.dead)
  BY <1>2, <1>3, <1>4 DEF Sees
<1>6. Sees(t, B)
  BY <1>2, <1>3, <1>5 DEF Sees
<1> QED
  BY <1>6 DEF t, B

(* A list keeps showing a world in which the dead were given something.    *)
LEMMA KeptSeen ==
  ASSUME NEW s, NEW A, Sees(s, A), NEW x \in A.ents, NEW p, p = none \/ (p \in A.ents /\ MayCarry(p, x)),
         s.parent[x] = none, p = none \/ p \in s.dead
  PROVE  Sees(s, With(A, x, p))
<1>1. s \in ObjectList /\ x \in ObjectIds /\ p \in ObjectIds \cup {none} /\ Formed(A)
  BY Names DEF Sees, Formed
<1> DEFINE B == With(A, x, p)
<1>3. B.ents = A.ents /\ B.par = [A.par EXCEPT ![x] = p] /\ Formed(B)
  BY <1>1, FormedWith DEF With
<1>4. A.par \in [ObjectIds -> ObjectIds \cup {none}]
  BY <1>1 DEF Formed
<1> HIDE DEF B
<1>5. \A y \in ObjectIds : s.parent[y] = B.par[y] \/ (s.parent[y] = none /\ B.par[y] \in s.dead)
  BY <1>3, <1>4 DEF Sees
<1>6. Sees(s, B)
  BY <1>3, <1>5 DEF Sees
<1> QED
  BY <1>6 DEF B

(* What is handled by doing nothing, or by H_SetParent.                    *)
LEMMA HandledThing ==
  ASSUME NEW s \in ObjectList, NEW e \in Event
  PROVE  /\ Handles(s, e, s)
         /\ \A x \in ObjectIds, p \in ObjectIds \cup {none} :
              x = e.id /\ e.type \in {"spawn", "take", "reject"} => Handles(s, e, H_SetParent(s, x, p))
<1>1. Handles(s, e, s)
  BY DEF Handles
<1>2. ASSUME NEW x \in ObjectIds, NEW p \in ObjectIds \cup {none}, x = e.id, e.type \in {"spawn", "take", "reject"}
      PROVE Handles(s, e, H_SetParent(s, x, p))
  <2> DEFINE t == H_SetParent(s, x, p)
  <2>1. /\ t.dead = s.dead /\ t.destroy_queue = s.destroy_queue
        /\ t.dropping = s.dropping /\ t.parent = [s.parent EXCEPT ![x] = p]
    BY ParentSet
  <2> HIDE DEF t
  <2>2. s.parent \in [ObjectIds -> ObjectIds \cup {none}]
    BY DEF ObjectList
  <2>3. Handles(s, e, t)
    BY <1>2, <2>1, <2>2 DEF Handles
  <2> QED
    BY <2>3 DEF t
<1> QED
  BY <1>1, <1>2

(* Each event of a client, when it changes the world that the client sees. *)
LEMMA TakeSeen ==
  ASSUME NEW s, NEW A, Sees(s, A), NEW e \in Event, e.type = "take", NEW B, Change(A, e, B)
  PROVE  Sees(cl_Process_Event(s, e), B) /\ Handles(s, e, cl_Process_Event(s, e))
<1> DEFINE x == e.id
           p == e.dest
<1>1. x \in A.ents /\ p \in A.ents /\ A.par[x] = none /\ MayCarry(p, x) /\ B = With(A, x, p)
  BY DEF Change
<1>2. s \in ObjectList /\ x \in ObjectIds /\ p \in ObjectIds /\ p \in s.objs /\ x \in s.objs /\ x \notin s.destroy_queue
  BY <1>1, Names DEF Sees, Formed
<1>3. s.parent[x] = none
  BY <1>1, <1>2, Names DEF Sees, ObjectList
<1>4. cl_Process_Event(s, e) = OnTake(s, p, x)
  BY <1>2 DEF cl_Process_Event
<1> HIDE DEF x, p
<1>5. CASE p \in Actors /\ p \in s.dead
  <2>1. OnTake(s, p, x) = s
    BY <1>2, <1>5 DEF OnTake
  <2>2. Sees(s, With(A, x, p))
    BY <1>1, <1>3, <1>5, KeptSeen
  <2> QED
    BY <1>1, <1>2, <1>4, <2>1, <2>2, HandledThing
<1>6. CASE ~(p \in Actors /\ p \in s.dead)
  <2>1. OnTake(s, p, x) = H_SetParent(s, x, p)
    BY <1>2, <1>3, <1>6 DEF OnTake
  <2>2. Sees(H_SetParent(s, x, p), With(A, x, p))
    BY <1>1, SetSeen
  <2>3. Handles(s, e, H_SetParent(s, x, p))
    BY <1>2, HandledThing DEF x
  <2> QED
    BY <1>1, <1>4, <2>1, <2>2, <2>3
<1> QED
  BY <1>5, <1>6

LEMMA RejectSeen ==
  ASSUME NEW s, NEW A, Sees(s, A), NEW e \in Event, e.type = "reject", NEW B, Change(A, e, B)
  PROVE  Sees(cl_Process_Event(s, e), B) /\ Handles(s, e, cl_Process_Event(s, e))
<1> DEFINE x == e.id
           p == e.dest
<1>1. A.par[x] = p /\ p # none /\ B = With(A, x, none)
  BY DEF Change
<1>2. x \in ObjectIds
  BY DEF Event
<1>3. x \in A.ents /\ p \in A.ents
  BY <1>1, <1>2 DEF Sees, Formed
<1>4. s \in ObjectList /\ p \in s.objs /\ x \in s.objs /\ x \notin s.destroy_queue
  BY <1>3 DEF Sees
<1>5. s.parent[x] = p \/ (s.parent[x] = none /\ p \in s.dead)
  BY <1>1, <1>2 DEF Sees
<1>6. cl_Process_Event(s, e) = OnReject(s, p, x)
  BY <1>4 DEF cl_Process_Event
<1> HIDE DEF x, p
<1>7. CASE s.parent[x] = p
  <2>1. OnReject(s, p, x) = H_SetParent(s, x, none)
    BY <1>1, <1>4, <1>7 DEF OnReject
  <2>2. Sees(H_SetParent(s, x, none), With(A, x, none))
    BY <1>3, SetSeen
  <2>3. Handles(s, e, H_SetParent(s, x, none))
    BY <1>2, <1>4, HandledThing DEF x
  <2> QED
    BY <1>1, <1>6, <2>1, <2>2, <2>3
<1>8. CASE s.parent[x] = none /\ p \in s.dead
  <2>1. p \notin Bags
    BY <1>4, <1>8, Names DEF ObjectList
  <2>2. OnReject(s, p, x) = s
    BY <1>4, <1>8, <2>1 DEF OnReject
  <2>3. Sees(s, With(A, x, none))
    BY <1>3, <1>8, KeptSeen
  <2> QED
    BY <1>1, <1>4, <1>6, <2>2, <2>3, HandledThing
<1> QED
  BY <1>5, <1>7, <1>8

LEMMA DestroySeen ==
  ASSUME NEW s, NEW A, Sees(s, A), NEW e \in Event, e.type = "destroy", NEW B, Change(A, e, B)
  PROVE  Sees(cl_Process_Event(s, e), B) /\ Handles(s, e, cl_Process_Event(s, e))
<1>0. PICK x \in ObjectIds : x = e.id
  BY DEF Event
<1>1. /\ x = e.dest /\ x \in A.ents /\ A.par[x] = none /\ (\A y \in ObjectIds : A.par[y] # x)
      /\ B = Without(A, x)
  BY <1>0 DEF Change
<1>2. s \in ObjectList /\ x \in s.objs /\ x \notin s.destroy_queue /\ Formed(A)
  BY <1>1 DEF Sees
<1>3. s.parent[x] = none
  BY <1>1, <1>2, Names DEF Sees, ObjectList
<1>4. CarriedBy(s.parent, x) = {}
  BY <1>1, <1>2, Names DEF Sees, CarriedBy
<1>5. Within(s.parent, x) = {}
  BY <1>4 DEF Within
<1>6. PICK t : t = [s EXCEPT !.destroy_queue = s.destroy_queue \cup {x}]
  OBVIOUS
<1>7. cl_Process_Event(s, e) = t
  <2>1. cl_Process_Event(s, e) = OnDestroy(s, x)
    BY <1>0, <1>1, <1>2 DEF cl_Process_Event
  <2>2. OnDestroy(s, x) = t
    BY <1>3, <1>5, <1>6 DEF OnDestroy
  <2> QED
    BY <2>1, <2>2
<1>8. /\ t \in ObjectList /\ t.objs = s.objs /\ t.dead = s.dead /\ t.destroy_queue = s.destroy_queue \cup {x}
      /\ t.dropping = s.dropping /\ t.unmet = s.unmet /\ t.parent = s.parent
  BY <1>2, <1>6 DEF ObjectList
<1>9. Formed(B) /\ B.ents = A.ents \ {x} /\ B.par = A.par
  BY <1>1, <1>2, FormedWithout DEF Without
<1>10. Sees(t, B)
  BY <1>2, <1>8, <1>9 DEF Sees
<1>11. Handles(s, e, t)
  BY <1>0, <1>8 DEF Handles
<1> QED
  BY <1>7, <1>10, <1>11

LEMMA DieSeen ==
  ASSUME NEW s, NEW A, Sees(s, A), NEW e \in Event, e.type = "die", NEW B, Change(A, e, B)
  PROVE  Sees(cl_Process_Event(s, e), B) /\ Handles(s, e, cl_Process_Event(s, e))
<1>1. e.dest \in Actors /\ B = A /\ e.id = e.dest
  BY DEF Change
<1>2. s \in ObjectList
  BY DEF Sees
<1>3. CASE e.dest \notin s.objs
  <2>1. cl_Process_Event(s, e) = s
    BY <1>3 DEF cl_Process_Event
  <2> QED
    BY <1>1, <1>2, <2>1, HandledThing
<1>4. CASE e.dest \in s.objs
  <2>1. PICK t : t = [s EXCEPT !.dead = s.dead \cup {e.dest}, !.dropping = s.dropping \cup (Bags \cap CarriedBy(s.parent, e.dest))]
    OBVIOUS
  <2>2. cl_Process_Event(s, e) = t
    <3>1. cl_Process_Event(s, e) = OnDie(s, e.dest)
      BY <1>1, <1>4 DEF cl_Process_Event
    <3> QED
      BY <2>1, <3>1 DEF OnDie
  <2>3. /\ t \in ObjectList /\ t.objs = s.objs /\ t.dead = s.dead \cup {e.dest} /\ t.destroy_queue = s.destroy_queue
        /\ t.dropping = s.dropping \cup (Bags \cap CarriedBy(s.parent, e.dest)) /\ t.unmet = s.unmet /\ t.parent = s.parent
    BY <1>1, <1>2, <2>1 DEF ObjectList
  <2>4. Sees(t, A)
    BY <1>4, <2>3 DEF Sees
  <2>5. Handles(s, e, t)
    BY <2>3 DEF Handles, CarriedBy
  <2> QED
    BY <1>1, <2>2, <2>4, <2>5
<1> QED
  BY <1>3, <1>4

LEMMA SpawnSeen ==
  ASSUME NEW s, NEW A, Sees(s, A), NEW e \in Event, e.type = "spawn", e.id \notin s.destroy_queue, NEW B, Change(A, e, B)
  PROVE  Sees(g_sv_Spawn(s, e), B) /\ Handles(s, e, g_sv_Spawn(s, e))
<1>0. PICK x \in ObjectIds, p \in ObjectIds \cup {none} : x = e.id /\ p = e.dest
  BY DEF Event
<1>1. x \notin A.ents /\ (p = none \/ (p \in A.ents /\ MayCarry(p, x))) /\ B = Bearing(A, x, p)
  BY <1>0 DEF Change
<1>2. s \in ObjectList /\ Formed(A) /\ x \notin s.objs /\ x \notin s.destroy_queue
  BY <1>0, <1>1 DEF Sees
<1>3. PICK r : r = [s EXCEPT !.objs = s.objs \cup {x}, !.parent[x] = none]
  OBVIOUS
<1>4. /\ r \in ObjectList /\ r.objs = s.objs \cup {x} /\ r.dead = s.dead /\ r.destroy_queue = s.destroy_queue
      /\ r.dropping = s.dropping /\ r.unmet = s.unmet /\ r.parent = [s.parent EXCEPT ![x] = none]
      /\ s.parent \in [ObjectIds -> ObjectIds \cup {none}]
  BY <1>2, <1>3 DEF ObjectList
<1>5. PICK C : C = Bearing(A, x, none)
  OBVIOUS
<1>6. /\ Formed(C) /\ C.ents = A.ents \cup {x} /\ C.par = [A.par EXCEPT ![x] = none]
      /\ A.par \in [ObjectIds -> ObjectIds \cup {none}]
  BY <1>1, <1>2, <1>5, FormedBearing DEF Bearing, Formed
<1>7. Sees(r, C)
  <2>1. \A y \in ObjectIds : r.parent[y] = C.par[y] \/ (r.parent[y] = none /\ C.par[y] \in r.dead)
    BY <1>4, <1>6 DEF Sees
  <2> QED
    BY <1>2, <1>4, <1>6, <2>1 DEF Sees
<1>8. g_sv_Spawn(s, e) = cl_Process_Event(r, TakeEvent(p, x))
  BY <1>0, <1>3 DEF g_sv_Spawn
<1>9. ASSUME NEW t, Handles(r, TakeEvent(p, x), t) PROVE Handles(s, e, t)
  BY <1>0, <1>4, <1>9 DEF Handles, TakeEvent
<1>10. CASE p = none
  <2>1. p \notin r.objs
    BY <1>4, <1>10, Names DEF ObjectList
  <2>2. cl_Process_Event(r, TakeEvent(p, x)) = r
    BY <2>1 DEF cl_Process_Event, TakeEvent
  <2>3. Handles(s, e, r)
    BY <1>0, <1>4 DEF Handles
  <2> QED
    BY <1>1, <1>5, <1>7, <1>8, <1>10, <2>2, <2>3
<1>11. CASE p # none
  <2>1. TakeEvent(p, x) \in Event /\ TakeEvent(p, x).type = "take" /\ TakeEvent(p, x).id = x /\ TakeEvent(p, x).dest = p
    BY DEF TakeEvent, Event
  <2>2. With(C, x, p) = B
    <3>1. [[A.par EXCEPT ![x] = none] EXCEPT ![x] = p] = [A.par EXCEPT ![x] = p]
      BY <1>6
    <3> QED
      BY <1>1, <1>6, <3>1 DEF With, Bearing
  <2>3. C.par[x] = none
    BY <1>6
  <2>4. Change(C, TakeEvent(p, x), B)
    BY <1>1, <1>6, <1>11, <2>1, <2>2, <2>3 DEF Change
  <2>5. Sees(cl_Process_Event(r, TakeEvent(p, x)), B) /\ Handles(r, TakeEvent(p, x), cl_Process_Event(r, TakeEvent(p, x)))
    BY <1>7, <2>1, <2>4, TakeSeen
  <2> QED
    BY <1>8, <1>9, <2>5
<1> QED
  BY <1>10, <1>11

(* An event that changes a world changes in the same way what is seen.     *)
LEMMA EventSeen ==
  ASSUME NEW s, NEW A, Sees(s, A), NEW e \in Event, NEW B, Change(A, e, B),
         e.type = "spawn" => e.id \notin s.destroy_queue
  PROVE  Sees(ProcessGameEvent(s, e), B) /\ Handles(s, e, ProcessGameEvent(s, e))
<1>1. CASE e.type = "spawn"
  BY <1>1, SpawnSeen DEF ProcessGameEvent
<1>2. CASE e.type # "spawn"
  <2>1. ProcessGameEvent(s, e) = cl_Process_Event(s, e)
    BY <1>2 DEF ProcessGameEvent
  <2>2. e.type \in {"take", "reject", "destroy", "die"}
    BY <1>2 DEF Event
  <2> QED
    BY <2>1, <2>2, TakeSeen, RejectSeen, DestroySeen, DieSeen
<1> QED
  BY <1>1, <1>2

(* No id is given again to what a client is still to destroy.              *)
Fresh(q) ==
  \A i, j \in 1..Len(q) : j < i /\ q[i].type = "spawn" /\ q[j].type = "destroy" => q[i].id # q[j].id

(* Event by event, in a frame.                                             *)
Run(f, s, q) == f[0] = s /\ \A n \in 1..Len(q) : f[n] = ProcessGameEvent(f[n - 1], q[n])

(* ProcessGameEvents is such a run.                                        *)
LEMMA EventsRun ==
  ASSUME NEW s, NEW ms \in Seq(Seq(Event))
  PROVE  \E f : Run(f, s, FlattenSeq(ms)) /\ ProcessGameEvents(s, ms) = f[Len(FlattenSeq(ms))]
<1> DEFINE q == FlattenSeq(ms)
           N == Len(q)
           Step(f, n) == IF n = 0 THEN s ELSE ProcessGameEvent(f[n - 1], q[n])
           Solved == {n \in Nat : \E f : f = [i \in 0..n |-> Step(f, i)]}
<1>0. N \in Nat
  BY FlattenType, LenProperties
<1>1. 0 \in Solved
  <2> DEFINE f == [i \in 0..0 |-> s]
  <2>1. \A i \in 0..0 : Step(f, i) = s
    OBVIOUS
  <2>2. f = [i \in 0..0 |-> Step(f, i)]
    BY <2>1
  <2> QED
    BY <2>2
<1>2. ASSUME NEW n \in Nat, n \in Solved PROVE n + 1 \in Solved
  <2>1. PICK f : f = [i \in 0..n |-> Step(f, i)]
    BY <1>2
  <2> DEFINE g == [i \in 0..(n + 1) |-> Step(f, i)]
  <2>2. ASSUME NEW i \in 0..n PROVE g[i] = f[i]
    <3>1. f[i] = Step(f, i)
      BY <2>1
    <3>2. g[i] = Step(f, i)
      OBVIOUS
    <3> QED
      BY <3>1, <3>2
  <2>3. ASSUME NEW i \in 0..(n + 1) PROVE g[i] = Step(g, i)
    <3>1. i # 0 => i - 1 \in 0..n
      OBVIOUS
    <3>2. i # 0 => g[i - 1] = f[i - 1]
      BY <3>1, <2>2
    <3>3. g[i] = Step(f, i)
      OBVIOUS
    <3> HIDE DEF g
    <3> QED
      BY <3>2, <3>3
  <2>4. g = [i \in 0..(n + 1) |-> g[i]]
    OBVIOUS
  <2> HIDE DEF g
  <2>5. g = [i \in 0..(n + 1) |-> Step(g, i)]
    BY <2>3, <2>4
  <2>6. \E h : h = [i \in 0..(n + 1) |-> Step(h, i)]
    BY <2>5, Zenon
  <2>7. n + 1 \in Nat
    OBVIOUS
  <2> HIDE DEF Step
  <2> QED
    BY <2>6, <2>7, Zenon
<1> HIDE DEF Solved
<1>3. N \in Solved
  BY <1>0, <1>1, <1>2, SetInduction
<1>4. \E f : f = [i \in 0..N |-> Step(f, i)]
  BY <1>3 DEF Solved
<1> DEFINE F == CHOOSE f : f = [i \in 0..N |-> Step(f, i)]
<1>5. F = [i \in 0..N |-> Step(F, i)]
  BY <1>4
<1>6. ProcessGameEvents(s, ms) = F[N]
  BY DEF ProcessGameEvents
<1> HIDE DEF F
<1>7. F[0] = s
  <2>1. 0 \in 0..N
    BY <1>0
  <2>2. F[0] = Step(F, 0)
    BY <1>5, <2>1
  <2> QED
    BY <2>2
<1>8. ASSUME NEW n \in 1..N PROVE F[n] = ProcessGameEvent(F[n - 1], q[n])
  <2>1. n \in 0..N /\ n # 0
    BY <1>0
  <2>2. F[n] = Step(F, n)
    BY <1>5, <2>1
  <2> QED
    BY <2>1, <2>2
<1> QED
  BY <1>6, <1>7, <1>8 DEF Run

(* What the server's client sees of bags: exactly where they are.  D are   *)
(* the actors who were dead when the frame began, K those who die in it.   *)
BagsSeen(s, A, D, K) ==
  /\ \A b \in Bags : s.parent[b] = A.par[b]
  /\ \A a \in s.dead : a \in D \/ a \in K
  /\ \A b \in s.dropping : s.parent[b] \in K /\ s.parent[b] \in s.dead

BagEventSound(e, D, K) ==
  /\ e.id \in Bags /\ e.dest \in Actors =>
       e.dest \notin K /\ ((e.type = "spawn" /\ e.dest \notin D) \/ e.type = "reject")
  /\ e.type = "die" => e.dest \in K

(* An event keeps what is known of the bags.                               *)
LEMMA BagEventSeen ==
  ASSUME NEW D, NEW K, NEW s, NEW A, Sees(s, A), BagsSeen(s, A, D, K), NEW e \in Event, BagEventSound(e, D, K),
         NEW B, Change(A, e, B), NEW t, Sees(t, B), Handles(s, e, t)
  PROVE  BagsSeen(t, B, D, K)
<1>0. /\ s \in ObjectList /\ t \in ObjectList /\ Formed(A) /\ Formed(B)
      /\ A.par \in [ObjectIds -> ObjectIds \cup {none}]
      /\ s.dropping \subseteq Bags /\ t.dropping \subseteq Bags /\ s.dead \subseteq Actors /\ t.dead \subseteq Actors
  BY DEF Sees, Formed, ObjectList
<1>1. ASSUME NEW b \in Bags, ~(b = e.id /\ e.type \in {"spawn", "take", "reject"})
      PROVE  t.parent[b] = s.parent[b] /\ B.par[b] = A.par[b]
  <2>1. b \in ObjectIds
    BY Names
  <2>2. t.parent[b] = s.parent[b]
    BY <1>1, <2>1 DEF Handles
  <2>3. B.par[b] = A.par[b]
    BY <1>0, <1>1, <2>1 DEF Change, With, Bearing, Without
  <2> QED
    BY <2>2, <2>3
<1>2. ASSUME NEW b \in Bags, b = e.id, e.type \in {"spawn", "take", "reject"}
      PROVE  t.parent[b] = B.par[b]
  <2>0. b \in ObjectIds /\ none \notin t.dead
    BY <1>0, Names
  <2>1. t.parent[b] = B.par[b] \/ (t.parent[b] = none /\ B.par[b] \in t.dead)
    BY <2>0 DEF Sees
  <2>2. CASE e.type = "reject"
    <3>1. B.par[b] = none
      BY <1>0, <1>2, <2>0, <2>2 DEF Change, With
    <3> QED
      BY <2>0, <2>1, <3>1
  <2>3. CASE e.type = "take"
    <3>1. e.dest \in Actors
      BY <1>2, <2>3, Names DEF Change, MayCarry
    <3> QED
      BY <1>2, <2>3, <3>1 DEF BagEventSound
  <2>4. CASE e.type = "spawn"
    <3>1. B.par[b] = e.dest /\ (e.dest = none \/ MayCarry(e.dest, b))
      BY <1>0, <1>2, <2>0, <2>4 DEF Change, Bearing
    <3>2. CASE e.dest = none
      BY <2>0, <2>1, <3>1, <3>2
    <3>3. CASE e.dest # none
      <4>1. e.dest \in Actors
        BY <3>1, <3>3, Names DEF MayCarry
      <4>2. e.dest \notin D /\ e.dest \notin K
        BY <1>2, <2>4, <4>1 DEF BagEventSound
      <4>3. e.dest \notin t.dead
        BY <2>4, <4>2 DEF Handles, BagsSeen
      <4> QED
        BY <2>1, <3>1, <4>3
    <3> QED
      BY <3>2, <3>3
  <2> QED
    BY <1>2, <2>2, <2>3, <2>4
<1>3. \A b \in Bags : t.parent[b] = B.par[b]
  BY <1>1, <1>2 DEF BagsSeen
<1>4. \A a \in t.dead : a \in D \/ a \in K
  BY DEF Handles, BagsSeen, BagEventSound
<1>5. ASSUME NEW b \in t.dropping PROVE t.parent[b] \in K /\ t.parent[b] \in t.dead
  <2>0. b \in Bags /\ b \in ObjectIds
    BY <1>0, Names
  <2>1. CASE b \in s.dropping
    <3>1. s.parent[b] \in K /\ s.parent[b] \in s.dead /\ A.par[b] = s.parent[b] /\ s.parent[b] \in Actors
      BY <1>0, <2>0, <2>1 DEF BagsSeen
    <3>2. A.par[b] # none /\ b \in A.ents
      <4>1. A.par[b] # none
        BY <3>1, Names
      <4> QED
        BY <1>0, <2>0, <4>1 DEF Formed
    <3>3. ~(b = e.id /\ e.type \in {"spawn", "take", "reject"})
      <4>1. SUFFICES ASSUME b = e.id, e.type \in {"spawn", "take", "reject"} PROVE FALSE
        OBVIOUS
      <4>2. e.type = "reject" /\ e.dest = A.par[b]
        BY <3>2, <4>1 DEF Change
      <4> QED
        BY <2>0, <3>1, <4>1, <4>2 DEF BagEventSound
    <3>4. t.parent[b] = s.parent[b]
      BY <1>1, <2>0, <3>3
    <3> QED
      BY <3>1, <3>4 DEF Handles
  <2>2. CASE b \notin s.dropping
    <3>1. e.type = "die" /\ s.parent[b] = e.dest /\ e.dest \in t.dead
      BY <2>2 DEF Handles
    <3>2. t.parent[b] = s.parent[b]
      BY <1>1, <2>0, <3>1
    <3>3. e.dest \in K
      BY <3>1 DEF BagEventSound
    <3> QED
      BY <3>1, <3>2, <3>3
  <2> QED
    BY <2>1, <2>2
<1> QED
  BY <1>3, <1>4, <1>5 DEF BagsSeen

(* A frame that begins with nothing to destroy shows at its end the world  *)
(* that its events lead to.                                                *)
LEMMA RunSeen ==
  ASSUME NEW s, NEW A, Sees(s, A), s.destroy_queue = {}, NEW q \in Seq(Event), Fresh(q), NEW B, Leads(A, q, B),
         NEW f, Run(f, s, q)
  PROVE  /\ Sees(f[Len(q)], B)
         /\ \A D, K : BagsSeen(s, A, D, K) /\ (\A e \in ToSet(q) : BagEventSound(e, D, K)) =>
              BagsSeen(f[Len(q)], B, D, K)
<1>1. PICK T : T[0] = A /\ T[Len(q)] = B /\ \A n \in 1..Len(q) : Change(T[n - 1], q[n], T[n])
  BY DEF Leads
<1>2. PICK N \in Nat : N = Len(q)
  BY LenProperties
<1>3. \A n \in 1..N : q[n] \in Event /\ q[n] \in ToSet(q)
  BY <1>2, Elements, ElementOfSeq
<1> DEFINE Old(n) == \A x \in f[n].destroy_queue : \E j \in 1..n : q[j].type = "destroy" /\ q[j].id = x
           Shows == {n \in Nat : n <= N => Sees(f[n], T[n]) /\ Old(n)}
<1>4. 0 \in Shows
  BY <1>1 DEF Run
<1>5. ASSUME NEW n \in Nat, Sees(f[n], T[n]), Old(n), n + 1 <= N
      PROVE  Sees(f[n + 1], T[n + 1]) /\ Handles(f[n], q[n + 1], f[n + 1]) /\ Change(T[n], q[n + 1], T[n + 1])
  <2>1. n + 1 \in 1..N /\ (n + 1) - 1 = n
    BY <1>5
  <2>2. Change(T[n], q[n + 1], T[n + 1]) /\ f[n + 1] = ProcessGameEvent(f[n], q[n + 1]) /\ q[n + 1] \in Event
    BY <1>1, <1>2, <1>3, <2>1 DEF Run
  <2>3. q[n + 1].type = "spawn" => q[n + 1].id \notin f[n].destroy_queue
    <3>1. SUFFICES ASSUME q[n + 1].type = "spawn", q[n + 1].id \in f[n].destroy_queue PROVE FALSE
      OBVIOUS
    <3>2. PICK j \in 1..n : q[j].type = "destroy" /\ q[j].id = q[n + 1].id
      BY <1>5, <3>1
    <3>3. j \in 1..N /\ j < n + 1
      BY <1>5
    <3> QED
      BY <1>2, <2>1, <3>1, <3>2, <3>3 DEF Fresh
  <2> QED
    BY <1>5, <2>2, <2>3, EventSeen
<1>6. ASSUME NEW n \in Nat, n \in Shows PROVE n + 1 \in Shows
  <2> SUFFICES ASSUME n + 1 <= N PROVE Sees(f[n + 1], T[n + 1]) /\ Old(n + 1)
    OBVIOUS
  <2>1. Sees(f[n], T[n]) /\ Old(n)
    BY <1>2, <1>6
  <2>2. Sees(f[n + 1], T[n + 1]) /\ Handles(f[n], q[n + 1], f[n + 1])
    BY <1>5, <2>1
  <2>3. ASSUME NEW x \in f[n + 1].destroy_queue PROVE \E j \in 1..(n + 1) : q[j].type = "destroy" /\ q[j].id = x
    <3>1. CASE x \in f[n].destroy_queue
      <4>1. PICK j \in 1..n : q[j].type = "destroy" /\ q[j].id = x
        BY <2>1, <3>1
      <4>2. j \in 1..(n + 1)
        OBVIOUS
      <4> QED
        BY <4>1, <4>2
    <3>2. CASE x \notin f[n].destroy_queue
      <4>1. q[n + 1].type = "destroy" /\ q[n + 1].id = x
        BY <2>2, <2>3, <3>2 DEF Handles
      <4>2. n + 1 \in 1..(n + 1)
        OBVIOUS
      <4> QED
        BY <4>1, <4>2
    <3> QED
      BY <3>1, <3>2
  <2> QED
    BY <2>2, <2>3
<1>7. Nat \subseteq Shows
  <2> HIDE DEF Shows
  <2> QED
    BY <1>4, <1>6, SetInduction
<1>8. \A n \in Nat : n <= N => Sees(f[n], T[n]) /\ Old(n)
  BY <1>7
<1>9. Sees(f[N], B)
  <2>1. N <= N
    BY <1>2
  <2> HIDE DEF Old
  <2> QED
    BY <1>1, <1>2, <1>8, <2>1
<1>10. ASSUME NEW D, NEW K, BagsSeen(s, A, D, K), \A e \in ToSet(q) : BagEventSound(e, D, K)
       PROVE  BagsSeen(f[N], B, D, K)
  <2> DEFINE Bagged == {n \in Nat : n <= N => BagsSeen(f[n], T[n], D, K)}
  <2>1. 0 \in Bagged
    BY <1>1, <1>10 DEF Run
  <2>2. ASSUME NEW n \in Nat, n \in Bagged PROVE n + 1 \in Bagged
    <3> SUFFICES ASSUME n + 1 <= N PROVE BagsSeen(f[n + 1], T[n + 1], D, K)
      OBVIOUS
    <3>1. n <= N /\ n + 1 \in 1..N
      BY <1>2
    <3>2. BagsSeen(f[n], T[n], D, K)
      BY <2>2, <3>1
    <3>3. Sees(f[n], T[n]) /\ Old(n)
      BY <1>8, <3>1
    <3>4. Sees(f[n + 1], T[n + 1]) /\ Handles(f[n], q[n + 1], f[n + 1]) /\ Change(T[n], q[n + 1], T[n + 1])
      <4> HIDE DEF Old
      <4> QED
        BY <1>5, <3>3
    <3>5. q[n + 1] \in Event /\ BagEventSound(q[n + 1], D, K)
      BY <1>3, <1>10, <3>1
    <3> QED
      BY <3>2, <3>3, <3>4, <3>5, BagEventSeen
  <2>3. Nat \subseteq Bagged
    <3> HIDE DEF Bagged
    <3> QED
      BY <2>1, <2>2, SetInduction
  <2>4. N \in Bagged
    BY <2>3
  <2> QED
    BY <1>1, <1>2, <2>4
<1> QED
  BY <1>2, <1>9, <1>10

(* The events of a frame lead an object list to the world they lead to.    *)
LEMMA FrameSeen ==
  ASSUME NEW s, NEW A, Sees(s, A), s.destroy_queue = {}, NEW ms \in Seq(Seq(Event)), Fresh(FlattenSeq(ms)),
         NEW B, Leads(A, FlattenSeq(ms), B)
  PROVE  /\ Sees(ProcessGameEvents(s, ms), B)
         /\ \A D, K : BagsSeen(s, A, D, K) /\ (\A e \in ToSet(FlattenSeq(ms)) : BagEventSound(e, D, K)) =>
              BagsSeen(ProcessGameEvents(s, ms), B, D, K)
<1>1. PICK f : Run(f, s, FlattenSeq(ms)) /\ ProcessGameEvents(s, ms) = f[Len(FlattenSeq(ms))]
  BY EventsRun
<1>2. FlattenSeq(ms) \in Seq(Event)
  BY FlattenType
<1> QED
  BY <1>1, <1>2, RunSeen

(* The queue of objects to destroy is destroyed.                           *)
Left(t, s, A) ==
  /\ t.destroy_queue = {} /\ t.dropping = s.dropping
  /\ t.objs = A.ents /\ t.dead = s.dead \cap A.ents
  /\ \A x \in ObjectIds : t.parent[x] = IF x \in A.ents THEN s.parent[x] ELSE none

(* CObjectList::Update destroys the queue, and leaves no parent behind.    *)
LEMMA UpdateSeen ==
  ASSUME NEW s, NEW A, Sees(s, A), NEW t, t = ObjectsUpdate(s)
  PROVE  Sees(t, A) /\ Left(t, s, A)
<1>1. /\ s \in ObjectList /\ Formed(A) /\ A.ents = s.objs \ s.destroy_queue /\ A.ents \subseteq ObjectIds
      /\ s.parent \in [ObjectIds -> ObjectIds \cup {none}]
  BY DEF Sees, Formed, ObjectList
<1>2. PICK u : u = [s EXCEPT !.objs = A.ents, !.dead = s.dead \cap A.ents, !.destroy_queue = {},
                             !.parent = [x \in ObjectIds |-> IF x \in A.ents THEN s.parent[x] ELSE none]]
  OBVIOUS
<1>3. /\ u \in ObjectList /\ u.objs = A.ents /\ u.dead = s.dead \cap A.ents /\ u.destroy_queue = {}
      /\ u.dropping = s.dropping /\ u.unmet = s.unmet
      /\ u.parent = [x \in ObjectIds |-> IF x \in A.ents THEN s.parent[x] ELSE none]
  BY <1>1, <1>2 DEF ObjectList
<1>4. ASSUME NEW x \in A.ents PROVE s.parent[x] \notin s.destroy_queue
  <2>1. x \in ObjectIds
    BY <1>1
  <2>2. CASE s.parent[x] = none
    BY <1>1, <2>2, Names DEF ObjectList
  <2>3. CASE s.parent[x] # none
    <3>1. s.parent[x] = A.par[x]
      BY <2>1, <2>3 DEF Sees
    <3>2. A.par[x] \in A.ents
      BY <1>1, <2>1, <2>3, <3>1 DEF Formed
    <3> QED
      BY <1>1, <3>1, <3>2
  <2> QED
    BY <2>2, <2>3
<1>5. t = u
  BY <1>1, <1>2, <1>4 DEF ObjectsUpdate
<1>6. \A x \in ObjectIds : u.parent[x] = A.par[x] \/ (u.parent[x] = none /\ A.par[x] \in u.dead)
  <2>1. SUFFICES ASSUME NEW x \in ObjectIds PROVE u.parent[x] = A.par[x] \/ (u.parent[x] = none /\ A.par[x] \in u.dead)
    OBVIOUS
  <2>2. CASE x \notin A.ents
    <3>1. A.par[x] = none
      BY <1>1, <2>2 DEF Formed
    <3> QED
      BY <1>3, <2>2, <3>1
  <2>3. CASE x \in A.ents
    <3>1. u.parent[x] = s.parent[x]
      BY <1>3, <2>3
    <3>2. s.parent[x] = A.par[x] \/ (s.parent[x] = none /\ A.par[x] \in s.dead)
      BY DEF Sees
    <3>3. CASE s.parent[x] = none /\ A.par[x] \in s.dead
      <4>1. A.par[x] # none
        BY <1>1, <3>3, Names DEF ObjectList
      <4>2. A.par[x] \in A.ents
        BY <1>1, <4>1 DEF Formed
      <4> QED
        BY <1>3, <3>1, <3>3, <4>2
    <3> QED
      BY <3>1, <3>2, <3>3
  <2> QED
    BY <2>2, <2>3
<1>7. Sees(u, A)
  BY <1>1, <1>3, <1>6 DEF Sees
<1> QED
  BY <1>3, <1>5, <1>7 DEF Left

(* A change of a well-formed world is well formed, and so are many.        *)
LEMMA FormedChange ==
  ASSUME NEW A, Formed(A), NEW e \in Event, NEW B, Change(A, e, B)
  PROVE  Formed(B)
<1>0. e.id \in ObjectIds
  BY DEF Event
<1>1. CASE e.type = "spawn"
  BY <1>0, <1>1, FormedBearing DEF Change
<1>2. CASE e.type = "take"
  BY <1>2, FormedWith DEF Change
<1>3. CASE e.type = "reject"
  <2>1. e.id \in A.ents /\ B = With(A, e.id, none)
    BY <1>0, <1>3 DEF Change, Formed
  <2> QED
    BY <2>1, FormedWith
<1>4. CASE e.type = "destroy"
  BY <1>4, FormedWithout DEF Change
<1>5. CASE e.type = "die"
  BY <1>5 DEF Change
<1> QED
  BY <1>1, <1>2, <1>3, <1>4, <1>5 DEF Change

LEMMA FormedLeads ==
  ASSUME NEW A, Formed(A), NEW q \in Seq(Event), NEW B, Leads(A, q, B)
  PROVE  Formed(B)
<1>1. PICK T : T[0] = A /\ T[Len(q)] = B /\ \A n \in 1..Len(q) : Change(T[n - 1], q[n], T[n])
  BY DEF Leads
<1>2. PICK N \in Nat : N = Len(q)
  BY LenProperties
<1> DEFINE S == {n \in Nat : n <= N => Formed(T[n])}
<1>3. 0 \in S
  BY <1>1
<1>4. ASSUME NEW n \in Nat, n \in S PROVE n + 1 \in S
  <2> SUFFICES ASSUME n + 1 <= N PROVE Formed(T[n + 1])
    OBVIOUS
  <2>1. n + 1 \in 1..N /\ (n + 1) - 1 = n /\ n <= N
    BY <1>2
  <2>2. Change(T[n], q[n + 1], T[n + 1]) /\ q[n + 1] \in Event
    BY <1>1, <1>2, <2>1, ElementOfSeq
  <2>3. Formed(T[n])
    BY <1>4, <2>1
  <2> QED
    BY <2>2, <2>3, FormedChange
<1>5. Nat \subseteq S
  <2> HIDE DEF S
  <2> QED
    BY <1>3, <1>4, SetInduction
<1>6. N \in S
  BY <1>5
<1> QED
  BY <1>1, <1>2, <1>6

(* What the server sends is an event.                                      *)
LEMMA Events ==
  /\ \A x \in ObjectIds, p \in ObjectIds \cup {none} :
       SpawnEvent(x, p) \in Event /\ TakeEvent(p, x) \in Event /\ RejectEvent(p, x) \in Event
  /\ \A x \in ObjectIds : DestroyEvent(x) \in Event
  /\ \A a \in Actors : DieEvent(a) \in Event
BY Names DEF SpawnEvent, TakeEvent, RejectEvent, DestroyEvent, DieEvent, Event

(* New events do not spawn what old ones destroy.                          *)
LEMMA FreshOn ==
  ASSUME NEW p \in Seq(Event), NEW q \in Seq(Event), Fresh(p), Fresh(q),
         \A d \in ToSet(p), e \in ToSet(q) : d.type = "destroy" /\ e.type = "spawn" => e.id # d.id
  PROVE  Fresh(p \o q)
<1>1. /\ p \o q \in Seq(Event) /\ Len(p \o q) = Len(p) + Len(q) /\ Len(p) \in Nat /\ Len(q) \in Nat
      /\ \A i \in 1 .. Len(p) + Len(q) : (p \o q)[i] = IF i <= Len(p) THEN p[i] ELSE q[i - Len(p)]
  BY ConcatProperties, LenProperties
<1>2. SUFFICES ASSUME NEW i \in 1..(Len(p) + Len(q)), NEW j \in 1..(Len(p) + Len(q)), j < i,
                      (p \o q)[i].type = "spawn", (p \o q)[j].type = "destroy"
               PROVE  (p \o q)[i].id # (p \o q)[j].id
  BY <1>1 DEF Fresh
<1>3. CASE i <= Len(p)
  <2>1. i \in 1..Len(p) /\ j \in 1..Len(p) /\ (p \o q)[i] = p[i] /\ (p \o q)[j] = p[j]
    BY <1>1, <1>2, <1>3
  <2> QED
    BY <1>2, <2>1 DEF Fresh
<1>4. CASE ~(i <= Len(p)) /\ j <= Len(p)
  <2>1. i - Len(p) \in 1..Len(q) /\ j \in 1..Len(p) /\ (p \o q)[i] = q[i - Len(p)] /\ (p \o q)[j] = p[j]
    BY <1>1, <1>2, <1>4
  <2>2. (p \o q)[i] \in ToSet(q) /\ (p \o q)[j] \in ToSet(p)
    BY <2>1, Elements
  <2> QED
    BY <1>2, <2>2
<1>5. CASE ~(i <= Len(p)) /\ ~(j <= Len(p))
  <2>1. /\ i - Len(p) \in 1..Len(q) /\ j - Len(p) \in 1..Len(q) /\ j - Len(p) < i - Len(p)
        /\ (p \o q)[i] = q[i - Len(p)] /\ (p \o q)[j] = q[j - Len(p)]
    BY <1>1, <1>2, <1>5
  <2> QED
    BY <1>2, <2>1 DEF Fresh
<1> QED
  BY <1>3, <1>4, <1>5

(* Parts of fresh events are fresh, as are spawns and destructions alone.  *)
LEMMA FreshParts ==
  ASSUME NEW p \in Seq(Event), NEW q \in Seq(Event), Fresh(p \o q)
  PROVE  Fresh(p) /\ Fresh(q)
<1>1. /\ p \o q \in Seq(Event) /\ Len(p \o q) = Len(p) + Len(q) /\ Len(p) \in Nat /\ Len(q) \in Nat
      /\ \A i \in 1 .. Len(p) + Len(q) : (p \o q)[i] = IF i <= Len(p) THEN p[i] ELSE q[i - Len(p)]
  BY ConcatProperties, LenProperties
<1>2. \A i \in 1..Len(p) : i \in 1..Len(p \o q) /\ (p \o q)[i] = p[i]
  BY <1>1
<1>3. \A i \in 1..Len(q) : Len(p) + i \in 1..Len(p \o q) /\ (p \o q)[Len(p) + i] = q[i]
  <2>1. SUFFICES ASSUME NEW i \in 1..Len(q)
                 PROVE  Len(p) + i \in 1..Len(p \o q) /\ (p \o q)[Len(p) + i] = q[i]
    OBVIOUS
  <2>2. Len(p) + i \in 1..(Len(p) + Len(q)) /\ ~(Len(p) + i <= Len(p)) /\ (Len(p) + i) - Len(p) = i
    BY <1>1
  <2> QED
    BY <1>1, <2>2
<1>4. Fresh(p)
  BY <1>2 DEF Fresh
<1>5. ASSUME NEW i \in 1..Len(q), NEW j \in 1..Len(q), j < i, q[i].type = "spawn", q[j].type = "destroy"
      PROVE  q[i].id # q[j].id
  <2>1. Len(p) + j < Len(p) + i
    BY <1>1, <1>5
  <2> QED
    BY <1>3, <1>5, <2>1 DEF Fresh
<1> QED
  BY <1>4, <1>5 DEF Fresh

LEMMA FreshWithout ==
  ASSUME NEW q \in Seq(Event), (\A e \in ToSet(q) : e.type # "spawn") \/ (\A e \in ToSet(q) : e.type # "destroy")
  PROVE  Fresh(q)
<1>1. \A i \in 1..Len(q) : q[i] \in ToSet(q)
  BY Elements
<1> QED
  BY <1>1 DEF Fresh

-----------------------------------------------------------------------------
(* The inductive invariant.                                                *)
Tree == [ents |-> entities, par |-> ID_Parent]
Queue(c) == FlattenSeq(messages[c])
Dies(q) == {e.dest : e \in {d \in ToSet(q) : d.type = "die"}}

StateTyped ==
  /\ net_Accepted \subseteq Clients /\ server \in net_Accepted
  /\ messages \in [Clients -> Seq(Seq(Event))] /\ client \in [Clients -> ObjectList]
  /\ dropManual \subseteq Bags

(* The tree is one, and no actor has two bags.                             *)
TreeSound ==
  /\ Formed(Tree)
  /\ \A b, d \in Bags : ID_Parent[b] # none /\ ID_Parent[b] = ID_Parent[d] => b = d

(* The events on their way lead from the world a client sees to the tree.  *)
Follows(c, s, q, W) ==
  \E A : /\ Sees(s, A) /\ Leads(A, q, W)
         /\ c = server => \A b \in Bags : s.parent[b] = A.par[b]

InStep ==
  \A c \in Clients :
    /\ Fresh(Queue(c)) /\ client[c].destroy_queue = {} /\ client[c].dropping = {} /\ client[c].unmet = {}
    /\ IF c \in net_Accepted THEN Follows(c, client[c], Queue(c), Tree)
       ELSE client[c] = EmptyList /\ messages[c] = <<>>

(* What moves bags on the server's client: a bag is spawned on an actor it *)
(* does not know yet, and rejected by one it knows to be dead.             *)
BagEvents ==
  \A e \in ToSet(Queue(server)) : e.id \in Bags /\ e.dest \in Actors =>
    /\ e.dest \notin Dies(Queue(server))
    /\ \/ e.type = "spawn" /\ e.dest \notin client[server].objs
       \/ e.type = "reject" /\ e.dest \in client[server].dead

(* No bag is where the server's client does not see it, if it sees the     *)
(* bearer, and none is carried that the client sees lying about.           *)
BagsKnown ==
  \A b \in Bags :
    /\ ID_Parent[b] \in Actors /\ ID_Parent[b] \in client[server].objs => client[server].parent[b] = ID_Parent[b]
    /\ b \in client[server].objs /\ client[server].parent[b] = none => ID_Parent[b] = none

(* While bags are to be dropped, all that the server's client sees their   *)
(* bearers carry is theirs.                                                *)
Dropping ==
  /\ dropManual # {} => Dies(Queue(server)) = {}
  /\ \A b \in dropManual :
       /\ client[server].parent[b] \in Actors /\ client[server].parent[b] \in client[server].dead
       /\ \A x \in ObjectIds : client[server].parent[x] = client[server].parent[b] =>
                               ID_Parent[x] = client[server].parent[b]

WorldsInv == StateTyped /\ TreeSound /\ InStep /\ BagEvents /\ BagsKnown /\ Dropping

-----------------------------------------------------------------------------
(* What has been sent to a client, and its list.                           *)
LEMMA QueueTyped ==
  ASSUME StateTyped, NEW c \in Clients
  PROVE  messages[c] \in Seq(Seq(Event)) /\ Queue(c) \in Seq(Event) /\ client[c] \in ObjectList
<1>1. messages[c] \in Seq(Seq(Event)) /\ client[c] \in ObjectList
  BY DEF StateTyped
<1> QED
  BY <1>1, FlattenType DEF Queue

(* The server's tree is a well-formed world.                               *)
LEMMA TreeParts ==
  ASSUME TreeSound
  PROVE  /\ Tree.ents = entities /\ Tree.par = ID_Parent /\ Formed(Tree)
         /\ entities \subseteq ObjectIds /\ ID_Parent \in [ObjectIds -> ObjectIds \cup {none}]
         /\ \A x \in ObjectIds : ID_Parent[x] # none =>
              x \in entities /\ ID_Parent[x] \in entities /\ MayCarry(ID_Parent[x], x)
         /\ \A a \in Actors : ID_Parent[a] = none
         /\ IsFiniteSet(entities)
<1>1. Tree.ents = entities /\ Tree.par = ID_Parent /\ Formed(Tree)
  BY DEF Tree, TreeSound
<1>2. /\ entities \subseteq ObjectIds /\ ID_Parent \in [ObjectIds -> ObjectIds \cup {none}]
      /\ \A x \in ObjectIds : ID_Parent[x] # none =>
           x \in entities /\ ID_Parent[x] \in entities /\ MayCarry(ID_Parent[x], x)
  BY <1>1 DEF Formed
<1>3. IsFiniteSet(entities)
  BY <1>2, IdsAreFinite, FS_Subset
<1> QED
  BY <1>1, <1>2, <1>3, Names

(* A list that follows to W follows on to where more events lead from W.   *)
LEMMA FollowsOn ==
  ASSUME NEW c, NEW s, NEW q \in Seq(Event), NEW W, Follows(c, s, q, W), NEW r \in Seq(Event), NEW X, Leads(W, r, X)
  PROVE  Follows(c, s, q \o r, X)
<1>1. PICK A : /\ Sees(s, A) /\ Leads(A, q, W)
               /\ c = server => \A b \in Bags : s.parent[b] = A.par[b]
  BY DEF Follows
<1>2. Leads(A, q \o r, X)
  BY <1>1, LeadsOn
<1> QED
  BY <1>1, <1>2 DEF Follows

(* Messages to everyone, which do to the tree what the handler does to it. *)
LEMMA Broadcast ==
  ASSUME StateTyped, TreeSound, InStep, NEW ms \in Seq(Seq(Event)), SendBroadcast(ms),
         Leads(Tree, FlattenSeq(ms), Tree'), Fresh(FlattenSeq(ms)),
         \A c \in Clients : \A d \in ToSet(Queue(c)), e \in ToSet(FlattenSeq(ms)) :
           d.type = "destroy" /\ e.type = "spawn" => e.id # d.id
  PROVE  /\ messages' \in [Clients -> Seq(Seq(Event))] /\ Formed(Tree')
         /\ \A c \in Clients : Fresh(Queue(c)')
         /\ \A c \in net_Accepted : /\ Follows(c, client[c], Queue(c)', Tree')
                                    /\ ToSet(Queue(c)') = ToSet(Queue(c)) \cup ToSet(FlattenSeq(ms))
         /\ \A c \in Clients \ net_Accepted : messages'[c] = messages[c]
<1>0. net_Accepted \subseteq Clients
  BY DEF StateTyped
<1>1. FlattenSeq(ms) \in Seq(Event)
  BY FlattenType
<1>2. \A c \in Clients : messages'[c] = IF c \in net_Accepted THEN messages[c] \o ms ELSE messages[c]
  BY DEF SendBroadcast
<1>3. ASSUME NEW c \in Clients PROVE messages[c] \o ms \in Seq(Seq(Event))
  BY QueueTyped, ConcatProperties
<1>4. messages' \in [Clients -> Seq(Seq(Event))]
  BY <1>3, QueueTyped DEF SendBroadcast
<1>5. ASSUME NEW c \in net_Accepted PROVE Queue(c)' = Queue(c) \o FlattenSeq(ms)
  <2>1. c \in Clients /\ messages'[c] = messages[c] \o ms
    BY <1>0, <1>2
  <2>2. FlattenSeq(messages[c] \o ms) = FlattenSeq(messages[c]) \o FlattenSeq(ms)
    BY <2>1, QueueTyped, FlattenConcat
  <2> QED
    BY <2>1, <2>2 DEF Queue
<1>6. ASSUME NEW c \in net_Accepted
      PROVE  /\ Follows(c, client[c], Queue(c)', Tree') /\ Fresh(Queue(c)')
             /\ ToSet(Queue(c)') = ToSet(Queue(c)) \cup ToSet(FlattenSeq(ms))
  <2>1. c \in Clients /\ Queue(c) \in Seq(Event)
    BY <1>0, QueueTyped
  <2>2. Follows(c, client[c], Queue(c), Tree) /\ Fresh(Queue(c))
    BY <2>1 DEF InStep
  <2>3. Follows(c, client[c], Queue(c) \o FlattenSeq(ms), Tree')
    BY <1>1, <2>1, <2>2, FollowsOn
  <2>4. Fresh(Queue(c) \o FlattenSeq(ms))
    BY <1>1, <2>1, <2>2, FreshOn
  <2>5. ToSet(Queue(c) \o FlattenSeq(ms)) = ToSet(Queue(c)) \cup ToSet(FlattenSeq(ms))
    BY <1>1, <2>1, ConcatElements
  <2> QED
    BY <1>5, <2>3, <2>4, <2>5
<1>7. ASSUME NEW c \in Clients, c \notin net_Accepted PROVE Fresh(Queue(c)')
  <2>1. Queue(c)' = Queue(c)
    BY <1>2, <1>7 DEF Queue
  <2>2. Fresh(Queue(c))
    BY DEF InStep
  <2> QED
    BY <2>1, <2>2
<1>8. Formed(Tree')
  <2>1. Formed(Tree)
    BY DEF TreeSound
  <2> QED
    BY <1>1, <2>1, FormedLeads
<1> QED
  BY <1>2, <1>4, <1>6, <1>7, <1>8

(* The handlers that only ever take bags away.                             *)
LEMMA BagsTakenAway ==
  ASSUME TreeSound, BagsKnown, Formed(Tree'),
         \A b \in Bags : ID_Parent'[b] = ID_Parent[b] \/ ID_Parent'[b] = none,
         client'[server].objs = client[server].objs, client'[server].parent = client[server].parent
  PROVE  TreeSound' /\ BagsKnown'
<1>1. \A b, d \in Bags : ID_Parent'[b] # none /\ ID_Parent'[b] = ID_Parent'[d] => b = d
  BY DEF TreeSound
<1>2. TreeSound'
  BY <1>1 DEF TreeSound
<1>3. BagsKnown'
  BY Names DEF BagsKnown
<1> QED
  BY <1>2, <1>3

(* The actors that are told dead, when more events come.                   *)
LEMMA DiesMore ==
  ASSUME NEW p, NEW q, NEW E, ToSet(q) = ToSet(p) \cup E, \A e \in E : e.type # "die"
  PROVE  Dies(q) = Dies(p)
BY DEF Dies

(* The handlers of the server while no bag is to be dropped: they send     *)
(* nobody's death, and nothing that moves a bag.                           *)
LEMMA HandlerInv ==
  ASSUME WorldsInv, NEW ms \in Seq(Seq(Event)), SendBroadcast(ms), dropManual = {},
         UNCHANGED <<net_Accepted, client, dropManual>>,
         Leads(Tree, FlattenSeq(ms), Tree'),
         \A e \in ToSet(FlattenSeq(ms)) : /\ e.type \in {"take", "reject", "destroy"}
                                          /\ ~(e.id \in Bags /\ e.dest \in Actors),
         \A b \in Bags : ID_Parent'[b] = ID_Parent[b] \/ ID_Parent'[b] = none
  PROVE  WorldsInv'
<1>1. FlattenSeq(ms) \in Seq(Event)
  BY FlattenType
<1>2. Fresh(FlattenSeq(ms))
  BY <1>1, FreshWithout
<1>3. /\ messages' \in [Clients -> Seq(Seq(Event))] /\ Formed(Tree')
      /\ \A c \in Clients : Fresh(Queue(c)')
      /\ \A c \in net_Accepted : /\ Follows(c, client[c], Queue(c)', Tree')
                                 /\ ToSet(Queue(c)') = ToSet(Queue(c)) \cup ToSet(FlattenSeq(ms))
      /\ \A c \in Clients \ net_Accepted : messages'[c] = messages[c]
  <2>1. StateTyped /\ TreeSound /\ InStep
    BY DEF WorldsInv
  <2>2. \A c \in Clients : \A d \in ToSet(Queue(c)), e \in ToSet(FlattenSeq(ms)) :
           d.type = "destroy" /\ e.type = "spawn" => e.id # d.id
    OBVIOUS
  <2> QED
    BY <1>2, <2>1, <2>2, Broadcast
<1>4. StateTyped'
  BY <1>3 DEF WorldsInv, StateTyped
<1>5. TreeSound' /\ BagsKnown'
  <2>1. TreeSound /\ BagsKnown
    BY DEF WorldsInv
  <2> QED
    BY <1>3, <2>1, BagsTakenAway
<1>6. InStep'
  BY <1>3 DEF WorldsInv, InStep
<1>7. BagEvents'
  <2>1. ToSet(Queue(server)') = ToSet(Queue(server)) \cup ToSet(FlattenSeq(ms))
    BY <1>3 DEF WorldsInv, StateTyped
  <2>2. Dies(Queue(server)') = Dies(Queue(server))
    BY <2>1, DiesMore
  <2>3. Dies(Queue(server))' = Dies(Queue(server)')
    BY DEF Dies, Queue
  <2> QED
    BY <2>1, <2>2, <2>3 DEF WorldsInv, BagEvents
<1>8. Dropping'
  BY DEF Dropping
<1> QED
  BY <1>4, <1>5, <1>6, <1>7, <1>8 DEF WorldsInv

(* One and two events.                                                     *)
LEMMA OneEvent ==
  ASSUME NEW e \in Event
  PROVE  /\ <<e>> \in Seq(Event) /\ << <<e>> >> \in Seq(Seq(Event)) /\ FlattenSeq(<< <<e>> >>) = <<e>>
         /\ ToSet(<<e>>) = {e}
<1>1. <<e>> \in Seq(Event) /\ << <<e>> >> \in Seq(Seq(Event))
  OBVIOUS
<1>2. FlattenSeq(<< <<e>> >>) = <<e>>
  BY <1>1, FlattenOne
<1>3. ToSet(<<e>>) = {e}
  BY DEF ToSet
<1> QED
  BY <1>1, <1>2, <1>3

LEMMA TwoEvents ==
  ASSUME NEW d \in Event, NEW e \in Event
  PROVE  /\ <<d, e>> \in Seq(Event) /\ <<d, e>> = <<d>> \o <<e>>
         /\ ToSet(<<d, e>>) = {d, e}
         /\ \A A, B, C : Change(A, d, B) /\ Change(B, e, C) => Leads(A, <<d, e>>, C)
<1>0. <<d, e>> \in Seq(Event) /\ <<d>> \in Seq(Event) /\ <<e>> \in Seq(Event)
  BY OneEvent
<1>1. <<d, e>> \in Seq(Event) /\ <<d, e>> = <<d>> \o <<e>> /\ <<d>> \in Seq(Event) /\ <<e>> \in Seq(Event)
  BY <1>0, SequenceOfTwo
<1>2. ToSet(<<d, e>>) = {d, e}
  <2>0. <<d>> \in Seq(Event) /\ <<e>> \in Seq(Event)
    BY <1>1
  <2>1. ToSet(<<d>> \o <<e>>) = ToSet(<<d>>) \cup ToSet(<<e>>)
    BY <2>0, ConcatElements
  <2> QED
    BY <1>1, <2>1, OneEvent
<1>3. ASSUME NEW A, NEW B, NEW C, Change(A, d, B), Change(B, e, C) PROVE Leads(A, <<d, e>>, C)
  <2>1. Leads(A, <<d>>, B) /\ Leads(B, <<e>>, C)
    BY <1>3, LeadsOne
  <2>2. Leads(A, <<d>> \o <<e>>, C)
    BY <1>1, <2>1, LeadsOn
  <2> QED
    BY <1>1, <2>2
<1> QED
  BY <1>1, <1>2, <1>3

(* Messages after messages, and what they lead to.                         *)
LEMMA MessagesOn ==
  ASSUME NEW ms \in Seq(Seq(Event)), NEW ns \in Seq(Seq(Event)), NEW A, NEW B, NEW C,
         Leads(A, FlattenSeq(ms), B), Leads(B, FlattenSeq(ns), C)
  PROVE  /\ ms \o ns \in Seq(Seq(Event)) /\ Leads(A, FlattenSeq(ms \o ns), C)
         /\ ToSet(FlattenSeq(ms \o ns)) = ToSet(FlattenSeq(ms)) \cup ToSet(FlattenSeq(ns))
<1>1. FlattenSeq(ms) \in Seq(Event) /\ FlattenSeq(ns) \in Seq(Event)
  BY FlattenType
<1>2. FlattenSeq(ms \o ns) = FlattenSeq(ms) \o FlattenSeq(ns) /\ ms \o ns \in Seq(Seq(Event))
  BY FlattenConcat, ConcatProperties
<1>3. Leads(A, FlattenSeq(ms) \o FlattenSeq(ns), C)
  BY <1>1, LeadsOn
<1>4. ToSet(FlattenSeq(ms) \o FlattenSeq(ns)) = ToSet(FlattenSeq(ms)) \cup ToSet(FlattenSeq(ns))
  BY <1>1, ConcatElements
<1> QED
  BY <1>2, <1>3, <1>4

(* A message of one event.                                                 *)
LEMMA OneMessage ==
  ASSUME NEW e \in Event, NEW A, NEW B, Change(A, e, B)
  PROVE  /\ << <<e>> >> \in Seq(Seq(Event)) /\ Leads(A, FlattenSeq(<< <<e>> >>), B)
         /\ ToSet(FlattenSeq(<< <<e>> >>)) = {e}
BY OneEvent, LeadsOne

(* GE_OWNERSHIP_TAKE of an item.                                           *)
LEMMA TakeItemInv ==
  ASSUME WorldsInv, NEW a \in Actors, NEW x \in Items, TakeItem(a, x)
  PROVE  WorldsInv'
<1>1. /\ dropManual = {} /\ a \in entities /\ x \in entities /\ ID_Parent[x] = none
      /\ ID_Parent' = [ID_Parent EXCEPT ![x] = a] /\ SendBroadcast(<< <<TakeEvent(a, x)>> >>)
      /\ UNCHANGED <<net_Accepted, client, dropManual>> /\ entities' = entities
  BY DEF TakeItem, OwnershipAllowed, Idle, Independent
<1>2. /\ Tree.ents = entities /\ Tree.par = ID_Parent /\ ID_Parent \in [ObjectIds -> ObjectIds \cup {none}]
      /\ x \in ObjectIds /\ a \in ObjectIds
  BY TreeParts, Names DEF WorldsInv
<1>3. TakeEvent(a, x) \in Event
  BY <1>2, Events
<1>4. Change(Tree, TakeEvent(a, x), Tree')
  <2>1. Tree' = With(Tree, x, a)
    BY <1>1, <1>2 DEF Tree, With
  <2> QED
    BY <1>1, <1>2, <2>1 DEF Change, TakeEvent, MayCarry
<1>5. /\ << <<TakeEvent(a, x)>> >> \in Seq(Seq(Event)) /\ Leads(Tree, FlattenSeq(<< <<TakeEvent(a, x)>> >>), Tree')
      /\ ToSet(FlattenSeq(<< <<TakeEvent(a, x)>> >>)) = {TakeEvent(a, x)}
  BY <1>3, <1>4, OneMessage
<1>6. \A e \in ToSet(FlattenSeq(<< <<TakeEvent(a, x)>> >>)) :
        e.type \in {"take", "reject", "destroy"} /\ ~(e.id \in Bags /\ e.dest \in Actors)
  BY <1>5, Names DEF TakeEvent
<1>7. \A b \in Bags : ID_Parent'[b] = ID_Parent[b] \/ ID_Parent'[b] = none
  BY <1>1, <1>2, Names
<1> QED
  BY <1>1, <1>5, <1>6, <1>7, HandlerInv

(* GE_OWNERSHIP_REJECT of an item.                                         *)
LEMMA RejectItemInv ==
  ASSUME WorldsInv, NEW a \in Actors, NEW x \in Items, RejectItem(a, x)
  PROVE  WorldsInv'
<1>1. /\ dropManual = {} /\ a \in entities /\ ID_Parent[x] = a
      /\ ID_Parent' = [ID_Parent EXCEPT ![x] = none] /\ SendBroadcast(<< <<RejectEvent(a, x)>> >>)
      /\ UNCHANGED <<net_Accepted, client, dropManual>> /\ entities' = entities
  BY DEF RejectItem, Idle
<1>2. /\ Tree.ents = entities /\ Tree.par = ID_Parent /\ ID_Parent \in [ObjectIds -> ObjectIds \cup {none}]
      /\ x \in ObjectIds /\ a \in ObjectIds /\ a # none
  BY TreeParts, Names DEF WorldsInv
<1>3. RejectEvent(a, x) \in Event
  BY <1>2, Events
<1>4. Change(Tree, RejectEvent(a, x), Tree')
  <2>1. Tree' = With(Tree, x, none)
    BY <1>1, <1>2 DEF Tree, With
  <2> QED
    BY <1>1, <1>2, <2>1 DEF Change, RejectEvent
<1>5. /\ << <<RejectEvent(a, x)>> >> \in Seq(Seq(Event)) /\ Leads(Tree, FlattenSeq(<< <<RejectEvent(a, x)>> >>), Tree')
      /\ ToSet(FlattenSeq(<< <<RejectEvent(a, x)>> >>)) = {RejectEvent(a, x)}
  BY <1>3, <1>4, OneMessage
<1>6. \A e \in ToSet(FlattenSeq(<< <<RejectEvent(a, x)>> >>)) :
        e.type \in {"take", "reject", "destroy"} /\ ~(e.id \in Bags /\ e.dest \in Actors)
  BY <1>5, Names DEF RejectEvent
<1>7. \A b \in Bags : ID_Parent'[b] = ID_Parent[b] \/ ID_Parent'[b] = none
  BY <1>1, <1>2, Names
<1> QED
  BY <1>1, <1>5, <1>6, <1>7, HandlerInv

(* A pack that moves things from one bearer to another.                    *)
Moved(A, S, p) == [ents |-> A.ents, par |-> [x \in ObjectIds |-> IF x \in S THEN p ELSE A.par[x]]]

World(A) == A = [ents |-> A.ents, par |-> A.par]
Transferable(A, things, from, to) ==
  from \in ObjectIds /\ to \in A.ents /\ \A x \in things : A.par[x] = from /\ MayCarry(to, x)

Transfers(A, things, from, to, ms) ==
  /\ ms \in Seq(Seq(Event)) /\ Leads(A, FlattenSeq(ms), Moved(A, things, to))
  /\ \A e \in ToSet(FlattenSeq(ms)) : \E x \in things : e = RejectEvent(from, x) \/ e = TakeEvent(to, x)

(* Perform_transfer tells of the things moved from one bearer to another.  *)
LEMMA Transfer ==
  ASSUME NEW A, Formed(A), World(A), NEW things \in SUBSET ObjectIds,
         NEW from, NEW to, Transferable(A, things, from, to)
  PROVE  Transfers(A, things, from, to, Perform_transfer(things, from, to))
<1>0. /\ A.par \in [ObjectIds -> ObjectIds \cup {none}] /\ A.ents \subseteq ObjectIds /\ to \in ObjectIds /\ from # none
      /\ from \in ObjectIds /\ to \in A.ents /\ \A x \in things : A.par[x] = from /\ MayCarry(to, x)
  BY Names DEF Formed, Transferable
<1>1. Moved(A, {}, to) = A
  <2>1. [x \in ObjectIds |-> IF x \in {} THEN to ELSE A.par[x]] = A.par
    BY <1>0
  <2> QED
    BY <2>1 DEF Moved, World
<1>2. CASE things = {}
  <2>1. Perform_transfer(things, from, to) = <<>> /\ <<>> \in Seq(Seq(Event)) /\ ToSet(<<>>) = {}
    BY <1>2 DEF Perform_transfer, ToSet
  <2> QED
    BY <1>1, <1>2, <2>1, FlattenEmpty, LeadsNowhere DEF Transfers
<1>3. CASE things # {}
  <2> DEFINE F == [x \in things |-> <<RejectEvent(from, x), TakeEvent(to, x)>>]
             R == [N \in SUBSET things |-> Moved(A, N, to)]
  <2>0. PICK M : M = Messages(F, things)
    OBVIOUS
  <2> DEFINE m == FlattenSeq(SetToSeq(M))
  <2>1. \A x \in things : RejectEvent(from, x) \in Event /\ TakeEvent(to, x) \in Event
    BY <1>0, Events
  <2>2. F \in [things -> Seq(Event)]
    BY <2>1
  <2>3. ASSUME NEW x \in things, NEW y \in things, F[x] = F[y] PROVE x = y
    <3>1. F[x][1] = RejectEvent(from, x) /\ F[y][1] = RejectEvent(from, y)
      OBVIOUS
    <3>2. RejectEvent(from, x).id = x /\ RejectEvent(from, y).id = y
      BY DEF RejectEvent
    <3> HIDE DEF F
    <3> QED
      BY <2>3, <3>1, <3>2
  <2>4. ASSUME NEW N \in SUBSET things, NEW x \in things, x \notin N PROVE Leads(R[N], F[x], R[N \cup {x}])
    <3>1. PICK B : B = Moved(A, N, to)
      OBVIOUS
    <3>2. B.ents = A.ents /\ B.par = [y \in ObjectIds |-> IF y \in N THEN to ELSE A.par[y]]
      BY <3>1 DEF Moved
    <3>3. PICK C : C = With(B, x, none)
      OBVIOUS
    <3>4. C.ents = A.ents /\ C.par = [B.par EXCEPT ![x] = none] /\ x \in ObjectIds /\ A.par[x] = from /\ MayCarry(to, x)
      BY <1>0, <3>2, <3>3 DEF With
    <3>5. Change(B, RejectEvent(from, x), C)
      <4>1. B.par[x] = from
        BY <2>4, <3>2, <3>4
      <4> QED
        BY <1>0, <3>3, <4>1 DEF Change, RejectEvent
    <3>6. x \in A.ents
      BY <1>0, <3>4 DEF Formed
    <3>7. C.par[x] = none
      BY <3>2, <3>4
    <3>8. Change(C, TakeEvent(to, x), With(C, x, to))
      BY <1>0, <3>4, <3>6, <3>7 DEF Change, TakeEvent
    <3>9. With(C, x, to) = Moved(A, N \cup {x}, to)
      <4>1. [C.par EXCEPT ![x] = to] = [y \in ObjectIds |-> IF y \in N \cup {x} THEN to ELSE A.par[y]]
        BY <1>0, <3>2, <3>4
      <4> QED
        BY <3>4, <4>1 DEF With, Moved
    <3>10. Leads(B, <<RejectEvent(from, x), TakeEvent(to, x)>>, Moved(A, N \cup {x}, to))
      BY <2>1, <3>5, <3>8, <3>9, TwoEvents
    <3>11. R[N] = B /\ R[N \cup {x}] = Moved(A, N \cup {x}, to) /\ F[x] = <<RejectEvent(from, x), TakeEvent(to, x)>>
      BY <3>1
    <3> HIDE DEF R, F
    <3> QED
      BY <3>10, <3>11
  <2>5. R[{}] = A /\ R[things] = Moved(A, things, to)
    BY <1>1
  <2>6. IsFiniteSet(things)
    BY IdsAreFinite, FS_Subset
  <2>7. M = {<<RejectEvent(from, x), TakeEvent(to, x)>> : x \in things}
    BY <2>0 DEF Messages
  <2>8. ASSUME NEW x \in things PROVE F[x] = <<RejectEvent(from, x), TakeEvent(to, x)>>
    OBVIOUS
  <2>9. Perform_transfer(things, from, to) = <<m>>
    BY <1>3, <2>7 DEF Perform_transfer
  <2> HIDE DEF F, R
  <2>10. SetToSeq(M) \in Seq(Seq(Event)) /\ ToSet(SetToSeq(M)) = M /\ Leads(R[{}], m, R[things])
    <3>1. \A x, y \in things : F[x] = F[y] => x = y
      BY <2>3
    <3>2. \A N \in SUBSET things : \A x \in things : x \notin N => Leads(R[N], F[x], R[N \cup {x}])
      BY <2>4
    <3>3. OneByOne(F, things, R)
      BY <3>1, <3>2 DEF OneByOne
    <3> QED
      BY <2>0, <2>2, <2>6, <3>3, LeadsForEach
  <2>11. m \in Seq(Event)
    BY <2>10, FlattenType
  <2>12. <<m>> \in Seq(Seq(Event)) /\ FlattenSeq(<<m>>) = m
    <3> HIDE DEF m
    <3>1. <<m>> \in Seq(Seq(Event))
      BY <2>11
    <3> QED
      BY <2>11, <3>1, FlattenOne
  <2>13. ASSUME NEW e \in ToSet(m) PROVE \E x \in things : e = RejectEvent(from, x) \/ e = TakeEvent(to, x)
    <3>1. PICK k \in M : e \in ToSet(k)
      BY <2>10, FlattenElements
    <3>2. PICK x \in things : k = F[x]
      BY <2>0, <3>1 DEF Messages
    <3>3. ToSet(<<RejectEvent(from, x), TakeEvent(to, x)>>) = {RejectEvent(from, x), TakeEvent(to, x)}
      BY <2>1, TwoEvents
    <3> QED
      BY <2>8, <3>1, <3>2, <3>3
  <2> HIDE DEF m
  <2> QED
    BY <2>5, <2>9, <2>10, <2>12, <2>13 DEF Transfers
<1> QED
  BY <1>2, <1>3

(* What the bag holds are items.                                           *)
LEMMA BagHoldsItems ==
  ASSUME TreeSound, NEW b \in Bags
  PROVE  /\ Children(b) \subseteq Items \cap entities /\ \A x \in Children(b) : ID_Parent[x] = b
         /\ Children(b) # {} => b \in entities
<1>1. \A x \in Children(b) : x \in ObjectIds /\ ID_Parent[x] = b /\ b # none
  BY Names DEF Children, CarriedBy
<1>2. \A x \in Children(b) : x \in entities /\ b \in entities /\ MayCarry(b, x)
  BY <1>1, TreeParts
<1> QED
  BY <1>1, <1>2, Names DEF MayCarry

(* GE_OWNERSHIP_TAKE of a bag: what is in it goes to the actor.            *)
LEMMA TakeBagInv ==
  ASSUME WorldsInv, NEW a \in Actors, NEW b \in Bags, TakeBag(a, b)
  PROVE  WorldsInv'
<1>1. /\ dropManual = {} /\ a \in entities /\ b \in entities /\ ID_Parent[b] = none
      /\ entities' = entities \ {b}
      /\ ID_Parent' = [x \in ObjectIds |-> IF ID_Parent[x] = b THEN a ELSE ID_Parent[x]]
      /\ SendBroadcast(Perform_transfer(Children(b), b, a) \o << <<DestroyEvent(b)>> >>)
      /\ UNCHANGED <<net_Accepted, client, dropManual>>
  BY DEF TakeBag, OwnershipAllowed, Idle, Independent
<1>2. /\ Tree.ents = entities /\ Tree.par = ID_Parent /\ ID_Parent \in [ObjectIds -> ObjectIds \cup {none}]
      /\ Formed(Tree) /\ b \in ObjectIds /\ a \in ObjectIds /\ b # a /\ TreeSound
  BY TreeParts, Names DEF WorldsInv
<1>3. PICK S : S = Children(b)
  OBVIOUS
<1>4. S \subseteq Items /\ S \in SUBSET ObjectIds /\ (\A x \in S : ID_Parent[x] = b) /\ \A x \in ObjectIds : ID_Parent[x] = b => x \in S
  BY <1>2, <1>3, BagHoldsItems DEF Children, CarriedBy
<1>5. PICK ms : ms = Perform_transfer(S, b, a)
  OBVIOUS
<1>6. Transfers(Tree, S, b, a, ms)
  <2>1. \A x \in S : Tree.par[x] = b /\ MayCarry(a, x)
    BY <1>2, <1>4 DEF MayCarry
  <2>2. World(Tree)
    BY DEF Tree, World
  <2>3. a \in Tree.ents
    BY <1>1, <1>2
  <2>4. Formed(Tree) /\ S \in SUBSET ObjectIds /\ Transferable(Tree, S, b, a)
    BY <1>2, <1>4, <2>1, <2>3 DEF Transferable
  <2> QED
    BY <1>5, <2>2, <2>4, Transfer
<1>60. /\ ms \in Seq(Seq(Event)) /\ Leads(Tree, FlattenSeq(ms), Moved(Tree, S, a))
       /\ \A e \in ToSet(FlattenSeq(ms)) : \E x \in S : e = RejectEvent(b, x) \/ e = TakeEvent(a, x)
  BY <1>6 DEF Transfers
<1>7. Change(Moved(Tree, S, a), DestroyEvent(b), Tree')
  <2>1. PICK B : B = Moved(Tree, S, a)
    OBVIOUS
  <2>2. B.ents = entities /\ B.par = [x \in ObjectIds |-> IF x \in S THEN a ELSE ID_Parent[x]]
    BY <1>2, <2>1 DEF Moved
  <2>3. B.par = ID_Parent'
    BY <1>1, <1>4, <2>2
  <2>4. Tree' = Without(B, b)
    BY <1>1, <2>2, <2>3 DEF Tree, Without
  <2>5. b \notin S
    BY <1>1, <1>4, <1>2, Names
  <2>6. B.par[b] = none
    BY <1>1, <1>2, <2>2, <2>5
  <2>7. \A y \in ObjectIds : B.par[y] # b
    BY <1>2, <1>4, <2>2
  <2> QED
    BY <1>1, <2>1, <2>2, <2>4, <2>6, <2>7 DEF Change, DestroyEvent
<1>8. PICK ns : ns = << <<DestroyEvent(b)>> >>
  OBVIOUS
<1>9. ns \in Seq(Seq(Event)) /\ Leads(Moved(Tree, S, a), FlattenSeq(ns), Tree') /\ ToSet(FlattenSeq(ns)) = {DestroyEvent(b)}
  BY <1>2, <1>7, <1>8, Events, OneMessage
<1>10. /\ ms \o ns \in Seq(Seq(Event)) /\ Leads(Tree, FlattenSeq(ms \o ns), Tree')
       /\ ToSet(FlattenSeq(ms \o ns)) = ToSet(FlattenSeq(ms)) \cup ToSet(FlattenSeq(ns))
  BY <1>60, <1>9, MessagesOn
<1>11. SendBroadcast(ms \o ns)
  BY <1>1, <1>3, <1>5, <1>8
<1>12. ASSUME NEW e \in ToSet(FlattenSeq(ms \o ns))
       PROVE  e.type \in {"take", "reject", "destroy"} /\ ~(e.id \in Bags /\ e.dest \in Actors)
  <2>1. CASE e = DestroyEvent(b)
    BY <2>1, Names DEF DestroyEvent
  <2>2. CASE \E x \in S : e = RejectEvent(b, x) \/ e = TakeEvent(a, x)
    BY <1>4, <2>2, Names DEF RejectEvent, TakeEvent
  <2> QED
    BY <1>60, <1>9, <1>10, <2>1, <2>2
<1>13. \A d \in Bags : ID_Parent'[d] = ID_Parent[d] \/ ID_Parent'[d] = none
  BY <1>1, <1>2, <1>4, Names
<1> QED
  BY <1>1, <1>10, <1>11, <1>12, <1>13, HandlerInv

(* What is free nobody names.                                              *)
LEMMA FreeNames ==
  ASSUME StateTyped, NEW x, Free(x), NEW c \in Clients
  PROVE  x \notin client[c].objs /\ \A d \in ToSet(Queue(c)) : d.dest # x /\ d.id # x
<1>1. messages[c] \in Seq(Seq(Event))
  BY QueueTyped
<1>2. ASSUME NEW d \in ToSet(Queue(c)) PROVE d.dest # x /\ d.id # x
  <2>1. PICK m \in ToSet(messages[c]) : d \in ToSet(m)
    BY <1>1, FlattenElements DEF Queue
  <2>2. PICK i \in DOMAIN messages[c] : messages[c][i] = m
    BY DEF ToSet
  <2> QED
    BY <2>1, <2>2 DEF Free
<1> QED
  BY <1>2 DEF Free

(* Things spawned in the hands of a.                                       *)
Born(A, S, a) == [ents |-> A.ents \cup S, par |-> [x \in ObjectIds |-> IF x \in S THEN a ELSE A.par[x]]]
Births(A, S, a, ms) ==
  /\ ms \in Seq(Seq(Event)) /\ Leads(A, FlattenSeq(ms), Born(A, S, a))
  /\ \A e \in ToSet(FlattenSeq(ms)) : \E x \in S : e = SpawnEvent(x, a)

(* M_SPAWN of things that an actor carries.                                *)
LEMMA Spawned ==
  ASSUME NEW A, Formed(A), World(A), NEW S \in SUBSET Items, S \cap A.ents = {}, NEW a \in Actors, a \in A.ents,
         NEW M, M = {<<SpawnEvent(x, a)>> : x \in S}
  PROVE  Births(A, S, a, SetToSeq(M))
<1>0. /\ A.par \in [ObjectIds -> ObjectIds \cup {none}] /\ A.ents \subseteq ObjectIds
      /\ S \subseteq ObjectIds /\ a \in ObjectIds
  BY Names DEF Formed
<1> DEFINE F == [x \in S |-> <<SpawnEvent(x, a)>>]
           R == [N \in SUBSET S |-> Born(A, N, a)]
<1>1. \A x \in S : SpawnEvent(x, a) \in Event
  BY <1>0, Events
<1>2. F \in [S -> Seq(Event)]
  BY <1>1
<1>3. \A x \in S : F[x] = <<SpawnEvent(x, a)>>
  OBVIOUS
<1>4. M = Messages(F, S)
  BY DEF Messages
<1>5. ASSUME NEW x \in S, NEW y \in S, F[x] = F[y] PROVE x = y
  <2>1. F[x][1] = SpawnEvent(x, a) /\ F[y][1] = SpawnEvent(y, a)
    OBVIOUS
  <2>2. SpawnEvent(x, a).id = x /\ SpawnEvent(y, a).id = y
    BY DEF SpawnEvent
  <2> HIDE DEF F
  <2> QED
    BY <1>5, <2>1, <2>2
<1>6. ASSUME NEW N \in SUBSET S, NEW x \in S, x \notin N PROVE Leads(R[N], F[x], R[N \cup {x}])
  <2>1. PICK B : B = Born(A, N, a)
    OBVIOUS
  <2>2. B.ents = A.ents \cup N /\ B.par = [y \in ObjectIds |-> IF y \in N THEN a ELSE A.par[y]]
    BY <2>1 DEF Born
  <2>3. x \notin B.ents /\ a \in B.ents /\ MayCarry(a, x)
    BY <1>6, <2>2 DEF MayCarry
  <2>4. Bearing(B, x, a) = Born(A, N \cup {x}, a)
    <3>1. [B.par EXCEPT ![x] = a] = [y \in ObjectIds |-> IF y \in N \cup {x} THEN a ELSE A.par[y]]
      BY <1>0, <2>2
    <3>2. B.ents \cup {x} = A.ents \cup (N \cup {x})
      BY <2>2
    <3> QED
      BY <3>1, <3>2 DEF Bearing, Born
  <2>5. Change(B, SpawnEvent(x, a), Born(A, N \cup {x}, a))
    BY <2>3, <2>4 DEF Change, SpawnEvent
  <2>6. R[N] = B /\ R[N \cup {x}] = Born(A, N \cup {x}, a)
    BY <2>1
  <2> HIDE DEF R, F
  <2> QED
    BY <1>3, <2>5, <2>6, LeadsOne
<1>7. R[{}] = A
  <2>1. [x \in ObjectIds |-> IF x \in {} THEN a ELSE A.par[x]] = A.par /\ A.ents \cup {} = A.ents
    BY <1>0
  <2> QED
    BY <2>1 DEF Born, World
<1>8. R[S] = Born(A, S, a)
  OBVIOUS
<1>9. IsFiniteSet(S)
  BY <1>0, IdsAreFinite, FS_Subset
<1> HIDE DEF R, F
<1>10. OneByOne(F, S, R)
  BY <1>5, <1>6 DEF OneByOne
<1>11. PICK s : s = SetToSeq(M)
  OBVIOUS
<1>12. s \in Seq(Seq(Event)) /\ ToSet(s) = M /\ Leads(R[{}], FlattenSeq(s), R[S])
  BY <1>2, <1>4, <1>9, <1>10, <1>11, LeadsForEach
<1>13. ASSUME NEW e \in ToSet(FlattenSeq(s)) PROVE \E x \in S : e = SpawnEvent(x, a)
  <2>0. PICK k \in M : e \in ToSet(k)
    BY <1>12, FlattenElements
  <2>1. PICK x \in S : k = F[x]
    BY <1>4, <2>0 DEF Messages
  <2>2. ToSet(<<SpawnEvent(x, a)>>) = {SpawnEvent(x, a)}
    BY <1>1, OneEvent
  <2> QED
    BY <1>3, <2>0, <2>1, <2>2
<1> QED
  BY <1>7, <1>8, <1>11, <1>12, <1>13 DEF Births

(* A player is respawned with what he is given.                            *)
LEMMA RespawnInv ==
  ASSUME WorldsInv, NEW a \in Actors, NEW b \in Bags, NEW things \in SUBSET Items, RespawnPlayer(a, b, things)
  PROVE  WorldsInv'
<1>1. /\ dropManual = {} /\ Free(a) /\ Free(b) /\ (\A x \in things : Free(x))
      /\ entities' = entities \cup {a, b} \cup things
      /\ ID_Parent' = [x \in ObjectIds |-> IF x = b \/ x \in things THEN a ELSE ID_Parent[x]]
      /\ UNCHANGED <<net_Accepted, client, dropManual>>
  BY DEF RespawnPlayer, Idle
<1>2. /\ Tree.ents = entities /\ Tree.par = ID_Parent /\ ID_Parent \in [ObjectIds -> ObjectIds \cup {none}]
      /\ Formed(Tree) /\ b \in ObjectIds /\ a \in ObjectIds /\ b # a /\ TreeSound /\ ID_Parent[a] = none
      /\ things \subseteq ObjectIds /\ a \notin things /\ b \notin things
      /\ \A x \in ObjectIds : ID_Parent[x] # none => ID_Parent[x] \in entities
      /\ StateTyped /\ InStep
  BY TreeParts, Names DEF WorldsInv
<1>3. a \notin entities /\ b \notin entities /\ \A x \in things : x \notin entities
  BY <1>1 DEF Free
<1>4. PICK A : A = Bearing(Tree, a, none)
  OBVIOUS
<1>5. A.ents = entities \cup {a} /\ A.par = [ID_Parent EXCEPT ![a] = none] /\ Change(Tree, SpawnEvent(a, none), A)
  BY <1>2, <1>3, <1>4 DEF Bearing, Change, SpawnEvent
<1>6. PICK B : B = Bearing(A, b, a)
  OBVIOUS
<1>7. B.ents = entities \cup {a, b} /\ B.par = [A.par EXCEPT ![b] = a] /\ Change(A, SpawnEvent(b, a), B) /\ World(B)
  BY <1>2, <1>3, <1>5, <1>6 DEF Bearing, Change, SpawnEvent, MayCarry, World
<1>8. SpawnEvent(a, none) \in Event /\ SpawnEvent(b, a) \in Event
  BY <1>2, Events
<1>9. Formed(B)
  BY <1>2, <1>5, <1>7, <1>8, FormedChange
<1>10. PICK M : M = {<<SpawnEvent(x, a)>> : x \in things}
  OBVIOUS
<1>11. PICK ns : ns = SetToSeq(M)
  OBVIOUS
<1>12. Births(B, things, a, ns)
  <2>1. things \cap B.ents = {} /\ a \in B.ents
    BY <1>2, <1>3, <1>7
  <2> QED
    BY <1>7, <1>9, <1>10, <1>11, <2>1, Spawned
<1>13. Born(B, things, a) = Tree'
  <2>1. [x \in ObjectIds |-> IF x \in things THEN a ELSE B.par[x]] = ID_Parent'
    BY <1>1, <1>2, <1>5, <1>7
  <2>2. B.ents \cup things = entities'
    BY <1>1, <1>7
  <2> QED
    BY <2>1, <2>2 DEF Born, Tree
<1>14. /\ ns \in Seq(Seq(Event)) /\ Leads(B, FlattenSeq(ns), Tree')
       /\ \A e \in ToSet(FlattenSeq(ns)) : \E x \in things : e = SpawnEvent(x, a)
  BY <1>12, <1>13 DEF Births
<1>15. PICK p, q : p = << <<SpawnEvent(a, none)>> >> /\ q = << <<SpawnEvent(b, a)>> >>
  OBVIOUS
<1>16. /\ p \in Seq(Seq(Event)) /\ Leads(Tree, FlattenSeq(p), A) /\ ToSet(FlattenSeq(p)) = {SpawnEvent(a, none)}
       /\ q \in Seq(Seq(Event)) /\ Leads(A, FlattenSeq(q), B) /\ ToSet(FlattenSeq(q)) = {SpawnEvent(b, a)}
  BY <1>5, <1>7, <1>8, <1>15, OneMessage
<1>17. /\ p \o q \in Seq(Seq(Event)) /\ Leads(Tree, FlattenSeq(p \o q), B)
       /\ ToSet(FlattenSeq(p \o q)) = {SpawnEvent(a, none), SpawnEvent(b, a)}
  BY <1>16, MessagesOn
<1>18. PICK ms : ms = (p \o q) \o ns
  OBVIOUS
<1>19. /\ ms \in Seq(Seq(Event)) /\ Leads(Tree, FlattenSeq(ms), Tree')
       /\ ToSet(FlattenSeq(ms)) = {SpawnEvent(a, none), SpawnEvent(b, a)} \cup ToSet(FlattenSeq(ns))
  BY <1>14, <1>17, <1>18, MessagesOn
<1>20. SendBroadcast(ms)
  <2>1. <<SpawnEvent(a, none)>> \in Seq(Event) /\ <<SpawnEvent(b, a)>> \in Seq(Event)
    BY <1>8, OneEvent
  <2>3. PICK m, n \in Seq(Event) : m = <<SpawnEvent(a, none)>> /\ n = <<SpawnEvent(b, a)>>
    BY <2>1
  <2>4. <<m, n>> = <<m>> \o <<n>>
    BY SequenceOfTwo
  <2>2. << <<SpawnEvent(a, none)>>, <<SpawnEvent(b, a)>> >> = p \o q
    BY <1>15, <2>3, <2>4
  <2> QED
    BY <1>10, <1>11, <1>18, <2>2 DEF RespawnPlayer
<1>21. ASSUME NEW e \in ToSet(FlattenSeq(ms))
       PROVE  /\ e.type = "spawn" /\ Free(e.id)
              /\ e.id \in Bags /\ e.dest \in Actors => e.dest = a
  <2>1. CASE e = SpawnEvent(a, none)
    BY <1>1, <2>1, Names DEF SpawnEvent
  <2>2. CASE e = SpawnEvent(b, a)
    BY <1>1, <2>2 DEF SpawnEvent
  <2>3. CASE \E x \in things : e = SpawnEvent(x, a)
    BY <1>1, <2>3 DEF SpawnEvent
  <2> QED
    BY <1>14, <1>19, <2>1, <2>2, <2>3
<1>22. FlattenSeq(ms) \in Seq(Event)
  BY <1>19, FlattenType
<1>23. Fresh(FlattenSeq(ms))
  <2>1. \A e \in ToSet(FlattenSeq(ms)) : e.type # "destroy"
    BY <1>21
  <2> QED
    BY <1>22, <2>1, FreshWithout
<1>24. \A c \in Clients : \A d \in ToSet(Queue(c)), e \in ToSet(FlattenSeq(ms)) :
          d.type = "destroy" /\ e.type = "spawn" => e.id # d.id
  BY <1>2, <1>21, FreeNames
<1>25. /\ messages' \in [Clients -> Seq(Seq(Event))] /\ Formed(Tree')
       /\ \A c \in Clients : Fresh(Queue(c)')
       /\ \A c \in net_Accepted : /\ Follows(c, client[c], Queue(c)', Tree')
                                  /\ ToSet(Queue(c)') = ToSet(Queue(c)) \cup ToSet(FlattenSeq(ms))
       /\ \A c \in Clients \ net_Accepted : messages'[c] = messages[c]
  BY <1>2, <1>19, <1>20, <1>23, <1>24, Broadcast
<1>26. StateTyped'
  BY <1>1, <1>25 DEF WorldsInv, StateTyped
<1>27. TreeSound'
  <2>1. ASSUME NEW c \in Bags, NEW d \in Bags, ID_Parent'[c] # none, ID_Parent'[c] = ID_Parent'[d] PROVE c = d
    <3>1. c \in ObjectIds /\ d \in ObjectIds /\ c \notin things /\ d \notin things
      BY Names
    <3>2. ID_Parent[c] # a /\ ID_Parent[d] # a
      BY <1>2, <1>3, <3>1, Names
    <3> QED
      BY <1>1, <1>2, <2>1, <3>1, <3>2 DEF TreeSound
  <2> QED
    BY <1>25, <2>1 DEF TreeSound
<1>28. InStep'
  BY <1>1, <1>25 DEF WorldsInv, InStep
<1>29. server \in Clients /\ server \in net_Accepted
  BY <1>2 DEF StateTyped
<1>30. a \notin client[server].objs /\ b \notin client[server].objs /\ a \notin Dies(Queue(server))
  <2>1. \A d \in ToSet(Queue(server)) : d.dest # a
    BY <1>1, <1>2, <1>29, FreeNames
  <2> QED
    BY <1>1, <1>2, <1>29, <2>1, FreeNames DEF Dies
<1>31. BagEvents'
  <2>1. ToSet(Queue(server)') = ToSet(Queue(server)) \cup ToSet(FlattenSeq(ms))
    BY <1>25, <1>29
  <2>2. Dies(Queue(server)') = Dies(Queue(server))
    BY <1>21, <2>1, DiesMore
  <2>3. Dies(Queue(server))' = Dies(Queue(server)')
    BY DEF Dies, Queue
  <2> QED
    BY <1>1, <1>21, <1>30, <2>1, <2>2, <2>3 DEF WorldsInv, BagEvents
<1>32. BagsKnown'
  <2>1. ASSUME NEW d \in Bags, d # b PROVE ID_Parent'[d] = ID_Parent[d]
    BY <1>1, <2>1, Names
  <2>2. ID_Parent'[b] = a
    BY <1>1, <1>2
  <2> QED
    BY <1>1, <1>30, <2>1, <2>2 DEF WorldsInv, BagsKnown
<1>33. Dropping'
  BY <1>1 DEF Dropping
<1> QED
  BY <1>26, <1>27, <1>28, <1>31, <1>32, <1>33 DEF WorldsInv

(* Things thrown away.                                                     *)
Throws(A, S, a, ms) ==
  /\ ms \in Seq(Seq(Event)) /\ Leads(A, FlattenSeq(ms), Moved(A, S, none))
  /\ \A e \in ToSet(FlattenSeq(ms)) : \E x \in S : e = RejectEvent(a, x)

(* GE_OWNERSHIP_REJECT of the things thrown away.                          *)
LEMMA Thrown ==
  ASSUME NEW A, Formed(A), World(A), NEW S \in SUBSET Items, NEW a \in Actors, \A x \in S : A.par[x] = a,
         NEW M, M = {<<RejectEvent(a, x)>> : x \in S}
  PROVE  Throws(A, S, a, SetToSeq(M))
<1>0. /\ A.par \in [ObjectIds -> ObjectIds \cup {none}] /\ A.ents \subseteq ObjectIds
      /\ S \subseteq ObjectIds /\ a \in ObjectIds /\ a # none
  BY Names DEF Formed
<1> DEFINE F == [x \in S |-> <<RejectEvent(a, x)>>]
           R == [N \in SUBSET S |-> Moved(A, N, none)]
<1>1. \A x \in S : RejectEvent(a, x) \in Event
  BY <1>0, Events
<1>2. F \in [S -> Seq(Event)]
  BY <1>1
<1>3. \A x \in S : F[x] = <<RejectEvent(a, x)>>
  OBVIOUS
<1>4. M = Messages(F, S)
  BY DEF Messages
<1>5. ASSUME NEW x \in S, NEW y \in S, F[x] = F[y] PROVE x = y
  <2>1. F[x][1] = RejectEvent(a, x) /\ F[y][1] = RejectEvent(a, y)
    OBVIOUS
  <2>2. RejectEvent(a, x).id = x /\ RejectEvent(a, y).id = y
    BY DEF RejectEvent
  <2> HIDE DEF F
  <2> QED
    BY <1>5, <2>1, <2>2
<1>6. ASSUME NEW N \in SUBSET S, NEW x \in S, x \notin N PROVE Leads(R[N], F[x], R[N \cup {x}])
  <2>1. PICK B : B = Moved(A, N, none)
    OBVIOUS
  <2>2. B.ents = A.ents /\ B.par = [y \in ObjectIds |-> IF y \in N THEN none ELSE A.par[y]]
    BY <2>1 DEF Moved
  <2>3. B.par[x] = a
    BY <1>0, <1>6, <2>2
  <2>4. With(B, x, none) = Moved(A, N \cup {x}, none)
    <3>1. [B.par EXCEPT ![x] = none] = [y \in ObjectIds |-> IF y \in N \cup {x} THEN none ELSE A.par[y]]
      BY <1>0, <2>2
    <3> QED
      BY <2>2, <3>1 DEF With, Moved
  <2>5. Change(B, RejectEvent(a, x), Moved(A, N \cup {x}, none))
    BY <1>0, <2>3, <2>4 DEF Change, RejectEvent
  <2>6. R[N] = B /\ R[N \cup {x}] = Moved(A, N \cup {x}, none)
    BY <2>1
  <2> HIDE DEF R, F
  <2> QED
    BY <1>3, <2>5, <2>6, LeadsOne
<1>7. R[{}] = A
  <2>1. [x \in ObjectIds |-> IF x \in {} THEN none ELSE A.par[x]] = A.par
    BY <1>0
  <2> QED
    BY <2>1 DEF Moved, World
<1>8. R[S] = Moved(A, S, none)
  OBVIOUS
<1>9. IsFiniteSet(S)
  BY <1>0, IdsAreFinite, FS_Subset
<1> HIDE DEF R, F
<1>10. OneByOne(F, S, R)
  BY <1>5, <1>6 DEF OneByOne
<1>11. PICK s : s = SetToSeq(M)
  OBVIOUS
<1>12. s \in Seq(Seq(Event)) /\ ToSet(s) = M /\ Leads(R[{}], FlattenSeq(s), R[S])
  BY <1>2, <1>4, <1>9, <1>10, <1>11, LeadsForEach
<1>13. ASSUME NEW e \in ToSet(FlattenSeq(s)) PROVE \E x \in S : e = RejectEvent(a, x)
  <2>0. PICK k \in M : e \in ToSet(k)
    BY <1>12, FlattenElements
  <2>1. PICK x \in S : k = F[x]
    BY <1>4, <2>0 DEF Messages
  <2>2. ToSet(<<RejectEvent(a, x)>>) = {RejectEvent(a, x)}
    BY <1>1, OneEvent
  <2> QED
    BY <1>3, <2>0, <2>1, <2>2
<1> QED
  BY <1>7, <1>8, <1>11, <1>12, <1>13 DEF Throws

(* Many things moved keep a world well formed.                             *)
LEMMA FormedMoved ==
  ASSUME NEW A, Formed(A), NEW S \in SUBSET A.ents, NEW p, p = none \/ (p \in A.ents /\ \A x \in S : MayCarry(p, x))
  PROVE  Formed(Moved(A, S, p)) /\ World(Moved(A, S, p))
<1>1. PICK B : B = Moved(A, S, p)
  OBVIOUS
<1>2. B.ents = A.ents /\ B.par = [x \in ObjectIds |-> IF x \in S THEN p ELSE A.par[x]] /\ World(B)
  BY <1>1 DEF Moved, World
<1>3. Formed(B)
  BY <1>2, Names DEF Formed
<1> QED
  BY <1>1, <1>2, <1>3

(* A bag is dropped with what its bearer carried.                          *)
LEMMA RejectBagInv ==
  ASSUME WorldsInv, NEW b \in Bags, NEW data \in BOOLEAN, RejectBag(b, data)
  PROVE  WorldsInv'
<1> DEFINE Hands(active) == IF active = none THEN {} ELSE {active}
           Things(a, active) == IF data THEN Children(a) \ ({b} \cup Hands(active)) ELSE {}
           ThrownAway(active) == IF data THEN Hands(active) ELSE {}
           Effect(a, active) ==
             /\ ID_Parent' = [x \in ObjectIds |-> IF x \in Things(a, active) THEN b
                                              ELSE IF x = b \/ x \in ThrownAway(active) THEN none
                                              ELSE ID_Parent[x]]
             /\ SendBroadcast(Perform_transfer(Things(a, active), a, b)
                                \o SetToSeq({<<RejectEvent(a, x)>> : x \in ThrownAway(active)})
                                \o << <<RejectEvent(a, b)>> >>)
<1>01. PICK active \in (Items \cap CarriedBy(client[server].parent, client[server].parent[b])) \cup {none} :
         Effect(client[server].parent[b], active)
  BY Zenon DEF RejectBag
<1>1. PICK a : a = client[server].parent[b]
  OBVIOUS
<1>02. PICK inHands : inHands = Hands(active)
  OBVIOUS
<1>03. PICK things, thrown : things = Things(a, active) /\ thrown = ThrownAway(active)
  OBVIOUS
<1>2. /\ inHands = IF active = none THEN {} ELSE {active}
      /\ things = IF data THEN Children(a) \ ({b} \cup inHands) ELSE {}
      /\ thrown = IF data THEN inHands ELSE {}
      /\ ID_Parent' = [x \in ObjectIds |-> IF x \in things THEN b
                                       ELSE IF x = b \/ x \in thrown THEN none
                                       ELSE ID_Parent[x]]
      /\ SendBroadcast(Perform_transfer(things, a, b)
                         \o SetToSeq({<<RejectEvent(a, x)>> : x \in thrown})
                         \o << <<RejectEvent(a, b)>> >>)
  <2>1. things = (IF data THEN Children(a) \ ({b} \cup inHands) ELSE {}) /\ thrown = (IF data THEN inHands ELSE {})
    BY <1>02, <1>03
  <2> HIDE DEF Things, ThrownAway
  <2>2. Effect(a, active)
    <3> HIDE DEF Effect
    <3> QED
      BY <1>01, <1>1
  <2> QED
    BY <1>02, <1>03, <2>1, <2>2
<1> HIDE DEF Effect, Things, ThrownAway, Hands
<1>3. b \in dropManual /\ dropManual' = dropManual \ {b} /\ UNCHANGED <<entities, net_Accepted, client>>
  BY DEF RejectBag
<1>4. /\ Tree.ents = entities /\ Tree.par = ID_Parent /\ ID_Parent \in [ObjectIds -> ObjectIds \cup {none}]
      /\ entities \subseteq ObjectIds /\ Formed(Tree) /\ World(Tree)
      /\ \A x \in ObjectIds : ID_Parent[x] # none =>
              x \in entities /\ ID_Parent[x] \in entities /\ MayCarry(ID_Parent[x], x)
      /\ StateTyped /\ TreeSound /\ InStep /\ BagEvents /\ BagsKnown /\ Dropping
  BY TreeParts DEF WorldsInv, Tree, World
<1>5. /\ a \in Actors /\ a \in client[server].dead /\ Dies(Queue(server)) = {}
      /\ \A x \in ObjectIds : client[server].parent[x] = a => ID_Parent[x] = a
  BY <1>1, <1>3, <1>4 DEF Dropping
<1>6. /\ b \in ObjectIds /\ ID_Parent[b] = a /\ a # none /\ b # none /\ a \in ObjectIds /\ a # b /\ b \in entities
  BY <1>1, <1>4, <1>5, Names
<1>7. \A x \in Children(a) : x \in entities /\ x \in ObjectIds /\ ID_Parent[x] = a /\ (x = b \/ x \in Items)
  <2> SUFFICES ASSUME NEW x \in Children(a) PROVE x \in entities /\ x \in ObjectIds /\ ID_Parent[x] = a /\ (x = b \/ x \in Items)
    OBVIOUS
  <2>1. x \in ObjectIds /\ ID_Parent[x] = a
    BY DEF Children, CarriedBy
  <2>2. x \in entities /\ MayCarry(a, x)
    BY <1>4, <1>6, <2>1
  <2>3. x \in Bags => x = b
    BY <1>4, <1>6, <2>1 DEF TreeSound
  <2> QED
    BY <2>1, <2>2, <2>3 DEF MayCarry
<1>8. \A x \in inHands : x \in Items /\ x \in ObjectIds /\ ID_Parent[x] = a /\ x \in entities
  <2>1. (active \in Items /\ active \in CarriedBy(client[server].parent, a)) \/ active = none
    BY <1>01, <1>1
  <2>2. ASSUME active # none PROVE active \in Items /\ active \in ObjectIds /\ client[server].parent[active] = a
    BY <2>1, <2>2 DEF CarriedBy
  <2>3. ASSUME active # none PROVE ID_Parent[active] = a /\ active \in entities
    BY <1>4, <1>5, <1>6, <2>2, <2>3
  <2> QED
    BY <1>2, <2>2, <2>3
<1>9. /\ things \in SUBSET ObjectIds /\ things \subseteq Items /\ things \subseteq entities
      /\ (\A x \in things : ID_Parent[x] = a) /\ b \notin things
      /\ thrown \in SUBSET Items /\ thrown \subseteq entities /\ (\A x \in thrown : ID_Parent[x] = a)
      /\ b \notin thrown /\ things \cap thrown = {}
  BY <1>2, <1>7, <1>8, Names
<1>10. PICK A : A = Moved(Tree, things, b)
  OBVIOUS
<1>11. A.ents = entities /\ A.par = [x \in ObjectIds |-> IF x \in things THEN b ELSE ID_Parent[x]]
  BY <1>4, <1>10 DEF Moved
<1>12. Formed(A) /\ World(A)
  <2>1. \A x \in things : MayCarry(b, x)
    BY <1>9 DEF MayCarry
  <2>2. things \in SUBSET Tree.ents /\ b \in Tree.ents
    BY <1>4, <1>6, <1>9
  <2> QED
    BY <1>4, <1>10, <2>1, <2>2, FormedMoved
<1>13. PICK B : B = Moved(A, thrown, none)
  OBVIOUS
<1>14. B.ents = entities /\ B.par = [x \in ObjectIds |-> IF x \in thrown THEN none ELSE A.par[x]]
  BY <1>11, <1>13 DEF Moved
<1>15. PICK m1 : m1 = Perform_transfer(things, a, b)
  OBVIOUS
<1>16. /\ m1 \in Seq(Seq(Event)) /\ Leads(Tree, FlattenSeq(m1), A)
       /\ \A e \in ToSet(FlattenSeq(m1)) : \E x \in things : e = RejectEvent(a, x) \/ e = TakeEvent(b, x)
  <2>1. \A x \in things : Tree.par[x] = a /\ MayCarry(b, x)
    BY <1>4, <1>9 DEF MayCarry
  <2>2. Transferable(Tree, things, a, b)
    BY <1>4, <1>6, <2>1 DEF Transferable
  <2>3. Transfers(Tree, things, a, b, m1)
    BY <1>4, <1>9, <1>15, <2>2, Transfer
  <2> QED
    BY <1>10, <2>3 DEF Transfers
<1>17. PICK M : M = {<<RejectEvent(a, x)>> : x \in thrown}
  OBVIOUS
<1>18. PICK m2 : m2 = SetToSeq(M)
  OBVIOUS
<1>19. /\ m2 \in Seq(Seq(Event)) /\ Leads(A, FlattenSeq(m2), B)
       /\ \A e \in ToSet(FlattenSeq(m2)) : \E x \in thrown : e = RejectEvent(a, x)
  <2>1. \A x \in thrown : A.par[x] = a
    BY <1>9, <1>11, Names
  <2>2. Throws(A, thrown, a, m2)
    BY <1>5, <1>9, <1>12, <1>17, <1>18, <2>1, Thrown
  <2> QED
    BY <1>13, <2>2 DEF Throws
<1>20. PICK m3 : m3 = << <<RejectEvent(a, b)>> >>
  OBVIOUS
<1>21. Change(B, RejectEvent(a, b), Tree')
  <2>1. [B.par EXCEPT ![b] = none] = ID_Parent'
    BY <1>2, <1>6, <1>9, <1>11, <1>14
  <2>2. With(B, b, none) = Tree'
    BY <1>3, <1>14, <2>1 DEF With, Tree
  <2>3. B.par[b] = a
    BY <1>6, <1>9, <1>11, <1>14
  <2> QED
    BY <1>6, <2>2, <2>3 DEF Change, RejectEvent
<1>22. m3 \in Seq(Seq(Event)) /\ Leads(B, FlattenSeq(m3), Tree') /\ ToSet(FlattenSeq(m3)) = {RejectEvent(a, b)}
  BY <1>6, <1>20, <1>21, Events, OneMessage
<1>23. /\ m1 \o m2 \in Seq(Seq(Event)) /\ Leads(Tree, FlattenSeq(m1 \o m2), B)
       /\ ToSet(FlattenSeq(m1 \o m2)) = ToSet(FlattenSeq(m1)) \cup ToSet(FlattenSeq(m2))
  BY <1>16, <1>19, MessagesOn
<1>24. PICK ms : ms = (m1 \o m2) \o m3
  OBVIOUS
<1>25. /\ ms \in Seq(Seq(Event)) /\ Leads(Tree, FlattenSeq(ms), Tree')
       /\ ToSet(FlattenSeq(ms)) = ToSet(FlattenSeq(m1)) \cup ToSet(FlattenSeq(m2)) \cup {RejectEvent(a, b)}
  BY <1>22, <1>23, <1>24, MessagesOn
<1>26. SendBroadcast(ms)
  BY <1>2, <1>15, <1>17, <1>18, <1>20, <1>24
<1>27. ASSUME NEW e \in ToSet(FlattenSeq(ms))
       PROVE  /\ e.type \in {"take", "reject"}
              /\ e.id \in Bags /\ e.dest \in Actors => e.dest = a /\ e.type = "reject"
  <2>1. CASE e = RejectEvent(a, b)
    BY <2>1 DEF RejectEvent
  <2>2. CASE \E x \in things : e = RejectEvent(a, x) \/ e = TakeEvent(b, x)
    BY <1>9, <2>2, Names DEF RejectEvent, TakeEvent
  <2>3. CASE \E x \in thrown : e = RejectEvent(a, x)
    BY <1>9, <2>3, Names DEF RejectEvent
  <2> QED
    BY <1>16, <1>19, <1>25, <2>1, <2>2, <2>3
<1>28. Fresh(FlattenSeq(ms))
  <2>1. \A e \in ToSet(FlattenSeq(ms)) : e.type # "spawn"
    BY <1>27
  <2> QED
    BY <1>25, <2>1, FlattenType, FreshWithout
<1>29. /\ messages' \in [Clients -> Seq(Seq(Event))] /\ Formed(Tree')
       /\ \A c \in Clients : Fresh(Queue(c)')
       /\ \A c \in net_Accepted : /\ Follows(c, client[c], Queue(c)', Tree')
                                  /\ ToSet(Queue(c)') = ToSet(Queue(c)) \cup ToSet(FlattenSeq(ms))
       /\ \A c \in Clients \ net_Accepted : messages'[c] = messages[c]
  <2>1. \A c \in Clients : \A d \in ToSet(Queue(c)), e \in ToSet(FlattenSeq(ms)) :
          d.type = "destroy" /\ e.type = "spawn" => e.id # d.id
    BY <1>27
  <2> QED
    BY <1>4, <1>25, <1>26, <1>28, <2>1, Broadcast
<1>30. StateTyped'
  BY <1>3, <1>4, <1>29 DEF StateTyped
<1>31. TreeSound' /\ BagsKnown'
  <2>1. \A d \in Bags : ID_Parent'[d] = ID_Parent[d] \/ ID_Parent'[d] = none
    BY <1>2, <1>9, Names
  <2> QED
    BY <1>3, <1>4, <1>29, <2>1, BagsTakenAway
<1>32. InStep'
  BY <1>3, <1>4, <1>29 DEF InStep
<1>33. Dies(Queue(server))' = {} /\ ToSet(Queue(server)') = ToSet(Queue(server)) \cup ToSet(FlattenSeq(ms))
  <2>1. ToSet(Queue(server)') = ToSet(Queue(server)) \cup ToSet(FlattenSeq(ms))
    BY <1>4, <1>29 DEF StateTyped
  <2>2. Dies(Queue(server)') = Dies(Queue(server))
    BY <1>27, <2>1, DiesMore
  <2>3. Dies(Queue(server))' = Dies(Queue(server)')
    BY DEF Dies, Queue
  <2> QED
    BY <1>5, <2>1, <2>2, <2>3
<1>34. BagEvents'
  BY <1>3, <1>4, <1>5, <1>27, <1>33 DEF BagEvents
<1>35. Dropping'
  <2>1. ASSUME NEW d \in dropManual, d # b, NEW x \in ObjectIds, client[server].parent[x] = client[server].parent[d]
        PROVE  ID_Parent'[x] = client[server].parent[d]
    <3>1. d \in Bags /\ d \in ObjectIds
      BY <1>4, Names DEF StateTyped
    <3>2. ID_Parent[d] = client[server].parent[d] /\ ID_Parent[x] = client[server].parent[d]
      BY <1>4, <2>1, <3>1 DEF Dropping
    <3>3. ID_Parent[d] # a
      BY <1>4, <1>6, <2>1, <3>1 DEF TreeSound
    <3> QED
      BY <1>2, <1>6, <1>9, <2>1, <3>2, <3>3
  <2> QED
    BY <1>3, <1>4, <1>33, <2>1 DEF Dropping
<1> QED
  BY <1>30, <1>31, <1>32, <1>34, <1>35 DEF WorldsInv

(* Without N, of which nothing that is left is a parent.                   *)
Gone(N) == [ents |-> entities \ N, par |-> [y \in ObjectIds |-> IF y \in N THEN none ELSE ID_Parent[y]]]

(* Who is carried comes before his bearer, and everything comes once.      *)
LeavesFirst(l) ==
  \A i \in 1..Len(l) :
    /\ l[i] \in entities /\ \A j \in 1..(i - 1) : l[j] # l[i]
    /\ \A z \in ObjectIds : ID_Parent[z] = l[i] => \E j \in 1..(i - 1) : l[j] = z

(* One entity goes that nothing left is carried by.                        *)
LEMMA LeafGone ==
  ASSUME TreeSound, NEW y \in entities, NEW N \in SUBSET ObjectIds, y \notin N,
         \A z \in ObjectIds : ID_Parent[z] = y => z \in N
  PROVE  /\ DestroyEvents(y) \in Seq(Event) /\ Leads(Gone(N), DestroyEvents(y), Gone(N \cup {y}))
         /\ \A e \in ToSet(DestroyEvents(y)) :
              e = DestroyEvent(y) \/ (e = RejectEvent(ID_Parent[y], y) /\ ID_Parent[y] # none)
<1>0. /\ y \in ObjectIds /\ ID_Parent \in [ObjectIds -> ObjectIds \cup {none}] /\ y # none
      /\ DestroyEvent(y) \in Event /\ RejectEvent(ID_Parent[y], y) \in Event
  BY TreeParts, Names, Events
<1>1. PICK A, B : A = Gone(N) /\ B = With(A, y, none)
  OBVIOUS
<1>2. /\ A.ents = entities \ N /\ A.par = [z \in ObjectIds |-> IF z \in N THEN none ELSE ID_Parent[z]]
      /\ B.ents = A.ents /\ B.par = [A.par EXCEPT ![y] = none]
  BY <1>1 DEF Gone, With
<1>3. A.par[y] = ID_Parent[y] /\ B.par[y] = none /\ y \in A.ents
  BY <1>0, <1>2
<1>4. \A z \in ObjectIds : A.par[z] # y /\ B.par[z] # y
  BY <1>0, <1>2
<1>5. Without(B, y) = Gone(N \cup {y})
  <2>1. B.ents \ {y} = entities \ (N \cup {y})
    BY <1>2
  <2>2. B.par = [z \in ObjectIds |-> IF z \in N \cup {y} THEN none ELSE ID_Parent[z]]
    BY <1>0, <1>2
  <2> QED
    BY <2>1, <2>2 DEF Without, Gone
<1>6. Change(B, DestroyEvent(y), Gone(N \cup {y}))
  BY <1>2, <1>3, <1>4, <1>5 DEF Change, DestroyEvent
<1>7. CASE ID_Parent[y] = none
  <2>1. B = A
    <3>1. B.par = A.par
      BY <1>0, <1>2, <1>3, <1>7
    <3> QED
      BY <1>1, <1>2, <3>1 DEF With, Gone
  <2>2. DestroyEvents(y) = <<DestroyEvent(y)>>
    BY <1>7 DEF DestroyEvents
  <2>3. Leads(A, <<DestroyEvent(y)>>, Gone(N \cup {y}))
    BY <1>6, <2>1, LeadsOne
  <2>4. <<DestroyEvent(y)>> \in Seq(Event) /\ ToSet(<<DestroyEvent(y)>>) = {DestroyEvent(y)}
    BY <1>0, OneEvent
  <2> QED
    BY <1>1, <2>2, <2>3, <2>4
<1>8. CASE ID_Parent[y] # none
  <2>1. Change(A, RejectEvent(ID_Parent[y], y), B)
    BY <1>1, <1>3, <1>8 DEF Change, RejectEvent
  <2>2. DestroyEvents(y) = <<RejectEvent(ID_Parent[y], y), DestroyEvent(y)>>
    BY <1>8 DEF DestroyEvents
  <2>3. PICK d, e \in Event : d = RejectEvent(ID_Parent[y], y) /\ e = DestroyEvent(y)
    BY <1>0
  <2>4. <<d, e>> \in Seq(Event) /\ ToSet(<<d, e>>) = {d, e} /\ Leads(A, <<d, e>>, Gone(N \cup {y}))
    BY <1>6, <2>1, <2>3, TwoEvents
  <2> QED
    BY <1>1, <1>8, <2>2, <2>3, <2>4
<1> QED
  BY <1>7, <1>8

(* Many go, bearers after what they carry.                                 *)
LEMMA LeavesGone ==
  ASSUME TreeSound, NEW l \in Seq(ObjectIds), LeavesFirst(l),
         NEW ds, ds = [i \in DOMAIN l |-> DestroyEvents(l[i])]
  PROVE  /\ ds \in Seq(Seq(Event)) /\ Leads(Tree, FlattenSeq(ds), Gone(ToSet(l)))
         /\ \A e \in ToSet(FlattenSeq(ds)) : \E y \in ToSet(l) :
              e = DestroyEvent(y) \/ (e = RejectEvent(ID_Parent[y], y) /\ ID_Parent[y] # none)
<1>1. PICK n \in Nat : n = Len(l)
  BY LenProperties
<1>2. DOMAIN l = 1..n /\ ds = [i \in 1..n |-> DestroyEvents(l[i])] /\ \A i \in 1..n : l[i] \in ObjectIds
  BY <1>1, ElementOfSeq
<1> DEFINE Before(i) == {l[j] : j \in 1..i}
           T == [i \in 0..n |-> Gone(Before(i))]
<1>3. ASSUME NEW i \in 1..n
      PROVE  /\ DestroyEvents(l[i]) \in Seq(Event)
             /\ Leads(Gone(Before(i - 1)), DestroyEvents(l[i]), Gone(Before(i)))
             /\ \A e \in ToSet(DestroyEvents(l[i])) :
                  e = DestroyEvent(l[i]) \/ (e = RejectEvent(ID_Parent[l[i]], l[i]) /\ ID_Parent[l[i]] # none)
  <2>1. PICK y : y = l[i]
    OBVIOUS
  <2>2. /\ y \in entities /\ (\A j \in 1..(i - 1) : l[j] # y)
        /\ \A z \in ObjectIds : ID_Parent[z] = y => \E j \in 1..(i - 1) : l[j] = z
    BY <1>1, <2>1 DEF LeavesFirst
  <2>3. \A j \in 1..(i - 1) : j \in 1..n
    OBVIOUS
  <2>4. PICK N : N = Before(i - 1)
    OBVIOUS
  <2>5. N \in SUBSET ObjectIds /\ y \notin N /\ \A z \in ObjectIds : ID_Parent[z] = y => z \in N
    BY <1>2, <2>2, <2>3, <2>4
  <2>6. Before(i) = N \cup {y}
    <3>1. \A j \in 1..i : j = i \/ j \in 1..(i - 1)
      OBVIOUS
    <3>2. i \in 1..i /\ \A j \in 1..(i - 1) : j \in 1..i
      OBVIOUS
    <3> QED
      BY <2>1, <2>4, <3>1, <3>2
  <2>7. /\ DestroyEvents(y) \in Seq(Event) /\ Leads(Gone(N), DestroyEvents(y), Gone(N \cup {y}))
        /\ \A e \in ToSet(DestroyEvents(y)) :
             e = DestroyEvent(y) \/ (e = RejectEvent(ID_Parent[y], y) /\ ID_Parent[y] # none)
    BY <2>2, <2>5, LeafGone
  <2> HIDE DEF Before
  <2> QED
    BY <2>1, <2>4, <2>6, <2>7
<1>4. ds \in Seq(Seq(Event)) /\ Len(ds) = n /\ \A i \in 1..n : ds[i] = DestroyEvents(l[i])
  <2>1. \A i \in 1..n : DestroyEvents(l[i]) \in Seq(Event)
    BY <1>3
  <2>2. ds \in [1..n -> Seq(Event)] /\ \A i \in 1..n : ds[i] = DestroyEvents(l[i])
    BY <1>2, <2>1
  <2> QED
    BY <2>2
<1>5. ASSUME NEW i \in 1..n PROVE T[i] = Gone(Before(i)) /\ T[i - 1] = Gone(Before(i - 1))
  <2>1. i \in 0..n /\ i - 1 \in 0..n
    OBVIOUS
  <2> HIDE DEF Before
  <2> QED
    BY <2>1
<1>6. Before(0) = {} /\ Before(n) = ToSet(l)
  BY <1>1, Elements
<1>7. T[0] = Gone({}) /\ T[n] = Gone(ToSet(l))
  <2>1. 0 \in 0..n /\ n \in 0..n
    OBVIOUS
  <2>2. T[0] = Gone(Before(0)) /\ T[n] = Gone(Before(n))
    BY <2>1
  <2> HIDE DEF T, Before
  <2> QED
    BY <1>6, <2>2
<1>8. Gone({}) = Tree
  <2>1. [y \in ObjectIds |-> IF y \in {} THEN none ELSE ID_Parent[y]] = ID_Parent /\ entities \ {} = entities
    BY TreeParts
  <2> QED
    BY <2>1 DEF Gone, Tree
<1> HIDE DEF T, Before
<1>9. \A i \in 1..Len(ds) : Leads(T[i - 1], ds[i], T[i])
  BY <1>3, <1>4, <1>5
<1>10. Leads(T[0], FlattenSeq(ds), T[Len(ds)])
  BY <1>4, <1>9, LeadsThrough
<1>11. ASSUME NEW e \in ToSet(FlattenSeq(ds))
       PROVE  \E y \in ToSet(l) : e = DestroyEvent(y) \/ (e = RejectEvent(ID_Parent[y], y) /\ ID_Parent[y] # none)
  <2>1. PICK m \in ToSet(ds) : e \in ToSet(m)
    BY <1>4, FlattenElements
  <2>2. PICK i \in 1..n : m = ds[i]
    BY <1>4, <2>1, Elements
  <2>3. l[i] \in ToSet(l)
    BY <1>1, Elements
  <2> QED
    BY <1>3, <1>4, <2>1, <2>2, <2>3
<1> QED
  BY <1>4, <1>7, <1>8, <1>10, <1>11

(* What it carries, and what that carries, before x.                       *)
Inner(C) == UNION {Children(y) : y \in C}

(* The order in which Process_event_destroy sends them.                    *)
LEMMA LeavesOf ==
  ASSUME TreeSound, NEW x \in entities, NEW C, C = Children(x), NEW I, I = Inner(C),
         NEW l, l = SetToSeq(I) \o SetToSeq(C) \o <<x>>
  PROVE  l \in Seq(ObjectIds) /\ LeavesFirst(l) /\ ToSet(l) = I \cup C \cup {x}
<1>1. /\ \A y \in C : y \in ObjectIds /\ ID_Parent[y] = x /\ y \in entities /\ MayCarry(x, y)
      /\ \A z \in ObjectIds : ID_Parent[z] = x => z \in C
      /\ x \in ObjectIds
  <2>1. x \in ObjectIds /\ x # none
    BY TreeParts, Names
  <2>2. \A y : y \in C <=> y \in ObjectIds /\ ID_Parent[y] = x
    BY DEF Children, CarriedBy
  <2> QED
    BY <2>1, <2>2, TreeParts
<1>2. /\ \A z \in I : z \in ObjectIds /\ ID_Parent[z] \in C /\ z \in entities /\ MayCarry(ID_Parent[z], z)
      /\ \A z \in ObjectIds : ID_Parent[z] \in C => z \in I
  <2>1. \A z : z \in I <=> \E y \in C : z \in ObjectIds /\ ID_Parent[z] = y
    BY DEF Children, CarriedBy, Inner
  <2>2. ASSUME NEW z \in I
        PROVE  z \in ObjectIds /\ ID_Parent[z] \in C /\ z \in entities /\ MayCarry(ID_Parent[z], z)
    <3>1. z \in ObjectIds /\ ID_Parent[z] \in C
      BY <2>1
    <3>2. ID_Parent[z] # none
      BY <1>1, <3>1, Names
    <3> QED
      BY <3>1, <3>2, TreeParts
  <2> QED
    BY <2>1, <2>2
<1>3. /\ x \notin C /\ x \notin I /\ C \cap I = {}
      /\ \A z \in I, w \in ObjectIds : ID_Parent[w] # z
  <2>1. x \notin C
    BY <1>1, Names
  <2>2. x \notin I
    BY <1>1, <1>2, Names DEF MayCarry
  <2>3. C \cap I = {}
    BY <1>1, <1>2, <2>1
  <2>4. ASSUME NEW z \in I, NEW w \in ObjectIds, ID_Parent[w] = z PROVE FALSE
    <3>1. MayCarry(z, w) /\ MayCarry(ID_Parent[z], z) /\ MayCarry(x, ID_Parent[z])
      <4>1. z # none
        BY <1>2, Names
      <4> QED
        BY <1>1, <1>2, <2>4, <4>1, TreeParts
    <3> QED
      BY <3>1, Names DEF MayCarry
  <2> QED
    BY <2>1, <2>2, <2>3, <2>4
<1>4. PICK s : s = SetToSeq(I)
  OBVIOUS
<1>5. PICK t : t = SetToSeq(C)
  OBVIOUS
<1>6. /\ s \in Seq(ObjectIds) /\ ToSet(s) = I /\ (\A z : z \in I <=> \E i \in 1..Len(s) : s[i] = z)
      /\ \A i, j \in 1..Len(s) : s[i] = s[j] => i = j
  <2>1. I \subseteq ObjectIds
    BY <1>2
  <2>2. IsFiniteSet(I)
    BY <2>1, IdsAreFinite, FS_Subset
  <2> QED
    <3>1. /\ s \in Seq(I) /\ ToSet(s) = I /\ (\A z : z \in I <=> \E i \in 1..Len(s) : s[i] = z)
          /\ \A i, j \in 1..Len(s) : s[i] = s[j] => i = j
      BY <1>4, <2>2, Enumerated
    <3> QED
      BY <2>1, <3>1, SeqMonotonic
<1>7. /\ t \in Seq(ObjectIds) /\ ToSet(t) = C /\ (\A z : z \in C <=> \E i \in 1..Len(t) : t[i] = z)
      /\ \A i, j \in 1..Len(t) : t[i] = t[j] => i = j
  <2>1. C \subseteq ObjectIds
    BY <1>1
  <2>2. IsFiniteSet(C)
    BY <2>1, IdsAreFinite, FS_Subset
  <2> QED
    <3>1. /\ t \in Seq(C) /\ ToSet(t) = C /\ (\A z : z \in C <=> \E i \in 1..Len(t) : t[i] = z)
          /\ \A i, j \in 1..Len(t) : t[i] = t[j] => i = j
      BY <1>5, <2>2, Enumerated
    <3> QED
      BY <2>1, <3>1, SeqMonotonic
<1>8. PICK n \in Nat, m \in Nat : n = Len(s) /\ m = Len(t)
  BY <1>6, <1>7, LenProperties
<1>80. /\ \A z \in I : \E i \in 1..n : s[i] = z
       /\ \A z \in C : \E i \in 1..m : t[i] = z
       /\ \A i, j \in 1..n : s[i] = s[j] => i = j
       /\ \A i, j \in 1..m : t[i] = t[j] => i = j
  BY <1>6, <1>7, <1>8
<1>9. /\ s \o t \in Seq(ObjectIds) /\ Len(s \o t) = n + m
      /\ \A i \in 1..(n + m) : (s \o t)[i] = IF i <= n THEN s[i] ELSE t[i - n]
  BY <1>6, <1>7, <1>8, ConcatProperties
<1>10. <<x>> \in Seq(ObjectIds) /\ Len(<<x>>) = 1 /\ <<x>>[1] = x /\ ToSet(<<x>>) = {x}
  <2>1. ToSet(<<x>>) = {x}
    BY DEF ToSet
  <2> QED
    BY <1>1, <2>1
<1>11. l = (s \o t) \o <<x>>
  BY <1>4, <1>5
<1>12. /\ l \in Seq(ObjectIds) /\ Len(l) = n + m + 1
       /\ \A i \in 1..(n + m + 1) : l[i] = IF i <= n + m THEN (s \o t)[i] ELSE <<x>>[i - (n + m)]
  <2>1. /\ (s \o t) \o <<x>> \in Seq(ObjectIds) /\ Len((s \o t) \o <<x>>) = Len(s \o t) + Len(<<x>>)
        /\ \A i \in 1..(Len(s \o t) + Len(<<x>>)) :
             ((s \o t) \o <<x>>)[i] = IF i <= Len(s \o t) THEN (s \o t)[i] ELSE <<x>>[i - Len(s \o t)]
    BY <1>9, <1>10, ConcatProperties
  <2> QED
    BY <1>9, <1>10, <1>11, <2>1
<1>13. ToSet(l) = I \cup C \cup {x}
  <2>1. ToSet(s \o t) = I \cup C
    BY <1>6, <1>7, ConcatElements
  <2>2. ToSet((s \o t) \o <<x>>) = ToSet(s \o t) \cup ToSet(<<x>>)
    BY <1>9, <1>10, ConcatElements
  <2> QED
    BY <1>10, <1>11, <2>1, <2>2
<1>14. /\ \A i \in 1..n : l[i] = s[i] /\ l[i] \in I
       /\ \A i \in 1..m : l[n + i] = t[i] /\ l[n + i] \in C
       /\ l[n + m + 1] = x
  <2>1. ASSUME NEW i \in 1..n PROVE l[i] = s[i] /\ l[i] \in I
    <3>1. i \in 1..(n + m + 1) /\ i <= n + m /\ i \in 1..(n + m) /\ i <= n
      OBVIOUS
    <3>2. l[i] = s[i]
      BY <1>9, <1>12, <3>1
    <3> QED
      BY <1>6, <1>8, <3>2
  <2>2. ASSUME NEW i \in 1..m PROVE l[n + i] = t[i] /\ l[n + i] \in C
    <3>1. n + i \in 1..(n + m + 1) /\ n + i <= n + m /\ n + i \in 1..(n + m) /\ ~(n + i <= n) /\ (n + i) - n = i
      OBVIOUS
    <3>2. l[n + i] = t[i]
      BY <1>9, <1>12, <3>1
    <3> QED
      BY <1>7, <1>8, <3>2
  <2>3. l[n + m + 1] = x
    <3>1. n + m + 1 \in 1..(n + m + 1) /\ ~(n + m + 1 <= n + m) /\ (n + m + 1) - (n + m) = 1
      OBVIOUS
    <3> QED
      BY <1>10, <1>12, <3>1
  <2> QED
    BY <2>1, <2>2, <2>3
<1>15. \A i \in 1..(n + m + 1) : i \in 1..n \/ (i - n \in 1..m /\ i = n + (i - n)) \/ i = n + m + 1
  OBVIOUS
<1> HIDE DEF LeavesFirst
<1>16. ASSUME NEW i \in 1..n
       PROVE  /\ l[i] \in entities /\ (\A j \in 1..(i - 1) : l[j] # l[i])
              /\ \A z \in ObjectIds : ID_Parent[z] = l[i] => \E j \in 1..(i - 1) : l[j] = z
  <2>1. \A j \in 1..(i - 1) : j \in 1..n /\ j # i
    OBVIOUS
  <2>2. l[i] \in I /\ l[i] \in entities
    BY <1>2, <1>14
  <2>3. \A z \in ObjectIds : ID_Parent[z] # l[i]
    BY <1>3, <2>2
  <2>4. ASSUME NEW j \in 1..(i - 1) PROVE l[j] # l[i]
    <3>1. j \in 1..n /\ j # i
      BY <2>1
    <3>2. l[j] = s[j] /\ l[i] = s[i]
      BY <1>14, <3>1
    <3>3. i \in 1..n /\ (s[j] = s[i] => j = i)
      BY <1>80, <3>1
    <3> QED
      BY <3>1, <3>2, <3>3
  <2> QED
    BY <2>2, <2>3, <2>4
<1>17. ASSUME NEW k \in 1..m, NEW i \in 1..(n + m), i = n + k
       PROVE  /\ l[i] \in entities /\ (\A j \in 1..(i - 1) : l[j] # l[i])
              /\ \A z \in ObjectIds : ID_Parent[z] = l[i] => \E j \in 1..(i - 1) : l[j] = z
  <2>1. l[i] = t[k] /\ l[i] \in C
    BY <1>14, <1>17
  <2>2. ASSUME NEW j \in 1..(i - 1) PROVE l[j] # l[i]
    <3>1. CASE j \in 1..n
      BY <1>3, <1>14, <2>1, <3>1
    <3>2. CASE j \notin 1..n
      <4>1. PICK h \in 1..m : j = n + h /\ h # k
        <5>1. j - n \in 1..m /\ j = n + (j - n) /\ j - n # k
          BY <1>17, <3>2
        <5> QED
          BY <5>1
      <4>2. l[j] = t[h] /\ l[i] = t[k]
        BY <1>14, <2>1, <4>1
      <4>3. t[h] = t[k] => h = k
        BY <1>80
      <4> QED
        BY <4>1, <4>2, <4>3
    <3> QED
      BY <3>1, <3>2
  <2>3. ASSUME NEW z \in ObjectIds, ID_Parent[z] = l[i] PROVE \E j \in 1..(i - 1) : l[j] = z
    <3>1. z \in I
      BY <1>2, <2>1, <2>3
    <3>2. PICK j \in 1..n : s[j] = z
      BY <1>6, <1>8, <3>1
    <3>3. j \in 1..(i - 1)
      BY <1>17
    <3> QED
      BY <1>14, <3>2, <3>3
  <2> QED
    BY <1>1, <2>1, <2>2, <2>3
<1>18. ASSUME NEW i, i = n + m + 1
       PROVE  /\ l[i] \in entities /\ (\A j \in 1..(i - 1) : l[j] # l[i])
              /\ \A z \in ObjectIds : ID_Parent[z] = l[i] => \E j \in 1..(i - 1) : l[j] = z
  <2>1. l[i] = x
    BY <1>14, <1>18
  <2>2. ASSUME NEW j \in 1..(i - 1) PROVE l[j] # l[i]
    <3>1. CASE j \in 1..n
      <4>1. l[j] \in I
        BY <1>14, <3>1
      <4> QED
        BY <1>3, <2>1, <4>1
    <3>2. CASE j \notin 1..n
      <4>1. PICK h \in 1..m : j = n + h
        <5>1. j - n \in 1..m /\ j = n + (j - n)
          BY <1>18, <3>2
        <5> QED
          BY <5>1
      <4>2. l[j] \in C
        BY <1>14, <4>1
      <4> QED
        BY <1>3, <2>1, <4>2
    <3> QED
      BY <3>1, <3>2
  <2>3. ASSUME NEW z \in ObjectIds, ID_Parent[z] = l[i] PROVE \E j \in 1..(i - 1) : l[j] = z
    <3>1. z \in C
      BY <1>1, <2>1, <2>3
    <3>2. PICK j \in 1..m : t[j] = z
      BY <1>7, <1>8, <3>1
    <3>3. n + j \in 1..(i - 1)
      BY <1>18
    <3> QED
      BY <1>14, <3>2, <3>3
  <2> QED
    BY <2>1, <2>2, <2>3
<1>19. LeavesFirst(l)
  <2>1. ASSUME NEW i \in 1..(n + m + 1)
        PROVE  /\ l[i] \in entities /\ (\A j \in 1..(i - 1) : l[j] # l[i])
               /\ \A z \in ObjectIds : ID_Parent[z] = l[i] => \E j \in 1..(i - 1) : l[j] = z
    <3>1. CASE i \in 1..n
      BY <1>16, <3>1
    <3>2. CASE i - n \in 1..m /\ i = n + (i - n)
      <4>1. PICK k \in 1..m : k = i - n /\ i = n + k
        BY <3>2
      <4>2. i \in 1..(n + m)
        BY <4>1
      <4> QED
        BY <1>17, <4>1, <4>2
    <3>3. CASE i = n + m + 1
      BY <1>18, <3>3
    <3> QED
      BY <1>15, <3>1, <3>2, <3>3
  <2> QED
    BY <1>12, <2>1 DEF LeavesFirst
<1> QED
  BY <1>12, <1>13, <1>19

(* GE_DESTROY of an entity and of what it carries.                         *)
LEMMA DestroyObjectInv ==
  ASSUME WorldsInv, NEW x \in ObjectIds, DestroyObject(x)
  PROVE  WorldsInv'
<1>1. PICK C : C = Children(x)
  OBVIOUS
<1>2. PICK I : I = Inner(C)
  OBVIOUS
<1>3. PICK l : l = SetToSeq(I) \o SetToSeq(C) \o <<x>>
  OBVIOUS
<1>4. PICK ds : ds = [i \in DOMAIN l |-> DestroyEvents(l[i])]
  OBVIOUS
<1>5. /\ dropManual = {} /\ x \in entities /\ NeedToDestroyObject(x)
      /\ entities' = entities \ ToSet(l)
      /\ ID_Parent' = [y \in ObjectIds |-> IF y \in ToSet(l) THEN none ELSE ID_Parent[y]]
      /\ SendBroadcast(<< FlattenSeq(ds) >>)
      /\ UNCHANGED <<net_Accepted, client, dropManual>>
  BY <1>1, <1>2, <1>3, <1>4 DEF DestroyObject, Idle, Inner
<1>6. /\ ID_Parent \in [ObjectIds -> ObjectIds \cup {none}] /\ TreeSound /\ BagsKnown
      /\ \A y \in ObjectIds : ID_Parent[y] # none => MayCarry(ID_Parent[y], y)
  BY TreeParts DEF WorldsInv
<1>7. l \in Seq(ObjectIds) /\ LeavesFirst(l) /\ ToSet(l) = I \cup C \cup {x}
  BY <1>1, <1>2, <1>3, <1>5, <1>6, LeavesOf
<1>8. /\ ds \in Seq(Seq(Event)) /\ Leads(Tree, FlattenSeq(ds), Gone(ToSet(l)))
      /\ \A e \in ToSet(FlattenSeq(ds)) : \E y \in ToSet(l) :
           e = DestroyEvent(y) \/ (e = RejectEvent(ID_Parent[y], y) /\ ID_Parent[y] # none)
  BY <1>4, <1>6, <1>7, LeavesGone
<1>9. PICK m : m = FlattenSeq(ds)
  OBVIOUS
<1>10. m \in Seq(Event) /\ <<m>> \in Seq(Seq(Event)) /\ FlattenSeq(<<m>>) = m
  <2>1. m \in Seq(Event)
    BY <1>8, <1>9, FlattenType
  <2>2. <<m>> \in Seq(Seq(Event))
    BY <2>1
  <2> QED
    BY <2>1, <2>2, FlattenOne
<1>11. Gone(ToSet(l)) = Tree'
  BY <1>5 DEF Gone, Tree
<1>12. ASSUME NEW y \in ToSet(l), y \in Bags PROVE ID_Parent[y] = none
  <2>1. x \in client[server].objs /\ client[server].parent[x] = none
        /\ (x \in Actors => Bags \cap CarriedBy(client[server].parent, x) = {})
    BY <1>5 DEF NeedToDestroyObject
  <2>2. CASE y = x
    BY <1>6, <1>12, <2>1, <2>2 DEF BagsKnown
  <2>3. CASE y \in C
    <3>1. ID_Parent[y] = x /\ y \in ObjectIds /\ MayCarry(x, y)
      <4>1. ID_Parent[y] = x /\ y \in ObjectIds
        BY <1>1, <2>3 DEF Children, CarriedBy
      <4> QED
        BY <1>6, <4>1, Names
    <3>2. x \in Actors
      BY <1>12, <3>1, Names DEF MayCarry
    <3>3. client[server].parent[y] = x
      BY <1>6, <1>12, <2>1, <3>1, <3>2 DEF BagsKnown
    <3> QED
      BY <1>12, <2>1, <3>1, <3>2, <3>3 DEF CarriedBy
  <2>4. CASE y \in I
    <3>1. PICK z \in C : y \in Children(z)
      BY <1>2, <2>4 DEF Inner
    <3>2. ID_Parent[y] = z /\ ID_Parent[z] = x /\ y \in ObjectIds /\ z \in ObjectIds
      BY <1>1, <3>1 DEF Children, CarriedBy
    <3>3. MayCarry(z, y) /\ MayCarry(x, z)
      BY <1>6, <3>2, Names
    <3> QED
      BY <1>12, <3>3, Names DEF MayCarry
  <2> QED
    BY <1>7, <2>2, <2>3, <2>4
<1>13. ASSUME NEW e \in ToSet(m)
       PROVE  e.type \in {"take", "reject", "destroy"} /\ ~(e.id \in Bags /\ e.dest \in Actors)
  <2>1. PICK y \in ToSet(l) : e = DestroyEvent(y) \/ (e = RejectEvent(ID_Parent[y], y) /\ ID_Parent[y] # none)
    BY <1>8, <1>9
  <2>2. CASE e = DestroyEvent(y)
    BY <2>2, Names DEF DestroyEvent
  <2>3. CASE e = RejectEvent(ID_Parent[y], y) /\ ID_Parent[y] # none
    BY <1>12, <2>3 DEF RejectEvent
  <2> QED
    BY <2>1, <2>2, <2>3
<1>14. \A b \in Bags : ID_Parent'[b] = ID_Parent[b] \/ ID_Parent'[b] = none
  BY <1>5, Names
<1>15. Leads(Tree, FlattenSeq(<<m>>), Tree') /\ SendBroadcast(<<m>>)
  BY <1>5, <1>8, <1>9, <1>10, <1>11
<1> QED
  BY <1>5, <1>10, <1>13, <1>14, <1>15, HandlerInv

(* One more whom an object list takes to be dead.                          *)
Dead(s, a) == [s EXCEPT !.dead = @ \cup {a}]

(* One more dead actor changes nothing else.                               *)
LEMMA DeadList ==
  ASSUME NEW s \in ObjectList, NEW a \in Actors, NEW t, t = Dead(s, a)
  PROVE  /\ t \in ObjectList /\ t.objs = s.objs /\ t.parent = s.parent /\ t.dead = s.dead \cup {a}
         /\ t.destroy_queue = s.destroy_queue /\ t.dropping = s.dropping /\ t.unmet = s.unmet
BY DEF Dead, ObjectList

(* An object list that takes one more to be dead follows as before.        *)
LEMMA FollowsDead ==
  ASSUME NEW c, NEW s, NEW q, NEW W, Follows(c, s, q, W), NEW a \in Actors, a \in s.objs, NEW t, t = Dead(s, a)
  PROVE  Follows(c, t, q, W)
<1>1. PICK A : /\ Sees(s, A) /\ Leads(A, q, W)
               /\ c = server => \A b \in Bags : s.parent[b] = A.par[b]
  BY DEF Follows
<1>2. /\ t \in ObjectList /\ t.objs = s.objs /\ t.parent = s.parent /\ t.dead = s.dead \cup {a}
      /\ t.destroy_queue = s.destroy_queue /\ t.dropping = s.dropping /\ t.unmet = s.unmet
  BY <1>1, DeadList DEF Sees
<1>3. Sees(t, A)
  BY <1>1, <1>2 DEF Sees
<1> QED
  BY <1>1, <1>2, <1>3 DEF Follows

(* GE_DIE, at the server and told to the clients.                          *)
LEMMA KillEntityInv ==
  ASSUME WorldsInv, NEW a \in Actors, KillEntity(a)
  PROVE  WorldsInv'
<1>1. /\ dropManual = {} /\ a \in client[server].objs /\ a \notin client[server].dead /\ a \in entities
      /\ client' = [client EXCEPT ![server].dead = @ \cup {a}]
      /\ SendBroadcast(<< <<DieEvent(a)>> >>)
      /\ UNCHANGED <<entities, ID_Parent, net_Accepted, dropManual>>
  BY DEF KillEntity, Idle, tree
<1>2. StateTyped /\ TreeSound /\ InStep /\ BagEvents /\ BagsKnown /\ server \in net_Accepted /\ server \in Clients
  BY DEF WorldsInv, StateTyped
<1>3. PICK t : t = Dead(client[server], a)
  OBVIOUS
<1>4. client' = [client EXCEPT ![server] = t] /\ client \in [Clients -> ObjectList] /\ client[server] \in ObjectList
  BY <1>1, <1>2, <1>3 DEF Dead, StateTyped
<1>5. /\ t \in ObjectList /\ t.objs = client[server].objs /\ t.parent = client[server].parent
      /\ t.dead = client[server].dead \cup {a}
      /\ t.destroy_queue = client[server].destroy_queue /\ t.dropping = client[server].dropping
      /\ t.unmet = client[server].unmet
  BY <1>3, <1>4, DeadList
<1>6. client' \in [Clients -> ObjectList] /\ client'[server] = t /\ \A c \in Clients : c # server => client'[c] = client[c]
  BY <1>2, <1>4, <1>5
<1>7. Tree' = Tree
  BY <1>1 DEF Tree
<1>8. DieEvent(a) \in Event /\ Change(Tree, DieEvent(a), Tree')
  BY <1>7, Events DEF Change, DieEvent
<1>9. PICK ms : ms = << <<DieEvent(a)>> >>
  OBVIOUS
<1>10. ms \in Seq(Seq(Event)) /\ Leads(Tree, FlattenSeq(ms), Tree') /\ ToSet(FlattenSeq(ms)) = {DieEvent(a)}
  BY <1>8, <1>9, OneMessage
<1>11. Fresh(FlattenSeq(ms))
  <2>1. \A e \in ToSet(FlattenSeq(ms)) : e.type # "spawn"
    BY <1>10 DEF DieEvent
  <2> QED
    BY <1>10, <2>1, FlattenType, FreshWithout
<1>12. /\ messages' \in [Clients -> Seq(Seq(Event))] /\ Formed(Tree')
       /\ \A c \in Clients : Fresh(Queue(c)')
       /\ \A c \in net_Accepted : /\ Follows(c, client[c], Queue(c)', Tree')
                                  /\ ToSet(Queue(c)') = ToSet(Queue(c)) \cup ToSet(FlattenSeq(ms))
       /\ \A c \in Clients \ net_Accepted : messages'[c] = messages[c]
  <2>1. \A c \in Clients : \A d \in ToSet(Queue(c)), e \in ToSet(FlattenSeq(ms)) :
          d.type = "destroy" /\ e.type = "spawn" => e.id # d.id
    BY <1>10 DEF DieEvent
  <2> QED
    BY <1>1, <1>2, <1>9, <1>10, <1>11, <2>1, Broadcast
<1>13. StateTyped'
  BY <1>1, <1>2, <1>6, <1>12 DEF StateTyped
<1>14. TreeSound'
  BY <1>1, <1>2, <1>12 DEF TreeSound
<1>15. InStep'
  <2>1. Follows(server, t, Queue(server)', Tree')
    BY <1>1, <1>2, <1>3, <1>12, FollowsDead
  <2>2. ASSUME NEW c \in Clients
        PROVE  /\ Fresh(Queue(c)') /\ client'[c].destroy_queue = {} /\ client'[c].dropping = {} /\ client'[c].unmet = {}
               /\ IF c \in net_Accepted THEN Follows(c, client'[c], Queue(c)', Tree')
                  ELSE client'[c] = EmptyList /\ messages'[c] = <<>>
    <3>1. CASE c = server
      BY <1>2, <1>5, <1>6, <1>12, <2>1, <3>1 DEF InStep
    <3>2. CASE c # server
      BY <1>2, <1>6, <1>12, <3>2 DEF InStep
    <3> QED
      BY <3>1, <3>2
  <2> QED
    BY <1>1, <2>2 DEF InStep
<1>16. BagEvents'
  <2>1. ToSet(Queue(server)') = ToSet(Queue(server)) \cup {DieEvent(a)}
    BY <1>2, <1>10, <1>12
  <2>2. Dies(Queue(server))' = Dies(Queue(server)')
    BY DEF Dies, Queue
  <2>3. \A d \in Dies(Queue(server)') : d \in Dies(Queue(server)) \/ d = a
    BY <2>1 DEF Dies, DieEvent
  <2>4. ASSUME NEW e \in ToSet(Queue(server)'), e.id \in Bags, e.dest \in Actors
        PROVE  /\ e.dest \notin Dies(Queue(server)')
               /\ (e.type = "spawn" /\ e.dest \notin client'[server].objs) \/ (e.type = "reject" /\ e.dest \in client'[server].dead)
    <3>1. e # DieEvent(a)
      BY <2>4, Names DEF DieEvent
    <3>2. e \in ToSet(Queue(server))
      BY <2>1, <3>1
    <3>3. /\ e.dest \notin Dies(Queue(server))
          /\ (e.type = "spawn" /\ e.dest \notin client[server].objs) \/ (e.type = "reject" /\ e.dest \in client[server].dead)
      BY <1>2, <2>4, <3>2 DEF BagEvents
    <3>4. e.dest # a
      BY <1>1, <3>3
    <3> QED
      BY <1>5, <1>6, <2>3, <3>3, <3>4
  <2> QED
    BY <2>2, <2>4 DEF BagEvents
<1>17. BagsKnown'
  BY <1>1, <1>2, <1>5, <1>6 DEF BagsKnown
<1>18. Dropping'
  BY <1>1 DEF Dropping
<1> QED
  BY <1>13, <1>14, <1>15, <1>16, <1>17, <1>18 DEF WorldsInv

(* A client learns of a death from the update of the health.               *)
LEMMA ImportHealthInv ==
  ASSUME WorldsInv, NEW c \in Remote, NEW a \in Actors, ImportHealth(c, a)
  PROVE  WorldsInv'
<1>1. /\ a \in client[c].objs
      /\ client' = [client EXCEPT ![c].dead = @ \cup {a}]
      /\ UNCHANGED <<entities, ID_Parent, net_Accepted, messages, dropManual>>
  BY DEF ImportHealth, tree
<1>2. /\ StateTyped /\ TreeSound /\ InStep /\ BagEvents /\ BagsKnown /\ Dropping
      /\ c \in Clients /\ server \in Clients /\ c # server
  BY NamesDiffer DEF WorldsInv, StateTyped, Clients
<1>3. PICK t : t = Dead(client[c], a)
  OBVIOUS
<1>4. client' = [client EXCEPT ![c] = t] /\ client \in [Clients -> ObjectList] /\ client[c] \in ObjectList
  BY <1>1, <1>2, <1>3 DEF Dead, StateTyped
<1>5. /\ t \in ObjectList /\ t.objs = client[c].objs /\ t.parent = client[c].parent
      /\ t.destroy_queue = client[c].destroy_queue /\ t.dropping = client[c].dropping
      /\ t.unmet = client[c].unmet
  BY <1>3, <1>4, DeadList
<1>6. client' \in [Clients -> ObjectList] /\ client'[c] = t /\ \A d \in Clients : d # c => client'[d] = client[d]
  BY <1>2, <1>4, <1>5
<1>7. Tree' = Tree /\ \A d \in Clients : Queue(d)' = Queue(d)
  BY <1>1 DEF Tree, Queue
<1>8. client'[server] = client[server] /\ Queue(server)' = Queue(server) /\ Dies(Queue(server))' = Dies(Queue(server))
  <2>1. client'[server] = client[server] /\ Queue(server)' = Queue(server)
    BY <1>2, <1>6, <1>7
  <2> QED
    BY <2>1 DEF Dies, Queue
<1>9. StateTyped'
  BY <1>1, <1>2, <1>6 DEF StateTyped
<1>10. TreeSound'
  BY <1>1, <1>2, <1>7 DEF TreeSound
<1>11. c \in net_Accepted
  BY <1>1, <1>2 DEF InStep, EmptyList
<1>12. InStep'
  <2>1. Follows(c, t, Queue(c), Tree)
    <3>1. Follows(c, client[c], Queue(c), Tree)
      BY <1>2, <1>11 DEF InStep
    <3> QED
      BY <1>1, <1>3, <3>1, FollowsDead
  <2>2. ASSUME NEW d \in Clients
        PROVE  /\ Fresh(Queue(d)) /\ client'[d].destroy_queue = {} /\ client'[d].dropping = {} /\ client'[d].unmet = {}
               /\ IF d \in net_Accepted THEN Follows(d, client'[d], Queue(d), Tree)
                  ELSE client'[d] = EmptyList /\ messages[d] = <<>>
    <3>1. CASE d = c
      BY <1>2, <1>5, <1>6, <1>11, <2>1, <3>1 DEF InStep
    <3>2. CASE d # c
      BY <1>2, <1>6, <3>2 DEF InStep
    <3> QED
      BY <3>1, <3>2
  <2> QED
    BY <1>1, <1>7, <2>2 DEF InStep
<1>13. BagEvents'
  BY <1>2, <1>8 DEF BagEvents
<1>14. BagsKnown'
  BY <1>1, <1>2, <1>8 DEF BagsKnown
<1>15. Dropping'
  BY <1>1, <1>2, <1>8 DEF Dropping
<1> QED
  BY <1>9, <1>10, <1>12, <1>13, <1>14, <1>15 DEF WorldsInv

(* A frame: the events are handled, and what they destroy is gone.         *)
Cleared(s) == [s EXCEPT !.dropping = {}]
Frame0(s) == [s EXCEPT !.unmet = {}]

(* No bag is to be dropped any more, or no expectation unmet.              *)
LEMMA ClearedList ==
  ASSUME NEW s \in ObjectList, NEW u, u = Cleared(s)
  PROVE  /\ u \in ObjectList /\ u.objs = s.objs /\ u.parent = s.parent /\ u.dead = s.dead
         /\ u.destroy_queue = s.destroy_queue /\ u.dropping = {} /\ u.unmet = s.unmet
BY DEF Cleared, ObjectList

LEMMA NothingUnmet ==
  ASSUME NEW s \in ObjectList, s.unmet = {}
  PROVE  Frame0(s) = s
BY DEF Frame0, ObjectList

(* What has been seen at the end of a frame in which ms are handled, which *)
(* lead to the world B.                                                    *)
LEMMA FrameDone ==
  ASSUME NEW s, NEW A, Sees(s, A), s.destroy_queue = {}, NEW ms \in Seq(Seq(Event)), Fresh(FlattenSeq(ms)),
         NEW B, Leads(A, FlattenSeq(ms), B), NEW t, t = ProcessGameEvents(s, ms),
         NEW u, u = Cleared(ObjectsUpdate(t))
  PROVE  /\ Sees(t, B) /\ Sees(u, B) /\ u.destroy_queue = {} /\ u.dropping = {} /\ u.unmet = {}
         /\ u.objs = B.ents /\ u.dead = t.dead \cap B.ents
         /\ \A x \in ObjectIds : u.parent[x] = IF x \in B.ents THEN t.parent[x] ELSE none
<1>1. Sees(t, B)
  BY FrameSeen
<1>2. PICK v : v = ObjectsUpdate(t)
  OBVIOUS
<1>3. /\ Sees(v, B) /\ v.destroy_queue = {} /\ v.objs = B.ents /\ v.dead = t.dead \cap B.ents
      /\ \A x \in ObjectIds : v.parent[x] = IF x \in B.ents THEN t.parent[x] ELSE none
  <2>1. Sees(v, B) /\ Left(v, t, B)
    BY <1>1, <1>2, UpdateSeen
  <2> QED
    BY <2>1 DEF Left
<1>4. /\ u \in ObjectList /\ u.objs = v.objs /\ u.parent = v.parent /\ u.dead = v.dead
      /\ u.destroy_queue = v.destroy_queue /\ u.dropping = {} /\ u.unmet = v.unmet
  BY <1>2, <1>3, ClearedList DEF Sees
<1>5. Sees(u, B) /\ u.unmet = {}
  BY <1>3, <1>4 DEF Sees
<1> QED
  BY <1>1, <1>3, <1>4, <1>5

(* A frame of a client that is connected over the network.                 *)
LEMMA RemoteFrameInv ==
  ASSUME WorldsInv, NEW c \in Remote, NEW n \in 1..Len(messages[c]), RemoteFrame(c, n)
  PROVE  WorldsInv'
<1>1. PICK p, r : p = SubSeq(messages[c], 1, n) /\ r = SubSeq(messages[c], n + 1, Len(messages[c]))
  OBVIOUS
<1>2. PICK s : s = client[c]
  OBVIOUS
<1>3. PICK t : t = ProcessGameEvents(Frame0(s), p)
  OBVIOUS
<1>4. PICK u : u = Cleared(ObjectsUpdate(t))
  OBVIOUS
<1>5. /\ client' = [client EXCEPT ![c] = u] /\ messages' = [messages EXCEPT ![c] = r]
      /\ UNCHANGED <<entities, ID_Parent, net_Accepted, dropManual>>
  BY <1>1, <1>2, <1>3, <1>4 DEF RemoteFrame, tree, Cleared, Frame0
<1>6. /\ StateTyped /\ TreeSound /\ InStep /\ BagEvents /\ BagsKnown /\ Dropping
      /\ c \in Clients /\ server \in Clients /\ c # server
  BY NamesDiffer DEF WorldsInv, StateTyped, Clients
<1>7. s \in ObjectList /\ messages[c] \in Seq(Seq(Event)) /\ s.unmet = {} /\ s.destroy_queue = {} /\ Frame0(s) = s
  <2>1. s \in ObjectList /\ messages[c] \in Seq(Seq(Event)) /\ s.unmet = {} /\ s.destroy_queue = {}
    BY <1>2, <1>6, QueueTyped DEF InStep
  <2> QED
    BY <2>1, NothingUnmet
<1>8. p \in Seq(Seq(Event)) /\ r \in Seq(Seq(Event)) /\ messages[c] = p \o r
  <2>1. PICK m \in Seq(Seq(Event)) : m = messages[c]
    BY <1>7
  <2>2. PICK N \in Nat : N = Len(m)
    BY LenProperties
  <2>3. \A i \in 1..N : m[i] \in Seq(Event)
    BY <2>2, ElementOfSeq
  <2>4. n \in 1..N
    BY <2>1, <2>2
  <2>5. SubSeq(m, 1, n) \in Seq(Seq(Event)) /\ SubSeq(m, n + 1, N) \in Seq(Seq(Event))
    <3>1. \A i \in 1..n : m[i] \in Seq(Event)
      BY <2>3, <2>4
    <3>2. \A i \in (n + 1)..N : m[i] \in Seq(Event)
      BY <2>3, <2>4
    <3>3. 1 \in Int /\ n \in Int /\ n + 1 \in Int /\ N \in Int
      BY <2>4
    <3> QED
      BY <3>1, <3>2, <3>3, SubSeqProperties
  <2>6. SubSeq(m, 1, n) \o SubSeq(m, n + 1, N) = SubSeq(m, 1, N)
    <3>1. 1 \in 1..(Len(m) + 1) /\ n \in (1 - 1)..Len(m) /\ N \in n..Len(m)
      BY <2>2, <2>4
    <3> QED
      BY <3>1, ConcatAdjacentSubSeq
  <2>7. SubSeq(m, 1, N) = m
    BY <2>2, SubSeqFull
  <2> QED
    BY <1>1, <2>1, <2>2, <2>5, <2>6, <2>7
<1>9. FlattenSeq(p) \in Seq(Event) /\ FlattenSeq(r) \in Seq(Event) /\ Queue(c) = FlattenSeq(p) \o FlattenSeq(r)
  BY <1>8, FlattenType, FlattenConcat DEF Queue
<1>10. c \in net_Accepted
  <2>1. messages[c] # <<>>
    <3>1. Len(<<>>) = 0 /\ 1..0 = {}
      OBVIOUS
    <3> QED
      BY <3>1
  <2> QED
    BY <1>6, <2>1 DEF InStep
<1>11. Follows(c, s, Queue(c), Tree) /\ Fresh(Queue(c))
  BY <1>2, <1>6, <1>10 DEF InStep
<1>12. Fresh(FlattenSeq(p)) /\ Fresh(FlattenSeq(r))
  BY <1>9, <1>11, FreshParts
<1>13. PICK A : Sees(s, A) /\ Leads(A, Queue(c), Tree)
  BY <1>11 DEF Follows
<1>14. PICK B : Leads(A, FlattenSeq(p), B) /\ Leads(B, FlattenSeq(r), Tree)
  BY <1>9, <1>13, LeadsSplit
<1>15. Sees(u, B) /\ u.destroy_queue = {} /\ u.dropping = {} /\ u.unmet = {}
  BY <1>3, <1>4, <1>7, <1>8, <1>12, <1>13, <1>14, FrameDone
<1>16. Follows(c, u, FlattenSeq(r), Tree)
  BY <1>6, <1>14, <1>15 DEF Follows
<1>17. /\ client' \in [Clients -> ObjectList] /\ client'[c] = u /\ \A d \in Clients : d # c => client'[d] = client[d]
       /\ messages' \in [Clients -> Seq(Seq(Event))] /\ messages'[c] = r
       /\ \A d \in Clients : d # c => messages'[d] = messages[d]
  BY <1>5, <1>6, <1>8, <1>15 DEF StateTyped, Sees
<1>18. Tree' = Tree /\ Queue(c)' = FlattenSeq(r) /\ \A d \in Clients : d # c => Queue(d)' = Queue(d)
  BY <1>5, <1>17 DEF Tree, Queue
<1>19. client'[server] = client[server] /\ Queue(server)' = Queue(server) /\ Dies(Queue(server))' = Dies(Queue(server))
  <2>1. client'[server] = client[server] /\ Queue(server)' = Queue(server)
    BY <1>6, <1>17, <1>18
  <2> QED
    BY <2>1 DEF Dies, Queue
<1>20. StateTyped'
  BY <1>5, <1>6, <1>17 DEF StateTyped
<1>21. TreeSound'
  BY <1>5, <1>6, <1>18 DEF TreeSound
<1>22. InStep'
  <2>2. ASSUME NEW d \in Clients
        PROVE  /\ Fresh(Queue(d)') /\ client'[d].destroy_queue = {} /\ client'[d].dropping = {} /\ client'[d].unmet = {}
               /\ IF d \in net_Accepted THEN Follows(d, client'[d], Queue(d)', Tree)
                  ELSE client'[d] = EmptyList /\ messages'[d] = <<>>
    <3>1. CASE d = c
      BY <1>10, <1>12, <1>15, <1>16, <1>17, <1>18, <3>1
    <3>2. CASE d # c
      BY <1>6, <1>17, <1>18, <3>2 DEF InStep
    <3> QED
      BY <3>1, <3>2
  <2> QED
    BY <1>5, <1>18, <2>2 DEF InStep
<1>23. BagEvents'
  BY <1>6, <1>19 DEF BagEvents
<1>24. BagsKnown'
  BY <1>5, <1>6, <1>19 DEF BagsKnown
<1>25. Dropping'
  BY <1>5, <1>6, <1>19 DEF Dropping
<1> QED
  BY <1>20, <1>21, <1>22, <1>23, <1>24, <1>25 DEF WorldsInv

(* A frame of the server's own client.                                     *)
LEMMA ServerFrameInv ==
  ASSUME WorldsInv, ServerFrame
  PROVE  WorldsInv'
<1>1. PICK ms : ms = messages[server]
  OBVIOUS
<1>2. PICK s : s = client[server]
  OBVIOUS
<1>3. PICK t : t = ProcessGameEvents(Frame0(s), ms)
  OBVIOUS
<1>4. PICK u : u = Cleared(ObjectsUpdate(t))
  OBVIOUS
<1>5. /\ client' = [client EXCEPT ![server] = u] /\ messages' = [messages EXCEPT ![server] = <<>>]
      /\ dropManual' = t.dropping /\ UNCHANGED <<entities, ID_Parent, net_Accepted>>
  BY <1>1, <1>2, <1>3, <1>4 DEF ServerFrame, tree, Cleared, Frame0
<1>6. /\ StateTyped /\ TreeSound /\ InStep /\ BagEvents /\ BagsKnown
      /\ server \in Clients /\ server \in net_Accepted
  BY DEF WorldsInv, StateTyped
<1>7. /\ s \in ObjectList /\ ms \in Seq(Seq(Event)) /\ s.unmet = {} /\ s.destroy_queue = {} /\ s.dropping = {}
      /\ Frame0(s) = s /\ Follows(server, s, Queue(server), Tree) /\ Fresh(FlattenSeq(ms))
      /\ Queue(server) = FlattenSeq(ms)
  <2>1. /\ s \in ObjectList /\ ms \in Seq(Seq(Event)) /\ s.unmet = {} /\ s.destroy_queue = {} /\ s.dropping = {}
        /\ Follows(server, s, Queue(server), Tree) /\ Fresh(Queue(server)) /\ Queue(server) = FlattenSeq(ms)
    BY <1>1, <1>2, <1>6, QueueTyped DEF InStep, Queue
  <2> QED
    BY <2>1, NothingUnmet
<1>8. PICK A : Sees(s, A) /\ Leads(A, FlattenSeq(ms), Tree) /\ \A b \in Bags : s.parent[b] = A.par[b]
  BY <1>7 DEF Follows
<1>9. /\ Sees(t, Tree) /\ Sees(u, Tree) /\ u.destroy_queue = {} /\ u.dropping = {} /\ u.unmet = {}
      /\ u.objs = Tree.ents /\ u.dead = t.dead \cap Tree.ents
      /\ \A x \in ObjectIds : u.parent[x] = IF x \in Tree.ents THEN t.parent[x] ELSE none
  BY <1>3, <1>4, <1>7, <1>8, FrameDone
<1>10. PICK D, K : D = s.dead /\ K = Dies(FlattenSeq(ms))
  OBVIOUS
<1>11. BagsSeen(t, Tree, D, K)
  <2>1. BagsSeen(s, A, D, K)
    BY <1>7, <1>8, <1>10 DEF BagsSeen
  <2>2. ASSUME NEW e \in ToSet(FlattenSeq(ms)) PROVE BagEventSound(e, D, K)
    <3>1. e.id \in Bags /\ e.dest \in Actors =>
            e.dest \notin K /\ ((e.type = "spawn" /\ e.dest \notin s.objs) \/ e.type = "reject")
      BY <1>2, <1>6, <1>7, <1>10 DEF BagEvents
    <3>2. D \subseteq s.objs
      BY <1>8, <1>10 DEF Sees
    <3>3. e.type = "die" => e.dest \in K
      BY <1>10 DEF Dies
    <3> QED
      BY <3>1, <3>2, <3>3 DEF BagEventSound
  <2>3. t = ProcessGameEvents(s, ms)
    BY <1>3, <1>7
  <2> QED
    BY <1>7, <1>8, <2>1, <2>2, <2>3, FrameSeen
<1>12. /\ Tree.ents = entities /\ Tree.par = ID_Parent /\ entities \subseteq ObjectIds
       /\ \A x \in ObjectIds : ID_Parent[x] # none => x \in entities /\ ID_Parent[x] \in entities
       /\ ID_Parent \in [ObjectIds -> ObjectIds \cup {none}]
  BY <1>6, TreeParts
<1>13. /\ \A b \in Bags : t.parent[b] = ID_Parent[b] /\ u.parent[b] = ID_Parent[b]
       /\ \A b \in t.dropping : b \in Bags /\ ID_Parent[b] \in Actors /\ ID_Parent[b] \in u.dead
  <2>1. ASSUME NEW b \in Bags PROVE t.parent[b] = ID_Parent[b] /\ u.parent[b] = ID_Parent[b]
    <3>1. t.parent[b] = ID_Parent[b] /\ b \in ObjectIds
      BY <1>11, <1>12, Names DEF BagsSeen
    <3> QED
      BY <1>9, <1>12, <3>1
  <2>2. ASSUME NEW b \in t.dropping PROVE b \in Bags /\ ID_Parent[b] \in Actors /\ ID_Parent[b] \in u.dead
    <3>1. t \in ObjectList
      BY <1>9 DEF Sees
    <3>2. b \in Bags /\ t.dead \subseteq Actors
      BY <3>1 DEF ObjectList
    <3>3. t.parent[b] \in t.dead
      BY <1>11 DEF BagsSeen
    <3>4. ID_Parent[b] \in Actors /\ ID_Parent[b] \in t.dead
      BY <2>1, <3>2, <3>3
    <3>5. ID_Parent[b] \in entities
      BY <1>12, <3>2, <3>4, Names
    <3> QED
      BY <1>9, <1>12, <3>2, <3>4, <3>5
  <2> QED
    BY <2>1, <2>2
<1>14. /\ client' \in [Clients -> ObjectList] /\ client'[server] = u
       /\ \A d \in Clients : d # server => client'[d] = client[d]
       /\ messages' \in [Clients -> Seq(Seq(Event))] /\ messages'[server] = <<>>
       /\ \A d \in Clients : d # server => messages'[d] = messages[d]
  BY <1>5, <1>6, <1>9 DEF StateTyped, Sees
<1>15. /\ Tree' = Tree /\ Queue(server)' = <<>> /\ \A d \in Clients : d # server => Queue(d)' = Queue(d)
       /\ Dies(Queue(server))' = {} /\ ToSet(<<>>) = {}
  <2>1. ToSet(<<>>) = {}
    BY DEF ToSet
  <2>2. Queue(server)' = <<>>
    BY <1>14, FlattenEmpty DEF Queue
  <2>3. Dies(Queue(server))' = Dies(Queue(server)')
    BY DEF Dies, Queue
  <2>4. Dies(<<>>) = {}
    BY <2>1 DEF Dies
  <2> QED
    BY <1>5, <1>14, <2>1, <2>2, <2>3, <2>4 DEF Tree, Queue
<1>16. StateTyped'
  BY <1>5, <1>6, <1>13, <1>14 DEF StateTyped
<1>17. TreeSound'
  BY <1>5, <1>6, <1>15 DEF TreeSound
<1>18. InStep'
  <2>1. Follows(server, u, <<>>, Tree)
    BY <1>9, <1>12, <1>13, LeadsNowhere DEF Follows
  <2>2. Fresh(<<>>)
    <3>1. Len(<<>>) = 0 /\ 1..0 = {}
      OBVIOUS
    <3> QED
      BY <3>1 DEF Fresh
  <2>3. ASSUME NEW d \in Clients
        PROVE  /\ Fresh(Queue(d)') /\ client'[d].destroy_queue = {} /\ client'[d].dropping = {} /\ client'[d].unmet = {}
               /\ IF d \in net_Accepted THEN Follows(d, client'[d], Queue(d)', Tree)
                  ELSE client'[d] = EmptyList /\ messages'[d] = <<>>
    <3>1. CASE d = server
      BY <1>6, <1>9, <1>14, <1>15, <2>1, <2>2, <3>1
    <3>2. CASE d # server
      BY <1>6, <1>14, <1>15, <3>2 DEF InStep
    <3> QED
      BY <3>1, <3>2
  <2> QED
    BY <1>5, <1>15, <2>3 DEF InStep
<1>19. BagEvents'
  BY <1>15 DEF BagEvents
<1>20. BagsKnown'
  BY <1>5, <1>13, <1>14 DEF BagsKnown
<1>21. Dropping'
  <2>1. ASSUME NEW b \in t.dropping, NEW x \in ObjectIds, u.parent[x] = u.parent[b]
        PROVE  ID_Parent[x] = u.parent[b]
    <3>1. u.parent[b] = ID_Parent[b] /\ ID_Parent[b] # none
      BY <1>13, Names
    <3>2. u.parent[x] = ID_Parent[x] \/ u.parent[x] = none
      BY <1>9, <1>12 DEF Sees
    <3> QED
      BY <2>1, <3>1, <3>2
  <2> QED
    BY <1>5, <1>13, <1>14, <1>15, <2>1 DEF Dropping
<1> QED
  BY <1>16, <1>17, <1>18, <1>19, <1>20, <1>21 DEF WorldsInv

(* The part of the tree that has been told of.                             *)
Part(N) == [ents |-> N, par |-> [x \in ObjectIds |-> IF x \in N THEN ID_Parent[x] ELSE none]]
SpawnsOf(S) == {<<SpawnEvent(x, ID_Parent[x])>> : x \in S}
Tells(N, S, ms) ==
  /\ ms \in Seq(Seq(Event)) /\ Leads(Part(N), FlattenSeq(ms), Part(N \cup S))
  /\ \A e \in ToSet(FlattenSeq(ms)) : e.type = "spawn"

(* M_SPAWN of things whose bearers have been told of.                      *)
LEMMA PartTold ==
  ASSUME TreeSound, NEW N0, NEW S \in SUBSET entities, S \cap N0 = {},
         \A x \in S : ID_Parent[x] = none \/ ID_Parent[x] \in N0,
         NEW M, M = SpawnsOf(S)
  PROVE  Tells(N0, S, SetToSeq(M))
<1>0. /\ S \subseteq ObjectIds /\ ID_Parent \in [ObjectIds -> ObjectIds \cup {none}]
      /\ \A x \in ObjectIds : ID_Parent[x] # none => MayCarry(ID_Parent[x], x)
  BY TreeParts
<1> DEFINE F == [x \in S |-> <<SpawnEvent(x, ID_Parent[x])>>]
           R == [N \in SUBSET S |-> Part(N0 \cup N)]
<1>1. \A x \in S : SpawnEvent(x, ID_Parent[x]) \in Event
  BY <1>0, Events
<1>2. F \in [S -> Seq(Event)]
  BY <1>1
<1>3. \A x \in S : F[x] = <<SpawnEvent(x, ID_Parent[x])>>
  OBVIOUS
<1>4. M = Messages(F, S)
  BY DEF Messages, SpawnsOf
<1>5. ASSUME NEW x \in S, NEW y \in S, F[x] = F[y] PROVE x = y
  <2>1. F[x][1] = SpawnEvent(x, ID_Parent[x]) /\ F[y][1] = SpawnEvent(y, ID_Parent[y])
    OBVIOUS
  <2>2. SpawnEvent(x, ID_Parent[x]).id = x /\ SpawnEvent(y, ID_Parent[y]).id = y
    BY DEF SpawnEvent
  <2> HIDE DEF F
  <2> QED
    BY <1>5, <2>1, <2>2
<1>6. ASSUME NEW N \in SUBSET S, NEW x \in S, x \notin N PROVE Leads(R[N], F[x], R[N \cup {x}])
  <2>1. PICK B : B = Part(N0 \cup N)
    OBVIOUS
  <2>2. B.ents = N0 \cup N /\ B.par = [y \in ObjectIds |-> IF y \in N0 \cup N THEN ID_Parent[y] ELSE none]
    BY <2>1 DEF Part
  <2>3. x \notin B.ents /\ (ID_Parent[x] = none \/ (ID_Parent[x] \in B.ents /\ MayCarry(ID_Parent[x], x)))
    BY <1>0, <1>6, <2>2
  <2>4. Bearing(B, x, ID_Parent[x]) = Part(N0 \cup (N \cup {x}))
    <3>1. [B.par EXCEPT ![x] = ID_Parent[x]]
            = [y \in ObjectIds |-> IF y \in N0 \cup (N \cup {x}) THEN ID_Parent[y] ELSE none]
      BY <1>0, <2>2
    <3>2. B.ents \cup {x} = N0 \cup (N \cup {x})
      BY <2>2
    <3> QED
      BY <3>1, <3>2 DEF Bearing, Part
  <2>5. Change(B, SpawnEvent(x, ID_Parent[x]), Part(N0 \cup (N \cup {x})))
    BY <2>3, <2>4 DEF Change, SpawnEvent
  <2>6. R[N] = B /\ R[N \cup {x}] = Part(N0 \cup (N \cup {x}))
    BY <2>1
  <2> HIDE DEF R, F
  <2> QED
    BY <1>3, <2>5, <2>6, LeadsOne
<1>7. R[{}] = Part(N0)
  <2>1. N0 \cup {} = N0
    OBVIOUS
  <2>2. R[{}] = Part(N0 \cup {})
    OBVIOUS
  <2> QED
    BY <2>1, <2>2
<1>8. R[S] = Part(N0 \cup S)
  OBVIOUS
<1>9. IsFiniteSet(S)
  BY <1>0, IdsAreFinite, FS_Subset
<1> HIDE DEF R, F
<1>10. OneByOne(F, S, R)
  BY <1>5, <1>6 DEF OneByOne
<1>11. PICK s : s = SetToSeq(M)
  OBVIOUS
<1>12. s \in Seq(Seq(Event)) /\ ToSet(s) = M /\ Leads(R[{}], FlattenSeq(s), R[S])
  BY <1>2, <1>4, <1>9, <1>10, <1>11, LeadsForEach
<1>13. ASSUME NEW e \in ToSet(FlattenSeq(s)) PROVE e.type = "spawn"
  <2>0. PICK k \in M : e \in ToSet(k)
    BY <1>12, FlattenElements
  <2>1. PICK x \in S : k = F[x]
    BY <1>4, <2>0 DEF Messages
  <2>2. ToSet(<<SpawnEvent(x, ID_Parent[x])>>) = {SpawnEvent(x, ID_Parent[x])}
    BY <1>1, OneEvent
  <2> QED
    BY <1>3, <2>0, <2>1, <2>2 DEF SpawnEvent
<1> QED
  BY <1>7, <1>8, <1>11, <1>12, <1>13 DEF Tells

(* One set of them after the other.                                        *)
LEMMA TellsOn ==
  ASSUME NEW A, NEW S, NEW T, NEW ms, NEW ns, Tells(A, S, ms), Tells(A \cup S, T, ns)
  PROVE  Tells(A, S \cup T, ms \o ns)
<1>1. ms \in Seq(Seq(Event)) /\ Leads(Part(A), FlattenSeq(ms), Part(A \cup S))
      /\ \A e \in ToSet(FlattenSeq(ms)) : e.type = "spawn"
  BY DEF Tells
<1>2. ns \in Seq(Seq(Event)) /\ Leads(Part(A \cup S), FlattenSeq(ns), Part((A \cup S) \cup T))
      /\ \A e \in ToSet(FlattenSeq(ns)) : e.type = "spawn"
  BY DEF Tells
<1>3. /\ ms \o ns \in Seq(Seq(Event)) /\ Leads(Part(A), FlattenSeq(ms \o ns), Part((A \cup S) \cup T))
      /\ ToSet(FlattenSeq(ms \o ns)) = ToSet(FlattenSeq(ms)) \cup ToSet(FlattenSeq(ns))
  BY <1>1, <1>2, MessagesOn
<1>4. (A \cup S) \cup T = A \cup (S \cup T)
  OBVIOUS
<1> QED
  BY <1>1, <1>2, <1>3, <1>4 DEF Tells

(* The snapshot tells of everything, in an order that can be followed.     *)
LEMMA SnapshotTold ==
  ASSUME TreeSound
  PROVE  Tells({}, entities, Snapshot)
<1>1. PICK roots : roots = {x \in entities : ID_Parent[x] = none}
  OBVIOUS
<1>2. PICK held : held = UNION {Children(x) : x \in roots}
  OBVIOUS
<1>3. PICK inner : inner = UNION {Children(x) : x \in held}
  OBVIOUS
<1>4. Snapshot = SetToSeq(SpawnsOf(roots)) \o SetToSeq(SpawnsOf(held)) \o SetToSeq(SpawnsOf(inner))
  BY <1>1, <1>2, <1>3 DEF Snapshot, SpawnsOf
<1>5. /\ entities \subseteq ObjectIds /\ ID_Parent \in [ObjectIds -> ObjectIds \cup {none}]
      /\ \A x \in ObjectIds : ID_Parent[x] # none =>
              x \in entities /\ ID_Parent[x] \in entities /\ MayCarry(ID_Parent[x], x)
      /\ \A a \in Actors : ID_Parent[a] = none
  BY TreeParts
<1>6. /\ \A x : x \in held <=> x \in ObjectIds /\ ID_Parent[x] \in roots
      /\ \A x : x \in inner <=> x \in ObjectIds /\ ID_Parent[x] \in held
  BY <1>2, <1>3 DEF Children, CarriedBy
<1>7. \A x \in roots : x # none /\ x \in entities /\ ID_Parent[x] = none
  BY <1>1, <1>5, Names
<1>8. \A x \in held : x # none /\ x \in entities /\ ID_Parent[x] # none
  BY <1>5, <1>6, <1>7, Names
<1>9. \A x \in inner : x \in entities /\ ID_Parent[x] # none
  BY <1>5, <1>6, <1>8
<1>10. roots \cap held = {} /\ (roots \cup held) \cap inner = {}
  BY <1>6, <1>7, <1>8, <1>9
<1>11. (roots \cup held) \cup inner = entities
  <2>1. ASSUME NEW x \in entities, x \notin roots, x \notin held PROVE x \in inner
    <3>1. x \in ObjectIds /\ ID_Parent[x] # none /\ ID_Parent[x] \in entities /\ MayCarry(ID_Parent[x], x)
      BY <1>1, <1>5, <2>1
    <3>2. PICK p : p = ID_Parent[x]
      OBVIOUS
    <3>3. p \in entities /\ p \in ObjectIds /\ p \notin roots /\ MayCarry(p, x)
      BY <1>5, <1>6, <2>1, <3>1, <3>2
    <3>4. ID_Parent[p] # none /\ ID_Parent[p] \in entities /\ MayCarry(ID_Parent[p], p)
      BY <1>1, <1>5, <3>3
    <3>5. ID_Parent[p] \in Actors
      BY <3>3, <3>4, Names DEF MayCarry
    <3>6. ID_Parent[p] \in roots
      BY <1>1, <1>5, <3>4, <3>5
    <3>7. p \in held
      BY <1>6, <3>3, <3>6
    <3> QED
      BY <1>6, <3>1, <3>2, <3>7
  <2> QED
    BY <1>7, <1>8, <1>9, <2>1
<1>12. Tells({}, roots, SetToSeq(SpawnsOf(roots)))
  <2>1. PICK M : M = SpawnsOf(roots)
    OBVIOUS
  <2>2. roots \in SUBSET entities /\ roots \cap {} = {} /\ \A x \in roots : ID_Parent[x] = none \/ ID_Parent[x] \in {}
    BY <1>7
  <2> QED
    BY <2>1, <2>2, PartTold
<1>13. Tells(roots, held, SetToSeq(SpawnsOf(held)))
  <2>1. PICK M : M = SpawnsOf(held)
    OBVIOUS
  <2>2. held \in SUBSET entities /\ held \cap roots = {} /\ \A x \in held : ID_Parent[x] = none \/ ID_Parent[x] \in roots
    BY <1>6, <1>8, <1>10
  <2> QED
    BY <2>1, <2>2, PartTold
<1>14. Tells(roots \cup held, inner, SetToSeq(SpawnsOf(inner)))
  <2>1. PICK M : M = SpawnsOf(inner)
    OBVIOUS
  <2>2. PICK N0 : N0 = roots \cup held
    OBVIOUS
  <2>3. inner \in SUBSET entities /\ inner \cap N0 = {} /\ \A x \in inner : ID_Parent[x] = none \/ ID_Parent[x] \in N0
    BY <1>6, <1>9, <1>10, <2>2
  <2> QED
    BY <2>1, <2>2, <2>3, PartTold
<1>15. {} \cup roots = roots /\ {} \cup (roots \cup held) = roots \cup held
  OBVIOUS
<1>16. Tells({}, roots \cup held, SetToSeq(SpawnsOf(roots)) \o SetToSeq(SpawnsOf(held)))
  BY <1>12, <1>13, <1>15, TellsOn
<1>17. Tells({}, (roots \cup held) \cup inner,
             (SetToSeq(SpawnsOf(roots)) \o SetToSeq(SpawnsOf(held))) \o SetToSeq(SpawnsOf(inner)))
  BY <1>14, <1>15, <1>16, TellsOn
<1> QED
  BY <1>4, <1>11, <1>17

(* The list of who has just connected.                                     *)
LEMMA EmptySeen == EmptyList \in ObjectList /\ Sees(EmptyList, Part({}))
<1>1. PICK s : s = EmptyList
  OBVIOUS
<1>2. PICK A : A = Part({})
  OBVIOUS
<1>3. /\ s \in ObjectList /\ s.objs = {} /\ s.parent = [x \in ObjectIds |-> none] /\ s.dead = {}
      /\ s.destroy_queue = {} /\ s.unmet = {}
  BY <1>1 DEF EmptyList, ObjectList
<1>4. A.ents = {} /\ A.par = [x \in ObjectIds |-> none]
  BY <1>2 DEF Part
<1>5. Formed(A)
  BY <1>4 DEF Formed
<1>6. Sees(s, A)
  BY <1>3, <1>4, <1>5 DEF Sees
<1> QED
  BY <1>1, <1>2, <1>3, <1>6

(* OnCL_Connected: the world is sent.                                      *)
LEMMA ConnectedInv ==
  ASSUME WorldsInv, NEW c \in Remote, OnCL_Connected(c)
  PROVE  WorldsInv'
<1>1. /\ c \notin net_Accepted /\ net_Accepted' = net_Accepted \cup {c}
      /\ messages' = [messages EXCEPT ![c] = @ \o Snapshot]
      /\ UNCHANGED <<entities, ID_Parent, client, dropManual>>
  BY DEF OnCL_Connected, tree
<1>2. /\ StateTyped /\ TreeSound /\ InStep /\ BagEvents /\ BagsKnown /\ Dropping
      /\ c \in Clients /\ server \in Clients /\ c # server
  BY NamesDiffer DEF WorldsInv, StateTyped, Clients
<1>3. PICK ms : ms = Snapshot
  OBVIOUS
<1>4. /\ ms \in Seq(Seq(Event)) /\ Leads(Part({}), FlattenSeq(ms), Tree)
      /\ \A e \in ToSet(FlattenSeq(ms)) : e.type = "spawn"
  <2>1. Tells({}, entities, ms)
    BY <1>2, <1>3, SnapshotTold
  <2>2. {} \cup entities = entities
    OBVIOUS
  <2>3. Part(entities) = Tree
    <3>1. [x \in ObjectIds |-> IF x \in entities THEN ID_Parent[x] ELSE none] = ID_Parent
      BY <1>2, TreeParts
    <3> QED
      BY <3>1 DEF Part, Tree
  <2> QED
    BY <2>1, <2>2, <2>3 DEF Tells
<1>5. client[c] = EmptyList /\ messages[c] = <<>>
  BY <1>1, <1>2 DEF InStep
<1>6. <<>> \o ms = ms
  BY <1>4, ConcatEmptySeq
<1>7. /\ messages' \in [Clients -> Seq(Seq(Event))] /\ messages'[c] = ms
      /\ \A d \in Clients : d # c => messages'[d] = messages[d]
  BY <1>1, <1>2, <1>3, <1>4, <1>5, <1>6 DEF StateTyped
<1>8. Tree' = Tree /\ Queue(c)' = FlattenSeq(ms) /\ \A d \in Clients : d # c => Queue(d)' = Queue(d)
  BY <1>1, <1>7 DEF Tree, Queue
<1>9. client' = client /\ Queue(server)' = Queue(server) /\ Dies(Queue(server))' = Dies(Queue(server))
  <2>1. client' = client /\ Queue(server)' = Queue(server)
    BY <1>1, <1>2, <1>8
  <2> QED
    BY <2>1 DEF Dies, Queue
<1>10. Fresh(FlattenSeq(ms))
  <2>1. \A e \in ToSet(FlattenSeq(ms)) : e.type # "destroy"
    BY <1>4
  <2> QED
    BY <1>4, <2>1, FlattenType, FreshWithout
<1>11. Follows(c, EmptyList, FlattenSeq(ms), Tree)
  BY <1>2, <1>4, EmptySeen DEF Follows
<1>12. StateTyped'
  BY <1>1, <1>2, <1>7 DEF StateTyped
<1>13. TreeSound'
  BY <1>1, <1>2, <1>8 DEF TreeSound
<1>14. InStep'
  <2>1. ASSUME NEW d \in Clients
        PROVE  /\ Fresh(Queue(d)') /\ client[d].destroy_queue = {} /\ client[d].dropping = {} /\ client[d].unmet = {}
               /\ IF d \in net_Accepted' THEN Follows(d, client[d], Queue(d)', Tree)
                  ELSE client[d] = EmptyList /\ messages'[d] = <<>>
    <3>1. CASE d = c
      BY <1>1, <1>2, <1>5, <1>8, <1>10, <1>11, <3>1 DEF InStep
    <3>2. CASE d # c
      BY <1>1, <1>2, <1>7, <1>8, <3>2 DEF InStep
    <3> QED
      BY <3>1, <3>2
  <2> QED
    BY <1>8, <1>9, <2>1 DEF InStep
<1>15. BagEvents'
  BY <1>2, <1>9 DEF BagEvents
<1>16. BagsKnown'
  BY <1>1, <1>2 DEF BagsKnown
<1>17. Dropping'
  BY <1>1, <1>2, <1>9 DEF Dropping
<1> QED
  BY <1>12, <1>13, <1>14, <1>15, <1>16, <1>17 DEF WorldsInv

(* The invariant holds at the start.                                       *)
LEMMA WorldsInitInv == Init => WorldsInv
<1> SUFFICES ASSUME Init PROVE WorldsInv
  OBVIOUS
<1>1. /\ entities = {} /\ ID_Parent = [x \in ObjectIds |-> none] /\ net_Accepted = {server}
      /\ messages = [c \in Clients |-> <<>>] /\ client = [c \in Clients |-> EmptyList] /\ dropManual = {}
      /\ server \in Clients
  BY DEF Init, Clients
<1>2. /\ \A c \in Clients : messages[c] = <<>> /\ client[c] = EmptyList /\ Queue(c) = <<>>
      /\ <<>> \in Seq(Seq(Event)) /\ ToSet(<<>>) = {}
  BY <1>1, FlattenEmpty DEF Queue, ToSet
<1>3. EmptyList.objs = {} /\ EmptyList.parent = [x \in ObjectIds |-> none] /\ EmptyList.destroy_queue = {}
      /\ EmptyList.dropping = {} /\ EmptyList.unmet = {} /\ EmptyList.dead = {}
  BY DEF EmptyList
<1>4. EmptyList \in ObjectList /\ Sees(EmptyList, Part({}))
  BY EmptySeen
<1>5. Part({}) = Tree
  <2>1. [x \in ObjectIds |-> IF x \in {} THEN ID_Parent[x] ELSE none] = [x \in ObjectIds |-> none]
    OBVIOUS
  <2> QED
    BY <1>1, <2>1 DEF Part, Tree
<1>6. StateTyped
  BY <1>1, <1>2, <1>4 DEF StateTyped
<1>7. TreeSound
  <2>1. Formed(Tree)
    BY <1>4, <1>5 DEF Sees
  <2>2. \A b \in Bags : ID_Parent[b] = none
    BY <1>1, Names
  <2> QED
    BY <2>1, <2>2 DEF TreeSound
<1>8. InStep
  <2>1. Fresh(<<>>)
    <3>1. Len(<<>>) = 0 /\ 1..0 = {}
      OBVIOUS
    <3> QED
      BY <3>1 DEF Fresh
  <2>2. Follows(server, EmptyList, <<>>, Tree)
    <3>1. \A b \in Bags : EmptyList.parent[b] = Tree.par[b]
      BY <1>1, <1>3 DEF Tree
    <3> QED
      BY <1>4, <1>5, <3>1, LeadsNowhere DEF Follows
  <2>3. ASSUME NEW c \in Clients
        PROVE  /\ Fresh(Queue(c)) /\ client[c].destroy_queue = {} /\ client[c].dropping = {} /\ client[c].unmet = {}
               /\ IF c \in net_Accepted THEN Follows(c, client[c], Queue(c), Tree)
                  ELSE client[c] = EmptyList /\ messages[c] = <<>>
    <3>1. CASE c = server
      BY <1>1, <1>2, <1>3, <2>1, <2>2, <3>1
    <3>2. CASE c # server
      BY <1>1, <1>2, <1>3, <2>1, <3>2
    <3> QED
      BY <3>1, <3>2
  <2> QED
    BY <2>3 DEF InStep
<1>9. BagEvents
  BY <1>1, <1>2 DEF BagEvents
<1>10. BagsKnown
  BY <1>1, <1>2, <1>3, Names DEF BagsKnown
<1>11. Dropping
  BY <1>1 DEF Dropping
<1> QED
  BY <1>6, <1>7, <1>8, <1>9, <1>10, <1>11 DEF WorldsInv

(* Every step keeps it.                                                    *)
LEMMA WorldsNextInv == WorldsInv /\ [Next]_vars => WorldsInv'
<1> SUFFICES ASSUME WorldsInv, [Next]_vars PROVE WorldsInv'
  OBVIOUS
<1>1. ASSUME NEW a \in Actors, NEW b \in Bags, NEW things \in SUBSET Items, RespawnPlayer(a, b, things) PROVE WorldsInv'
  BY <1>1, RespawnInv
<1>2. ASSUME NEW a \in Actors, NEW x \in Items, TakeItem(a, x) PROVE WorldsInv'
  BY <1>2, TakeItemInv
<1>3. ASSUME NEW a \in Actors, NEW x \in Items, RejectItem(a, x) PROVE WorldsInv'
  BY <1>3, RejectItemInv
<1>4. ASSUME NEW a \in Actors, NEW b \in Bags, TakeBag(a, b) PROVE WorldsInv'
  BY <1>4, TakeBagInv
<1>5. ASSUME NEW a \in Actors, KillEntity(a) PROVE WorldsInv'
  BY <1>5, KillEntityInv
<1>6. ASSUME NEW b \in Bags, NEW data \in BOOLEAN, RejectBag(b, data) PROVE WorldsInv'
  BY <1>6, RejectBagInv
<1>7. ASSUME NEW x \in ObjectIds, DestroyObject(x) PROVE WorldsInv'
  BY <1>7, DestroyObjectInv
<1>8. ASSUME NEW c \in Remote, OnCL_Connected(c) PROVE WorldsInv'
  BY <1>8, ConnectedInv
<1>9. ASSUME NEW c \in Remote, NEW a \in Actors, ImportHealth(c, a) PROVE WorldsInv'
  BY <1>9, ImportHealthInv
<1>10. ASSUME NEW c \in Clients, Frame(c) PROVE WorldsInv'
  <2>1. CASE c = server
    BY <1>10, <2>1, ServerFrameInv DEF Frame
  <2>2. CASE c # server
    <3>1. PICK n \in 1..Len(messages[c]) : RemoteFrame(c, n)
      BY <1>10, <2>2 DEF Frame
    <3>2. c \in Remote
      BY <2>2 DEF Clients
    <3> QED
      BY <3>1, <3>2, RemoteFrameInv
  <2> QED
    BY <2>1, <2>2
<1>11. CASE UNCHANGED vars
  <2>1. /\ entities' = entities /\ ID_Parent' = ID_Parent /\ net_Accepted' = net_Accepted
        /\ messages' = messages /\ client' = client /\ dropManual' = dropManual
    BY <1>11 DEF vars
  <2>2. Tree' = Tree /\ (\A c \in Clients : Queue(c)' = Queue(c)) /\ Queue(server)' = Queue(server)
        /\ Dies(Queue(server))' = Dies(Queue(server))
    BY <2>1 DEF Tree, Queue, Dies
  <2>3. StateTyped' /\ TreeSound'
    BY <2>1, <2>2 DEF WorldsInv, StateTyped, TreeSound
  <2>4. InStep'
    BY <2>1, <2>2 DEF WorldsInv, InStep
  <2>5. BagEvents' /\ BagsKnown' /\ Dropping'
    BY <2>1, <2>2 DEF WorldsInv, BagEvents, BagsKnown, Dropping
  <2> QED
    BY <2>3, <2>4, <2>5 DEF WorldsInv
<1> QED
  BY <1>1, <1>2, <1>3, <1>4, <1>5, <1>6, <1>7, <1>8, <1>9, <1>10, <1>11 DEF Next

(* So it always holds.                                                     *)
LEMMA WorldsInvariance == Spec => []WorldsInv
BY WorldsInitInv, WorldsNextInv, PTL DEF Spec

(* When the queue of a client is empty, no event is left to lead elsewhere.*)
LEMMA InvAgrees == WorldsInv => WorldsAgree
<1> SUFFICES ASSUME WorldsInv, NEW c \in net_Accepted,
                    NEW s, s = ObjectsUpdate(ProcessGameEvents(client[c], messages[c]))
             PROVE  /\ s.objs = entities
                    /\ \A x \in entities : \/ s.parent[x] = ID_Parent[x]
                                           \/ s.parent[x] = none /\ ID_Parent[x] \in s.dead
  BY DEF WorldsAgree
<1>1. c \in Clients /\ StateTyped /\ InStep /\ TreeSound
  BY DEF WorldsInv, StateTyped
<1>2. /\ messages[c] \in Seq(Seq(Event)) /\ client[c].destroy_queue = {}
      /\ Fresh(FlattenSeq(messages[c])) /\ Follows(c, client[c], FlattenSeq(messages[c]), Tree)
  BY <1>1, QueueTyped DEF InStep, Queue
<1>3. PICK A : Sees(client[c], A) /\ Leads(A, FlattenSeq(messages[c]), Tree)
  BY <1>2 DEF Follows
<1>4. PICK t : t = ProcessGameEvents(client[c], messages[c])
  OBVIOUS
<1>5. Sees(t, Tree)
  BY <1>2, <1>3, <1>4, FrameSeen
<1>6. Sees(s, Tree) /\ Left(s, t, Tree)
  BY <1>4, <1>5, UpdateSeen
<1>7. Tree.ents = entities /\ Tree.par = ID_Parent /\ entities \subseteq ObjectIds
  BY <1>1, TreeParts
<1> QED
  BY <1>6, <1>7 DEF Sees, Left

(* What a client handles names what it sees.                               *)
LEMMA InvMakesSense == WorldsInv => MessagesMakeSense
<1> SUFFICES ASSUME WorldsInv PROVE MessagesMakeSense
  OBVIOUS
<1>1. StateTyped /\ InStep /\ TreeSound /\ Dropping
  BY DEF WorldsInv
<1>2. entities \subseteq ObjectIds /\ ID_Parent \in [ObjectIds -> ObjectIds \cup {none}]
  BY <1>1, TreeParts
<1>3. ASSUME NEW c \in Clients
      PROVE  client[c] \in ObjectList /\ \A i \in DOMAIN messages[c] : messages[c][i] \in Seq(Event)
  <2>1. client[c] \in ObjectList /\ messages[c] \in Seq(Seq(Event))
    BY <1>1, QueueTyped
  <2>2. \A i \in 1..Len(messages[c]) : messages[c][i] \in Seq(Event)
    BY <2>1, ElementOfSeq
  <2> QED
    BY <2>1, <2>2
<1>4. WorldsTyped
  BY <1>1, <1>2, <1>3 DEF WorldsTyped, StateTyped
<1>5. EventsMakeSense
  BY <1>1 DEF EventsMakeSense, InStep
<1>6. DropsWhatIsCarried
  BY <1>1 DEF DropsWhatIsCarried, Dropping, CarriedBy
<1> QED
  BY <1>4, <1>5, <1>6 DEF MessagesMakeSense

(* At any moment, were a client that has been sent the world to handle the *)
(* messages on their way, its object list would hold the entities of the   *)
(* server and no other, with the parents they have there, but for what was *)
(* given to actors it takes to be dead (CLevel::ProcessGameEvents).        *)
THEOREM WorldsAgreeTheorem == Spec => []WorldsAgree
BY WorldsInvariance, InvAgrees, PTL

(* The events of a frame, handled one by one, name objects that the client *)
(* has, things that have left their bearer before they are taken or gone,  *)
(* and bearers that carry them, and leave no destroyed parent; and the     *)
(* server takes a dead actor to carry what its own client sees him carry.  *)
THEOREM MakeSenseTheorem == Spec => []MessagesMakeSense
BY WorldsInvariance, InvMakesSense, PTL
=============================================================================
