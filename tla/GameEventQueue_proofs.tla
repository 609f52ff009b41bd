------------------------ MODULE GameEventQueue_proofs ------------------------
(***************************************************************************)
(* What is proved of the queue of delayed events, for any number of        *)
(* objects, clients and events.                                            *)
(***************************************************************************)
EXTENDS GameEventQueue, SequenceLemmas, FiniteSetTheorems

(* The queue and the pool share no object and hold none twice.             *)
Apart(s, t) == \A i \in 1..Len(s), j \in 1..Len(t) : s[i] # t[j]
Separate == Distinct(ready) /\ Distinct(unused) /\ Apart(ready, unused)

(* The events wait in the order in which they were added, and what has     *)
(* been retrieved is behind them, but for the one that is being handled.   *)
Number(k) == event[ready[k]].number
Ordered == \A j, k \in 1..Len(ready) : j < k => Number(j) < Number(k)
Bounded == \A k \in 1..Len(ready) : Number(k) <= added
Behind == \A k \in 1..Len(ready) : last <= Number(k) /\ (main \in {"idle", "ending"} => last < Number(k))

(* Between the erasing of the events and the blocking of the clients       *)
(* nothing is added that is ever ignored.                                  *)
EndsEmpty == main = "ending" => \A k \in 1..Len(ready) : event[ready[k]].type # "player_killed"

IInv ==
  /\ TypeOK /\ Separate /\ Ordered /\ Bounded /\ Behind /\ last <= added
  /\ BlockedKeptOut /\ EndsEmpty

LEMMA Lengths ==
  ASSUME TypeOK
  PROVE  /\ Len(ready) \in Nat /\ Len(unused) \in Nat
         /\ DOMAIN ready = 1..Len(ready) /\ DOMAIN unused = 1..Len(unused)
         /\ \A k \in 1..Len(ready) : ready[k] \in Cells /\ Number(k) \in 0..MaxEvents
         /\ \A k \in 1..Len(unused) : unused[k] \in Cells
         /\ \A x \in Cells : event[x] \in GameEvent
<1>1. ready \in Seq(Cells) /\ unused \in Seq(Cells) /\ \A x \in Cells : event[x] \in GameEvent
  BY DEF TypeOK
<1> QED
  BY <1>1, LenProperties, ElementOfSeq DEF Number, GameEvent

(* PoolSound says the same of the concatenation.                           *)
LEMMA SeparateIsInjective ==
  ASSUME TypeOK, Separate
  PROVE  IsInjective(ready \o unused)
<1> DEFINE s == ready \o unused
           m == Len(ready)
           n == Len(unused)
<1>1. /\ s \in Seq(Cells) /\ Len(s) = m + n
      /\ \A i \in 1..(m + n) : s[i] = IF i <= m THEN ready[i] ELSE unused[i - m]
  BY ConcatProperties DEF TypeOK
<1>2. m \in Nat /\ n \in Nat /\ DOMAIN s = 1..(m + n)
  BY <1>1, Lengths, LenProperties
<1> HIDE DEF s
<1>3. ASSUME NEW i \in 1..(m + n), NEW j \in 1..(m + n), s[i] = s[j] PROVE i = j
  <2>1. CASE i <= m /\ j <= m
    BY <1>1, <1>2, <1>3, <2>1 DEF Separate, Distinct
  <2>2. CASE ~(i <= m) /\ ~(j <= m)
    <3>1. i - m \in 1..n /\ j - m \in 1..n /\ unused[i - m] = unused[j - m]
      BY <1>1, <1>2, <1>3, <2>2
    <3>2. i - m = j - m
      BY <3>1 DEF Separate, Distinct
    <3> QED BY <1>2, <3>2
  <2>3. CASE i <= m /\ ~(j <= m)
    <3>1. i \in 1..m /\ j - m \in 1..n /\ ready[i] = unused[j - m]
      BY <1>1, <1>2, <1>3, <2>3
    <3> QED BY <3>1 DEF Separate, Apart
  <2>4. CASE ~(i <= m) /\ j <= m
    <3>1. j \in 1..m /\ i - m \in 1..n /\ ready[j] = unused[i - m]
      BY <1>1, <1>2, <1>3, <2>4
    <3> QED BY <3>1 DEF Separate, Apart
  <2> QED BY <2>1, <2>2, <2>3, <2>4
<1> QED
  BY <1>2, <1>3 DEF s, IsInjective

LEMMA InitInv == Init => IInv
<1> SUFFICES ASSUME Init PROVE IInv
  OBVIOUS
<1> DEFINE D == 1..Cardinality(Pooled)
<1>1. Cardinality(Pooled) \in Nat
  BY PoolAssumption, FS_CardinalityType
<1>2. unused \in [D -> Pooled] /\ \A i, j \in D : i # j => unused[i] # unused[j]
  BY DEF Init, SetToSeqs
<1>3. unused \in Seq(Cells) /\ Len(unused) = Cardinality(Pooled)
  BY <1>1, <1>2, PoolAssumption
<1>4. ready = <<>> /\ ready \in Seq(Cells) /\ Len(ready) = 0
  BY EmptySeq DEF Init
<1>5. event \in [Cells -> GameEvent]
  BY ClientsAssumption DEF Init, GameEvent, Types
<1>6. TypeOK
  <2>1. /\ m_blocked_clients = {} /\ ge = NoCell /\ main = "idle" /\ leaving = NoClient
        /\ added = 0 /\ last = 0 /\ failed = FALSE
    BY DEF Init
  <2>2. /\ m_blocked_clients \subseteq Clients /\ ge \in Cells \cup {NoCell}
        /\ main \in {"idle", "handling", "handled", "ending"} /\ leaving \in Clients \cup {NoClient}
    BY <2>1
  <2>3. added \in 0..MaxEvents /\ last \in 0..MaxEvents
    BY <2>1, ClientsAssumption
  <2>4. failed \in BOOLEAN
    BY <2>1
  <2> QED
    BY <1>3, <1>4, <1>5, <2>2, <2>3, <2>4 DEF TypeOK
<1>7. Separate
  BY <1>2, <1>3, <1>4 DEF Separate, Distinct, Apart
<1> QED
  BY <1>4, <1>6, <1>7 DEF Init, IInv, Ordered, Bounded, Behind, BlockedKeptOut, EndsEmpty

(* What goes back to the pool: members of s, after those of the pool.      *)
LEMMA ReturnedProperties ==
  ASSUME TypeOK, Distinct(unused), NEW s \in Seq(Cells), Distinct(s), Apart(s, unused),
         NEW idle \in BOOLEAN
  PROVE  /\ Returned(s, idle) \in Seq(Cells)
         /\ Distinct(Returned(s, idle))
         /\ \A j \in 1..Len(Returned(s, idle)) :
              \/ \E k \in 1..Len(unused) : Returned(s, idle)[j] = unused[k]
              \/ \E k \in 1..Len(s) : Returned(s, idle)[j] = s[k]
<1> DEFINE room == IF Len(unused) > MaxUnused THEN 0 ELSE MaxUnused + 1 - Len(unused)
           q == IF idle /\ room < Len(s) THEN SubSeq(s, 1, room) ELSE s
           r == unused \o q
           m == Len(unused)
           n == Len(q)
<1>1. m \in Nat /\ Len(s) \in Nat /\ unused \in Seq(Cells) /\ room \in Nat
  BY Lengths, LenProperties, PoolAssumption DEF TypeOK
<1>2. /\ q \in Seq(Cells) /\ n \in Nat /\ n <= Len(s)
      /\ \A j \in 1..n : q[j] = s[j]
  <2>1. CASE idle /\ room < Len(s)
    <3>1. \A i \in 1..room : s[i] \in Cells
      BY <1>1, <2>1, ElementOfSeq
    <3>2. /\ SubSeq(s, 1, room) \in Seq(Cells)
          /\ Len(SubSeq(s, 1, room)) = IF 1 <= room THEN room - 1 + 1 ELSE 0
          /\ \A i \in 1..(room - 1 + 1) : SubSeq(s, 1, room)[i] = s[1 + i - 1]
      <4> HIDE DEF room
      <4>1. room \in Int
        BY <1>1
      <4> QED BY <3>1, <4>1, SubSeqProperties, 1 \in Int
    <3>3. q = SubSeq(s, 1, room)
      BY <2>1
    <3> HIDE DEF q, room
    <3> QED BY <1>1, <2>1, <3>2, <3>3
  <2>2. CASE ~(idle /\ room < Len(s))
    BY <1>1, <2>2
  <2> QED BY <2>1, <2>2
<1>3. Returned(s, idle) = r
  BY DEF Returned
<1> HIDE DEF q, room
<1>4. /\ r \in Seq(Cells) /\ Len(r) = m + n
      /\ \A i \in 1..(m + n) : r[i] = IF i <= m THEN unused[i] ELSE q[i - m]
  BY <1>1, <1>2, ConcatProperties
<1> HIDE DEF r
<1>5. ASSUME NEW i \in 1..(m + n), ~(i <= m) PROVE i - m \in 1..Len(s) /\ r[i] = s[i - m]
  <2>1. i - m \in 1..n
    BY <1>1, <1>2, <1>5
  <2>2. r[i] = q[i - m]
    BY <1>4, <1>5
  <2>3. q[i - m] = s[i - m] /\ i - m \in 1..Len(s)
    BY <1>1, <1>2, <2>1
  <2> QED BY <2>2, <2>3
<1>6. ASSUME NEW i \in 1..(m + n), i <= m PROVE i \in 1..m /\ r[i] = unused[i]
  BY <1>1, <1>2, <1>4, <1>6
<1>7. ASSUME NEW i \in 1..(m + n), NEW j \in 1..(m + n), r[i] = r[j] PROVE i = j
  <2>1. CASE i <= m /\ j <= m
    BY <1>6, <1>7, <2>1 DEF Distinct
  <2>2. CASE ~(i <= m) /\ ~(j <= m)
    <3>1. i - m = j - m
      BY <1>5, <1>7, <2>2 DEF Distinct
    <3> QED BY <1>1, <1>2, <3>1
  <2>3. CASE i <= m /\ ~(j <= m)
    BY <1>5, <1>6, <1>7, <2>3 DEF Apart
  <2>4. CASE ~(i <= m) /\ j <= m
    BY <1>5, <1>6, <1>7, <2>4 DEF Apart
  <2> QED BY <2>1, <2>2, <2>3, <2>4
<1>8. ASSUME NEW j \in 1..(m + n)
      PROVE  (\E k \in 1..m : r[j] = unused[k]) \/ (\E k \in 1..Len(s) : r[j] = s[k])
  BY <1>5, <1>6
<1> QED
  BY <1>3, <1>4, <1>7, <1>8 DEF Distinct

(* Adding an event: it goes last, with the next number, in an object that  *)
(* is in no one's use.                                                     *)
LEMMA Created ==
  ASSUME IInv, NEW type \in Types, NEW sender \in Clients \cup {NoClient},
         NEW victim \in Clients \cup {NoClient}, Create(type, sender, victim)
  PROVE  /\ ready' \in Seq(Cells) /\ unused' \in Seq(Cells) /\ event' \in [Cells -> GameEvent]
         /\ added' = added + 1 /\ added' \in 0..MaxEvents
         /\ Separate' /\ Len(ready') = Len(ready) + 1
         /\ \A k \in 1..Len(ready) : ready'[k] = ready[k] /\ event'[ready[k]] = event[ready[k]]
         /\ event'[ready'[Len(ready) + 1]] =
              [type |-> type, sender |-> sender, victim |-> victim, number |-> added + 1]
<1> DEFINE e == [type |-> type, sender |-> sender, victim |-> victim, number |-> added + 1]
           n == Len(ready)
           m == Len(unused)
<1>1. PICK x \in Cells : /\ Taken(x) /\ added < MaxEvents /\ ready' = Append(ready, x)
                         /\ unused' = IF unused = <<>> THEN unused ELSE Front(unused)
                         /\ event' = [event EXCEPT ![x] = e] /\ added' = added + 1
  BY DEF Create
<1>2. /\ TypeOK /\ Separate /\ ready \in Seq(Cells) /\ unused \in Seq(Cells)
      /\ event \in [Cells -> GameEvent] /\ added \in 0..MaxEvents
      /\ n \in Nat /\ m \in Nat
  BY Lengths DEF IInv, TypeOK
<1>3. e \in GameEvent
  BY <1>1, <1>2, ClientsAssumption DEF GameEvent
<1>4. \A k \in 1..n : ready[k] # x
  <2>1. CASE unused = <<>>
    BY <1>1, <1>2, <2>1, LenProperties DEF Taken, ToSet
  <2>2. CASE unused # <<>>
    <3>1. m \in 1..m /\ x = unused[m]
      BY <1>1, <1>2, <2>2, EmptySeq DEF Taken, Last
    <3> QED BY <1>2, <3>1 DEF Separate, Apart
  <2> QED BY <2>1, <2>2
<1>5. /\ ready' \in Seq(Cells) /\ Len(ready') = n + 1
      /\ \A k \in 1..n : ready'[k] = ready[k] /\ ready'[n + 1] = x
  BY <1>1, <1>2, AppendProperties
<1>6. /\ unused' \in Seq(Cells) /\ Len(unused') \in Nat /\ Len(unused') <= m
      /\ \A k \in 1..Len(unused') : unused'[k] = unused[k] /\ unused'[k] # x
  <2>1. CASE unused = <<>>
    BY <1>1, <1>2, <2>1, EmptySeq
  <2>2. CASE unused # <<>>
    <3>1. /\ unused' \in Seq(Cells) /\ Len(unused') = m - 1
          /\ \A k \in 1..(m - 1) : unused'[k] = unused[k]
      BY <1>1, <1>2, <2>2, FrontProperties
    <3>2. m \in Nat \ {0} /\ x = unused[m]
      BY <1>1, <1>2, <2>2, EmptySeq DEF Taken, Last
    <3>3. \A k \in 1..(m - 1) : unused[k] # x
      BY <1>2, <3>2 DEF Separate, Distinct
    <3> QED BY <3>1, <3>2, <3>3
  <2> QED BY <2>1, <2>2
<1>7. ready'[n + 1] = x
  BY <1>1, <1>2, AppendProperties
<1>8. Separate'
  <2>1. Distinct(ready)'
    <3>1. \A k \in 1..(n + 1) : k = n + 1 \/ k \in 1..n
      BY <1>2
    <3>2. \A i, j \in 1..n : ready[i] = ready[j] => i = j
      BY <1>2 DEF Separate, Distinct
    <3>3. ASSUME NEW i \in 1..(n + 1), NEW j \in 1..(n + 1), ready'[i] = ready'[j] PROVE i = j
      <4>1. CASE i = n + 1
        BY <1>4, <1>5, <1>7, <3>1, <3>3, <4>1
      <4>2. CASE j = n + 1
        BY <1>4, <1>5, <1>7, <3>1, <3>3, <4>2
      <4>3. CASE i \in 1..n /\ j \in 1..n
        BY <1>5, <3>2, <3>3, <4>3
      <4> QED
        BY <3>1, <4>1, <4>2, <4>3
    <3> QED
      BY <1>5, <3>3 DEF Distinct
  <2>2. Distinct(unused)'
    BY <1>2, <1>6 DEF Separate, Distinct
  <2>3. Apart(ready, unused)'
    BY <1>2, <1>5, <1>6, <1>7 DEF Separate, Apart
  <2> QED BY <2>1, <2>2, <2>3 DEF Separate
<1>9. event' \in [Cells -> GameEvent] /\ event'[x] = e
  BY <1>1, <1>2, <1>3
<1>10. \A k \in 1..n : event'[ready[k]] = event[ready[k]]
  BY <1>1, <1>2, <1>4, ElementOfSeq
<1> QED
  BY <1>1, <1>2, <1>5, <1>6, <1>7, <1>8, <1>9, <1>10, ClientsAssumption

(* Removing from ready what is put back, whichever of the three ways.      *)
Kept(s) == \E e : /\ e \in [1..Len(s) -> 1..Len(ready)] /\ Increasing(e)
                  /\ \A k \in 1..Len(s) : s[k] = ready[e[k]]

(* Erasing events: those chosen, and no others, are in ready no more.      *)
LEMMA Erased ==
  ASSUME IInv, NEW chosen \in SUBSET Cells, EraseEvents(chosen)
  PROVE  /\ ready' \in Seq(Cells) /\ unused' \in Seq(Cells) /\ Separate' /\ Kept(ready')
         /\ \A k \in 1..Len(ready') : ready'[k] \notin chosen
         /\ \A j \in 1..Len(ready) :
              ready[j] \in chosen \/ \E k \in 1..Len(ready') : ready'[k] = ready[j]
<1> DEFINE rest == Cells \ chosen
           r == Filtered(ready, rest)
           q == Filtered(ready, chosen)
           n == Len(ready)
<1>1. PICK idle \in BOOLEAN : unused' = Returned(q, idle) /\ ready' = r
  BY DEF EraseEvents
<1>2. TypeOK /\ Separate /\ ready \in Seq(Cells) /\ n \in Nat
  BY Lengths DEF IInv, TypeOK
<1>3. /\ r \in Seq(Cells) /\ Len(r) \in Nat /\ Distinct(r)
      /\ \A k \in 1..Len(r) : r[k] \in rest /\ \E j \in 1..n : ready[j] = r[k]
      /\ \A j \in 1..n : ready[j] \in rest => \E k \in 1..Len(r) : r[k] = ready[j]
  <2> HIDE DEF rest
  <2>1. Distinct(ready)
    BY <1>2 DEF Separate
  <2> QED BY <1>2, <2>1, FilteredProperties
<1>4. /\ q \in Seq(Cells) /\ Len(q) \in Nat /\ Distinct(q)
      /\ \A k \in 1..Len(q) : q[k] \in chosen /\ \E j \in 1..n : ready[j] = q[k]
  BY <1>2, FilteredProperties DEF Separate
<1>5. \E e : Picks(e, r, ready, rest, n)
  BY <1>2, FilteredPicks
<1> HIDE DEF r, q
<1>6. Kept(r)
  BY <1>5 DEF Kept, Picks
<1>7. Apart(q, unused)
  BY <1>2, <1>4 DEF Separate, Apart
<1>8. /\ unused' \in Seq(Cells) /\ Distinct(unused')
      /\ \A j \in 1..Len(unused') :
           \/ \E k \in 1..Len(unused) : unused'[j] = unused[k]
           \/ \E k \in 1..Len(q) : unused'[j] = q[k]
  BY <1>1, <1>2, <1>4, <1>7, ReturnedProperties, SMTT(40) DEF Separate
<1>9. Apart(r, unused')
  <2> SUFFICES ASSUME NEW i \in 1..Len(r), NEW j \in 1..Len(unused'), r[i] = unused'[j] PROVE FALSE
    BY DEF Apart
  <2>1. r[i] \notin chosen /\ \E k \in 1..n : ready[k] = r[i]
    BY <1>3
  <2> QED BY <1>2, <1>4, <1>8, <2>1 DEF Separate, Apart
<1>10. Separate'
  BY <1>1, <1>3, <1>8, <1>9 DEF Separate
<1>11. \A j \in 1..n : ready[j] \in Cells
  BY <1>2, Lengths
<1> QED
  BY <1>1, <1>3, <1>6, <1>8, <1>10, <1>11

(* What is kept stays in order, and behind what has been retrieved.        *)
LEMMA KeptInOrder ==
  ASSUME IInv, ready' \in Seq(Cells), Kept(ready'), UNCHANGED <<event, added>>
  PROVE  /\ Ordered' /\ Bounded'
         /\ \A k \in 1..Len(ready') : \E j \in 1..Len(ready) : ready'[k] = ready[j]
         /\ \A k \in 1..Len(ready') :
              last <= event[ready'[k]].number /\
              (main \in {"idle", "ending"} => last < event[ready'[k]].number)
<1>1. PICK e : /\ e \in [1..Len(ready') -> 1..Len(ready)] /\ Increasing(e)
               /\ \A k \in 1..Len(ready') : ready'[k] = ready[e[k]]
  BY DEF Kept
<1>2. \A k \in 1..Len(ready') : /\ e[k] \in 1..Len(ready)
                                /\ event'[ready'[k]].number = Number(e[k])
                                /\ event[ready'[k]].number = Number(e[k])
  BY <1>1 DEF Number
<1>3. Ordered'
  <2> SUFFICES ASSUME NEW j \in 1..Len(ready'), NEW k \in 1..Len(ready'), j < k
               PROVE  event'[ready'[j]].number < event'[ready'[k]].number
    BY DEF Ordered, Number
  <2>1. e[j] < e[k]
    BY <1>1 DEF Increasing
  <2> QED BY <1>2, <2>1 DEF IInv, Ordered
<1>4. Bounded'
  <2> SUFFICES ASSUME NEW k \in 1..Len(ready') PROVE event'[ready'[k]].number <= added'
    BY DEF Bounded, Number
  <2> QED BY <1>2 DEF IInv, Bounded
<1>5. ASSUME NEW k \in 1..Len(ready')
      PROVE  /\ \E j \in 1..Len(ready) : ready'[k] = ready[j]
             /\ last <= event[ready'[k]].number
             /\ main \in {"idle", "ending"} => last < event[ready'[k]].number
  BY <1>1, <1>2 DEF IInv, Behind
<1> QED
  BY <1>3, <1>4, <1>5

(* Erasing events, as far as the thread and the blocked clients allow it.  *)
LEMMA ErasedInv ==
  ASSUME IInv, NEW chosen \in SUBSET Cells, EraseEvents(chosen),
         UNCHANGED <<event, added, ge, last, failed>>,
         m_blocked_clients' \subseteq m_blocked_clients, leaving' \in Clients \cup {NoClient},
         main' \in {"idle", "handling", "handled", "ending"},
         main' \in {"idle", "ending"} => main \in {"idle", "ending"},
         main' = "ending" => main = "ending" \/ chosen = Cells
  PROVE  IInv'
<1>1. /\ ready' \in Seq(Cells) /\ unused' \in Seq(Cells) /\ Separate' /\ Kept(ready')
      /\ \A k \in 1..Len(ready') : ready'[k] \notin chosen
  BY Erased
<1>2. /\ Ordered' /\ Bounded'
      /\ \A k \in 1..Len(ready') : \E j \in 1..Len(ready) : ready'[k] = ready[j]
      /\ \A k \in 1..Len(ready') :
           last <= event[ready'[k]].number /\
           (main \in {"idle", "ending"} => last < event[ready'[k]].number)
  BY <1>1, KeptInOrder
<1>3. TypeOK'
  BY <1>1 DEF IInv, TypeOK
<1>4. Behind'
  BY <1>2 DEF Behind, Number
<1>5. BlockedKeptOut'
  <2> SUFFICES ASSUME NEW k \in DOMAIN ready', event'[ready'[k]].type = "player_killed"
               PROVE  event'[ready'[k]].sender \notin m_blocked_clients'
    BY DEF BlockedKeptOut
  <2>1. PICK j \in 1..Len(ready) : ready'[k] = ready[j]
    BY <1>1, <1>2, LenProperties
  <2>2. j \in DOMAIN ready
    BY Lengths DEF IInv
  <2> QED BY <2>1, <2>2 DEF IInv, BlockedKeptOut
<1>6. EndsEmpty'
  <2> SUFFICES ASSUME main' = "ending", NEW k \in 1..Len(ready') PROVE event'[ready'[k]].type # "player_killed"
    BY DEF EndsEmpty
  <2>1. PICK j \in 1..Len(ready) : ready'[k] = ready[j]
    BY <1>2
  <2>2. ready[j] \in Cells /\ ready'[k] \notin chosen
    BY <1>1, Lengths DEF IInv
  <2> QED BY <2>1, <2>2 DEF IInv, EndsEmpty
<1> QED
  BY <1>1, <1>2, <1>3, <1>4, <1>5, <1>6 DEF IInv

(* Adding an event, by a client who may: nothing that is ignored comes in  *)
(* while a round ends.                                                     *)
LEMMA AddedInv ==
  ASSUME IInv, NEW type \in Types, NEW sender \in Clients \cup {NoClient},
         NEW victim \in Clients \cup {NoClient}, AddDelayedEvent(type, sender, victim),
         main = "ending" => type # "player_killed",
         leaving' \in Clients \cup {NoClient}, UNCHANGED <<m_blocked_clients, ge, main, last, failed>>
  PROVE  IInv'
<1> DEFINE n == Len(ready)
<1>1. /\ ready' \in Seq(Cells) /\ unused' \in Seq(Cells) /\ event' \in [Cells -> GameEvent]
      /\ added' = added + 1 /\ added' \in 0..MaxEvents
      /\ Separate' /\ Len(ready') = n + 1
      /\ \A k \in 1..n : ready'[k] = ready[k] /\ event'[ready[k]] = event[ready[k]]
      /\ event'[ready'[n + 1]] =
           [type |-> type, sender |-> sender, victim |-> victim, number |-> added + 1]
  BY Created DEF AddDelayedEvent
<1>2. TypeOK'
  BY <1>1 DEF IInv, TypeOK
<1>3. /\ n \in Nat /\ added \in Nat /\ last \in Nat /\ last <= added
      /\ \A k \in 1..n : Number(k) \in Nat /\ Number(k) <= added
  BY Lengths, ClientsAssumption DEF IInv, TypeOK, Bounded
<1>4. /\ \A k \in 1..n : event'[ready'[k]].number = Number(k)
      /\ event'[ready'[n + 1]].number = added + 1
  BY <1>1 DEF Number
<1>5. Ordered'
  <2> SUFFICES ASSUME NEW j \in 1..(n + 1), NEW k \in 1..(n + 1), j < k
               PROVE  event'[ready'[j]].number < event'[ready'[k]].number
    BY <1>1 DEF Ordered, Number
  <2>1. j \in 1..n /\ event'[ready'[j]].number = Number(j)
    BY <1>3, <1>4
  <2>2. CASE k = n + 1
    <3>1. Number(j) \in Nat /\ Number(j) <= added /\ event'[ready'[k]].number = added + 1
      BY <1>3, <1>4, <2>1, <2>2
    <3> QED BY <1>3, <2>1, <3>1
  <2>3. CASE k # n + 1
    <3>1. k \in 1..n /\ event'[ready'[k]].number = Number(k)
      BY <1>3, <1>4, <2>3
    <3> QED BY <2>1, <3>1 DEF IInv, Ordered
  <2> QED BY <2>2, <2>3
<1>6. Bounded'
  BY <1>1, <1>3, <1>4 DEF Bounded, Number
<1>7. Behind' /\ last' <= added'
  <2> SUFFICES ASSUME NEW k \in 1..(n + 1)
               PROVE  /\ last <= event'[ready'[k]].number
                      /\ main \in {"idle", "ending"} => last < event'[ready'[k]].number
    BY <1>1, <1>3 DEF Behind, Number
  <2>1. CASE k = n + 1
    BY <1>3, <1>4, <2>1
  <2>2. CASE k # n + 1
    <3>1. k \in 1..n /\ event'[ready'[k]].number = Number(k)
      BY <1>3, <1>4, <2>2
    <3> QED BY <3>1 DEF IInv, Behind
  <2> QED BY <2>1, <2>2
<1>8. BlockedKeptOut'
  <2> SUFFICES ASSUME NEW k \in DOMAIN ready', event'[ready'[k]].type = "player_killed"
               PROVE  event'[ready'[k]].sender \notin m_blocked_clients'
    BY DEF BlockedKeptOut
  <2>1. k \in 1..(n + 1) /\ DOMAIN ready = 1..n
    BY <1>1, LenProperties, Lengths DEF IInv
  <2>2. CASE k = n + 1
    BY <1>1, <2>2 DEF AddDelayedEvent
  <2>3. CASE k # n + 1
    <3>1. k \in DOMAIN ready /\ event'[ready'[k]] = event[ready[k]]
      BY <1>1, <1>3, <2>1, <2>3
    <3> QED BY <3>1 DEF IInv, BlockedKeptOut
  <2> QED BY <2>2, <2>3
<1>9. EndsEmpty'
  <2> SUFFICES ASSUME main' = "ending", NEW k \in 1..(n + 1) PROVE event'[ready'[k]].type # "player_killed"
    BY <1>1 DEF EndsEmpty
  <2>1. CASE k = n + 1
    BY <1>1, <2>1
  <2>2. CASE k # n + 1
    <3>1. k \in 1..n /\ event'[ready'[k]] = event[ready[k]]
      BY <1>1, <1>3, <2>2
    <3> QED BY <3>1 DEF IInv, EndsEmpty
  <2> QED BY <2>1, <2>2
<1> QED
  BY <1>1, <1>2, <1>5, <1>6, <1>7, <1>8, <1>9 DEF IInv

LEMMA RetreiveInv == ASSUME IInv, Retreive PROVE IInv'
<1>1. /\ TypeOK /\ Separate /\ ready \in Seq(Cells) /\ unused \in Seq(Cells) /\ Len(ready) \in Nat
  BY Lengths DEF IInv, TypeOK
<1>2. CASE ready # <<>>
  <2>1. /\ ge' = Head(ready) /\ last' = event[Head(ready)].number /\ main' = "handling"
        /\ UNCHANGED <<ready, unused, event, added, m_blocked_clients, leaving, failed>>
    BY <1>2 DEF Retreive
  <2>2. 1 \in 1..Len(ready) /\ Head(ready) = ready[1]
    BY <1>1, <1>2, EmptySeq
  <2>3. last' = Number(1) /\ ge' \in Cells /\ last' \in 0..MaxEvents
    BY <1>1, <2>1, <2>2, Lengths DEF Number
  <2>4. TypeOK'
    BY <2>1, <2>3 DEF IInv, TypeOK
  <2>5. Ordered' /\ Bounded' /\ Separate' /\ BlockedKeptOut'
    BY <2>1 DEF IInv, Ordered, Bounded, Number, Separate, BlockedKeptOut
  <2>6. ASSUME NEW k \in 1..Len(ready) PROVE Number(1) <= Number(k)
    <3>1. Number(1) \in Nat /\ Number(k) \in Nat
      BY <1>1, <2>2, Lengths, ClientsAssumption
    <3>2. k # 1 => Number(1) < Number(k)
      BY <1>1, <2>2 DEF IInv, Ordered
    <3> QED BY <3>1, <3>2
  <2>7. Behind'
    BY <2>1, <2>3, <2>6 DEF Behind, Number
  <2>8. last' <= added' /\ EndsEmpty'
    BY <2>1, <2>2, <2>3 DEF IInv, Bounded, EndsEmpty
  <2> QED
    BY <2>4, <2>5, <2>7, <2>8 DEF IInv
<1>3. CASE ready = <<>>
  <2>1. /\ Len(unused) > MaxUnused /\ unused' = Front(unused)
        /\ UNCHANGED <<ready, ge, last, main, event, added, m_blocked_clients, leaving, failed>>
    BY <1>3 DEF Retreive
  <2>2. unused # <<>>
    <3>1. Len(unused) # 0
      BY <1>1, <2>1, Lengths, PoolAssumption
    <3> QED BY <1>1, <3>1, LenZero
  <2>3. /\ unused' \in Seq(Cells) /\ Len(unused') = Len(unused) - 1
        /\ \A i \in 1..(Len(unused) - 1) : unused'[i] = unused[i]
    BY <1>1, <2>1, <2>2, FrontProperties
  <2>4. Separate'
    BY <1>1, <2>1, <2>3, Lengths DEF Separate, Distinct, Apart
  <2>5. TypeOK'
    BY <2>1, <2>3 DEF IInv, TypeOK
  <2> QED
    BY <2>1, <2>4, <2>5 DEF IInv, Ordered, Bounded, Number, Behind, BlockedKeptOut, EndsEmpty
<1> QED
  BY <1>2, <1>3

LEMMA OnEventInv == ASSUME IInv, OnEvent PROVE IInv'
<1> DEFINE e == event[ge]
           S == {x \in Cells : event[x].sender = e.sender}
<1>1. /\ main = "handling" /\ main' = "handled" /\ m_blocked_clients' \subseteq m_blocked_clients
      /\ UNCHANGED <<event, added, ge, leaving, last, failed>>
  BY DEF OnEvent
<1>2. leaving' \in Clients \cup {NoClient}
  BY <1>1 DEF IInv, TypeOK
<1>3. EraseEvents(S) \/ UNCHANGED <<ready, unused>>
  BY DEF OnEvent
<1>4. CASE EraseEvents(S)
  <2>1. S \in SUBSET Cells
    OBVIOUS
  <2> HIDE DEF S
  <2> QED BY <1>1, <1>2, <1>4, <2>1, ErasedInv
<1>5. CASE UNCHANGED <<ready, unused>>
  <2>1. TypeOK'
    BY <1>1, <1>2, <1>5 DEF IInv, TypeOK
  <2>2. Separate' /\ Ordered' /\ Bounded' /\ Behind' /\ BlockedKeptOut' /\ EndsEmpty'
    BY <1>1, <1>5 DEF IInv, Separate, Ordered, Bounded, Behind, Number, BlockedKeptOut, EndsEmpty
  <2> QED BY <1>1, <2>1, <2>2 DEF IInv
<1> QED
  BY <1>3, <1>4, <1>5

(* Release takes the first event, which is the one that is handled or      *)
(* comes after it: all that stay are behind it.                            *)
LEMMA ReleasedHead ==
  ASSUME IInv, Release, ready # <<>>
  PROVE  /\ ready' \in Seq(Cells) /\ unused' \in Seq(Cells) /\ Separate'
         /\ Len(ready') = Len(ready) - 1
         /\ \A k \in 1..(Len(ready) - 1) : ready'[k] = ready[k + 1]
<1> DEFINE n == Len(ready)
<1>1. /\ TypeOK /\ Separate /\ ready \in Seq(Cells) /\ n \in Nat \ {0}
      /\ Head(ready) = ready[1] /\ ready[1] \in Cells
  BY EmptySeq, Lengths, ElementOfSeq DEF IInv, TypeOK
<1>2. PICK idle \in BOOLEAN : unused' = Returned(<<ready[1]>>, idle) /\ ready' = Tail(ready)
  BY <1>1 DEF Release, Released
<1>3. /\ ready' \in Seq(Cells) /\ Len(ready') = n - 1
      /\ \A k \in 1..(n - 1) : ready'[k] = ready[k + 1]
  BY <1>1, <1>2, HeadTailProperties
<1> DEFINE s == <<ready[1]>>
<1>4. s \in Seq(Cells) /\ Len(s) = 1 /\ s[1] = ready[1]
  BY <1>1
<1> HIDE DEF s
<1>5. Distinct(s) /\ Apart(s, unused)
  BY <1>1, <1>4 DEF Separate, Distinct, Apart
<1>6. /\ unused' \in Seq(Cells) /\ Distinct(unused')
      /\ \A j \in 1..Len(unused') :
           (\E k \in 1..Len(unused) : unused'[j] = unused[k]) \/ unused'[j] = ready[1]
  <2>1. unused' = Returned(s, idle)
    BY <1>2 DEF s
  <2>2. /\ Returned(s, idle) \in Seq(Cells) /\ Distinct(Returned(s, idle))
        /\ \A j \in 1..Len(Returned(s, idle)) :
             \/ \E k \in 1..Len(unused) : Returned(s, idle)[j] = unused[k]
             \/ \E k \in 1..Len(s) : Returned(s, idle)[j] = s[k]
    BY <1>1, <1>4, <1>5, ReturnedProperties DEF Separate
  <2>3. \A k \in 1..Len(s) : s[k] = ready[1]
    BY <1>4
  <2> QED BY <2>1, <2>2, <2>3
<1>7. \A k \in 1..(n - 1) : k + 1 \in 1..n /\ k + 1 # 1 /\ 1 \in 1..n
  BY <1>1
<1>8. Distinct(ready')
  BY <1>1, <1>3, <1>7 DEF Separate, Distinct
<1>9. Apart(ready', unused')
  <2> SUFFICES ASSUME NEW i \in 1..(n - 1), NEW j \in 1..Len(unused'), ready[i + 1] = unused'[j] PROVE FALSE
    BY <1>3 DEF Apart
  <2>1. ready[i + 1] # ready[1]
    BY <1>1, <1>7 DEF Separate, Distinct
  <2> QED BY <1>1, <1>6, <1>7, <2>1 DEF Separate, Apart
<1>10. Separate'
  BY <1>6, <1>8, <1>9 DEF Separate
<1> QED
  BY <1>3, <1>6, <1>10

LEMMA ReleaseInv == ASSUME IInv, Release PROVE IInv'
<1> DEFINE n == Len(ready)
<1>1. /\ main' = "idle" /\ main = "handled" /\ ge' = NoCell /\ failed' \in BOOLEAN
      /\ UNCHANGED <<event, added, m_blocked_clients, leaving, last>>
  <2>1. failed \in BOOLEAN
    BY DEF IInv, TypeOK
  <2>2. failed' = TRUE \/ failed' = failed
    BY DEF Release
  <2>3. failed' \in BOOLEAN
    BY <2>1, <2>2
  <2> QED BY <2>3 DEF Release
<1>2. CASE ready = <<>>
  <2>1. UNCHANGED <<ready, unused>>
    BY <1>2 DEF Release
  <2>2. Len(ready) = 0
    BY <1>2
  <2>3. TypeOK'
    BY <1>1, <2>1 DEF IInv, TypeOK
  <2>4. Separate' /\ Ordered' /\ Bounded' /\ BlockedKeptOut'
    BY <1>1, <2>1 DEF IInv, Separate, Ordered, Bounded, Number, BlockedKeptOut
  <2>5. Behind' /\ EndsEmpty' /\ last' <= added'
    BY <1>1, <2>1, <2>2 DEF IInv, Behind, EndsEmpty
  <2> QED BY <2>3, <2>4, <2>5 DEF IInv
<1>3. CASE ready # <<>>
  <2>1. /\ ready' \in Seq(Cells) /\ unused' \in Seq(Cells) /\ Separate'
        /\ Len(ready') = n - 1 /\ \A k \in 1..(n - 1) : ready'[k] = ready[k + 1]
    BY <1>3, ReleasedHead
  <2>2. n \in Nat \ {0} /\ DOMAIN ready = 1..n /\ DOMAIN ready' = 1..(n - 1)
    BY <1>3, <2>1, Lengths, LenProperties, EmptySeq DEF IInv, TypeOK
  <2>3. TypeOK'
    BY <1>1, <2>1 DEF IInv, TypeOK
  <2>4. \A k \in 1..(n - 1) : /\ k + 1 \in 1..n /\ 1 < k + 1 /\ 1 \in 1..n
                              /\ event'[ready'[k]] = event[ready[k + 1]]
    BY <1>1, <2>1, <2>2
  <2>5. Ordered'
    <3> SUFFICES ASSUME NEW j \in 1..(n - 1), NEW k \in 1..(n - 1), j < k
                 PROVE  event'[ready'[j]].number < event'[ready'[k]].number
      BY <2>1 DEF Ordered, Number
    <3>1. j + 1 < k + 1
      BY <2>2
    <3> QED BY <2>4, <3>1 DEF IInv, Ordered, Number
  <2>6. Bounded'
    BY <1>1, <2>1, <2>4 DEF IInv, Bounded, Number
  <2>7. Behind'
    <3> SUFFICES ASSUME NEW k \in 1..(n - 1) PROVE last < event'[ready'[k]].number
      BY <1>1, <2>1, <2>4, Lengths, ClientsAssumption DEF IInv, Behind, Number, TypeOK
    <3>1. last <= Number(1) /\ Number(1) < Number(k + 1)
      BY <2>4 DEF IInv, Behind, Ordered
    <3>2. last \in Nat /\ Number(1) \in Nat /\ Number(k + 1) \in Nat
      BY <2>4, Lengths, ClientsAssumption DEF IInv, TypeOK
    <3> QED BY <2>4, <3>1, <3>2 DEF Number
  <2>8. BlockedKeptOut'
    BY <1>1, <2>2, <2>4 DEF IInv, BlockedKeptOut
  <2>9. EndsEmpty' /\ last' <= added'
    BY <1>1 DEF IInv, EndsEmpty
  <2> QED BY <2>1, <2>3, <2>5, <2>6, <2>7, <2>8, <2>9 DEF IInv
<1> QED
  BY <1>2, <1>3

LEMMA StepInv == ASSUME IInv, [Next]_vars PROVE IInv'
<1>1. CASE UNCHANGED vars
  BY <1>1 DEF IInv, vars, queue, TypeOK, Separate, Ordered, Bounded, Behind, Number, BlockedKeptOut, EndsEmpty
<1>2. CASE Message
  <2>1. PICK c \in Clients :
          \/ main = "idle" /\ \E type \in {"player_started", "player_state"} : AddDelayedEvent(type, c, NoClient)
          \/ main \in {"idle", "handling"} /\ \E v \in Clients : AddDelayedEvent("player_killed", c, v)
    BY <1>2 DEF Message
  <2>2. UNCHANGED <<m_blocked_clients, ge, main, leaving, last, failed>> /\ leaving' \in Clients \cup {NoClient}
    BY <1>2 DEF Message, IInv, TypeOK
  <2>3. CASE main = "idle" /\ \E type \in {"player_started", "player_state"} : AddDelayedEvent(type, c, NoClient)
    BY <2>2, <2>3, AddedInv DEF Types
  <2>4. CASE main \in {"idle", "handling"} /\ \E v \in Clients : AddDelayedEvent("player_killed", c, v)
    BY <2>2, <2>4, AddedInv DEF Types
  <2> QED BY <2>1, <2>3, <2>4
<1>3. CASE OnRoundEnd \/ OnRoundStart
  <2>1. {x \in Cells : ForAll(event[x])} = Cells
    BY DEF ForAll
  <2>2. /\ EraseEvents(Cells) /\ main = "idle" /\ main' \in {"idle", "ending"}
        /\ UNCHANGED <<event, added, m_blocked_clients, ge, leaving, last, failed>>
    BY <1>3, <2>1 DEF OnRoundEnd, OnRoundStart
  <2> QED BY <2>2, ErasedInv DEF IInv, TypeOK
<1>4. CASE SetIgnoreEvents
  <2>1. /\ main = "ending" /\ main' = "idle" /\ m_blocked_clients' = Clients
        /\ UNCHANGED <<ready, unused, event, added, ge, leaving, last, failed>>
    BY <1>4 DEF SetIgnoreEvents, Ignored, queue
  <2>2. TypeOK'
    BY <2>1 DEF IInv, TypeOK
  <2>3. Separate' /\ Ordered' /\ Bounded' /\ Behind' /\ EndsEmpty'
    BY <2>1 DEF IInv, Separate, Ordered, Bounded, Behind, Number, EndsEmpty
  <2>4. BlockedKeptOut'
    BY <2>1, Lengths DEF IInv, EndsEmpty, BlockedKeptOut
  <2> QED BY <2>1, <2>2, <2>3, <2>4 DEF IInv
<1>5. CASE OnCL_Disconnected
  <2>1. PICK c \in Leaving : leaving' = c /\ AddDelayedEvent("player_disconnected", NoClient, NoClient)
    BY <1>5 DEF OnCL_Disconnected
  <2>2. UNCHANGED <<m_blocked_clients, ge, main, last, failed>> /\ leaving' \in Clients \cup {NoClient}
    BY <1>5, <2>1, ClientsAssumption DEF OnCL_Disconnected
  <2> QED BY <2>1, <2>2, AddedInv DEF Types
<1>6. CASE client_Destroy
  <2> DEFINE S == {x \in Cells : event[x].type = "player_killed" /\ event[x].victim = leaving}
  <2>1. /\ EraseEvents(S) /\ leaving' = NoClient /\ S \in SUBSET Cells
        /\ UNCHANGED <<event, added, m_blocked_clients, ge, main, last, failed>>
    BY <1>6 DEF client_Destroy
  <2> HIDE DEF S
  <2> QED BY <2>1, ErasedInv DEF IInv, TypeOK
<1> QED
  BY <1>1, <1>2, <1>3, <1>4, <1>5, <1>6, RetreiveInv, OnEventInv, ReleaseInv DEF Next, Main, Network

(* No event object is twice in the queue or the pool, or in both: what the *)
(* main thread handles is never overwritten by what the network thread     *)
(* adds (GameEventQueue).                                                  *)
THEOREM PoolIsSound == Spec => []PoolSound
<1>1. IInv => PoolSound
  BY SeparateIsInjective DEF IInv, PoolSound
<1> QED
  BY <1>1, InitInv, StepInv, PTL DEF Spec

(* After a round nothing that a client did is in the queue until he has    *)
(* started again (SetIgnoreEventsFor and AddDelayedEvent).                 *)
THEOREM BlockedAreKeptOut == Spec => []BlockedKeptOut
<1>1. IInv => BlockedKeptOut
  BY DEF IInv
<1> QED
  BY <1>1, InitInv, StepInv, PTL DEF Spec

(* Events are retrieved in the order in which they were added, none twice, *)
(* whatever is erased in between (Retreive and Release).                   *)
THEOREM RetrievedInOrder == Spec => InOrder
<1>1. ASSUME IInv, [Next]_vars PROVE [main = "idle" /\ main' = "handling" => last' > last]_vars
  <2>1. SUFFICES ASSUME main = "idle", main' = "handling" PROVE last' > last
    OBVIOUS
  <2>2. Retreive
    BY <1>1, <2>1 DEF Next, Main, Network, Message, OnRoundEnd, OnRoundStart, OnEvent, Release,
       SetIgnoreEvents, OnCL_Disconnected, client_Destroy, vars
  <2>3. ready # <<>> /\ last' = event[Head(ready)].number
    BY <2>1, <2>2 DEF Retreive
  <2>4. 1 \in 1..Len(ready) /\ Head(ready) = ready[1]
    BY <1>1, <2>3, EmptySeq DEF IInv, TypeOK
  <2>5. last < Number(1) /\ last' = Number(1)
    BY <1>1, <2>1, <2>3, <2>4 DEF IInv, Behind, Number
  <2>6. last \in Nat /\ Number(1) \in Nat
    BY <1>1, <2>4, Lengths, ClientsAssumption DEF IInv, TypeOK
  <2> QED BY <2>5, <2>6
<1> QED
  BY <1>1, InitInv, StepInv, PTL DEF Spec, InOrder

(* An object that stays in ready keeps its number there.                   *)
LEMMA StaysNumbered ==
  ASSUME NEW x, NEW k \in DOMAIN ready', ready'[k] = x, event'[x] = event[x]
  PROVE  event[x].number \in Numbers'
BY DEF Numbers

(* An event that is erased was chosen.                                     *)
LEMMA ErasedLeaves ==
  ASSUME IInv, NEW chosen \in SUBSET Cells, EraseEvents(chosen), UNCHANGED event,
         NEW x \in ToSet(ready), x \notin chosen
  PROVE  event[x].number \in Numbers'
<1>1. PICK j \in 1..Len(ready) : x = ready[j]
  BY Lengths DEF IInv, ToSet
<1>2. ready' \in Seq(Cells) /\ \E k \in 1..Len(ready') : ready'[k] = ready[j]
  BY <1>1, Erased
<1>3. PICK k \in DOMAIN ready' : ready'[k] = x
  BY <1>1, <1>2, LenProperties
<1> QED
  BY <1>3, StaysNumbered

(* The event that Release takes is the one that has been handled, unless   *)
(* that one has been erased.                                               *)
LEMMA ReleaseTakesHandled ==
  ASSUME IInv, Release, NEW x \in ToSet(ready), last \in Numbers, event[x].number # last
  PROVE  event[x].number \in Numbers'
<1> DEFINE n == Len(ready)
<1>1. PICK j \in 1..n : x = ready[j]
  BY Lengths DEF IInv, ToSet
<1>2. ready # <<>>
  BY <1>1, EmptySeq DEF IInv, TypeOK
<1>3. /\ ready' \in Seq(Cells) /\ n \in Nat \ {0} /\ Len(ready') = n - 1
      /\ \A k \in 1..(n - 1) : ready'[k] = ready[k + 1]
  BY <1>2, ReleasedHead, EmptySeq DEF IInv, TypeOK
<1>4. PICK h \in 1..n : last = Number(h)
  BY Lengths DEF IInv, Numbers, Number
<1>5. j # 1
  <2>1. SUFFICES ASSUME j = 1 PROVE FALSE
    OBVIOUS
  <2>2. last <= Number(1) /\ Number(1) \in Nat /\ last \in Nat /\ Number(1) # last
    BY <1>1, <1>3, <2>1, Lengths, ClientsAssumption DEF IInv, Behind, TypeOK, Number
  <2>3. h # 1 => Number(1) < last
    BY <1>3, <1>4 DEF IInv, Ordered
  <2> QED BY <1>4, <2>2, <2>3
<1>6. j - 1 \in 1..(n - 1) /\ ready'[j - 1] = x /\ DOMAIN ready' = 1..(n - 1)
  BY <1>1, <1>3, <1>5, LenProperties
<1>7. event' = event
  BY DEF Release
<1> QED
  BY <1>6, <1>7, StaysNumbered

(* No event leaves the queue unhandled but by what is meant to erase it,   *)
(* however the erasing of others comes between (EraseEvents, Release).     *)
THEOREM NothingIsLost == Spec => NothingLost
<1> DEFINE Kind(x) == \/ event[x].number \in Numbers' \cup {last} \/ Cleaned(event[x])
                      \/ last \notin Numbers
<1>1. ASSUME IInv, [Next]_vars, NEW x \in ToSet(ready) PROVE Kind(x)
  <2>1. PICK j \in 1..Len(ready) : x = ready[j] /\ x \in Cells
    BY <1>1, Lengths DEF IInv, ToSet
  <2>2. ASSUME UNCHANGED <<ready, event>> PROVE Kind(x)
    BY <1>1, <2>1, <2>2, StaysNumbered, Lengths DEF IInv
  <2>3. ASSUME NEW type \in Types, NEW sender \in Clients \cup {NoClient},
               NEW victim \in Clients \cup {NoClient}, AddDelayedEvent(type, sender, victim)
        PROVE  Kind(x)
    <3>1. /\ ready' \in Seq(Cells) /\ Len(ready') = Len(ready) + 1
          /\ ready'[j] = ready[j] /\ event'[ready[j]] = event[ready[j]]
      BY <1>1, <2>3, Created DEF AddDelayedEvent
    <3>2. j \in DOMAIN ready'
      BY <1>1, <3>1, Lengths, LenProperties DEF IInv
    <3> QED BY <2>1, <3>1, <3>2, StaysNumbered
  <2>4. CASE UNCHANGED vars
    BY <2>2, <2>4 DEF vars, queue
  <2>5. CASE Message
    BY <2>3, <2>5 DEF Message, Types
  <2>6. CASE Retreive \/ SetIgnoreEvents
    BY <2>2, <2>6 DEF Retreive, SetIgnoreEvents, queue
  <2>7. CASE OnEvent
    <3> DEFINE S == {y \in Cells : event[y].sender = event[ge].sender}
    <3>1. /\ UNCHANGED event
          /\ UNCHANGED ready \/ (EraseEvents(S) /\ event[ge].sender \in TurnedAway)
      BY <2>7 DEF OnEvent
    <3>2. CASE UNCHANGED ready
      BY <2>2, <3>1, <3>2
    <3>3. CASE EraseEvents(S) /\ event[ge].sender \in TurnedAway
      <4>1. CASE x \in S
        BY <2>7, <3>3, <4>1 DEF Cleaned
      <4>2. CASE x \notin S
        <5>1. S \in SUBSET Cells
          OBVIOUS
        <5> HIDE DEF S
        <5> QED BY <1>1, <3>1, <3>3, <4>2, <5>1, ErasedLeaves
      <4> QED BY <4>1, <4>2
    <3> QED BY <3>1, <3>2, <3>3
  <2>8. CASE Release
    BY <1>1, <2>8, ReleaseTakesHandled
  <2>9. CASE OnRoundEnd \/ OnRoundStart
    BY <2>9 DEF Cleaned
  <2>10. CASE OnCL_Disconnected
    BY <2>3, <2>10 DEF OnCL_Disconnected, Types
  <2>11. CASE client_Destroy
    <3> DEFINE S == {y \in Cells : event[y].type = "player_killed" /\ event[y].victim = leaving}
    <3>1. EraseEvents(S) /\ UNCHANGED event /\ S \in SUBSET Cells
      BY <2>11 DEF client_Destroy
    <3>2. CASE x \in S
      BY <2>11, <3>2 DEF Cleaned
    <3>3. CASE x \notin S
      <4> HIDE DEF S
      <4> QED BY <1>1, <3>1, <3>3, ErasedLeaves
    <3> QED BY <3>2, <3>3
  <2> QED
    BY <1>1, <2>4, <2>5, <2>6, <2>7, <2>8, <2>9, <2>10, <2>11 DEF Next, Main, Network
<1>2. ASSUME IInv, [Next]_vars
      PROVE  [\A x \in ToSet(ready) :
               \/ event[x].number \in Numbers' \cup {last} \/ Cleaned(event[x])
               \/ last \notin Numbers]_vars
  BY <1>1, <1>2
<1> QED
  BY <1>2, InitInv, StepInv, PTL DEF Spec, NothingLost
=============================================================================
