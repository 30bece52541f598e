--------------------------- MODULE KeyedQueueProofs ---------------------------
(***************************************************************************)
(* Proofs about KeyedQueue: mutual exclusion and the facts that it rests   *)
(* on, for any callers, keys and limit; and about UploadAdmission in front *)
(* of it: the queue is used as it was meant, and the slots add up.         *)
(***************************************************************************)
EXTENDS UploadAdmission, SequenceTheorems, FiniteSetTheorems, TLAPS

-----------------------------------------------------------------------------
(* Sequences *)

\* The elements of a sequence after one more arrives.
LEMMA Appended ==
  ASSUME NEW s \in Seq(Callers), NEW c \in Callers
  PROVE  /\ Append(s, c) \in Seq(Callers)
         /\ Len(Append(s, c)) = Len(s) + 1
         /\ \A i \in 1..Len(s) : Append(s, c)[i] = s[i]
         /\ Append(s, c)[Len(s) + 1] = c
  OBVIOUS

\* The elements of a sequence after the first leaves.
LEMMA Shifted ==
  ASSUME NEW s \in Seq(Callers), s # <<>>
  PROVE  /\ shift(s)[1] = s[1] /\ s[1] \in Callers /\ shift(s)[2] \in Seq(Callers)
         /\ Len(s) \in Nat /\ Len(s) >= 1
         /\ Len(shift(s)[2]) = Len(s) - 1
         /\ \A i \in 1..(Len(s) - 1) : shift(s)[2][i] = s[i + 1]
  BY DEF shift

\* The elements of a sequence after the one at position i leaves.
LEMMA Removed ==
  ASSUME NEW s \in Seq(Callers), NEW i \in 1..Len(s)
  PROVE  /\ RemoveAt(s, i) \in Seq(Callers)
         /\ Len(RemoveAt(s, i)) = Len(s) - 1
         /\ \A j \in 1..(Len(s) - 1) : RemoveAt(s, i)[j] = IF j < i THEN s[j] ELSE s[j + 1]
<1>1. Len(s) \in Nat /\ i \in Nat /\ 1 <= i /\ i <= Len(s)
  OBVIOUS
<1>2. /\ SubSeq(s, 1, i - 1) \in Seq(Callers) /\ Len(SubSeq(s, 1, i - 1)) = i - 1
      /\ \A j \in 1..(i - 1) : SubSeq(s, 1, i - 1)[j] = s[j]
  OBVIOUS
<1>3. /\ SubSeq(s, i + 1, Len(s)) \in Seq(Callers)
      /\ Len(SubSeq(s, i + 1, Len(s))) = Len(s) - i
      /\ \A j \in 1..(Len(s) - i) : SubSeq(s, i + 1, Len(s))[j] = s[j + i]
  OBVIOUS
<1>4. PICK u : u = SubSeq(s, 1, i - 1)
  OBVIOUS
<1>5. PICK v : v = SubSeq(s, i + 1, Len(s))
  OBVIOUS
<1>6. u \in Seq(Callers) /\ Len(u) = i - 1 /\ \A j \in 1..(i - 1) : u[j] = s[j]
  BY <1>2, <1>4
<1>7. v \in Seq(Callers) /\ Len(v) = Len(s) - i /\ \A j \in 1..(Len(s) - i) : v[j] = s[j + i]
  BY <1>3, <1>5
<1>8. Len(u) + Len(v) = Len(s) - 1
  BY <1>1, <1>6, <1>7
<1>9. /\ u \o v \in Seq(Callers)
      /\ Len(u \o v) = Len(s) - 1
      /\ \A j \in 1..(Len(s) - 1) : (u \o v)[j] = IF j <= Len(u) THEN u[j] ELSE v[j - Len(u)]
  <2>1. u \in Seq(Callers) /\ v \in Seq(Callers)
    BY <1>6, <1>7
  <2>2. /\ u \o v \in Seq(Callers)
        /\ Len(u \o v) = Len(u) + Len(v)
        /\ \A j \in 1..(Len(u) + Len(v)) :
             (u \o v)[j] = IF j <= Len(u) THEN u[j] ELSE v[j - Len(u)]
    BY <2>1, ConcatProperties, Zenon
  <2>3. QED
    BY <1>8, <2>2, Zenon
<1>10. RemoveAt(s, i) = u \o v
  BY <1>4, <1>5 DEF RemoveAt
<1>11. ASSUME NEW j \in 1..(Len(s) - 1)
      PROVE  (u \o v)[j] = IF j < i THEN s[j] ELSE s[j + 1]
  <2>1. j \in Nat /\ 1 <= j /\ j <= Len(s) - 1
    BY <1>1
  <2>2. CASE j < i
    <3>1. j \in 1..(i - 1) /\ j <= Len(u)
      BY <1>1, <1>6, <2>1, <2>2
    <3>2. QED
      BY <1>6, <1>9, <2>2, <3>1
  <2>3. CASE ~(j < i)
    <3>1. j - (i - 1) \in 1..(Len(s) - i) /\ ~(j <= i - 1) /\ (j - (i - 1)) + i = j + 1
      BY <1>1, <2>1, <2>3
    <3>2. (u \o v)[j] = v[j - (i - 1)]
      BY <1>6, <1>9, <3>1
    <3>3. QED
      BY <1>7, <2>3, <3>1, <3>2
  <2>4. QED
    BY <2>2, <2>3
<1>12. QED
  BY <1>9, <1>10, <1>11

-----------------------------------------------------------------------------
(* The inductive invariant *)

QueueInv == TypeOK /\ OneAtATime /\ LaneIffHeld /\ QueueIsWhoWaits /\ QueueBounded

LEMMA InitQueue == Init => QueueInv
  BY QueueAssumption DEF Init, QueueInv, TypeOK, OneAtATime, LaneIffHeld, QueueIsWhoWaits,
                         QueueBounded, Holds

\* A step that leaves every queue alone and changes nobody's waiting.
LEMMA QueuesUntouched ==
  ASSUME QueueIsWhoWaits, UNCHANGED waiting,
         \A c \in Callers : pc'[c] = "waiting" <=> pc[c] = "waiting", TypeOK
  PROVE  QueueIsWhoWaits'
  BY DEF QueueIsWhoWaits, TypeOK

LEMMA AcquireKeepsInv ==
  ASSUME QueueInv, NEW c \in Callers, Acquire(c)
  PROVE  QueueInv'
<1>. DEFINE k == keyOf[c]
<1>1. k \in Keys /\ waiting[k] \in Seq(Callers)
  BY QueueAssumption DEF QueueInv, TypeOK
<1>2. CASE /\ k \notin lanes /\ lanes' = lanes \union {k}
           /\ pc' = [pc EXCEPT ![c] = "entering"] /\ UNCHANGED waiting
  <2>1. pc[c] = "idle" /\ pc'[c] = "entering" /\ \A b \in Callers \ {c} : pc'[b] = pc[b]
    BY <1>2 DEF Acquire, QueueInv, TypeOK
  <2>2. \A b \in Callers : keyOf[b] = k => ~Holds(b)
    BY <1>1, <1>2 DEF QueueInv, LaneIffHeld
  <2>3. TypeOK'
    BY <1>1, <1>2 DEF QueueInv, TypeOK
  <2>4. OneAtATime' /\ LaneIffHeld'
    BY <1>1, <1>2, <2>1, <2>2 DEF QueueInv, OneAtATime, LaneIffHeld, Holds
  <2>5. QueueIsWhoWaits'
    BY <1>2, <2>1, QueuesUntouched DEF QueueInv
  <2>6. QueueBounded'
    BY <1>2 DEF QueueInv, QueueBounded
  <2>7. QED
    BY <2>3, <2>4, <2>5, <2>6 DEF QueueInv
<1>3. CASE /\ k \in lanes /\ ~laneFull(k)
           /\ waiting' = [waiting EXCEPT ![k] = Append(@, c)]
           /\ pc' = [pc EXCEPT ![c] = "waiting"] /\ UNCHANGED lanes
  <2>. DEFINE s == waiting[k]
  <2>1. pc[c] = "idle" /\ pc'[c] = "waiting" /\ \A b \in Callers \ {c} : pc'[b] = pc[b]
    BY <1>3 DEF Acquire, QueueInv, TypeOK
  <2>2. /\ waiting'[k] = Append(s, c) /\ \A q \in Keys \ {k} : waiting'[q] = waiting[q]
    BY <1>1, <1>3 DEF QueueInv, TypeOK
  <2>3. /\ Append(s, c) \in Seq(Callers) /\ Len(Append(s, c)) = Len(s) + 1 /\ Len(s) \in Nat
        /\ \A i \in 1..Len(s) : Append(s, c)[i] = s[i]
        /\ Append(s, c)[Len(s) + 1] = c
    BY <1>1, Appended
  <2>4. TypeOK'
    BY <1>1, <1>3, <2>3 DEF QueueInv, TypeOK
  <2>5. OneAtATime' /\ LaneIffHeld'
    BY <1>3, <2>1 DEF QueueInv, OneAtATime, LaneIffHeld, Holds
  <2>6. QueueIsWhoWaits'
    <3>1. ASSUME NEW q \in Keys, NEW i \in 1..Len(waiting'[q])
          PROVE  /\ pc'[waiting'[q][i]] = "waiting" /\ keyOf[waiting'[q][i]] = q
                 /\ \A j \in 1..Len(waiting'[q]) : waiting'[q][i] = waiting'[q][j] => i = j
      <4>1. CASE q # k
        BY <2>1, <2>2, <4>1 DEF QueueInv, QueueIsWhoWaits, TypeOK
      <4>2. CASE q = k
        <5>1. \A j \in 1..Len(s) : s[j] \in Callers /\ s[j] # c
          BY <1>1, <2>1 DEF QueueInv, QueueIsWhoWaits
        <5>2. \A j \in 1..Len(s) : /\ pc'[s[j]] = "waiting" /\ keyOf[s[j]] = k
                                   /\ \A l \in 1..Len(s) : s[j] = s[l] => j = l
          BY <1>1, <2>1, <5>1 DEF QueueInv, QueueIsWhoWaits
        <5>3. /\ Len(waiting'[q]) = Len(s) + 1 /\ waiting'[q][Len(s) + 1] = c
              /\ \A j \in 1..Len(s) : waiting'[q][j] = s[j]
          BY <2>2, <2>3, <4>2
        <5>4. \A j \in 1..(Len(s) + 1) : j \in 1..Len(s) \/ j = Len(s) + 1
          BY <2>3
        <5>5. i \in 1..(Len(s) + 1)
          BY <5>3
        <5>6. CASE i = Len(s) + 1
          <6>1. waiting'[q][i] = c
            BY <5>3, <5>6
          <6>2. \A j \in 1..(Len(s) + 1) : waiting'[q][j] = c => j = i
            BY <5>1, <5>3, <5>4, <5>6
          <6>3. QED
            BY <2>1, <4>2, <5>3, <6>1, <6>2
        <5>7. CASE i \in 1..Len(s)
          <6>1. waiting'[q][i] = s[i] /\ s[i] # c
            BY <5>1, <5>3, <5>7
          <6>2. \A j \in 1..(Len(s) + 1) : s[i] = waiting'[q][j] => i = j
            BY <5>2, <5>3, <5>4, <5>7, <6>1
          <6>3. QED
            BY <4>2, <5>2, <5>3, <5>7, <6>1, <6>2
        <5>8. QED
          BY <5>4, <5>5, <5>6, <5>7
      <4>3. QED
        BY <4>1, <4>2
    <3>2. ASSUME NEW b \in Callers, pc'[b] = "waiting"
          PROVE  \E i \in 1..Len(waiting'[keyOf[b]]) : waiting'[keyOf[b]][i] = b
      <4>1. CASE b = c
        BY <2>2, <2>3, <4>1
      <4>2. CASE b # c
        <5>1. PICK i \in 1..Len(waiting[keyOf[b]]) : waiting[keyOf[b]][i] = b
          BY <2>1, <3>2, <4>2 DEF QueueInv, QueueIsWhoWaits
        <5>2. keyOf[b] \in Keys
          BY QueueAssumption
        <5>3. CASE keyOf[b] = k
          <6>1. i \in 1..Len(s) /\ i \in 1..(Len(s) + 1) /\ s[i] = b
            BY <2>3, <5>1, <5>3
          <6>2. QED
            BY <2>2, <2>3, <5>3, <6>1
        <5>4. CASE keyOf[b] # k
          BY <2>2, <5>1, <5>2, <5>4
        <5>5. QED
          BY <5>3, <5>4
      <4>3. QED
        BY <4>1, <4>2
    <3>3. QED
      BY <3>1, <3>2 DEF QueueIsWhoWaits
  <2>7. QueueBounded'
    BY <1>1, <1>3, <2>2, <2>3, QueueAssumption DEF QueueInv, QueueBounded, laneFull
  <2>8. QED
    BY <2>4, <2>5, <2>6, <2>7 DEF QueueInv
<1>4. QED
  BY <1>2, <1>3 DEF Acquire, isFree

LEMMA ExpireKeepsInv ==
  ASSUME QueueInv, NEW c \in Callers, Expire(c)
  PROVE  QueueInv'
<1>. DEFINE k == keyOf[c]
            s == waiting[k]
<1>1. k \in Keys /\ s \in Seq(Callers)
  BY QueueAssumption DEF QueueInv, TypeOK
<1>2. PICK n \in 1..Len(s) : s[n] = c /\ waiting' = [waiting EXCEPT ![k] = RemoveAt(s, n)]
  BY DEF Expire, spliced
<1>3. pc[c] = "waiting" /\ pc'[c] = "idle" /\ \A b \in Callers \ {c} : pc'[b] = pc[b]
  BY DEF Expire, QueueInv, TypeOK
<1>4. /\ waiting'[k] = RemoveAt(s, n) /\ \A q \in Keys \ {k} : waiting'[q] = waiting[q]
  BY <1>1, <1>2 DEF QueueInv, TypeOK
<1>5. /\ RemoveAt(s, n) \in Seq(Callers) /\ Len(RemoveAt(s, n)) = Len(s) - 1 /\ Len(s) \in Nat
      /\ \A j \in 1..(Len(s) - 1) : RemoveAt(s, n)[j] = IF j < n THEN s[j] ELSE s[j + 1]
  <2>1. PICK q \in Seq(Callers) : q = s
    BY <1>1
  <2>2. Len(q) \in Nat /\ n \in 1..Len(q)
    BY <2>1
  <2>3. /\ RemoveAt(q, n) \in Seq(Callers) /\ Len(RemoveAt(q, n)) = Len(q) - 1
        /\ \A j \in 1..(Len(q) - 1) : RemoveAt(q, n)[j] = IF j < n THEN q[j] ELSE q[j + 1]
    BY <2>2, Removed
  <2>4. QED
    BY <2>1, <2>2, <2>3
<1>6. TypeOK'
  BY <1>1, <1>2, <1>5 DEF Expire, QueueInv, TypeOK
<1>7. OneAtATime' /\ LaneIffHeld'
  BY <1>3 DEF Expire, QueueInv, OneAtATime, LaneIffHeld, Holds
<1>8. QueueIsWhoWaits'
  <2>1. ASSUME NEW q \in Keys, NEW i \in 1..Len(waiting'[q])
        PROVE  /\ pc'[waiting'[q][i]] = "waiting" /\ keyOf[waiting'[q][i]] = q
               /\ \A j \in 1..Len(waiting'[q]) : waiting'[q][i] = waiting'[q][j] => i = j
    <3>1. CASE q # k
      <4>1. waiting'[q] = waiting[q] /\ waiting[q][i] # c
        BY <1>4, <3>1 DEF QueueInv, QueueIsWhoWaits
      <4>2. waiting[q][i] \in Callers
        BY <4>1 DEF QueueInv, TypeOK
      <4>3. QED
        BY <1>3, <4>1, <4>2 DEF QueueInv, QueueIsWhoWaits
    <3>2. CASE q = k
      <4>. DEFINE at(j) == IF j < n THEN j ELSE j + 1
      <4>1. \A j \in 1..(Len(s) - 1) :
              /\ at(j) \in 1..Len(s) /\ at(j) # n
              /\ waiting'[k][j] = s[at(j)]
        BY <1>4, <1>5
      <4>2. \A j \in 1..Len(s) : s[j] \in Callers /\ (j # n => s[j] # c)
        BY <1>1, <1>2 DEF QueueInv, QueueIsWhoWaits
      <4>3. \A j \in 1..(Len(s) - 1) : at(i) = at(j) => i = j
        BY <1>4, <1>5, <3>2
      <4>4. i \in 1..(Len(s) - 1) /\ Len(waiting'[q]) = Len(s) - 1
        BY <1>4, <1>5, <3>2
      <4>5. s[at(i)] \in Callers /\ s[at(i)] # c
        BY <4>1, <4>2, <4>4
      <4>6. pc'[s[at(i)]] = "waiting" /\ keyOf[s[at(i)]] = k
        BY <1>1, <1>3, <4>1, <4>4, <4>5 DEF QueueInv, QueueIsWhoWaits
      <4>7. \A j \in 1..(Len(s) - 1) : s[at(i)] = s[at(j)] => at(i) = at(j)
        BY <1>1, <4>1, <4>4 DEF QueueInv, QueueIsWhoWaits
      <4>8. QED
        BY <3>2, <4>1, <4>3, <4>4, <4>6, <4>7
    <3>3. QED
      BY <3>1, <3>2
  <2>2. ASSUME NEW b \in Callers, pc'[b] = "waiting"
        PROVE  \E i \in 1..Len(waiting'[keyOf[b]]) : waiting'[keyOf[b]][i] = b
    <3>1. b # c /\ pc[b] = "waiting"
      BY <1>3, <2>2
    <3>2. PICK i \in 1..Len(waiting[keyOf[b]]) : waiting[keyOf[b]][i] = b
      BY <3>1 DEF QueueInv, QueueIsWhoWaits
    <3>3. keyOf[b] \in Keys
      BY QueueAssumption
    <3>4. CASE keyOf[b] = k /\ i < n
      BY <1>4, <1>5, <3>2, <3>4
    <3>5. CASE keyOf[b] = k /\ i > n
      <4>1. i - 1 \in 1..(Len(s) - 1) /\ ~(i - 1 < n) /\ (i - 1) + 1 = i
        BY <1>5, <3>2, <3>5
      <4>2. waiting'[k][i - 1] = b
        BY <1>4, <1>5, <3>2, <3>5, <4>1
      <4>3. QED
        BY <1>4, <1>5, <3>5, <4>1, <4>2
    <3>6. CASE keyOf[b] # k
      BY <1>4, <3>2, <3>3, <3>6
    <3>7. QED
      BY <1>2, <3>1, <3>2, <3>4, <3>5, <3>6
  <2>3. QED
    BY <2>1, <2>2 DEF QueueIsWhoWaits
<1>9. QueueBounded'
  <2>1. s # <<>>
    BY <1>1, <1>2
  <2>2. UNCHANGED lanes
    BY DEF Expire
  <2>3. QED
    BY <1>1, <1>4, <1>5, <2>1, <2>2, QueueAssumption DEF QueueInv, QueueBounded
<1>10. QED
  BY <1>6, <1>7, <1>8, <1>9 DEF QueueInv

LEMMA FinishKeepsInv ==
  ASSUME QueueInv, NEW c \in Callers, Finish(c)
  PROVE  QueueInv'
<1>. DEFINE k == keyOf[c]
            s == waiting[k]
<1>1. k \in Keys /\ s \in Seq(Callers) /\ pc[c] = "running"
  BY QueueAssumption DEF Finish, QueueInv, TypeOK
<1>2. \A b \in Callers \ {c} : keyOf[b] = k => ~Holds(b)
  BY <1>1 DEF QueueInv, OneAtATime, Holds
<1>3. CASE /\ s = <<>> /\ pc' = [pc EXCEPT ![c] = "idle"] /\ lanes' = lanes \ {k}
           /\ UNCHANGED waiting
  <2>1. pc'[c] = "idle" /\ \A b \in Callers \ {c} : pc'[b] = pc[b]
    BY <1>3 DEF QueueInv, TypeOK
  <2>2. TypeOK'
    BY <1>3 DEF QueueInv, TypeOK
  <2>3. OneAtATime' /\ LaneIffHeld'
    BY <1>1, <1>2, <1>3, <2>1 DEF QueueInv, OneAtATime, LaneIffHeld, Holds
  <2>4. QueueIsWhoWaits'
    BY <1>1, <1>3, <2>1, QueuesUntouched DEF QueueInv
  <2>5. QueueBounded'
    BY <1>3 DEF QueueInv, QueueBounded
  <2>6. QED
    BY <2>2, <2>3, <2>4, <2>5 DEF QueueInv
<1>4. CASE /\ s # <<>>
           /\ pc' = [pc EXCEPT ![c] = "idle", ![shift(s)[1]] = "entering"]
           /\ waiting' = [waiting EXCEPT ![k] = shift(@)[2]] /\ UNCHANGED lanes
  <2>1. PICK next \in Callers : next = s[1]
    BY <1>1, <1>4, Shifted
  <2>2. /\ Len(s) \in Nat /\ Len(s) >= 1
        /\ shift(s)[1] = next /\ shift(s)[2] \in Seq(Callers)
        /\ Len(shift(s)[2]) = Len(s) - 1
        /\ \A i \in 1..(Len(s) - 1) : shift(s)[2][i] = s[i + 1]
    BY <1>1, <1>4, <2>1, Shifted
  <2>3. pc[next] = "waiting" /\ keyOf[next] = k /\ next # c
    BY <1>1, <2>1, <2>2 DEF QueueInv, QueueIsWhoWaits
  <2>4. /\ pc'[c] = "idle" /\ pc'[next] = "entering"
        /\ \A b \in Callers \ {c, next} : pc'[b] = pc[b]
    BY <1>4, <2>2, <2>3 DEF QueueInv, TypeOK
  <2>5. waiting'[k] = shift(s)[2] /\ \A q \in Keys \ {k} : waiting'[q] = waiting[q]
    BY <1>1, <1>4 DEF QueueInv, TypeOK
  <2>6. TypeOK'
    BY <1>1, <1>4, <2>2 DEF QueueInv, TypeOK
  <2>7. OneAtATime' /\ LaneIffHeld'
    <3>1. \A b \in Callers : Holds(b)' <=> (b = next \/ (b # c /\ Holds(b)))
      BY <2>3, <2>4 DEF Holds
    <3>2. Holds(c) /\ ~Holds(next)
      BY <1>1, <2>3 DEF Holds
    <3>3. OneAtATime'
      BY <1>2, <2>3, <3>1 DEF QueueInv, OneAtATime
    <3>4. LaneIffHeld'
      BY <1>1, <1>4, <2>3, <3>1, <3>2 DEF QueueInv, LaneIffHeld
    <3>5. QED
      BY <3>3, <3>4
  <2>8. QueueIsWhoWaits'
    <3>1. ASSUME NEW q \in Keys, NEW i \in 1..Len(waiting'[q])
          PROVE  /\ pc'[waiting'[q][i]] = "waiting" /\ keyOf[waiting'[q][i]] = q
                 /\ \A j \in 1..Len(waiting'[q]) : waiting'[q][i] = waiting'[q][j] => i = j
      <4>1. CASE q # k
        <5>1. waiting'[q] = waiting[q] /\ waiting[q][i] \notin {c, next}
          BY <1>1, <2>3, <2>5, <4>1 DEF QueueInv, QueueIsWhoWaits
        <5>2. waiting[q][i] \in Callers
          BY <5>1 DEF QueueInv, TypeOK
        <5>3. QED
          BY <2>4, <5>1, <5>2 DEF QueueInv, QueueIsWhoWaits
      <4>2. CASE q = k
        <5>1. i \in 1..(Len(s) - 1) /\ Len(waiting'[q]) = Len(s) - 1
          BY <2>2, <2>5, <4>2
        <5>2. \A j \in 1..(Len(s) - 1) :
                /\ waiting'[k][j] = s[j + 1] /\ j + 1 \in 1..Len(s)
                /\ s[j + 1] \in Callers \ {c, next}
          BY <1>1, <2>1, <2>2, <2>5 DEF QueueInv, QueueIsWhoWaits
        <5>3. pc'[s[i + 1]] = "waiting" /\ keyOf[s[i + 1]] = k
          <6>1. i + 1 \in 1..Len(s) /\ s[i + 1] \in Callers \ {c, next}
            BY <5>1, <5>2
          <6>2. pc[s[i + 1]] = "waiting" /\ keyOf[s[i + 1]] = k
            BY <1>1, <6>1 DEF QueueInv, QueueIsWhoWaits
          <6>3. QED
            BY <2>4, <6>1, <6>2
        <5>4. \A j \in 1..(Len(s) - 1) : s[i + 1] = s[j + 1] => i = j
          BY <1>1, <5>1, <5>2 DEF QueueInv, QueueIsWhoWaits
        <5>5. QED
          BY <4>2, <5>1, <5>2, <5>3, <5>4
      <4>3. QED
        BY <4>1, <4>2
    <3>2. ASSUME NEW b \in Callers, pc'[b] = "waiting"
          PROVE  \E i \in 1..Len(waiting'[keyOf[b]]) : waiting'[keyOf[b]][i] = b
      <4>1. b \notin {c, next} /\ pc[b] = "waiting" /\ keyOf[b] \in Keys
        BY <2>4, <3>2, QueueAssumption
      <4>2. PICK i \in 1..Len(waiting[keyOf[b]]) : waiting[keyOf[b]][i] = b
        BY <4>1 DEF QueueInv, QueueIsWhoWaits
      <4>3. CASE keyOf[b] = k
        <5>1. i # 1
          BY <2>1, <4>1, <4>2, <4>3
        <5>2. i - 1 \in 1..(Len(s) - 1) /\ (i - 1) + 1 = i
          BY <2>2, <4>2, <4>3, <5>1
        <5>3. waiting'[k][i - 1] = b
          BY <2>2, <2>5, <4>2, <4>3, <5>2
        <5>4. QED
          BY <2>2, <2>5, <4>3, <5>2, <5>3
      <4>4. CASE keyOf[b] # k
        BY <2>5, <4>1, <4>2, <4>4
      <4>5. QED
        BY <4>3, <4>4
    <3>3. QED
      BY <3>1, <3>2 DEF QueueIsWhoWaits
  <2>9. QueueBounded'
    BY <1>1, <1>4, <2>2, <2>5, QueueAssumption DEF QueueInv, QueueBounded
  <2>10. QED
    BY <2>6, <2>7, <2>8, <2>9 DEF QueueInv
<1>5. QED
  BY <1>3, <1>4 DEF Finish, lanesWithout

LEMMA NextQueue == QueueInv /\ [Next]_vars => QueueInv'
<1> SUFFICES ASSUME QueueInv, [Next]_vars PROVE QueueInv'
  OBVIOUS
<1>1. ASSUME NEW c \in Callers, Enter(c) PROVE QueueInv'
  <2>1. /\ pc[c] = "entering" /\ pc'[c] = "running" /\ \A b \in Callers \ {c} : pc'[b] = pc[b]
        /\ UNCHANGED <<lanes, waiting>>
    BY <1>1 DEF Enter, QueueInv, TypeOK
  <2>2. TypeOK'
    BY <1>1 DEF Enter, QueueInv, TypeOK
  <2>3. OneAtATime' /\ LaneIffHeld' /\ QueueBounded'
    BY <2>1 DEF QueueInv, OneAtATime, LaneIffHeld, QueueBounded, Holds
  <2>4. QueueIsWhoWaits'
    BY <2>1, QueuesUntouched DEF QueueInv
  <2>5. QED
    BY <2>2, <2>3, <2>4 DEF QueueInv
<1>2. CASE UNCHANGED vars
  BY <1>2 DEF vars, QueueInv, TypeOK, OneAtATime, LaneIffHeld, QueueIsWhoWaits, QueueBounded, Holds
<1>3. QED
  BY <1>1, <1>2, AcquireKeepsInv, ExpireKeepsInv, FinishKeepsInv DEF Next

-----------------------------------------------------------------------------

LEMMA QueueInvHolds == Spec => []QueueInv
  BY InitQueue, NextQueue, PTL DEF Spec

\* Two tasks with one key never run at a time.
THEOREM TasksRunOneAtATime == Spec => []OneAtATime
<1>1. QueueInv => OneAtATime
  BY DEF QueueInv
<1>2. QED
  BY <1>1, QueueInvHolds, PTL

\* A key has a lane exactly while a task has it.
THEOREM LanesFollowHolders == Spec => []LaneIffHeld
<1>1. QueueInv => LaneIffHeld
  BY DEF QueueInv
<1>2. QED
  BY <1>1, QueueInvHolds, PTL

\* The queue of a key holds exactly those who wait for it, each once.
THEOREM QueuesHoldWhoWaits == Spec => []QueueIsWhoWaits
<1>1. QueueInv => QueueIsWhoWaits
  BY DEF QueueInv
<1>2. QED
  BY <1>1, QueueInvHolds, PTL

\* No more than maxWaiting wait for a key, and only for a key that is taken.
THEOREM QueuesAreBounded == Spec => []QueueBounded
<1>1. QueueInv => QueueBounded
  BY DEF QueueInv
<1>2. QED
  BY <1>1, QueueInvHolds, PTL

-----------------------------------------------------------------------------
(* The admission of uploads in front of the queue *)

\* Whatever the admission lets through, and however connections break, the
\* queue behind it only makes steps of KeyedQueue: what is proved of the queue
\* holds of the two together.
THEOREM AdmissionKeepsTheQueue == AdmissionSpec => Spec
<1>1. AdmissionInit => Init
  BY DEF AdmissionInit
<1>2. ASSUME [AdmissionNext]_allVars PROVE [Next]_vars
  <2>1. CASE UNCHANGED allVars
    BY <2>1 DEF allVars
  <2>2. CASE AdmissionNext
    BY <2>2 DEF AdmissionNext, Next
  <2>3. QED
    BY <1>2, <2>1, <2>2
<1>3. QED
  BY <1>1, <1>2, PTL DEF AdmissionSpec, Spec

AdmissionStages == {"away", "checking", "closed", "open", "aborted"}

\* What the count of the slots rests on: the types, and the count itself.
AdmissionInv ==
  /\ stage \in [Uploads -> AdmissionStages]
  /\ active \in Nat /\ lost \in Nat
  /\ SlotsAccounted

\* A request that opens or ends its response changes the number of the open
\* ones by one.
LEMMA OpenCount ==
  /\ IsFiniteSet(open) /\ Cardinality(open) \in Nat
  /\ \A u \in open : Cardinality(open \ {u}) = Cardinality(open) - 1
  /\ \A u : u \notin open => Cardinality(open \union {u}) = Cardinality(open) + 1
<1>1. IsFiniteSet(open)
  BY FS_Subset, AdmissionAssumption DEF open
<1>2. QED
  BY <1>1, FS_CardinalityType, FS_AddElement, FS_RemoveElement

\* A move between two stages, as the set of the open requests sees it.
LEMMA MovesOfOpen ==
  ASSUME stage \in [Uploads -> AdmissionStages], NEW u \in Uploads,
         NEW from \in AdmissionStages, NEW to \in AdmissionStages, moves(u, from, to)
  PROVE  /\ stage' \in [Uploads -> AdmissionStages]
         /\ from # "open" /\ to # "open" => open' = open
         /\ from # "open" /\ to = "open" => u \notin open /\ open' = open \union {u}
         /\ from = "open" /\ to # "open" => u \in open /\ open' = open \ {u}
<1>1. /\ stage[u] = from /\ stage' = [stage EXCEPT ![u] = to]
  BY DEF moves
<1>2. stage' \in [Uploads -> AdmissionStages]
  BY <1>1
<1>3. stage'[u] = to /\ \A v \in Uploads \ {u} : stage'[v] = stage[v]
  BY <1>1
<1>4. QED
  BY <1>1, <1>2, <1>3 DEF open

LEMMA NextAdmission == AdmissionInv /\ [AdmissionNext]_allVars => AdmissionInv'
<1> SUFFICES ASSUME AdmissionInv, [AdmissionNext]_allVars PROVE AdmissionInv'
  OBVIOUS
<1> USE DEF AdmissionStages
<1>1. ASSUME UNCHANGED admissionVars PROVE AdmissionInv'
  BY <1>1 DEF AdmissionInv, SlotsAccounted, open, admissionVars
<1>2. ASSUME NEW u \in Uploads, NEW from \in AdmissionStages \ {"open"},
             NEW to \in AdmissionStages \ {"open"}, moves(u, from, to), UNCHANGED <<active, lost>>
      PROVE  AdmissionInv'
  <2>1. stage' \in [Uploads -> AdmissionStages] /\ open' = open
    BY <1>2, MovesOfOpen DEF AdmissionInv
  <2>2. QED
    BY <1>2, <2>1 DEF AdmissionInv, SlotsAccounted
<1>3. ASSUME NEW u \in Uploads, Arrive(u) \/ CloseEarly(u) \/ Refuse(u) \/ End(u)
      PROVE  AdmissionInv'
  BY <1>2, <1>3 DEF Arrive, CloseEarly, Refuse, End
<1>4. ASSUME NEW u \in Uploads, TakeSlot(u) PROVE AdmissionInv'
  <2>1. active' = active + 1 /\ active < slotLimit /\ slotLimit \in Nat
    BY <1>4, AdmissionAssumption DEF TakeSlot, hasSlot
  <2>2. CASE moves(u, "checking", "open") /\ UNCHANGED lost
    <3>1. stage' \in [Uploads -> AdmissionStages] /\ u \notin open /\ open' = open \union {u}
      BY <2>2, MovesOfOpen DEF AdmissionInv
    <3>2. Cardinality(open') = Cardinality(open) + 1 /\ Cardinality(open) \in Nat
      BY <3>1, OpenCount
    <3>3. QED
      BY <2>1, <2>2, <3>1, <3>2 DEF AdmissionInv, SlotsAccounted
  <2>3. CASE moves(u, "closed", "away") /\ lost' = lost + 1
    <3>1. stage' \in [Uploads -> AdmissionStages] /\ open' = open
      BY <2>3, MovesOfOpen DEF AdmissionInv
    <3>2. Cardinality(open) \in Nat
      BY OpenCount
    <3>3. QED
      BY <2>1, <2>3, <3>1, <3>2 DEF AdmissionInv, SlotsAccounted
  <2>4. QED
    BY <1>4, <2>2, <2>3 DEF TakeSlot
<1>5. ASSUME NEW u \in Uploads, Respond(u) \/ Abort(u) PROVE AdmissionInv'
  <2>1. active' = active - 1 /\ UNCHANGED lost
    BY <1>5 DEF Respond, Abort, activeAfterAbort
  <2>2. PICK to \in AdmissionStages \ {"open"} : moves(u, "open", to)
    BY <1>5 DEF Respond, Abort
  <2>3. stage' \in [Uploads -> AdmissionStages] /\ u \in open /\ open' = open \ {u}
    BY <2>2, MovesOfOpen DEF AdmissionInv
  <2>4. Cardinality(open') = Cardinality(open) - 1 /\ Cardinality(open) \in Nat
    BY <2>3, OpenCount
  <2>5. Cardinality(open') \in Nat
    <3>1. IsFiniteSet(open')
      BY <2>3, OpenCount, FS_RemoveElement
    <3>2. QED
      BY <3>1, FS_CardinalityType
  <2>6. slotLimit \in Nat
    BY AdmissionAssumption
  <2>7. QED
    BY <2>1, <2>3, <2>4, <2>5, <2>6 DEF AdmissionInv, SlotsAccounted
<1>6. CASE AdmissionNext
  BY <1>1, <1>3, <1>4, <1>5, <1>6 DEF AdmissionNext, GuardStep
<1>7. QED
  BY <1>1, <1>6 DEF allVars, admissionVars

\* Every slot in use belongs to a response that is open, or to one whose close
\* came before the guard listened, for any number of requests and slots.
THEOREM SlotsAlwaysAccounted == AdmissionSpec => []SlotsAccounted
<1>1. AdmissionInit => AdmissionInv
  <2> SUFFICES ASSUME AdmissionInit PROVE AdmissionInv
    OBVIOUS
  <2>1. open = {}
    BY DEF AdmissionInit, open
  <2>2. QED
    BY <2>1, FS_EmptySet, AdmissionAssumption DEF AdmissionInit, AdmissionInv, SlotsAccounted, AdmissionStages
<1>2. AdmissionInv => SlotsAccounted
  BY DEF AdmissionInv
<1>3. QED
  BY <1>1, <1>2, NextAdmission, PTL DEF AdmissionSpec

=============================================================================
