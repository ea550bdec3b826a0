---------------------------- MODULE ProcQ_proofs ----------------------------
(***************************************************************************)
(* What the queue operators of ProcQ preserve: the facts the proofs about  *)
(* the Nucleus cite.  Range is the set of the PCBs on a queue, IsInjective *)
(* says that none is on it twice.                                          *)
(***************************************************************************)
EXTENDS ProcQ, SequenceTheorems, FiniteSetTheorems, WellFoundedInduction, TLAPS

(* A non-empty set of naturals has the minimum insertProcQ looks for. *)
LEMMA MinNat ==
  ASSUME NEW S \in SUBSET Nat, S # {}
  PROVE  /\ Min(S) \in S
         /\ \A x \in S : Min(S) <= x
<1> DEFINE R == {ss \in Nat \X Nat : ss[1] < ss[2]}
<1>0. OpToRel(<, Nat) = R
  BY Zenon DEF OpToRel
<1>1. IsWellFoundedOn(R, Nat)
  BY <1>0, NatLessThanWellFounded, Zenon
<1>2. PICK x \in S : \A y \in S : ~(<<y, x>> \in R)
  BY <1>1, WFMin, Zenon
<1>3. \A y \in S : <<y, x>> \in Nat \X Nat /\ <<y, x>>[1] = y /\ <<y, x>>[2] = x
  OBVIOUS
<1>4. \A y \in S : ~(y < x)
  BY <1>2, <1>3, Zenon DEF R
<1>5. \A y \in S : x <= y
  BY <1>4
<1> QED BY <1>5 DEF Min

(* The elements of a part of a queue. *)
LEMMA SubSeqElem ==
  ASSUME NEW S, NEW q \in Seq(S), NEW m \in 1 .. Len(q) + 1, NEW n \in m - 1 .. Len(q)
  PROVE  /\ SubSeq(q, m, n) \in Seq(S)
         /\ Len(SubSeq(q, m, n)) = n - m + 1
         /\ \A i \in 1 .. n - m + 1 : SubSeq(q, m, n)[i] = q[m + i - 1]
<1> QED BY SubSeqProperties

(* The elements of a queue after an insertion at position k. *)
LEMMA InsertAtElem ==
  ASSUME NEW S, NEW q \in Seq(S), NEW p \in S, NEW k \in 1 .. Len(q) + 1
  PROVE  /\ InsertAt(q, k, p) \in Seq(S)
         /\ Len(InsertAt(q, k, p)) = Len(q) + 1
         /\ \A i \in 1 .. Len(q) + 1 :
              InsertAt(q, k, p)[i] = IF i < k THEN q[i] ELSE IF i = k THEN p ELSE q[i - 1]
<1> DEFINE a == SubSeq(q, 1, k - 1)
           b == SubSeq(q, k, Len(q))
           c == a \o <<p>>
<1>1. a \in Seq(S) /\ Len(a) = k - 1 /\ \A i \in 1 .. k - 1 : a[i] = q[i]
  BY SubSeqElem
<1>2. b \in Seq(S) /\ Len(b) = Len(q) - k + 1 /\ \A i \in 1 .. Len(q) - k + 1 : b[i] = q[k + i - 1]
  BY SubSeqElem
<1> HIDE DEF a, b
<1>3. <<p>> \in Seq(S) /\ Len(<<p>>) = 1 /\ <<p>>[1] = p
  OBVIOUS
<1>4. c \in Seq(S) /\ Len(c) = k /\ \A i \in 1 .. k : c[i] = IF i < k THEN q[i] ELSE p
  BY <1>1, <1>3
<1> HIDE DEF c
<1>5. c \o b \in Seq(S) /\ Len(c \o b) = Len(q) + 1
  <2>1. b \in Seq(S) /\ c \in Seq(S)
    BY <1>2, <1>4
  <2>2. c \o b \in Seq(S) /\ Len(c \o b) = Len(c) + Len(b)
    BY <2>1, ConcatProperties
  <2>3. Len(c) + Len(b) = Len(q) + 1
    BY <1>2, <1>4
  <2> QED BY <2>2, <2>3
<1>6. ASSUME NEW i \in 1 .. Len(q) + 1
      PROVE  (c \o b)[i] = IF i < k THEN q[i] ELSE IF i = k THEN p ELSE q[i - 1]
  <2>1. CASE i <= k
    BY <1>2, <1>4, <2>1
  <2>2. CASE i > k
    <3>1. (c \o b)[i] = b[i - k]
      BY <1>2, <1>4, <2>2
    <3>2. i - k \in 1 .. Len(q) - k + 1
      BY <2>2
    <3>3. b[i - k] = q[i - 1]
      BY <1>2, <3>2
    <3> QED BY <2>2, <3>1, <3>3
  <2>3. i <= k \/ i > k
    OBVIOUS
  <2> QED BY <2>1, <2>2, <2>3, Zenon
<1>7. InsertAt(q, k, p) = c \o b
  BY DEF InsertAt, a, b, c
<1> QED BY <1>5, <1>6, <1>7, Zenon

(* Where insertProcQ puts p: everything before it has at least the priority *)
(* of p, and what follows it starts with a PCB of a lower one.             *)
LEMMA InsertProcQPlace ==
  ASSUME NEW S, NEW prio, NEW q \in Seq(S), NEW p \in S
  PROVE  \E k \in 1 .. Len(q) + 1 :
           /\ InsertProcQ(prio, q, p) = InsertAt(q, k, p)
           /\ k <= Len(q) => prio[p] > prio[q[k]]
           /\ \A i \in 1 .. Len(q) : i < k => ~(prio[p] > prio[q[i]])
<1> DEFINE lower == {i \in 1 .. Len(q) : prio[p] > prio[q[i]]}
           at == IF lower = {} THEN Len(q) + 1 ELSE Min(lower)
<1>1. CASE lower = {}
  <2>1. InsertProcQ(prio, q, p) = InsertAt(q, Len(q) + 1, p)
    BY <1>1 DEF InsertProcQ
  <2>2. \A i \in 1 .. Len(q) : ~(prio[p] > prio[q[i]])
    BY <1>1
  <2>3. Len(q) + 1 \in 1 .. Len(q) + 1 /\ ~(Len(q) + 1 <= Len(q))
    OBVIOUS
  <2> QED BY <2>1, <2>2, <2>3
<1>2. CASE lower # {}
  <2>1. lower \in SUBSET Nat
    OBVIOUS
  <2>2. Min(lower) \in lower /\ \A i \in lower : Min(lower) <= i
    BY <1>2, <2>1, MinNat
  <2>3. InsertProcQ(prio, q, p) = InsertAt(q, Min(lower), p)
    BY <1>2 DEF InsertProcQ
  <2>4. Min(lower) \in 1 .. Len(q) + 1 /\ prio[p] > prio[q[Min(lower)]]
    BY <2>2
  <2>5. ASSUME NEW i \in 1 .. Len(q), i < Min(lower)
        PROVE  ~(prio[p] > prio[q[i]])
    <3>1. i \notin lower
      BY <2>2, <2>4, <2>5
    <3> QED BY <3>1
  <2> HIDE DEF lower
  <2> QED BY <2>3, <2>4, <2>5
<1> QED BY <1>1, <1>2

(* insertProcQ adds p to a queue, once. *)
LEMMA InsertProcQProperties ==
  ASSUME NEW S, NEW prio, NEW q \in Seq(S), NEW p \in S
  PROVE  /\ InsertProcQ(prio, q, p) \in Seq(S)
         /\ Len(InsertProcQ(prio, q, p)) = Len(q) + 1
         /\ Range(InsertProcQ(prio, q, p)) = Range(q) \cup {p}
         /\ IsInjective(q) /\ p \notin Range(q) => IsInjective(InsertProcQ(prio, q, p))
<1>1. PICK k \in 1 .. Len(q) + 1 : InsertProcQ(prio, q, p) = InsertAt(q, k, p)
  BY InsertProcQPlace
<1> DEFINE r == InsertAt(q, k, p)
<1>2. InsertProcQ(prio, q, p) = r
  BY <1>1
<1>3. /\ r \in Seq(S)
      /\ Len(r) = Len(q) + 1
      /\ \A i \in 1 .. Len(q) + 1 : r[i] = IF i < k THEN q[i] ELSE IF i = k THEN p ELSE q[i - 1]
  <2>1. r \in Seq(S)
    BY InsertAtElem
  <2>2. Len(r) = Len(q) + 1
    BY InsertAtElem
  <2>3. \A i \in 1 .. Len(q) + 1 : r[i] = IF i < k THEN q[i] ELSE IF i = k THEN p ELSE q[i - 1]
    BY InsertAtElem
  <2> QED BY <2>1, <2>2, <2>3
<1> HIDE DEF r
<1>4. Range(r) = Range(q) \cup {p}
  <2>1. /\ Range(r) = {r[i] : i \in 1 .. Len(q) + 1}
        /\ Range(q) = {q[i] : i \in 1 .. Len(q)}
    BY <1>3, RangeEquality
  <2>2. ASSUME NEW i \in 1 .. Len(q) + 1
        PROVE  r[i] \in {q[j] : j \in 1 .. Len(q)} \cup {p}
    <3>1. i < k => i \in 1 .. Len(q)
      BY <1>1
    <3>2. i > k => i - 1 \in 1 .. Len(q)
      BY <1>1
    <3> QED BY <1>1, <1>3, <3>1, <3>2
  <2>3. ASSUME NEW j \in 1 .. Len(q)
        PROVE  \E i \in 1 .. Len(q) + 1 : r[i] = q[j]
    <3>1. CASE j < k
      BY <1>1, <1>3, <3>1
    <3>2. CASE j >= k
      <4>1. j + 1 \in 1 .. Len(q) + 1 /\ ~(j + 1 < k) /\ j + 1 # k /\ (j + 1) - 1 = j
        BY <1>1, <3>2
      <4>2. r[j + 1] = q[(j + 1) - 1]
        BY <1>3, <4>1
      <4> QED BY <4>1, <4>2
    <3> QED BY <1>1, <3>1, <3>2
  <2>4. r[k] = p
    BY <1>1, <1>3
  <2> QED BY <1>1, <2>1, <2>2, <2>3, <2>4
<1>5. ASSUME IsInjective(q), p \notin Range(q)
      PROVE  IsInjective(r)
  <2>1. \A i \in 1 .. Len(q) : q[i] # p
    BY <1>5, RangeEquality
  <2>2. \A i, j \in 1 .. Len(q) : q[i] = q[j] => i = j
    BY <1>5 DEF IsInjective
  <2>3. ASSUME NEW i \in 1 .. Len(q) + 1, NEW j \in 1 .. Len(q) + 1, i < j, r[i] = r[j]
        PROVE  FALSE
    <3>1. CASE i < k
      <4>1. i \in 1 .. Len(q) /\ r[i] = q[i]
        BY <1>1, <1>3, <3>1
      <4>2. j < k => j \in 1 .. Len(q) /\ r[j] = q[j]
        BY <1>1, <1>3
      <4>3. j = k => r[j] = p
        BY <1>3
      <4>4. j > k => j - 1 \in 1 .. Len(q) /\ r[j] = q[j - 1] /\ j - 1 # i
        BY <1>1, <1>3, <3>1
      <4> QED BY <1>1, <2>1, <2>2, <2>3, <4>1, <4>2, <4>3, <4>4
    <3>2. CASE i >= k
      <4>1. j - 1 \in 1 .. Len(q) /\ r[j] = q[j - 1]
        BY <1>1, <1>3, <2>3, <3>2
      <4>2. i = k => r[i] = p
        BY <1>3
      <4>3. i > k => i - 1 \in 1 .. Len(q) /\ r[i] = q[i - 1] /\ j - 1 # i - 1
        BY <1>1, <1>3, <2>3
      <4> QED BY <1>1, <2>1, <2>2, <2>3, <3>2, <4>1, <4>2, <4>3
    <3> QED BY <1>1, <3>1, <3>2
  <2>4. DOMAIN r = 1 .. Len(q) + 1
    BY <1>3
  <2>5. ASSUME NEW i \in 1 .. Len(q) + 1, NEW j \in 1 .. Len(q) + 1, r[i] = r[j]
        PROVE  i = j
    BY <2>3, <2>5
  <2> QED BY <2>4, <2>5 DEF IsInjective
<1> QED BY <1>2, <1>3, <1>4, <1>5

(* list_add_tail adds p to a queue, once. *)
LEMMA AddTailProperties ==
  ASSUME NEW S, NEW q \in Seq(S), NEW p \in S
  PROVE  /\ Append(q, p) \in Seq(S)
         /\ Len(Append(q, p)) = Len(q) + 1
         /\ Append(q, p) # <<>>
         /\ Range(Append(q, p)) = Range(q) \cup {p}
         /\ IsInjective(q) /\ p \notin Range(q) => IsInjective(Append(q, p))
<1> DEFINE r == Append(q, p)
<1>1. /\ r \in Seq(S)
      /\ Len(r) = Len(q) + 1
      /\ \A i \in 1 .. Len(q) : r[i] = q[i]
      /\ r[Len(q) + 1] = p
      /\ DOMAIN r = 1 .. Len(q) + 1
  OBVIOUS
<1>2. r # <<>>
  BY <1>1
<1> HIDE DEF r
<1>3. /\ Range(r) = {r[i] : i \in 1 .. Len(q) + 1}
      /\ Range(q) = {q[i] : i \in 1 .. Len(q)}
  BY <1>1, RangeEquality
<1>4. Range(r) = Range(q) \cup {p}
  <2>1. \A i \in 1 .. Len(q) + 1 : i \in 1 .. Len(q) \/ i = Len(q) + 1
    OBVIOUS
  <2>2. \A i \in 1 .. Len(q) : i \in 1 .. Len(q) + 1
    OBVIOUS
  <2>3. Len(q) + 1 \in 1 .. Len(q) + 1
    OBVIOUS
  <2> QED BY <1>1, <1>3, <2>1, <2>2, <2>3
<1>5. ASSUME IsInjective(q), p \notin Range(q)
      PROVE  IsInjective(r)
  <2>1. \A i \in 1 .. Len(q) : q[i] # p
    BY <1>3, <1>5
  <2>2. \A i, j \in 1 .. Len(q) : q[i] = q[j] => i = j
    BY <1>5 DEF IsInjective
  <2> QED BY <1>1, <2>1, <2>2 DEF IsInjective
<1>6. IsInjective(q) /\ p \notin Range(q) => IsInjective(r)
  BY <1>5
<1> QED BY <1>1, <1>2, <1>4, <1>6 DEF r

(* removeProcQ, removeBlocked and removeChild take the first PCB away. *)
LEMMA TailProperties ==
  ASSUME NEW S, NEW q \in Seq(S), q # <<>>
  PROVE  /\ Head(q) \in S
         /\ Tail(q) \in Seq(S)
         /\ Len(Tail(q)) = Len(q) - 1
         /\ Range(q) = Range(Tail(q)) \cup {Head(q)}
         /\ IsInjective(q) => IsInjective(Tail(q)) /\ Head(q) \notin Range(Tail(q))
<1> DEFINE r == Tail(q)
<1>1. /\ Head(q) \in S /\ Head(q) = q[1]
      /\ r \in Seq(S)
      /\ Len(r) = Len(q) - 1
      /\ \A i \in 1 .. Len(r) : r[i] = q[i + 1]
      /\ DOMAIN r = 1 .. Len(q) - 1
      /\ Len(q) \in Nat /\ Len(q) > 0
  BY HeadTailProperties
<1> HIDE DEF r
<1>2. /\ Range(r) = {r[i] : i \in 1 .. Len(q) - 1}
      /\ Range(q) = {q[i] : i \in 1 .. Len(q)}
  BY <1>1, RangeEquality
<1>3. Range(q) = Range(r) \cup {Head(q)}
  <2>1. ASSUME NEW i \in 1 .. Len(q)
        PROVE  q[i] \in Range(r) \cup {Head(q)}
    <3>1. CASE i = 1
      BY <1>1, <3>1
    <3>2. CASE i # 1
      <4>1. i - 1 \in 1 .. Len(r) /\ (i - 1) + 1 = i
        BY <1>1, <3>2
      <4>2. r[i - 1] = q[(i - 1) + 1]
        BY <1>1, <4>1
      <4> QED BY <1>1, <1>2, <4>1, <4>2
    <3> QED BY <3>1, <3>2
  <2>2. ASSUME NEW i \in 1 .. Len(q) - 1
        PROVE  r[i] \in Range(q)
    BY <1>1, <1>2
  <2>3. Head(q) \in Range(q)
    BY <1>1, <1>2
  <2> QED BY <1>2, <2>1, <2>2, <2>3
<1>4. ASSUME IsInjective(q)
      PROVE  IsInjective(r) /\ Head(q) \notin Range(r)
  <2>1. \A i, j \in 1 .. Len(q) : q[i] = q[j] => i = j
    BY <1>4 DEF IsInjective
  <2>2. IsInjective(r)
    BY <1>1, <2>1 DEF IsInjective
  <2>3. Head(q) \notin Range(r)
    BY <1>1, <1>2, <2>1
  <2> QED BY <2>2, <2>3
<1> QED BY <1>1, <1>3, <1>4 DEF r

(* A nested call of terminateProcess is pushed on those that are active. *)
LEMMA PushProperties ==
  ASSUME NEW S, NEW q \in Seq(S), NEW p \in S
  PROVE  /\ <<p>> \o q \in Seq(S)
         /\ <<p>> \o q # <<>>
         /\ Range(<<p>> \o q) = Range(q) \cup {p}
         /\ IsInjective(q) /\ p \notin Range(q) => IsInjective(<<p>> \o q)
<1> DEFINE r == <<p>> \o q
<1>1. /\ r \in Seq(S)
      /\ Len(r) = Len(q) + 1
      /\ r[1] = p
      /\ \A i \in 2 .. Len(q) + 1 : r[i] = q[i - 1]
      /\ DOMAIN r = 1 .. Len(q) + 1
  OBVIOUS
<1>2. r # <<>>
  BY <1>1
<1>3. <<p>> \in Seq(S) /\ Range(<<p>>) = {p}
  <2>1. <<p>> \in Seq(S) /\ Len(<<p>>) = 1 /\ <<p>>[1] = p
    OBVIOUS
  <2>2. Range(<<p>>) = {<<p>>[i] : i \in 1 .. 1}
    BY <2>1, RangeEquality
  <2>3. \A i \in 1 .. 1 : i = 1
    OBVIOUS
  <2> QED BY <2>1, <2>2, <2>3
<1>4. Range(r) = Range(q) \cup {p}
  <2>1. Range(<<p>> \o q) = Range(<<p>>) \cup Range(q)
    <3> DEFINE one == <<p>>
    <3>1. one \in Seq(S)
      BY <1>3
    <3> HIDE DEF one
    <3>2. Range(one \o q) = Range(one) \cup Range(q)
      BY <3>1, RangeConcatenation
    <3> QED BY <3>2 DEF one
  <2> QED BY <1>3, <2>1
<1> HIDE DEF r
<1>5. ASSUME IsInjective(q), p \notin Range(q)
      PROVE  IsInjective(r)
  <2>1. \A i \in 1 .. Len(q) : q[i] # p
    BY <1>5, RangeEquality
  <2>2. \A i, j \in 1 .. Len(q) : q[i] = q[j] => i = j
    BY <1>5 DEF IsInjective
  <2>3. ASSUME NEW i \in 1 .. Len(q) + 1, NEW j \in 1 .. Len(q) + 1, r[i] = r[j]
        PROVE  i = j
    <3>1. i # 1 => i - 1 \in 1 .. Len(q) /\ r[i] = q[i - 1]
      BY <1>1
    <3>2. j # 1 => j - 1 \in 1 .. Len(q) /\ r[j] = q[j - 1]
      BY <1>1
    <3>3. (i # 1 /\ j # 1) => i - 1 = j - 1
      BY <2>2, <2>3, <3>1, <3>2
    <3>4. ~(i = 1 /\ j # 1) /\ ~(j = 1 /\ i # 1)
      BY <1>1, <2>1, <2>3, <3>1, <3>2
    <3> QED BY <3>3, <3>4
  <2> QED BY <1>1, <2>3 DEF IsInjective
<1> QED BY <1>1, <1>2, <1>4, <1>5 DEF r

(* The elements of a queue that p is on, after outProcQ or outBlocked. *)
LEMMA RemoveFirstElem ==
  ASSUME NEW S, NEW q \in Seq(S), NEW p, p \in Range(q)
  PROVE  /\ RemoveFirst(q, p) \in Seq(S)
         /\ Len(RemoveFirst(q, p)) = Len(q) - 1
         /\ \E k \in 1 .. Len(q) :
              /\ q[k] = p
              /\ \A i \in 1 .. Len(q) - 1 :
                   RemoveFirst(q, p)[i] = IF i < k THEN q[i] ELSE q[i + 1]
<1> DEFINE r == RemoveFirst(q, p)
<1> DEFINE I == {i \in 1 .. Len(q) : q[i] = p}
           k == Min(I)
           a == SubSeq(q, 1, k - 1)
           b == SubSeq(q, k + 1, Len(q))
<1>1. PICK m \in 1 .. Len(q) : q[m] = p
  BY RangeEquality
<1>2. I # {} /\ I \in SUBSET Nat
  BY <1>1
<1>3. k \in 1 .. Len(q) /\ q[k] = p
  BY <1>2, MinNat
<1>4. r = a \o b
  BY <1>1, <1>2 DEF RemoveFirst, RemoveAt, SelectInSeq
<1> HIDE DEF k, r
<1>5. a \in Seq(S) /\ Len(a) = k - 1 /\ \A i \in 1 .. k - 1 : a[i] = q[i]
  BY <1>3, SubSeqElem
<1>6. b \in Seq(S) /\ Len(b) = Len(q) - k /\ \A i \in 1 .. Len(q) - k : b[i] = q[k + i]
  <2>1. k + 1 \in 1 .. Len(q) + 1 /\ Len(q) \in (k + 1) - 1 .. Len(q)
    BY <1>3
  <2>2. \A i \in 1 .. Len(q) - k : (k + 1) + i - 1 = k + i
    BY <1>3
  <2>3. Len(q) - (k + 1) + 1 = Len(q) - k
    BY <1>3
  <2> HIDE DEF b
  <2>4. /\ b \in Seq(S)
        /\ Len(b) = Len(q) - (k + 1) + 1
        /\ \A i \in 1 .. Len(q) - (k + 1) + 1 : b[i] = q[(k + 1) + i - 1]
    BY <2>1, SubSeqElem, Zenon DEF b
  <2> QED BY <2>2, <2>3, <2>4
<1> HIDE DEF a, b
<1>7. r \in Seq(S) /\ Len(r) = Len(q) - 1
  <2>1. a \in Seq(S) /\ b \in Seq(S)
    BY <1>5, <1>6
  <2>2. r \in Seq(S) /\ Len(r) = Len(a) + Len(b)
    BY <1>4, <2>1, ConcatProperties
  <2>3. Len(a) + Len(b) = Len(q) - 1
    BY <1>3, <1>5, <1>6
  <2> QED BY <2>2, <2>3
<1>8. ASSUME NEW i \in 1 .. Len(q) - 1
      PROVE  r[i] = IF i < k THEN q[i] ELSE q[i + 1]
  <2>0. r[i] = IF i <= Len(a) THEN a[i] ELSE b[i - Len(a)]
    <3>1. a \in Seq(S) /\ b \in Seq(S) /\ i \in 1 .. Len(a) + Len(b)
      BY <1>3, <1>5, <1>6
    <3> QED BY <1>4, <3>1, ConcatProperties
  <2>1. CASE i < k
    BY <1>3, <1>5, <2>0, <2>1
  <2>2. CASE i >= k
    <3>1. r[i] = b[i - (k - 1)]
      BY <1>3, <1>5, <2>0, <2>2
    <3>2. i - (k - 1) \in 1 .. Len(q) - k /\ k + (i - (k - 1)) = i + 1
      BY <1>3, <2>2
    <3>3. b[i - (k - 1)] = q[k + (i - (k - 1))]
      BY <1>6, <3>2
    <3> QED BY <1>3, <2>2, <3>1, <3>2, <3>3
  <2> QED BY <1>3, <2>1, <2>2
<1> QED BY <1>3, <1>7, <1>8 DEF r

(* outProcQ and outBlocked take p away, wherever it is. *)
LEMMA RemoveFirstProperties ==
  ASSUME NEW S, NEW q \in Seq(S), NEW p, IsInjective(q)
  PROVE  /\ RemoveFirst(q, p) \in Seq(S)
         /\ IsInjective(RemoveFirst(q, p))
         /\ Range(RemoveFirst(q, p)) = Range(q) \ {p}
         /\ p \in Range(q) => Len(RemoveFirst(q, p)) = Len(q) - 1
         /\ p \notin Range(q) => RemoveFirst(q, p) = q
<1> DEFINE r == RemoveFirst(q, p)
<1>1. Range(q) = {q[i] : i \in 1 .. Len(q)}
  BY RangeEquality
<1>2. CASE p \notin Range(q)
  <2>1. r = q
    BY <1>1, <1>2 DEF RemoveFirst
  <2> QED BY <1>2, <2>1
<1>3. CASE p \in Range(q)
  <2>7. r \in Seq(S) /\ Len(r) = Len(q) - 1
    BY <1>3, RemoveFirstElem
  <2>3. PICK k \in 1 .. Len(q) :
          /\ q[k] = p
          /\ \A i \in 1 .. Len(q) - 1 : r[i] = IF i < k THEN q[i] ELSE q[i + 1]
    BY <1>3, RemoveFirstElem
  <2>8. \A i \in 1 .. Len(q) - 1 : r[i] = IF i < k THEN q[i] ELSE q[i + 1]
    BY <2>3
  <2> HIDE DEF r
  <2>9. \A i, j \in 1 .. Len(q) : q[i] = q[j] => i = j
    BY DEF IsInjective
  <2>10. DOMAIN r = 1 .. Len(q) - 1 /\ Range(r) = {r[i] : i \in 1 .. Len(q) - 1}
    BY <2>7, RangeEquality
  <2>11. IsInjective(r)
    <3>1. ASSUME NEW i \in 1 .. Len(q) - 1, NEW j \in 1 .. Len(q) - 1, r[i] = r[j]
          PROVE  i = j
      <4>1. /\ i \in 1 .. Len(q) /\ i + 1 \in 1 .. Len(q)
            /\ j \in 1 .. Len(q) /\ j + 1 \in 1 .. Len(q)
        OBVIOUS
      <4>2. r[i] = IF i < k THEN q[i] ELSE q[i + 1]
        BY <2>8
      <4>3. r[j] = IF j < k THEN q[j] ELSE q[j + 1]
        BY <2>8
      <4> DEFINE f(n) == IF n < k THEN n ELSE n + 1
      <4>4. f(i) \in 1 .. Len(q) /\ f(j) \in 1 .. Len(q) /\ q[f(i)] = q[f(j)]
        BY <2>3, <3>1, <4>1, <4>2, <4>3
      <4>5. f(i) = f(j)
        BY <2>9, <4>4
      <4> QED BY <2>3, <4>5
    <3> QED BY <2>10, <3>1 DEF IsInjective
  <2>12. Range(r) = Range(q) \ {p}
    <3>1. ASSUME NEW i \in 1 .. Len(q) - 1
          PROVE  r[i] \in Range(q) \ {p}
      <4>1. i \in 1 .. Len(q) /\ i + 1 \in 1 .. Len(q)
        OBVIOUS
      <4>2. r[i] = IF i < k THEN q[i] ELSE q[i + 1]
        BY <2>8
      <4> QED BY <1>1, <2>3, <2>9, <4>1, <4>2
    <3>2. ASSUME NEW j \in 1 .. Len(q), q[j] # p
          PROVE  \E i \in 1 .. Len(q) - 1 : r[i] = q[j]
      <4>1. CASE j < k
        <5>1. j \in 1 .. Len(q) - 1
          BY <2>3, <4>1
        <5> QED BY <2>8, <4>1, <5>1
      <4>2. CASE j > k
        <5>1. j - 1 \in 1 .. Len(q) - 1 /\ ~(j - 1 < k) /\ (j - 1) + 1 = j
          BY <2>3, <4>2
        <5>2. r[j - 1] = q[(j - 1) + 1]
          BY <2>8, <5>1
        <5> QED BY <5>1, <5>2
      <4> QED BY <2>3, <3>2, <4>1, <4>2
    <3> QED BY <1>1, <2>10, <3>1, <3>2
  <2> QED BY <1>3, <2>7, <2>11, <2>12 DEF r
<1> QED BY <1>2, <1>3

-----------------------------------------------------------------------------
(* Queues sorted by priority.                                              *)

Sorted(prio, q) == \A i, j \in 1 .. Len(q) : i < j => prio[q[i]] >= prio[q[j]]

(* insertProcQ keeps a sorted queue sorted.                                *)
LEMMA InsertSorted ==
  ASSUME NEW S, NEW prio \in [S -> Int], NEW q \in Seq(S), NEW p \in S, Sorted(prio, q)
  PROVE  Sorted(prio, InsertProcQ(prio, q, p))
<1> DEFINE r == InsertProcQ(prio, q, p)
<1>1. PICK k \in 1 .. Len(q) + 1 :
        /\ r = InsertAt(q, k, p)
        /\ k <= Len(q) => prio[p] > prio[q[k]]
        /\ \A i \in 1 .. Len(q) : i < k => ~(prio[p] > prio[q[i]])
  BY InsertProcQPlace
<1> HIDE DEF r
<1>2. /\ Len(r) = Len(q) + 1
      /\ \A i \in 1 .. Len(q) + 1 : r[i] = IF i < k THEN q[i] ELSE IF i = k THEN p ELSE q[i - 1]
  <2> DEFINE t == InsertAt(q, k, p)
  <2>1. /\ Len(t) = Len(q) + 1
        /\ \A i \in 1 .. Len(q) + 1 : t[i] = IF i < k THEN q[i] ELSE IF i = k THEN p ELSE q[i - 1]
    BY InsertAtElem
  <2> HIDE DEF t
  <2> QED BY <1>1, <2>1 DEF t
<1>3. \A i \in 1 .. Len(q) : prio[q[i]] \in Int
  BY ElementOfSeq
<1>4. prio[p] \in Int
  OBVIOUS
<1>5. \A i, j \in 1 .. Len(q) : i < j => prio[q[i]] >= prio[q[j]]
  BY DEF Sorted
<1>6. \A i \in 1 .. Len(q) : i < k => prio[q[i]] >= prio[p]
  BY <1>1, <1>3, <1>4
<1>7. \A j \in 1 .. Len(q) : k <= j => prio[p] >= prio[q[j]]
  BY <1>1, <1>3, <1>4, <1>5
<1>8. ASSUME NEW i \in 1 .. Len(q) + 1, NEW j \in 1 .. Len(q) + 1, i < j
      PROVE  prio[r[i]] >= prio[r[j]]
  <2>1. CASE i < k
    <3>1. i \in 1 .. Len(q) /\ r[i] = q[i]
      BY <1>2, <2>1
    <3>2. CASE j < k
      BY <1>2, <1>5, <1>8, <3>1, <3>2
    <3>3. CASE j = k
      BY <1>2, <1>6, <2>1, <3>1, <3>3
    <3>4. CASE j > k
      <4>1. j - 1 \in 1 .. Len(q) /\ r[j] = q[j - 1] /\ i < j - 1
        BY <1>2, <2>1, <3>4
      <4> QED BY <1>5, <3>1, <4>1
    <3> QED BY <3>2, <3>3, <3>4
  <2>2. CASE i >= k
    <3>1. j - 1 \in 1 .. Len(q) /\ r[j] = q[j - 1] /\ k <= j - 1
      BY <1>2, <1>8, <2>2
    <3>2. CASE i = k
      BY <1>2, <1>7, <3>1, <3>2
    <3>3. CASE i > k
      <4>1. i - 1 \in 1 .. Len(q) /\ r[i] = q[i - 1] /\ i - 1 < j - 1
        BY <1>2, <1>8, <3>3
      <4> QED BY <1>5, <3>1, <4>1
    <3> QED BY <2>2, <3>2, <3>3
  <2> QED BY <2>1, <2>2
<1> QED BY <1>2, <1>8 DEF Sorted, r

(* The head of a sorted queue has the highest priority, and the rest of it *)
(* is sorted.                                                              *)
LEMMA TailSorted ==
  ASSUME NEW S, NEW prio \in [S -> Int], NEW q \in Seq(S), q # <<>>, Sorted(prio, q)
  PROVE  /\ Sorted(prio, Tail(q))
         /\ \A p \in Range(Tail(q)) : prio[p] <= prio[Head(q)]
<1> DEFINE r == Tail(q)
<1>1. /\ Head(q) = q[1] /\ r \in Seq(S) /\ Len(r) = Len(q) - 1
      /\ \A i \in 1 .. Len(r) : r[i] = q[i + 1]
      /\ Len(q) \in Nat /\ Len(q) > 0
  BY HeadTailProperties
<1> HIDE DEF r
<1>2. \A i \in 1 .. Len(q) : prio[q[i]] \in Int
  BY ElementOfSeq
<1>3. \A i, j \in 1 .. Len(q) : i < j => prio[q[i]] >= prio[q[j]]
  BY DEF Sorted
<1>4. Sorted(prio, r)
  <2>1. ASSUME NEW i \in 1 .. Len(r), NEW j \in 1 .. Len(r), i < j
        PROVE  prio[r[i]] >= prio[r[j]]
    <3>1. /\ i + 1 \in 1 .. Len(q) /\ j + 1 \in 1 .. Len(q) /\ i + 1 < j + 1
          /\ r[i] = q[i + 1] /\ r[j] = q[j + 1]
      BY <1>1, <2>1
    <3> QED BY <1>3, <3>1
  <2> QED BY <2>1 DEF Sorted
<1>5. ASSUME NEW p \in Range(r)
      PROVE  prio[p] <= prio[Head(q)]
  <2>1. PICK i \in 1 .. Len(r) : p = r[i]
    BY <1>1, RangeEquality
  <2>2. i + 1 \in 1 .. Len(q) /\ 1 \in 1 .. Len(q) /\ 1 < i + 1 /\ p = q[i + 1]
    <3>1. i \in Nat /\ 1 <= i /\ i <= Len(q) - 1 /\ Len(q) \in Nat /\ r[i] = q[i + 1]
      BY <1>1
    <3> QED BY <2>1, <3>1
  <2>3. prio[q[1]] >= prio[q[i + 1]]
    BY <1>3, <2>2
  <2> QED BY <1>1, <1>2, <2>2, <2>3
<1> QED BY <1>4, <1>5 DEF r

(* outProcQ keeps a sorted queue sorted.                                   *)
LEMMA RemoveSorted ==
  ASSUME NEW S, NEW prio, NEW q \in Seq(S), NEW p, IsInjective(q), Sorted(prio, q)
  PROVE  Sorted(prio, RemoveFirst(q, p))
<1> DEFINE r == RemoveFirst(q, p)
<1>1. CASE p \notin Range(q)
  BY <1>1, RemoveFirstProperties
<1>2. CASE p \in Range(q)
  <2>1. Len(r) = Len(q) - 1 /\ Len(q) \in Nat
    BY <1>2, RemoveFirstElem
  <2>2. PICK k \in 1 .. Len(q) :
          \A i \in 1 .. Len(q) - 1 : r[i] = IF i < k THEN q[i] ELSE q[i + 1]
    BY <1>2, RemoveFirstElem
  <2> HIDE DEF r
  <2>3. \A i, j \in 1 .. Len(q) : i < j => prio[q[i]] >= prio[q[j]]
    BY DEF Sorted
  <2>4. ASSUME NEW i \in 1 .. Len(q) - 1, NEW j \in 1 .. Len(q) - 1, i < j
        PROVE  prio[r[i]] >= prio[r[j]]
    <3> DEFINE f(n) == IF n < k THEN n ELSE n + 1
    <3>1. f(i) \in 1 .. Len(q) /\ f(j) \in 1 .. Len(q) /\ f(i) < f(j)
      BY <2>2, <2>4
    <3>2. r[i] = q[f(i)] /\ r[j] = q[f(j)]
      BY <2>2
    <3> HIDE DEF f
    <3> QED BY <2>3, <3>1, <3>2
  <2> QED BY <2>1, <2>4 DEF Sorted, r
<1> QED BY <1>1, <1>2
=============================================================================
