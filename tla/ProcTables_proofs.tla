--------------------------- MODULE ProcTables_proofs ---------------------------
(***************************************************************************)
(* The lists of phase 1 are the queues and the tree of ProcTables: every   *)
(* call of pcb.c and asl.c changes the sequences that list_for_each goes   *)
(* through as an operator of ProcQ changes a sequence of PCBs.             *)
(*                                                                         *)
(* What list_add_tail, __list_add and list_del do to the sequence of the   *)
(* list they work on, and that they leave the others, is shown of any      *)
(* memory whose lists are the ones the labels tell (ChainUnique: a chain   *)
(* from a head to itself is what list_for_each finds).  A call is then a   *)
(* few of these, and one lemma per call names its step of ProcTables.      *)
(***************************************************************************)
EXTENDS Phase1_proofs
HIDE DEF NoNode, pcbFree_h, readyQueue, semdFree_h, semd_h, p_list, p_child, p_sib, s_link, s_procq

-----------------------------------------------------------------------------
(* What the functions of listx.h do to the sequence list_for_each goes     *)
(* through, of the list they work on and of the others.                    *)

(* A list has fewer nodes than there are, without its head.                *)
LEMMA ChainShort ==
  ASSUME NEW N, IsFiniteSet(N), NEW m, NEW h \in N, NEW q, Chain(m, N, h, q)
  PROVE  Len(q) < Cardinality(N)
<1> DEFINE L == Len(q)
           D == 1 .. L
           M == N \ {h}
<1>1. q \in Seq(M) /\ L \in Nat /\ \A i, j \in D : q[i] = q[j] => i = j
  BY DEF Chain
<1>2. IsFiniteSet(M) /\ Cardinality(M) = Cardinality(N) - 1 /\ Cardinality(N) \in Nat
  BY FS_RemoveElement, FS_CardinalityType
<1>3. IsFiniteSet(D) /\ Cardinality(D) = L
  <2> HIDE DEF L
  <2> QED BY <1>1, FS_Interval
<1>4. q \in [D -> M]
  BY <1>1
<1> HIDE DEF D, M, L
<1>5. ~(Cardinality(M) < Cardinality(D))
  BY <1>1, <1>2, <1>3, <1>4, FS_PigeonHole
<1> QED BY <1>1, <1>2, <1>3, <1>5 DEF L

(* A sequence of nodes that is the list of h is what list_for_each finds.   *)
LEMMA ChainUnique ==
  ASSUME NEW N, IsFiniteSet(N), NEW nil, nil \notin N, NEW m, NEW label, Good(m, N, nil, label),
         NEW h \in N, Live(m, h, nil), NEW q, Chain(m, N, h, q)
  PROVE  ListForEach(m, h) = q
<1> DEFINE K == Cardinality(N)
           L == Len(q)
           pos == Walk(K, m, h)
           E == {i \in DOMAIN pos : i > 0 /\ pos[i] = h}
           end == Min(E)
<1>0. K \in Nat /\ DOMAIN m.next = N /\ L \in Nat /\ L < K
  <2>1. L \in Nat
    BY DEF Chain
  <2> HIDE DEF E
  <2> QED BY <2>1, CardinalityNat, GoodDomain, ChainShort
<1>1. Walks(pos, K, m, h)
  BY <1>0, WalkExists, WalkChosen
<1>2. ListForEach(m, h) = [i \in 1 .. end - 1 |-> pos[i]]
  <2>1. pos = Walk(Cardinality(DOMAIN m.next), m, h)
    BY <1>0
  <2>2. end = Min({i \in DOMAIN pos : i > 0 /\ pos[i] = h})
    OBVIOUS
  <2> HIDE DEF K, pos, E, end
  <2> QED BY <2>1, <2>2, ListForEachWalks
<1> HIDE DEF pos
<1>3. DOMAIN pos = 0 .. K /\ pos[0] = h /\ \A i \in 0 .. K - 1 : pos[i + 1] = m.next[pos[i]]
  <2>1. K \in Nat
    BY <1>0
  <2> HIDE DEF K
  <2>2. GoesAlong(pos, K, m, h)
    BY <1>1, <2>1, WalkSteps
  <2> QED BY <2>2 DEF GoesAlong
<1> HIDE DEF K, L
<1>4. /\ q \in Seq(N \ {h}) /\ Len(q) = L /\ m.next[h] = IF L = 0 THEN h ELSE q[1]
      /\ \A i \in 1 .. L : m.next[q[i]] = IF i = L THEN h ELSE q[i + 1]
  BY DEF Chain, L
<1> DEFINE S == {i \in Nat : i > 0 /\ i <= L => pos[i] = q[i]}
<1>5. \A i \in 1 .. L : pos[i] = q[i]
  <2>1. 0 \in S
    OBVIOUS
  <2>2. ASSUME NEW i \in Nat, i \in S
        PROVE  i + 1 \in S
    <3> SUFFICES ASSUME i + 1 <= L
                 PROVE  pos[i + 1] = q[i + 1]
      OBVIOUS
    <3>1. i \in 0 .. K - 1 /\ pos[i + 1] = m.next[pos[i]]
      BY <1>0, <1>3
    <3>2. CASE i = 0
      BY <1>3, <1>4, <3>1, <3>2
    <3>3. CASE i # 0
      BY <1>4, <2>2, <3>1, <3>3
    <3> QED BY <3>2, <3>3
  <2>3. \A i \in Nat : i \in S
    <3> HIDE DEF S
    <3> QED BY <2>1, <2>2, SetInduction
  <2> QED BY <2>3
<1>6. pos[L + 1] = h /\ L + 1 \in 0 .. K
  <2>1. L \in 0 .. K - 1 /\ pos[L + 1] = m.next[pos[L]]
    BY <1>0, <1>3
  <2>2. CASE L = 0
    BY <1>0, <1>3, <1>4, <2>1, <2>2
  <2>3. CASE L # 0
    BY <1>0, <1>4, <1>5, <2>1, <2>3
  <2> QED BY <2>1, <2>2, <2>3
<1>7. \A i \in 1 .. L : q[i] # h
  BY <1>4
<1>8. end = L + 1
  <2>1. L + 1 \in E
    BY <1>0, <1>3, <1>6
  <2>2. E \in SUBSET Nat /\ \A i \in E : L + 1 <= i
    BY <1>0, <1>3, <1>5, <1>7
  <2> HIDE DEF E
  <2>3. \A x \in E : (\A y \in E : x <= y) => x = L + 1
    <3> SUFFICES ASSUME NEW x \in E, \A y \in E : x <= y
                 PROVE  x = L + 1
      OBVIOUS
    <3>1. x <= L + 1 /\ L + 1 <= x /\ x \in Nat
      BY <2>1, <2>2
    <3> QED BY <1>0, <3>1
  <2>4. \A y \in E : L + 1 <= y
    BY <2>2
  <2> QED BY <2>1, <2>3, <2>4 DEF Min
<1> HIDE DEF end
<1>9. ListForEach(m, h) = [i \in 1 .. L |-> q[i]]
  <2>1. end - 1 = L
    BY <1>0, <1>8
  <2> QED BY <1>2, <1>5, <2>1
<1>10. q = [i \in 1 .. L |-> q[i]]
  <2> HIDE DEF E
  <2> QED BY <1>4
<1> QED BY <1>9, <1>10

(* r is q with a node more, at position k, or with one less.               *)
Inserted(q, k, new, r) ==
  /\ Len(r) = Len(q) + 1
  /\ \A i \in 1 .. Len(r) : r[i] = IF i < k THEN q[i] ELSE IF i = k THEN new ELSE q[i - 1]
Removed(q, k, r) ==
  /\ Len(r) = Len(q) - 1
  /\ \A i \in 1 .. Len(r) : r[i] = IF i < k THEN q[i] ELSE q[i + 1]

(* INIT_LIST_HEAD of a node on no list. *)
LEMMA InitSequences ==
  ASSUME NEW N, IsFiniteSet(N), NEW nil, nil \notin N, NEW m, NEW label, Tight(m, N, nil, label),
         NEW n \in N, OnNone(m, n, nil), label[n] = n
  PROVE  /\ ListForEach(InitListHead(m, n), n) = <<>>
         /\ \A h \in N \ {n} : Live(m, h, nil) /\ label[h] = h =>
              ListForEach(InitListHead(m, n), h) = ListForEach(m, h)
<1> DEFINE m2 == InitListHead(m, n)
<1>1. Good(m, N, nil, label) /\ Good(m2, N, nil, label) /\ Live(m2, n, nil) /\ m2.next[n] = n
  <2>1. Good(m, N, nil, label)
    BY DEF Tight
  <2>2. Good(m2, N, nil, label) /\ Isolated(m2, n) /\ Live(m2, n, nil)
    BY <2>1, InitListHeadLinks
  <2> HIDE DEF m2
  <2> QED BY <2>1, <2>2 DEF Isolated
<1>2. \A k \in N : m2.next[k] = IF k = n THEN n ELSE m.next[k]
  BY <1>1 DEF InitListHead, Good, Memory
<1> HIDE DEF m2
<1>3. ListForEach(m2, n) = <<>>
  <2>1. Chain(m2, N, n, <<>>)
    BY <1>1 DEF Chain
  <2> QED BY <1>1, <2>1, ChainUnique
<1>4. ASSUME NEW h \in N \ {n}, Live(m, h, nil), label[h] = h
      PROVE  ListForEach(m2, h) = ListForEach(m, h)
  <2> DEFINE q == ListForEach(m, h)
  <2>1. Chain(m, N, h, q) /\ Range(q) = {x \in N \ {h} : Live(m, x, nil) /\ label[x] = h}
    BY <1>4, ListForEachFinds
  <2> HIDE DEF q
  <2>2. \A i \in 1 .. Len(q) : q[i] \in N /\ q[i] # n
    <3>1. \A i \in 1 .. Len(q) : q[i] \in Range(q)
      BY <2>1 DEF Chain, Range
    <3> QED BY <1>4, <2>1, <3>1
  <2>3. Chain(m2, N, h, q)
    BY <1>2, <1>4, <2>1, <2>2 DEF Chain
  <2>4. Live(m2, h, nil)
    BY <1>2, <1>4 DEF Live
  <2> QED BY <1>1, <1>4, <2>3, <2>4, ChainUnique DEF q
<1> QED BY <1>3, <1>4 DEF m2

(* __list_add of a node on no list before at, which has a list. *)
LEMMA InsertSequences ==
  ASSUME NEW N, IsFiniteSet(N), NEW nil, nil \notin N, NEW m, NEW label, NEW label2,
         Tight(m, N, nil, label), NEW new \in N, OnNone(m, new, nil),
         Live(m, new, nil) => label[new] = new,
         NEW at \in N, Live(m, at, nil), at # new,
         \A k \in N \ {new} : label2[k] = label[k], label2[new] = label[at],
         label[at] \in N, label[at] # new, Live(m, label[at], nil), label[label[at]] = label[at]
  PROVE  LET m2 == ListInsert(m, new, m.prev[at], at)
             g == label[at]
         IN  /\ \A h \in N \ {g, new} : Live(m, h, nil) /\ label[h] = h =>
                  ListForEach(m2, h) = ListForEach(m, h)
             /\ \A k \in 1 .. Len(ListForEach(m, g)) + 1, r \in Seq(N) :
                  /\ at = IF k = Len(ListForEach(m, g)) + 1 THEN g ELSE ListForEach(m, g)[k]
                  /\ Inserted(ListForEach(m, g), k, new, r)
                  => ListForEach(m2, g) = r
<1> DEFINE m2 == ListInsert(m, new, m.prev[at], at)
           g == label[at]
           before == m.prev[at]
<1>1. Good(m, N, nil, label) /\ Tight(m2, N, nil, label2)
  BY TightInsert DEF Tight
<1>2. /\ before \in N /\ m.next[before] = at /\ before # new /\ label[before] = g
      /\ \A x \in N : m.next[x] = at => x = before
      /\ Live(m, before, nil)
  BY <1>1 DEF Good, Memory, WellLinked, SameLabel, Isolated, OnNone, Live
<1>3. \A n \in N : m2.next[n] = IF n = before THEN new ELSE IF n = new THEN at ELSE m.next[n]
  BY <1>1, <1>2 DEF ListInsert, Good, Memory
<1> HIDE DEF m2, before
<1>4. Good(m2, N, nil, label2)
  BY <1>1 DEF Tight
<1>5. \A n \in N \ {new} : Live(m, n, nil) => Live(m2, n, nil)
  BY <1>3 DEF Live
<1>6. ASSUME NEW h \in N \ {new}, Live(m, h, nil), label[h] = h
      PROVE  LET q == ListForEach(m, h)
             IN  /\ Chain(m, N, h, q) /\ q \in Seq(N) /\ Len(q) \in Nat
                 /\ \A i \in 1 .. Len(q) : /\ q[i] \in N /\ q[i] # new /\ q[i] # h
                                           /\ Live(m, q[i], nil) /\ label[q[i]] = h
  <2> DEFINE q == ListForEach(m, h)
  <2>1. Chain(m, N, h, q) /\ Range(q) = {x \in N \ {h} : Live(m, x, nil) /\ label[x] = h}
    BY <1>6, ListForEachFinds
  <2> HIDE DEF q
  <2>2. \A i \in 1 .. Len(q) : q[i] \in Range(q)
    BY <2>1 DEF Chain, Range
  <2>3. Chain(m, N, h, q) /\ q \in Seq(N) /\ Len(q) \in Nat
    BY <2>1 DEF Chain
  <2>4. \A i \in 1 .. Len(q) : /\ q[i] \in N /\ q[i] # new /\ q[i] # h
                               /\ Live(m, q[i], nil) /\ label[q[i]] = h
    BY <1>6, <2>1, <2>2
  <2> QED BY <2>3, <2>4 DEF q
<1>7. ASSUME NEW h \in N \ {g, new}, Live(m, h, nil), label[h] = h
      PROVE  ListForEach(m2, h) = ListForEach(m, h)
  <2> DEFINE q == ListForEach(m, h)
  <2>1. /\ Chain(m, N, h, q) /\ q \in Seq(N) /\ Len(q) \in Nat
        /\ \A i \in 1 .. Len(q) : q[i] \in N /\ q[i] # new /\ label[q[i]] = h
    BY <1>6, <1>7
  <2> HIDE DEF q
  <2>2. Chain(m2, N, h, q)
    BY <1>2, <1>3, <1>7, <2>1 DEF Chain
  <2> QED BY <1>4, <1>5, <1>7, <2>2, ChainUnique DEF q
<1>8. ASSUME NEW k \in 1 .. Len(ListForEach(m, g)) + 1, NEW r \in Seq(N),
             at = IF k = Len(ListForEach(m, g)) + 1 THEN g ELSE ListForEach(m, g)[k],
             Inserted(ListForEach(m, g), k, new, r)
      PROVE  ListForEach(m2, g) = r
  <2> DEFINE q == ListForEach(m, g)
  <2>1. /\ Chain(m, N, g, q) /\ q \in Seq(N) /\ Len(q) \in Nat
        /\ \A i \in 1 .. Len(q) : q[i] \in N /\ q[i] # new /\ q[i] # g
    BY <1>6
  <2>2. /\ k \in 1 .. Len(q) + 1 /\ at = IF k = Len(q) + 1 THEN g ELSE q[k]
        /\ Len(r) = Len(q) + 1
        /\ \A i \in 1 .. Len(r) : r[i] = IF i < k THEN q[i] ELSE IF i = k THEN new ELSE q[i - 1]
    BY <1>8 DEF Inserted
  <2> HIDE DEF q, g
  <2>3. before = IF k = 1 THEN g ELSE q[k - 1]
    <3>1. CASE k = 1
      <4>1. m.next[g] = at
        BY <2>1, <2>2, <3>1 DEF Chain
      <4> QED BY <1>2, <3>1, <4>1 DEF g
    <3>2. CASE k # 1
      <4>1. k - 1 \in 1 .. Len(q) /\ (k - 1 = Len(q) <=> k = Len(q) + 1) /\ (k - 1) + 1 = k
        BY <2>1, <2>2, <3>2
      <4>2. m.next[q[k - 1]] = at
        BY <2>1, <2>2, <4>1 DEF Chain
      <4> QED BY <1>2, <2>1, <3>2, <4>1, <4>2
    <3> QED BY <3>1, <3>2
  <2>next. \A i \in 1 .. Len(q) : m.next[q[i]] = IF i = Len(q) THEN g ELSE q[i + 1]
    BY <2>1 DEF Chain
  <2>once. \A i, j \in 1 .. Len(q) : q[i] = q[j] => i = j
    BY <2>1 DEF Chain
  <2>4. \A i \in 1 .. Len(r) : r[i] \in N \ {g}
    <3> SUFFICES ASSUME NEW i \in 1 .. Len(r)
                 PROVE  r[i] \in N /\ r[i] # g
      OBVIOUS
    <3>1. CASE i < k
      <4>1. i \in 1 .. Len(q) /\ r[i] = q[i]
        BY <2>1, <2>2, <3>1
      <4> QED BY <2>1, <4>1
    <3>2. CASE i = k
      <4>1. r[i] = new
        BY <2>2, <3>2
      <4> QED BY <4>1 DEF g
    <3>3. CASE i > k
      <4>1. i - 1 \in 1 .. Len(q) /\ r[i] = q[i - 1]
        BY <2>1, <2>2, <3>3
      <4> QED BY <2>1, <4>1
    <3> QED BY <2>2, <3>1, <3>2, <3>3
  <2>5. \A i, j \in 1 .. Len(r) : r[i] = r[j] => i = j
    <3>1. \A i \in 1 .. Len(r) : i # k =>
            /\ r[i] # new
            /\ \E x \in 1 .. Len(q) : r[i] = q[x] /\ x = IF i < k THEN i ELSE i - 1
      <4> SUFFICES ASSUME NEW i \in 1 .. Len(r), i # k
                   PROVE  \E x \in 1 .. Len(q) : r[i] = q[x] /\ x = IF i < k THEN i ELSE i - 1
        BY <2>1
      <4>1. CASE i < k
        BY <2>1, <2>2, <4>1
      <4>2. CASE ~(i < k)
        <5>1. i - 1 \in 1 .. Len(q) /\ r[i] = q[i - 1]
          BY <2>1, <2>2, <4>2
        <5> QED BY <4>2, <5>1
      <4> QED BY <4>1, <4>2
    <3>2. r[k] = new /\ k \in 1 .. Len(r)
      BY <2>1, <2>2
    <3>3. \A x, y \in 1 .. Len(q) : q[x] = q[y] => x = y
      BY <2>1 DEF Chain
    <3> SUFFICES ASSUME NEW i \in 1 .. Len(r), NEW j \in 1 .. Len(r), r[i] = r[j]
                 PROVE  i = j
      OBVIOUS
    <3>4. CASE i = k \/ j = k
      BY <3>1, <3>2, <3>4
    <3>5. CASE i # k /\ j # k
      <4>1. PICK x \in 1 .. Len(q) : r[i] = q[x] /\ x = IF i < k THEN i ELSE i - 1
        BY <3>1, <3>5
      <4>2. PICK y \in 1 .. Len(q) : r[j] = q[y] /\ y = IF j < k THEN j ELSE j - 1
        BY <3>1, <3>5
      <4>3. x = y
        BY <3>3, <4>1, <4>2
      <4> QED BY <2>2, <3>5, <4>1, <4>2, <4>3
    <3> QED BY <3>4, <3>5
  <2>6. m2.next[g] = IF Len(r) = 0 THEN g ELSE r[1]
    <3>1. CASE k = 1
      BY <1>3, <2>1, <2>2, <2>3, <3>1 DEF g
    <3>2. CASE k # 1
      <4>1. g # before /\ g # new /\ m.next[g] = q[1] /\ r[1] = q[1]
        <5>1. 1 \in 1 .. Len(q) /\ k - 1 \in 1 .. Len(q) /\ 1 < k /\ 1 \in 1 .. Len(r)
          BY <2>1, <2>2, <3>2
        <5> QED BY <2>1, <2>2, <2>3, <3>2, <5>1 DEF Chain, g
      <4> QED BY <1>3, <2>1, <2>2, <4>1 DEF g
    <3> QED BY <3>1, <3>2
  <2>7. \A i \in 1 .. Len(r) : m2.next[r[i]] = IF i = Len(r) THEN g ELSE r[i + 1]
    <3> SUFFICES ASSUME NEW i \in 1 .. Len(r)
                 PROVE  m2.next[r[i]] = IF i = Len(r) THEN g ELSE r[i + 1]
      OBVIOUS
    <3>1. CASE i = k
      <4>1. r[i] = new /\ m2.next[new] = at
        BY <1>2, <1>3, <2>2, <3>1
      <4>2. i # Len(r) => i + 1 \in 1 .. Len(r) /\ r[i + 1] = q[k] /\ k # Len(q) + 1
        BY <2>1, <2>2, <3>1
      <4> QED BY <2>2, <3>1, <4>1, <4>2
    <3>2. CASE i = k - 1
      <4>1. r[i] = before /\ i # Len(r) /\ i + 1 = k /\ r[i + 1] = new
        BY <2>1, <2>2, <2>3, <3>2
      <4> QED BY <1>2, <1>3, <4>1
    <3>3. CASE i < k - 1
      <4>1. /\ i \in 1 .. Len(q) /\ i # Len(q) /\ i # Len(r) /\ r[i] = q[i] /\ r[i + 1] = q[i + 1]
            /\ k - 1 \in 1 .. Len(q) /\ i # k - 1 /\ k # 1
        BY <2>1, <2>2, <3>3
      <4>2. q[i] # before
        BY <2>3, <2>once, <4>1
      <4>3. m.next[q[i]] = q[i + 1]
        BY <2>next, <4>1
      <4>4. q[i] \in N /\ q[i] # new
        BY <2>1, <4>1
      <4> QED BY <1>3, <4>1, <4>2, <4>3, <4>4
    <3>4. CASE i > k
      <4> DEFINE j == i - 1
      <4>1. j \in 1 .. Len(q) /\ r[i] = q[j] /\ (i = Len(r) <=> j = Len(q))
        BY <2>1, <2>2, <3>4
      <4>2. i # Len(r) => r[i + 1] = q[j + 1]
        BY <2>1, <2>2, <3>4
      <4>3. k # 1 => k - 1 \in 1 .. Len(q) /\ j # k - 1
        BY <2>1, <2>2, <3>4
      <4> HIDE DEF j
      <4>4. q[j] \in N /\ q[j] # new /\ q[j] # g
        BY <2>1, <4>1
      <4>5. q[j] # before
        BY <2>3, <2>once, <4>1, <4>3, <4>4
      <4>6. m.next[q[j]] = IF j = Len(q) THEN g ELSE q[j + 1]
        BY <2>next, <4>1
      <4> QED BY <1>3, <4>1, <4>2, <4>4, <4>5, <4>6
    <3>5. i = k \/ i = k - 1 \/ i < k - 1 \/ i > k
      BY <2>1, <2>2
    <3> QED BY <3>1, <3>2, <3>3, <3>4, <3>5
  <2>8. Chain(m2, N, g, r)
    <3>1. r \in Seq(N \ {g})
      BY <2>4
    <3> QED BY <2>5, <2>6, <2>7, <3>1 DEF Chain
  <2> QED BY <1>4, <1>5, <2>8, ChainUnique DEF g
<1> QED BY <1>7, <1>8 DEF m2

(* list_del of an entry that is on the list of another node. *)
LEMMA DelSequences ==
  ASSUME NEW N, IsFiniteSet(N), NEW nil, nil \notin N, NEW m, NEW label, NEW label2,
         Tight(m, N, nil, label), NEW entry \in N, Live(m, entry, nil), label[entry] # entry,
         \A k \in N \ {entry} : label2[k] = label[k], label2[entry] = entry,
         label[entry] \in N, Live(m, label[entry], nil), label[label[entry]] = label[entry]
  PROVE  LET m2 == ListDel(m, entry)
             g == label[entry]
             q == ListForEach(m, g)
         IN  /\ \A h \in N \ {g} : Live(m, h, nil) /\ label[h] = h =>
                  ListForEach(m2, h) = ListForEach(m, h)
             /\ q \in Seq(N) /\ (\A i, j \in 1 .. Len(q) : q[i] = q[j] => i = j)
             /\ \E k \in 1 .. Len(q) : q[k] = entry
             /\ \A k \in 1 .. Len(q), r \in Seq(N) :
                  q[k] = entry /\ Removed(q, k, r) => ListForEach(m2, g) = r
<1> DEFINE m2 == ListDel(m, entry)
           g == label[entry]
           q == ListForEach(m, g)
           before == m.prev[entry]
           after == m.next[entry]
<1>1. Good(m, N, nil, label) /\ Tight(m2, N, nil, label2)
  BY TightDel DEF Tight
<1>2. /\ before \in N /\ m.next[before] = entry /\ before # entry /\ label[before] = g
      /\ \A x \in N : m.next[x] = entry => x = before
  <2>1. before \in N /\ m.next[before] = entry /\ \A x \in N : m.next[x] = entry => x = before
    BY <1>1 DEF Good, Memory, WellLinked, Live
  <2>2. label[before] = g
    BY <1>1, <2>1 DEF Good, SameLabel
  <2>3. before # entry
    <3> SUFFICES ASSUME before = entry
                 PROVE  FALSE
      OBVIOUS
    <3>1. Isolated(m, entry)
      BY <2>1 DEF Isolated
    <3> QED BY <3>1, OnNoneOwn
  <2> QED BY <2>1, <2>2, <2>3
<1>3. \A n \in N : m2.next[n] = IF n = entry THEN entry ELSE IF n = before THEN after ELSE m.next[n]
  BY <1>1, <1>2 DEF ListDel, ListUnlink, InitListHead, Good, Memory
<1> HIDE DEF m2, before, after
<1>4. Good(m2, N, nil, label2)
  BY <1>1 DEF Tight
<1>5. \A n \in N : Live(m, n, nil) => Live(m2, n, nil)
  <2>1. after # nil
    BY <1>1 DEF Good, WellLinked, Live, after
  <2> QED BY <1>3, <2>1 DEF Live
<1>6. ASSUME NEW h \in N, Live(m, h, nil), label[h] = h
      PROVE  LET l == ListForEach(m, h)
             IN  /\ Chain(m, N, h, l) /\ l \in Seq(N) /\ Len(l) \in Nat
                 /\ \A i \in 1 .. Len(l) : l[i] \in N /\ l[i] # h /\ label[l[i]] = h
                 /\ label[entry] = h => \E k \in 1 .. Len(l) : l[k] = entry
  <2> DEFINE l == ListForEach(m, h)
  <2>1. Chain(m, N, h, l) /\ Range(l) = {x \in N \ {h} : Live(m, x, nil) /\ label[x] = h}
    BY <1>6, ListForEachFinds
  <2> HIDE DEF l
  <2>2. l \in Seq(N) /\ Len(l) \in Nat /\ Range(l) = {l[i] : i \in 1 .. Len(l)}
    BY <2>1 DEF Chain, Range
  <2>3. \A i \in 1 .. Len(l) : l[i] \in N /\ l[i] # h /\ label[l[i]] = h
    BY <2>1, <2>2
  <2>4. label[entry] = h => \E k \in 1 .. Len(l) : l[k] = entry
    BY <2>1, <2>2
  <2> QED BY <2>1, <2>2, <2>3, <2>4 DEF l
<1>7. ASSUME NEW h \in N \ {g}, Live(m, h, nil), label[h] = h
      PROVE  ListForEach(m2, h) = ListForEach(m, h)
  <2> DEFINE l == ListForEach(m, h)
  <2>1. /\ Chain(m, N, h, l) /\ l \in Seq(N) /\ Len(l) \in Nat
        /\ \A i \in 1 .. Len(l) : l[i] \in N /\ label[l[i]] = h
    BY <1>6, <1>7
  <2> HIDE DEF l
  <2>2. Chain(m2, N, h, l)
    BY <1>2, <1>3, <1>7, <2>1 DEF Chain
  <2> QED BY <1>4, <1>5, <1>7, <2>2, ChainUnique DEF l
<1>8. /\ Chain(m, N, g, q) /\ q \in Seq(N) /\ Len(q) \in Nat
      /\ \A i \in 1 .. Len(q) : q[i] \in N /\ q[i] # g
      /\ \E k \in 1 .. Len(q) : q[k] = entry
  BY <1>6
<1>9. ASSUME NEW k \in 1 .. Len(q), NEW r \in Seq(N), q[k] = entry, Removed(q, k, r)
      PROVE  ListForEach(m2, g) = r
  <2> HIDE DEF q, g
  <2>1. /\ Len(r) = Len(q) - 1
        /\ \A i \in 1 .. Len(r) : r[i] = IF i < k THEN q[i] ELSE q[i + 1]
    BY <1>9 DEF Removed
  <2>2. \A i, j \in 1 .. Len(q) : q[i] = q[j] => i = j
    BY <1>8 DEF Chain
  <2>next. \A i \in 1 .. Len(q) : m.next[q[i]] = IF i = Len(q) THEN g ELSE q[i + 1]
    BY <1>8 DEF Chain
  <2>3. before = IF k = 1 THEN g ELSE q[k - 1]
    <3>1. CASE k = 1
      <4>1. m.next[g] = entry
        BY <1>8, <1>9, <3>1 DEF Chain
      <4> QED BY <1>2, <3>1, <4>1 DEF g
    <3>2. CASE k # 1
      <4>1. k - 1 \in 1 .. Len(q) /\ k - 1 # Len(q) /\ (k - 1) + 1 = k
        BY <1>8, <3>2
      <4>2. m.next[q[k - 1]] = q[(k - 1) + 1]
        BY <2>next, <4>1
      <4>3. m.next[q[k - 1]] = entry
        BY <1>9, <4>1, <4>2
      <4> QED BY <1>2, <1>8, <3>2, <4>1, <4>3
    <3> QED BY <3>1, <3>2
  <2>4. after = IF k = Len(q) THEN g ELSE q[k + 1]
    BY <1>9, <2>next DEF after
  <2>5. \A i \in 1 .. Len(r) : \E x \in 1 .. Len(q) : r[i] = q[x] /\ x = IF i < k THEN i ELSE i + 1
    BY <1>8, <2>1
  <2>6. \A i, j \in 1 .. Len(r) : r[i] = r[j] => i = j
    <3> SUFFICES ASSUME NEW i \in 1 .. Len(r), NEW j \in 1 .. Len(r), r[i] = r[j]
                 PROVE  i = j
      OBVIOUS
    <3>1. PICK x \in 1 .. Len(q) : r[i] = q[x] /\ x = IF i < k THEN i ELSE i + 1
      BY <2>5
    <3>2. PICK y \in 1 .. Len(q) : r[j] = q[y] /\ y = IF j < k THEN j ELSE j + 1
      BY <2>5
    <3>3. x = y
      <4>1. q[x] = q[y]
        BY <3>1, <3>2
      <4> QED BY <2>2, <4>1
    <3> QED BY <3>1, <3>2, <3>3
  <2>7. r \in Seq(N \ {g})
    <3>1. \A i \in 1 .. Len(r) : r[i] \in N \ {g}
      BY <1>8, <2>5
    <3> QED BY <3>1
  <2>8. m2.next[g] = IF Len(r) = 0 THEN g ELSE r[1]
    <3>1. CASE k = 1
      BY <1>3, <1>8, <2>1, <2>3, <2>4, <3>1 DEF g
    <3>2. CASE k # 1
      <4>1. g # before /\ m.next[g] = q[1] /\ r[1] = q[1] /\ Len(r) # 0
        <5>1. 1 \in 1 .. Len(q) /\ k - 1 \in 1 .. Len(q) /\ 1 < k /\ 1 \in 1 .. Len(r)
          BY <1>8, <2>1, <3>2
        <5> QED BY <1>8, <2>1, <2>3, <3>2, <5>1 DEF Chain
      <4> QED BY <1>3, <4>1 DEF g
    <3> QED BY <3>1, <3>2
  <2>9. \A i \in 1 .. Len(r) : m2.next[r[i]] = IF i = Len(r) THEN g ELSE r[i + 1]
    <3> SUFFICES ASSUME NEW i \in 1 .. Len(r)
                 PROVE  m2.next[r[i]] = IF i = Len(r) THEN g ELSE r[i + 1]
      OBVIOUS
    <3>1. CASE i = k - 1
      <4>1. r[i] = before /\ (i = Len(r) <=> k = Len(q)) /\ (i # Len(r) => r[i + 1] = q[k + 1])
        BY <1>8, <2>1, <2>3, <3>1
      <4> QED BY <1>2, <1>3, <2>4, <4>1
    <3>2. CASE i < k - 1
      <4>0. i \in 1 .. Len(q) /\ i # Len(q) /\ k # 1 /\ k - 1 \in 1 .. Len(q) /\ i # k - 1 /\ i # k
        BY <1>8, <2>1, <3>2
      <4>1. i \in 1 .. Len(q) /\ i # Len(q) /\ i # Len(r) /\ r[i] = q[i] /\ r[i + 1] = q[i + 1]
        BY <1>8, <2>1, <3>2, <4>0
      <4>2. q[i] # before /\ q[i] # entry
        BY <1>9, <2>2, <2>3, <4>0
      <4>3. m.next[q[i]] = q[i + 1]
        BY <2>next, <4>1
      <4>4. q[i] \in N
        BY <1>8, <4>1
      <4> QED BY <1>3, <4>1, <4>2, <4>3, <4>4
    <3>3. CASE i >= k
      <4> DEFINE j == i + 1
      <4>1. j \in 1 .. Len(q) /\ r[i] = q[j] /\ (i = Len(r) <=> j = Len(q))
        BY <1>8, <2>1, <3>3
      <4>2. i # Len(r) => r[i + 1] = q[j + 1]
        BY <1>8, <2>1, <3>3
      <4>3. (k # 1 => k - 1 \in 1 .. Len(q) /\ j # k - 1) /\ j # k
        BY <1>8, <3>3
      <4> HIDE DEF j
      <4>4. q[j] \in N /\ q[j] # g
        BY <1>8, <4>1
      <4>5. q[j] # before /\ q[j] # entry
        BY <1>9, <2>2, <2>3, <4>1, <4>3, <4>4
      <4>6. m.next[q[j]] = IF j = Len(q) THEN g ELSE q[j + 1]
        BY <2>next, <4>1
      <4> QED BY <1>3, <4>1, <4>2, <4>4, <4>5, <4>6
    <3>4. i = k - 1 \/ i < k - 1 \/ i >= k
      OBVIOUS
    <3> QED BY <3>1, <3>2, <3>3, <3>4
  <2>10. Chain(m2, N, g, r)
    BY <2>6, <2>7, <2>8, <2>9 DEF Chain
  <2> QED BY <1>4, <1>5, <2>10, ChainUnique DEF g
<1>10. \A i, j \in 1 .. Len(q) : q[i] = q[j] => i = j
  <2> HIDE DEF q
  <2> QED BY <1>8 DEF Chain
<1> QED BY <1>7, <1>8, <1>9, <1>10 DEF m2

-----------------------------------------------------------------------------
(* The lists as the sequences of ProcTables.                               *)
Q == INSTANCE ProcQ_proofs

\* Contents, of any memory.
ContentsIn(m, head) ==
  LET pos == ListForEach(m, head)
  IN  IF m.next[head] # NoNode THEN [i \in DOMAIN pos |-> ContainerOf(pos[i])] ELSE <<>>

Container == {ContainerOf(n) : n \in Node}

(* What ContentsIn is, of a head. *)
LEMMA ContentsElem ==
  ASSUME NEW m, NEW home, Tight(m, Node, NoNode, home), NEW g \in Node, Live(m, g, NoNode),
         home[g] = g
  PROVE  /\ ListForEach(m, g) \in Seq(Node)
         /\ ContentsIn(m, g) \in Seq(Container)
         /\ Len(ContentsIn(m, g)) = Len(ListForEach(m, g))
         /\ \A i \in 1 .. Len(ListForEach(m, g)) :
              /\ ContentsIn(m, g)[i] = ContainerOf(ListForEach(m, g)[i])
              /\ ListForEach(m, g)[i] \in Node \ {g} /\ home[ListForEach(m, g)[i]] = g
         /\ \A n \in Node \ {g} : Live(m, n, NoNode) /\ home[n] = g =>
              \E i \in 1 .. Len(ListForEach(m, g)) : ListForEach(m, g)[i] = n
<1> DEFINE q == ListForEach(m, g)
           c == ContentsIn(m, g)
<1>1. /\ Chain(m, Node, g, q)
      /\ Range(q) = {n \in Node \ {g} : Live(m, n, NoNode) /\ home[n] = g}
  BY Nodes, NodeFinite, ListForEachFinds
<1>2. c = [i \in DOMAIN q |-> ContainerOf(q[i])]
  BY DEF ContentsIn, Live
<1> HIDE DEF q, c
<1>3. q \in Seq(Node) /\ DOMAIN q = 1 .. Len(q) /\ Len(q) \in Nat
  BY <1>1 DEF Chain
<1>4. Range(q) = {q[i] : i \in 1 .. Len(q)}
  BY <1>3 DEF Range
<1>5. c \in Seq(Container) /\ Len(c) = Len(q) /\ \A i \in 1 .. Len(q) : c[i] = ContainerOf(q[i])
  <2>1. \A i \in 1 .. Len(q) : ContainerOf(q[i]) \in Container
    BY <1>3 DEF Container
  <2> QED BY <1>2, <1>3, <2>1
<1>6. \A i \in 1 .. Len(q) : q[i] \in Node \ {g} /\ home[q[i]] = g
  BY <1>1, <1>4
<1>7. \A n \in Node \ {g} : Live(m, n, NoNode) /\ home[n] = g => \E i \in 1 .. Len(q) : q[i] = n
  BY <1>1, <1>4
<1> QED BY <1>3, <1>5, <1>6, <1>7 DEF q, c

(* An isolated head has an empty list, and so has one not initialised.      *)
LEMMA EmptyContents ==
  ASSUME NEW m, NEW home, Tight(m, Node, NoNode, home), NEW g \in Node, home[g] = g,
         OnNone(m, g, NoNode)
  PROVE  ContentsIn(m, g) = <<>>
<1>1. CASE m.next[g] = NoNode
  BY <1>1 DEF ContentsIn
<1>2. CASE Isolated(m, g)
  <2>1. Live(m, g, NoNode)
    BY <1>2, Nodes DEF Isolated, Live
  <2> DEFINE q == ListForEach(m, g)
             c == ContentsIn(m, g)
  <2>2. /\ q \in Seq(Node) /\ c \in Seq(Container) /\ Len(c) = Len(q)
        /\ Chain(m, Node, g, q)
    BY <2>1, Nodes, NodeFinite, ListForEachFinds, ContentsElem
  <2> HIDE DEF q, c
  <2>3. Len(q) = 0
    <3> SUFFICES ASSUME Len(q) # 0
                 PROVE  FALSE
      OBVIOUS
    <3>1. 1 \in 1 .. Len(q)
      BY <2>2
    <3> QED BY <1>2, <2>2, <3>1 DEF Chain, Isolated
  <2>4. c = <<>>
    BY <2>2, <2>3
  <2> QED BY <2>4 DEF c
<1> QED BY <1>1, <1>2 DEF OnNone

(* A list whose head does not point to itself is not empty, and begins with *)
(* the node the head points to.                                            *)
LEMMA FirstContents ==
  ASSUME NEW m, NEW home, Tight(m, Node, NoNode, home), NEW g \in Node, Live(m, g, NoNode),
         home[g] = g, ~ListEmpty(m, g)
  PROVE  ContentsIn(m, g) # <<>> /\ Head(ContentsIn(m, g)) = ContainerOf(m.next[g])
         /\ ListForEach(m, g) # <<>> /\ ListForEach(m, g)[1] = m.next[g]
<1> DEFINE q == ListForEach(m, g)
           c == ContentsIn(m, g)
<1>1. /\ q \in Seq(Node) /\ c \in Seq(Container) /\ Len(c) = Len(q)
      /\ \A i \in 1 .. Len(q) : c[i] = ContainerOf(q[i])
      /\ Chain(m, Node, g, q)
  BY Nodes, NodeFinite, ListForEachFinds, ContentsElem
<1> HIDE DEF q, c
<1>2. Len(q) # 0 /\ q[1] = m.next[g]
  BY <1>1 DEF Chain, ListEmpty
<1>3. 1 \in 1 .. Len(q) /\ c # <<>> /\ q # <<>> /\ Head(c) = c[1]
  BY <1>1, <1>2
<1> QED BY <1>1, <1>2, <1>3 DEF q, c

(* INIT_LIST_HEAD of a node on no list leaves the sequences as they are.    *)
LEMMA InitContents ==
  ASSUME NEW m, NEW home, Tight(m, Node, NoNode, home), NEW n \in Node, OnNone(m, n, NoNode),
         home[n] = n, NEW h \in Node, home[h] = h
  PROVE  ContentsIn(InitListHead(m, n), h) = ContentsIn(m, h)
<1> DEFINE m2 == InitListHead(m, n)
<1>1. Tight(m2, Node, NoNode, home) /\ Isolated(m2, n) /\ Keeps(m, m2, Node, NoNode, {n})
  BY Nodes, TightInit, InitListHeadLinks DEF Tight
<1>2. CASE h = n
  <2>1. OnNone(m2, n, NoNode)
    BY <1>1 DEF OnNone
  <2> QED BY <1>1, <1>2, <2>1, EmptyContents
<1>3. CASE h # n
  <2>1. Live(m2, h, NoNode) <=> Live(m, h, NoNode)
    BY <1>1, <1>3 DEF Keeps
  <2>2. Live(m, h, NoNode) => ListForEach(m2, h) = ListForEach(m, h)
    BY <1>3, Nodes, NodeFinite, InitSequences
  <2> HIDE DEF m2
  <2>3. ContentsIn(m2, h) = ContentsIn(m, h)
    BY <2>1, <2>2 DEF ContentsIn, Live
  <2> QED BY <2>3 DEF m2
<1> QED BY <1>2, <1>3

(* Positions of a sequence of PCBs are those of the sequence of nodes.      *)
LEMMA InsertedContents ==
  ASSUME NEW q \in Seq(Node), NEW k \in 1 .. Len(q) + 1, NEW new \in Node
  PROVE  \E r \in Seq(Node) : Inserted(q, k, new, r)
<1> DEFINE r == Q!InsertAt(q, k, new)
<1>1. r \in Seq(Node) /\ Inserted(q, k, new, r)
  BY Q!InsertAtElem DEF Inserted
<1> QED BY <1>1

(* Two sequences with the same elements are the same.                      *)
LEMMA SameSequence ==
  ASSUME NEW S, NEW a \in Seq(S), NEW b \in Seq(S), Len(a) = Len(b),
         \A i \in 1 .. Len(a) : a[i] = b[i]
  PROVE  a = b
OBVIOUS

(* __list_add of a node on no list: the sequence of its list has it at the *)
(* position of the node it is put before, or last, and no other changes.   *)
LEMMA InsertContents ==
  ASSUME NEW m, NEW home, NEW home2, Tight(m, Node, NoNode, home),
         NEW new \in Node, OnNone(m, new, NoNode), Live(m, new, NoNode) => home[new] = new,
         NEW at \in Node, Live(m, at, NoNode), at # new,
         \A k \in Node \ {new} : home2[k] = home[k], home2[new] = home[at],
         NEW g \in Node, g = home[at], g # new, Live(m, g, NoNode), home[g] = g
  PROVE  LET m2 == ListInsert(m, new, m.prev[at], at)
         IN  /\ \A h \in Node \ {g, new} : home[h] = h => ContentsIn(m2, h) = ContentsIn(m, h)
             /\ at = g => ContentsIn(m2, g) = Append(ContentsIn(m, g), ContainerOf(new))
             /\ \A k \in 1 .. Len(ContentsIn(m, g)) : ListForEach(m, g)[k] = at =>
                  ContentsIn(m2, g) = Q!InsertAt(ContentsIn(m, g), k, ContainerOf(new))
<1> DEFINE m2 == ListInsert(m, new, m.prev[at], at)
           q == ListForEach(m, g)
           c == ContentsIn(m, g)
           c2 == ContentsIn(m2, g)
           x == ContainerOf(new)
<1>1. /\ q \in Seq(Node) /\ c \in Seq(Container) /\ Len(c) = Len(q) /\ Len(q) \in Nat
      /\ \A i \in 1 .. Len(q) : c[i] = ContainerOf(q[i])
  <2>1. ListForEach(m, g) \in Seq(Node)
    BY ContentsElem
  <2> QED BY <2>1, ContentsElem
<1>2. /\ \A h \in Node \ {g, new} : Live(m, h, NoNode) /\ home[h] = h =>
           ListForEach(m2, h) = ListForEach(m, h)
      /\ \A k \in 1 .. Len(q) + 1, r \in Seq(Node) :
           /\ at = IF k = Len(q) + 1 THEN g ELSE q[k]
           /\ Inserted(q, k, new, r)
           => ListForEach(m2, g) = r
  BY Nodes, NodeFinite, InsertSequences
<1>3. \A n \in Node \ {new} : Live(m2, n, NoNode) <=> Live(m, n, NoNode)
  <2>0. NoNode \notin Node /\ home2[new] = home2[at]
    BY Nodes
  <2>1. Good(m, Node, NoNode, home2)
    BY <2>0, Relabel DEF Tight
  <2> HIDE DEF q, c, c2, x
  <2>2. /\ Keeps(m, m2, Node, NoNode, {new, at}) /\ Live(m2, at, NoNode)
    BY <2>0, <2>1, ListInsertLinks
  <2> QED BY <2>2 DEF Keeps
<1>4. Tight(m2, Node, NoNode, home2)
  BY Nodes, TightInsert
<1> HIDE DEF m2, q
<1>5. ASSUME NEW k \in 1 .. Len(q) + 1, at = IF k = Len(q) + 1 THEN g ELSE q[k]
      PROVE  /\ c2 \in Seq(Container) /\ Inserted(c, k, x, c2)
  <2>1. PICK r \in Seq(Node) : Inserted(q, k, new, r)
    BY <1>1, InsertedContents
  <2>2. ListForEach(m2, g) = r
    BY <1>2, <1>5, <2>1
  <2>3. /\ c2 \in Seq(Container) /\ Len(c2) = Len(r)
        /\ \A i \in 1 .. Len(r) : c2[i] = ContainerOf(r[i])
    <3>1. home2[g] = g /\ Live(m2, g, NoNode)
      BY <1>3
    <3> QED BY <1>4, <2>2, <3>1, ContentsElem
  <2> HIDE DEF c, c2, x
  <2>4. /\ Len(r) = Len(q) + 1
        /\ \A i \in 1 .. Len(r) : r[i] = IF i < k THEN q[i] ELSE IF i = k THEN new ELSE q[i - 1]
    BY <2>1 DEF Inserted
  <2>5. \A i \in 1 .. Len(c2) : c2[i] = IF i < k THEN c[i] ELSE IF i = k THEN x ELSE c[i - 1]
    <3> SUFFICES ASSUME NEW i \in 1 .. Len(c2)
                 PROVE  c2[i] = IF i < k THEN c[i] ELSE IF i = k THEN x ELSE c[i - 1]
      OBVIOUS
    <3>1. i \in 1 .. Len(r) /\ c2[i] = ContainerOf(r[i])
      BY <2>3
    <3>2. CASE i < k
      <4>1. i \in 1 .. Len(q)
        BY <1>1, <2>3, <2>4, <3>2
      <4> QED BY <1>1, <2>4, <3>1, <3>2, <4>1
    <3>3. CASE i = k
      BY <2>4, <3>1, <3>3 DEF x
    <3>4. CASE i > k
      <4>1. i - 1 \in 1 .. Len(q) /\ ~(i < k) /\ i # k
        BY <1>1, <2>3, <2>4, <3>4
      <4> QED BY <1>1, <2>4, <3>1, <4>1
    <3> QED BY <1>1, <3>2, <3>3, <3>4
  <2> QED BY <1>1, <2>3, <2>4, <2>5 DEF Inserted
<1>6. \A h \in Node \ {g, new} : home[h] = h => ContentsIn(m2, h) = ContentsIn(m, h)
  BY <1>2, <1>3 DEF ContentsIn, Live
<1>7. x \in Container
  BY DEF Container
<1> HIDE DEF c, c2, x
<1>8. at = g => c2 = Append(c, x)
  <2> SUFFICES ASSUME at = g
               PROVE  c2 = Append(c, x)
    OBVIOUS
  <2>1. c2 \in Seq(Container) /\ Inserted(c, Len(q) + 1, x, c2)
    BY <1>1, <1>5
  <2>2. Len(c2) = Len(c) + 1 /\ \A i \in 1 .. Len(c2) : c2[i] = IF i < Len(c) + 1 THEN c[i] ELSE x
    BY <1>1, <2>1 DEF Inserted
  <2>3. /\ Append(c, x) \in Seq(Container) /\ Len(Append(c, x)) = Len(c) + 1
        /\ \A i \in 1 .. Len(c) + 1 : Append(c, x)[i] = IF i < Len(c) + 1 THEN c[i] ELSE x
    BY <1>1, <1>7
  <2> QED BY <2>1, <2>2, <2>3, SameSequence
<1>9. ASSUME NEW k \in 1 .. Len(c), q[k] = at
      PROVE  c2 = Q!InsertAt(c, k, x)
  <2>1. k \in 1 .. Len(q) + 1 /\ at = IF k = Len(q) + 1 THEN g ELSE q[k]
    BY <1>1, <1>9
  <2>2. c2 \in Seq(Container) /\ Inserted(c, k, x, c2)
    BY <1>5, <2>1
  <2>3. k \in 1 .. Len(c) + 1
    BY <1>1, <1>9
  <2>4. /\ Q!InsertAt(c, k, x) \in Seq(Container) /\ Len(Q!InsertAt(c, k, x)) = Len(c) + 1
        /\ \A i \in 1 .. Len(c) + 1 :
             Q!InsertAt(c, k, x)[i] = IF i < k THEN c[i] ELSE IF i = k THEN x ELSE c[i - 1]
    <3>1. c \in Seq(Container) /\ x \in Container /\ k \in 1 .. Len(c) + 1
      BY <1>1, <1>7, <2>3
    <3> QED BY <3>1, Q!InsertAtElem
  <2> DEFINE c3 == Q!InsertAt(c, k, x)
  <2> HIDE DEF c3
  <2>5. c2 = c3
    <3>1. c3 \in Seq(Container) /\ Len(c2) = Len(c3) /\ \A i \in 1 .. Len(c2) : c2[i] = c3[i]
      BY <2>2, <2>4 DEF Inserted, c3
    <3> QED BY <2>2, <3>1, SameSequence
  <2> QED BY <2>5 DEF c3
<1> QED BY <1>6, <1>8, <1>9 DEF m2, c, c2, x, q

(* list_del of an entry of the list of g, on which every node is in a       *)
(* structure of its own.                                                   *)
LEMMA DelContents ==
  ASSUME NEW m, NEW home, NEW home2, Tight(m, Node, NoNode, home),
         NEW entry \in Node, Live(m, entry, NoNode), NEW g \in Node, g = home[entry], g # entry,
         \A k \in Node \ {entry} : home2[k] = home[k], home2[entry] = entry,
         Live(m, g, NoNode), home[g] = g,
         \A a, b \in Node \ {g} : home[a] = g /\ home[b] = g /\ ContainerOf(a) = ContainerOf(b) => a = b
  PROVE  LET m2 == ListDel(m, entry)
             c == ContentsIn(m, g)
         IN  /\ \A h \in Node \ {g} : home[h] = h => ContentsIn(m2, h) = ContentsIn(m, h)
             /\ ContainerOf(entry) \in Range(c)
             /\ ContentsIn(m2, g) = Q!RemoveFirst(c, ContainerOf(entry))
             /\ m.next[g] = entry =>
                  c # <<>> /\ Head(c) = ContainerOf(entry) /\ ContentsIn(m2, g) = Tail(c)
<1> DEFINE m2 == ListDel(m, entry)
           q == ListForEach(m, g)
           c == ContentsIn(m, g)
           c2 == ContentsIn(m2, g)
           x == ContainerOf(entry)
<1>1. /\ q \in Seq(Node) /\ c \in Seq(Container) /\ Len(c) = Len(q) /\ Len(q) \in Nat
      /\ \A i \in 1 .. Len(q) : c[i] = ContainerOf(q[i]) /\ q[i] \in Node \ {g} /\ home[q[i]] = g
  <2>1. ListForEach(m, g) \in Seq(Node)
    BY ContentsElem
  <2> QED BY <2>1, ContentsElem
<1>2. /\ \A h \in Node \ {g} : Live(m, h, NoNode) /\ home[h] = h =>
           ListForEach(m2, h) = ListForEach(m, h)
      /\ \A i, j \in 1 .. Len(q) : q[i] = q[j] => i = j
      /\ \E k \in 1 .. Len(q) : q[k] = entry
      /\ \A k \in 1 .. Len(q), r \in Seq(Node) :
           q[k] = entry /\ Removed(q, k, r) => ListForEach(m2, g) = r
  BY Nodes, NodeFinite, DelSequences
<1>3. \A n \in Node : Live(m2, n, NoNode) <=> Live(m, n, NoNode)
  <2>1. Keeps(m, m2, Node, NoNode, {})
    BY Nodes, ListDelLinks DEF Tight
  <2> QED BY <2>1 DEF Keeps
<1>4. Tight(m2, Node, NoNode, home2)
  BY Nodes, TightDel
<1>4a. m.next[g] = entry => q[1] = entry
  <2> SUFFICES ASSUME m.next[g] = entry
               PROVE  q[1] = entry
    OBVIOUS
  <2>1. ~ListEmpty(m, g)
    BY DEF ListEmpty
  <2> QED BY <2>1, FirstContents
<1> HIDE DEF m2, q
<1>5. ASSUME NEW k \in 1 .. Len(q), q[k] = entry
      PROVE  c2 \in Seq(Container) /\ Removed(c, k, c2)
  <2> DEFINE r == [i \in 1 .. Len(q) - 1 |-> IF i < k THEN q[i] ELSE q[i + 1]]
  <2>1. r \in Seq(Node) /\ Removed(q, k, r)
    <3>1. Len(q) - 1 \in Nat
      BY <1>1
    <3>2. \A i \in 1 .. Len(q) - 1 : (IF i < k THEN q[i] ELSE q[i + 1]) \in Node
      BY <1>1
    <3>3. r \in Seq(Node) /\ Len(r) = Len(q) - 1
      BY <3>1, <3>2
    <3>4. \A i \in 1 .. Len(r) : r[i] = IF i < k THEN q[i] ELSE q[i + 1]
      BY <3>3
    <3> HIDE DEF r
    <3> QED BY <3>3, <3>4 DEF Removed
  <2> HIDE DEF r
  <2>2. ListForEach(m2, g) = r
    BY <1>2, <1>5, <2>1
  <2>3. /\ c2 \in Seq(Container) /\ Len(c2) = Len(r)
        /\ \A i \in 1 .. Len(r) : c2[i] = ContainerOf(r[i])
    <3>1. home2[g] = g /\ Live(m2, g, NoNode)
      BY <1>3
    <3> QED BY <1>4, <2>2, <3>1, ContentsElem
  <2> HIDE DEF c, c2, x
  <2>4. /\ Len(r) = Len(q) - 1
        /\ \A i \in 1 .. Len(r) : r[i] = IF i < k THEN q[i] ELSE q[i + 1]
    BY <2>1 DEF Removed
  <2>5. \A i \in 1 .. Len(c2) : c2[i] = IF i < k THEN c[i] ELSE c[i + 1]
    <3> SUFFICES ASSUME NEW i \in 1 .. Len(c2)
                 PROVE  c2[i] = IF i < k THEN c[i] ELSE c[i + 1]
      OBVIOUS
    <3>1. i \in 1 .. Len(q) /\ i + 1 \in 1 .. Len(q) /\ i \in 1 .. Len(r)
      BY <1>1, <2>3, <2>4
    <3> QED BY <1>1, <2>3, <2>4, <3>1
  <2> QED BY <1>1, <2>3, <2>4, <2>5 DEF Removed
<1>6. \A h \in Node \ {g} : home[h] = h => ContentsIn(m2, h) = ContentsIn(m, h)
  BY <1>2, <1>3 DEF ContentsIn, Live
<1>7. PICK k \in 1 .. Len(q) : q[k] = entry
  BY <1>2
<1>8. c[k] = x /\ \A i \in 1 .. Len(c) : c[i] = x => i = k
  <2>1. \A i \in 1 .. Len(q) : c[i] = x => q[i] = entry
    BY <1>1
  <2> QED BY <1>1, <1>2, <1>7, <2>1
<1>9. c2 \in Seq(Container) /\ Removed(c, k, c2)
  BY <1>5, <1>7
<1> HIDE DEF c, c2, x
<1>10. x \in Range(c)
  <2>1. k \in DOMAIN c
    BY <1>1
  <2> QED BY <1>8, <2>1 DEF Range
<1>11. c2 = Q!RemoveFirst(c, x)
  <2> DEFINE d == Q!RemoveFirst(c, x)
  <2>1. x \in Q!Range(c)
    BY <1>10 DEF Range, Q!Range
  <2>2. /\ d \in Seq(Container) /\ Len(d) = Len(c) - 1
        /\ \E j \in 1 .. Len(c) :
             /\ c[j] = x
             /\ \A i \in 1 .. Len(c) - 1 : d[i] = IF i < j THEN c[i] ELSE c[i + 1]
    BY <1>1, <2>1, Q!RemoveFirstElem
  <2> HIDE DEF d
  <2>3. /\ Len(d) = Len(c) - 1
        /\ \A i \in 1 .. Len(c) - 1 : d[i] = IF i < k THEN c[i] ELSE c[i + 1]
    BY <1>8, <2>2
  <2>4. Len(c2) = Len(d) /\ \A i \in 1 .. Len(c2) : c2[i] = d[i]
    BY <1>9, <2>3 DEF Removed
  <2>5. c2 = d
    BY <1>9, <2>2, <2>4, SameSequence
  <2> QED BY <2>5 DEF d
<1>12. m.next[g] = entry => c # <<>> /\ Head(c) = x /\ c2 = Tail(c)
  <2> SUFFICES ASSUME m.next[g] = entry
               PROVE  c # <<>> /\ Head(c) = x /\ c2 = Tail(c)
    OBVIOUS
  <2>1. q[1] = entry /\ 1 \in 1 .. Len(q)
    BY <1>1, <1>4a
  <2>2. k = 1
    BY <1>2, <1>7, <2>1
  <2>3. c # <<>> /\ Head(c) = x
    BY <1>1, <1>8, <2>1, <2>2
  <2>4. Len(c2) = Len(c) - 1 /\ \A i \in 1 .. Len(c2) : c2[i] = c[i + 1]
    BY <1>9, <2>2 DEF Removed
  <2>5. Tail(c) \in Seq(Container) /\ Len(Tail(c)) = Len(c) - 1
        /\ \A i \in 1 .. Len(Tail(c)) : Tail(c)[i] = c[i + 1]
    BY <1>1, <2>3
  <2> QED BY <1>9, <2>3, <2>4, <2>5, SameSequence
<1> QED BY <1>6, <1>10, <1>11, <1>12 DEF m2, c, c2, x

(* The other lists, when an entry leaves its own.                          *)
LEMMA DelOthers ==
  ASSUME NEW m, NEW home, Tight(m, Node, NoNode, home),
         NEW entry \in Node, Live(m, entry, NoNode), NEW g \in Node, g = home[entry], g # entry,
         Live(m, g, NoNode), home[g] = g, NEW h \in Node \ {g}, home[h] = h
  PROVE  ContentsIn(ListDel(m, entry), h) = ContentsIn(m, h)
<1> DEFINE m2 == ListDel(m, entry)
           home2 == [n \in Node |-> IF n = entry THEN entry ELSE home[n]]
<1>1. (\A k \in Node \ {entry} : home2[k] = home[k]) /\ home2[entry] = entry
  OBVIOUS
<1> HIDE DEF home2
<1>2. Live(m2, h, NoNode) <=> Live(m, h, NoNode)
  <2>1. Keeps(m, m2, Node, NoNode, {})
    BY Nodes, ListDelLinks DEF Tight
  <2> QED BY <2>1 DEF Keeps
<1>3. Live(m, h, NoNode) => ListForEach(m2, h) = ListForEach(m, h)
  BY <1>1, Nodes, NodeFinite, DelSequences
<1> HIDE DEF m2
<1> QED BY <1>2, <1>3 DEF ContentsIn, Live, m2

\* The lists that the sequences of ProcTables are.
Observed == {pcbFree_h, readyQueue} \cup {p_child(p) : p \in Pcb} \cup {s_procq(s) : s \in Semd}

LEMMA ObservedHeads ==
  \A h \in Observed :
    /\ h \in Node /\ h # semdFree_h /\ h # semd_h
    /\ \A p \in Pcb : h # p_list(p) /\ h # p_sib(p)
    /\ \A s \in Semd : h # s_link(s)
    /\ \A parent, semAdd, st, key : HomeOf(parent, semAdd, st, key)[h] = h
<1>1. /\ pcbFree_h \in Node /\ readyQueue \in Node /\ \A p \in Pcb : p_child(p) \in Node
      /\ \A s \in Semd : s_procq(s) \in Node
  BY Nodes
<1>2. \A h \in Observed : /\ h \in Node /\ h # semdFree_h /\ h # semd_h
                          /\ \A p \in Pcb : h # p_list(p) /\ h # p_sib(p)
                          /\ \A s \in Semd : h # s_link(s)
  BY <1>1, NodesDiffer DEF Observed
<1>3. ASSUME NEW h \in Observed, NEW parent, NEW semAdd, NEW st, NEW key
      PROVE  HomeOf(parent, semAdd, st, key)[h] = h
  BY HomeAt, NodesDiffer DEF Observed
<1> QED BY <1>2, <1>3

(* The nodes on an observed list are in structures of their own.           *)
LEMMA SameContainer ==
  ASSUME NEW parent \in [Pcb -> Pcb \cup {NULL}], NEW semAdd, NEW key,
         NEW st \in [Pcb -> {"none", "free", "held", "ready", "blocked"}],
         Blocked(semAdd, st, key), NEW g \in Observed,
         NEW a \in Node \ {g}, NEW b \in Node \ {g}, ContainerOf(a) = ContainerOf(b),
         HomeOf(parent, semAdd, st, key)[a] = g, HomeOf(parent, semAdd, st, key)[b] = g
  PROVE  a = b
<1>1. /\ \A p \in Pcb : ContainerOf(p_list(p)) = p /\ ContainerOf(p_sib(p)) = p
  BY DEF ContainerOf, p_list, p_sib
<1>2. CASE g = pcbFree_h \/ g = readyQueue
  <2>1. \A n \in {a, b} : \E p \in Pcb : n = p_list(p)
    BY <1>2, OnList
  <2> QED BY <1>1, <2>1
<1>3. CASE \E q \in Pcb : g = p_child(q)
  <2>1. \A n \in {a, b} : \E p \in Pcb : n = p_sib(p)
    BY <1>3, OnList
  <2> QED BY <1>1, <2>1
<1>4. CASE \E s \in Semd : g = s_procq(s)
  <2>1. \A n \in {a, b} : \E p \in Pcb : n = p_list(p)
    BY <1>4, OnQueue
  <2> QED BY <1>1, <2>1
<1> QED BY <1>2, <1>3, <1>4 DEF Observed

(* What is on an observed list, in terms of the fields.                    *)
LEMMA InContents ==
  ASSUME IInv, ListsInv, NEW h \in Observed, NEW x \in Range(ContentsIn(lists, h))
  PROVE  \E n \in Node \ {h} : Home[n] = h /\ ContainerOf(n) = x
<1>1. h \in Node /\ Home[h] = h
  BY ObservedHeads DEF Home
<1>2. Live(lists, h, NoNode)
  <2> SUFFICES ASSUME lists.next[h] = NoNode
               PROVE  FALSE
    BY DEF Live
  <2>1. ContentsIn(lists, h) = <<>>
    BY DEF ContentsIn
  <2> QED BY <2>1 DEF Range
<1> HIDE DEF Home
<1> DEFINE c == ContentsIn(lists, h)
           q == ListForEach(lists, h)
<1>3. /\ c \in Seq(Container) /\ Len(c) = Len(q)
      /\ \A i \in 1 .. Len(q) : c[i] = ContainerOf(q[i]) /\ q[i] \in Node \ {h} /\ Home[q[i]] = h
  <2>1. Tight(lists, Node, NoNode, Home)
    BY DEF ListsInv
  <2>2. /\ c \in Seq(Container) /\ Len(c) = Len(q)
    BY <1>1, <1>2, <2>1, ContentsElem
  <2>3. \A i \in 1 .. Len(q) : c[i] = ContainerOf(q[i]) /\ q[i] \in Node \ {h} /\ Home[q[i]] = h
    BY <1>1, <1>2, <2>1, ContentsElem
  <2> QED BY <2>2, <2>3
<1>4. x \in Range(c)
  OBVIOUS
<1> HIDE DEF c, q
<1>5. \E i \in 1 .. Len(q) : x = c[i]
  BY <1>3, <1>4 DEF Range
<1> QED BY <1>3, <1>5

LEMMA InList ==
  ASSUME IInv, ListsInv, NEW p \in Pcb
  PROVE  /\ p \in Range(ContentsIn(lists, pcbFree_h)) => state[p] = "free"
         /\ p \in Range(ContentsIn(lists, readyQueue)) => state[p] = "ready"
         /\ \A q \in Pcb : p \in Range(ContentsIn(lists, p_child(q))) => p_parent[p] = q
         /\ \A s \in Semd : p \in Range(ContentsIn(lists, s_procq(s))) =>
                              state[p] = "blocked" /\ p_semAdd[p] = s_key[s]
<1>1. \A q \in Pcb : ContainerOf(p_list(q)) = q /\ ContainerOf(p_sib(q)) = q
  BY DEF ContainerOf, p_list, p_sib
<1>2. FieldTypes /\ Blocked(p_semAdd, state, s_key)
  BY DEF IInv, ListsInv
<1>3. p \in Range(ContentsIn(lists, pcbFree_h)) => state[p] = "free"
  <2> SUFFICES ASSUME p \in Range(ContentsIn(lists, pcbFree_h))
               PROVE  state[p] = "free"
    OBVIOUS
  <2>1. PICK n \in Node \ {pcbFree_h} : Home[n] = pcbFree_h /\ ContainerOf(n) = p
    BY InContents DEF Observed
  <2>2. \E q \in Pcb : n = p_list(q) /\ state[q] = "free"
    BY <1>2, <2>1, OnList DEF Home, FieldTypes
  <2> QED BY <1>1, <2>1, <2>2
<1>4. p \in Range(ContentsIn(lists, readyQueue)) => state[p] = "ready"
  <2> SUFFICES ASSUME p \in Range(ContentsIn(lists, readyQueue))
               PROVE  state[p] = "ready"
    OBVIOUS
  <2>1. PICK n \in Node \ {readyQueue} : Home[n] = readyQueue /\ ContainerOf(n) = p
    BY InContents DEF Observed
  <2>2. \E q \in Pcb : n = p_list(q) /\ state[q] = "ready"
    BY <1>2, <2>1, OnList DEF Home, FieldTypes
  <2> QED BY <1>1, <2>1, <2>2
<1>5. ASSUME NEW q \in Pcb, p \in Range(ContentsIn(lists, p_child(q)))
      PROVE  p_parent[p] = q
  <2>1. p_child(q) \in Observed
    BY DEF Observed
  <2>2. PICK n \in Node \ {p_child(q)} : Home[n] = p_child(q) /\ ContainerOf(n) = p
    BY <1>5, <2>1, InContents
  <2>3. \E c \in Pcb : n = p_sib(c) /\ p_parent[c] = q
    BY <1>2, <2>2, OnList DEF Home, FieldTypes
  <2> QED BY <1>1, <2>2, <2>3
<1>6. ASSUME NEW s \in Semd, p \in Range(ContentsIn(lists, s_procq(s)))
      PROVE  state[p] = "blocked" /\ p_semAdd[p] = s_key[s]
  <2>1. s_procq(s) \in Observed
    BY DEF Observed
  <2>2. PICK n \in Node \ {s_procq(s)} : Home[n] = s_procq(s) /\ ContainerOf(n) = p
    BY <1>6, <2>1, InContents
  <2>3. \E q \in Pcb : n = p_list(q) /\ state[q] = "blocked" /\ p_semAdd[q] = s_key[s]
    BY <1>2, <2>2, OnQueue DEF Home, FieldTypes
  <2> QED BY <1>1, <2>2, <2>3
<1> QED BY <1>3, <1>4, <1>5, <1>6

-----------------------------------------------------------------------------
\* The semaphore queues, and the children of the processes.
QueueIn(m, key, sem) ==
  IF \E s \in Semd : key[s] = sem
  THEN ContentsIn(m, s_procq(CHOOSE s \in Semd : key[s] = sem)) ELSE <<>>
Queues(m, key) == [sem \in Sem |-> QueueIn(m, key, sem)]
Children(m) == [p \in Pcb |-> ContentsIn(m, p_child(p))]
HeldIn(st) == {p \in Pcb : st[p] = "held"}

(* The mapping to ProcTables, in this state and in the next.               *)
LEMMA View ==
  /\ Contents(pcbFree_h) = ContentsIn(lists, pcbFree_h)
  /\ Contents(readyQueue) = ContentsIn(lists, readyQueue)
  /\ [sem \in Sem |-> QueueOf(sem)] = Queues(lists, s_key)
  /\ [p \in Pcb |-> Contents(p_child(p))] = Children(lists)
  /\ {p \in Pcb : Held(p)} = HeldIn(state)
<1>1. \A h : Contents(h) = ContentsIn(lists, h)
  BY DEF Contents, ContentsIn, Initialised
<1>2. \A sem \in Sem : QueueOf(sem) = QueueIn(lists, s_key, sem)
  BY <1>1 DEF QueueOf, QueueIn
<1> QED BY <1>1, <1>2 DEF Queues, Children, Held, HeldIn

LEMMA ViewNext ==
  /\ Contents(pcbFree_h)' = ContentsIn(lists', pcbFree_h)
  /\ Contents(readyQueue)' = ContentsIn(lists', readyQueue)
  /\ [sem \in Sem |-> QueueOf(sem)]' = Queues(lists', s_key')
  /\ [p \in Pcb |-> Contents(p_child(p))]' = Children(lists')
  /\ {p \in Pcb : Held(p)}' = HeldIn(state')
<1>1. \A h : Contents(h)' = ContentsIn(lists', h)
  BY DEF Contents, ContentsIn, Initialised
<1>2. \A sem \in Sem : QueueOf(sem)' = QueueIn(lists', s_key', sem)
  BY <1>1 DEF QueueOf, QueueIn
<1> QED BY <1>1, <1>2 DEF Queues, Children, Held, HeldIn

(* Queues and children that no change of a list touches.                   *)
LEMMA SameQueues ==
  ASSUME NEW m, NEW m2, NEW key,
         \A s \in Semd : ContentsIn(m2, s_procq(s)) = ContentsIn(m, s_procq(s))
  PROVE  Queues(m2, key) = Queues(m, key)
<1>1. ASSUME NEW sem \in Sem
      PROVE  QueueIn(m2, key, sem) = QueueIn(m, key, sem)
  <2>1. CASE \E s \in Semd : key[s] = sem
    <3>1. (CHOOSE s \in Semd : key[s] = sem) \in Semd
      BY <2>1
    <3> QED BY <2>1, <3>1 DEF QueueIn
  <2>2. CASE ~\E s \in Semd : key[s] = sem
    BY <2>2 DEF QueueIn
  <2> QED BY <2>1, <2>2
<1> QED BY <1>1 DEF Queues

LEMMA SameChildren ==
  ASSUME NEW m, NEW m2, \A p \in Pcb : ContentsIn(m2, p_child(p)) = ContentsIn(m, p_child(p))
  PROVE  Children(m2) = Children(m)
BY DEF Children

\* Only the queue of s changes, which has the key sem, takes it or loses it.
ChangesQueue(m, m2, key, key2, s, sem) ==
  /\ \A t \in Semd \ {s} : /\ key2[t] = key[t] /\ key[t] # sem
                           /\ ContentsIn(m2, s_procq(t)) = ContentsIn(m, s_procq(t))
  /\ key[s] \in {NULL, sem} /\ key2[s] \in {NULL, sem}
  /\ key[s] = NULL => ContentsIn(m, s_procq(s)) = <<>>
  /\ key2[s] = NULL => ContentsIn(m2, s_procq(s)) = <<>>

LEMMA QueueStep ==
  ASSUME NEW s \in Semd, NEW sem \in Sem,
         ChangesQueue(lists, lists', s_key, s_key', s, sem)
  PROVE  /\ Queues(lists, s_key)[sem] = ContentsIn(lists, s_procq(s))
         /\ Queues(lists', s_key') = [Queues(lists, s_key) EXCEPT ![sem] = ContentsIn(lists', s_procq(s))]
<1> USE DEF ChangesQueue
<1>0. sem # NULL /\ \A other \in Sem : other # NULL
  BY Phase1Assumption DEF Phase1Assumption
<1>1. QueueIn(lists, s_key, sem) = ContentsIn(lists, s_procq(s))
  <2>1. CASE s_key[s] = sem
    <3>1. (CHOOSE t \in Semd : s_key[t] = sem) = s
      BY <2>1
    <3> QED BY <2>1, <3>1 DEF QueueIn
  <2>2. CASE s_key[s] = NULL
    BY <1>0, <2>2 DEF QueueIn
  <2> QED BY <2>1, <2>2
<1>2. QueueIn(lists', s_key', sem) = ContentsIn(lists', s_procq(s))
  <2>1. CASE s_key'[s] = sem
    <3>1. (CHOOSE t \in Semd : s_key'[t] = sem) = s
      BY <2>1
    <3> QED BY <2>1, <3>1 DEF QueueIn
  <2>2. CASE s_key'[s] = NULL
    BY <1>0, <2>2 DEF QueueIn
  <2> QED BY <2>1, <2>2
<1>3. ASSUME NEW other \in Sem, other # sem
      PROVE  QueueIn(lists', s_key', other) = QueueIn(lists, s_key, other)
  <2>1. \A t \in Semd : s_key'[t] = other <=> s_key[t] = other
    BY <1>0, <1>3
  <2>2. (CHOOSE t \in Semd : s_key'[t] = other) = (CHOOSE t \in Semd : s_key[t] = other)
    BY <2>1
  <2>3. CASE \E t \in Semd : s_key[t] = other
    <3>1. PICK t \in Semd : t = CHOOSE u \in Semd : s_key[u] = other
      BY <2>3
    <3>2. s_key[t] = other /\ t # s
      BY <1>0, <1>3, <2>3, <3>1
    <3> QED BY <2>1, <2>2, <2>3, <3>1, <3>2 DEF QueueIn
  <2>4. CASE ~\E t \in Semd : s_key[t] = other
    BY <2>1, <2>4 DEF QueueIn
  <2> QED BY <2>3, <2>4
<1> QED BY <1>1, <1>2, <1>3 DEF Queues

(* Who is held, when the state of one PCB changes.                         *)
LEMMA HeldChanges ==
  ASSUME NEW st, NEW st2, NEW p \in Pcb, \A q \in Pcb \ {p} : st2[q] = st[q]
  PROVE  HeldIn(st2) = IF st2[p] = "held" THEN HeldIn(st) \cup {p} ELSE HeldIn(st) \ {p}
BY DEF HeldIn

-----------------------------------------------------------------------------
(* What a step makes of the sequences.                                     *)

(* A node that is initialised is on the list of an initialised head.       *)
LEMMA HeadLive ==
  ASSUME NEW m, NEW home, Tight(m, Node, NoNode, home), NEW n \in Node, Live(m, n, NoNode)
  PROVE  home[n] \in Node /\ Live(m, home[n], NoNode) /\ home[home[n]] = home[n]
<1> DEFINE X == {x \in Node : Live(m, x, NoNode) /\ home[x] = home[n]}
<1>1. \A x \in X : m.next[x] # NoNode /\ m.next[x] \in X
  BY DEF Tight, Good, WellLinked, SameLabel, Live
<1>2. X # {} /\ X \in SUBSET Node
  OBVIOUS
<1>3. \E x \in X : home[x] = x
  <2> HIDE DEF X
  <2> QED BY <1>1, <1>2 DEF Tight, Headed
<1> QED BY <1>3

(* list_add_tail of a node on no list.                                     *)
LEMMA AddTailContents ==
  ASSUME NEW m, NEW home, Tight(m, Node, NoNode, home),
         NEW new \in Node, OnNone(m, new, NoNode), NEW g \in Node, g # new,
         Live(m, g, NoNode), home[g] = g
  PROVE  LET m2 == ListInsert(m, new, m.prev[g], g)
         IN  /\ \A h \in Node \ {g, new} : home[h] = h => ContentsIn(m2, h) = ContentsIn(m, h)
             /\ ContentsIn(m2, g) = Append(ContentsIn(m, g), ContainerOf(new))
<1> DEFINE home2 == [k \in Node |-> IF k = new THEN g ELSE home[k]]
<1>1. (\A k \in Node \ {new} : home2[k] = home[k]) /\ home2[new] = home[g]
  OBVIOUS
<1>2. Live(m, new, NoNode) => home[new] = new
  BY Nodes, OnNoneOwn DEF OnNone, Live
<1> HIDE DEF home2
<1> QED BY <1>1, <1>2, InsertContents

\* No sequence of an observed list is another in m2, but that of g.
OnlyChanges(m, m2, g) == \A h \in Observed \ {g} : ContentsIn(m2, h) = ContentsIn(m, h)

(* A node on no list joins an observed one, and only that one changes.     *)
LEMMA JoinContents ==
  ASSUME IInv, ListsInv, NEW new \in Node \ Observed, OnNone(lists, new, NoNode),
         NEW g \in Observed, Live(lists, g, NoNode)
  PROVE  LET m2 == ListAddTail(lists, new, g)
         IN  /\ OnlyChanges(lists, m2, g)
             /\ ContentsIn(m2, g) = Append(ContentsIn(lists, g), ContainerOf(new))
<1>1. Tight(lists, Node, NoNode, Home) /\ \A h \in Observed : h \in Node /\ Home[h] = h
  BY ObservedHeads DEF ListsInv, Home
<1> HIDE DEF Home
<1> QED BY <1>1, AddTailContents DEF ListAddTail, OnlyChanges

(* A node leaves the observed list it is on.                               *)
LEMMA LeaveContents ==
  ASSUME IInv, ListsInv, NEW entry \in Node, Live(lists, entry, NoNode),
         NEW g \in Observed, Home[entry] = g, g # entry
  PROVE  LET m2 == ListDel(lists, entry)
             c == ContentsIn(lists, g)
         IN  /\ OnlyChanges(lists, m2, g)
             /\ ContainerOf(entry) \in Range(c)
             /\ ContentsIn(m2, g) = Q!RemoveFirst(c, ContainerOf(entry))
             /\ lists.next[g] = entry =>
                  c # <<>> /\ Head(c) = ContainerOf(entry) /\ ContentsIn(m2, g) = Tail(c)
<1> DEFINE home2 == [k \in Node |-> IF k = entry THEN entry ELSE Home[k]]
<1>1. (\A k \in Node \ {entry} : home2[k] = Home[k]) /\ home2[entry] = entry
  OBVIOUS
<1>2. Tight(lists, Node, NoNode, Home) /\ \A h \in Observed : h \in Node /\ Home[h] = h
  BY ObservedHeads DEF ListsInv, Home
<1>3. \A a, b \in Node \ {g} :
        Home[a] = g /\ Home[b] = g /\ ContainerOf(a) = ContainerOf(b) => a = b
  BY SameContainer DEF Home, IInv, FieldTypes, ListsInv
<1> HIDE DEF home2, Home
<1>4. Live(lists, g, NoNode)
  BY <1>2, HeadLive
<1> QED BY <1>1, <1>2, <1>3, <1>4, DelContents DEF OnlyChanges

(* What that leaves as it is.                                              *)
LEMMA OthersSame ==
  ASSUME NEW m, NEW m2, NEW key
  PROVE  /\ OnlyChanges(m, m2, pcbFree_h) =>
              /\ ContentsIn(m2, readyQueue) = ContentsIn(m, readyQueue)
              /\ Queues(m2, key) = Queues(m, key) /\ Children(m2) = Children(m)
         /\ OnlyChanges(m, m2, readyQueue) =>
              /\ ContentsIn(m2, pcbFree_h) = ContentsIn(m, pcbFree_h)
              /\ Queues(m2, key) = Queues(m, key) /\ Children(m2) = Children(m)
         /\ \A s \in Semd : OnlyChanges(m, m2, s_procq(s)) =>
              /\ ContentsIn(m2, pcbFree_h) = ContentsIn(m, pcbFree_h)
              /\ ContentsIn(m2, readyQueue) = ContentsIn(m, readyQueue)
              /\ Children(m2) = Children(m)
         /\ \A p \in Pcb : OnlyChanges(m, m2, p_child(p)) =>
              /\ ContentsIn(m2, pcbFree_h) = ContentsIn(m, pcbFree_h)
              /\ ContentsIn(m2, readyQueue) = ContentsIn(m, readyQueue)
              /\ Queues(m2, key) = Queues(m, key)
              /\ Children(m)[p] = ContentsIn(m, p_child(p))
              /\ Children(m2) = [Children(m) EXCEPT ![p] = ContentsIn(m2, p_child(p))]
<1>1. /\ pcbFree_h \in Observed /\ readyQueue \in Observed
      /\ \A p \in Pcb : p_child(p) \in Observed
      /\ \A s \in Semd : s_procq(s) \in Observed
  BY DEF Observed
<1>2. ASSUME NEW g, OnlyChanges(m, m2, g)
      PROVE  /\ g # pcbFree_h => ContentsIn(m2, pcbFree_h) = ContentsIn(m, pcbFree_h)
             /\ g # readyQueue => ContentsIn(m2, readyQueue) = ContentsIn(m, readyQueue)
  BY <1>1, <1>2 DEF OnlyChanges
<1>3. ASSUME NEW g, OnlyChanges(m, m2, g), \A s \in Semd : g # s_procq(s)
      PROVE  Queues(m2, key) = Queues(m, key)
  BY <1>1, <1>3, SameQueues DEF OnlyChanges
<1>4. ASSUME NEW g, OnlyChanges(m, m2, g), \A p \in Pcb : g # p_child(p)
      PROVE  Children(m2) = Children(m)
  BY <1>1, <1>4, SameChildren DEF OnlyChanges
<1>5. ASSUME NEW p \in Pcb, OnlyChanges(m, m2, p_child(p))
      PROVE  /\ Children(m)[p] = ContentsIn(m, p_child(p))
             /\ Children(m2) = [Children(m) EXCEPT ![p] = ContentsIn(m2, p_child(p))]
  <2>1. \A q \in Pcb \ {p} : ContentsIn(m2, p_child(q)) = ContentsIn(m, p_child(q))
    BY <1>1, <1>5, NodesDiffer DEF OnlyChanges
  <2> QED BY <2>1 DEF Children
<1>6. /\ pcbFree_h # readyQueue
      /\ \A p \in Pcb : p_child(p) # pcbFree_h /\ p_child(p) # readyQueue
      /\ \A s \in Semd : s_procq(s) # pcbFree_h /\ s_procq(s) # readyQueue
      /\ \A p \in Pcb, s \in Semd : p_child(p) # s_procq(s)
  BY NodesDiffer
<1> QED BY <1>2, <1>3, <1>4, <1>5, <1>6

(* When only the list of the children of p changes.                        *)
LEMMA ChildrenChange ==
  ASSUME NEW m, NEW m2, NEW p \in Pcb, OnlyChanges(m, m2, p_child(p))
  PROVE  /\ ContentsIn(m2, pcbFree_h) = ContentsIn(m, pcbFree_h)
         /\ ContentsIn(m2, readyQueue) = ContentsIn(m, readyQueue)
         /\ \A key : Queues(m2, key) = Queues(m, key)
         /\ Children(m)[p] = ContentsIn(m, p_child(p))
         /\ Children(m2) = [Children(m) EXCEPT ![p] = ContentsIn(m2, p_child(p))]
<1> HIDE DEF OnlyChanges, Queues, Children, ContentsIn, p_child
<1> QED BY OthersSame

(* A process on a list of children has a parent, and one on the queue of a  *)
(* semaphore is blocked.                                                   *)
LEMMA InView ==
  ASSUME IInv, ListsInv, NEW p \in Pcb
  PROVE  /\ \A q \in Pcb : p \in Range(Children(lists)[q]) => p_parent[p] = q
         /\ \A sem \in Sem : p \in Range(Queues(lists, s_key)[sem]) => state[p] = "blocked"
<1>1. \A q \in Pcb : p \in Range(Children(lists)[q]) => p_parent[p] = q
  BY InList DEF Children
<1>2. ASSUME NEW sem \in Sem, p \in Range(Queues(lists, s_key)[sem])
      PROVE  state[p] = "blocked"
  <2>1. Queues(lists, s_key)[sem] = QueueIn(lists, s_key, sem)
    BY DEF Queues
  <2>2. CASE \E s \in Semd : s_key[s] = sem
    <3>1. PICK t \in Semd : t = CHOOSE s \in Semd : s_key[s] = sem
      BY <2>2
    <3>2. p \in Range(ContentsIn(lists, s_procq(t)))
      BY <1>2, <2>1, <2>2, <3>1 DEF QueueIn
    <3> QED BY <3>2, InList
  <2>3. CASE ~\E s \in Semd : s_key[s] = sem
    BY <1>2, <2>1, <2>3 DEF QueueIn, Range
  <2> QED BY <2>2, <2>3
<1> QED BY <1>1, <1>2

(* A process whose list of children is of its own has none.                *)
LEMMA NoChildren ==
  ASSUME IInv, ListsInv, NEW p \in Pcb, OnNone(lists, p_child(p), NoNode)
  PROVE  Children(lists)[p] = <<>>
<1>1. p_child(p) \in Node /\ Home[p_child(p)] = p_child(p)
  BY Nodes, HomeAt DEF Home
<1> HIDE DEF Home
<1>2. ContentsIn(lists, p_child(p)) = <<>>
  BY <1>1, EmptyContents DEF ListsInv
<1> QED BY <1>2 DEF Children

-----------------------------------------------------------------------------
(* Each call is a step of ProcTables, or changes none of its sequences.    *)

\* The sequences and the sets of ProcTables, of any state.
Shown(m, key, st) ==
  <<ContentsIn(m, pcbFree_h), ContentsIn(m, readyQueue), Queues(m, key), Children(m), HeldIn(st)>>

LEMMA StutterStep ==
  ASSUME Shown(lists', s_key', state') = Shown(lists, s_key, state), p_prio' = p_prio
  PROVE  UNCHANGED Tables!vars
BY View, ViewNext DEF Tables!vars, Shown

(* Before main, ProcTables has nothing on any queue.                       *)
LEMMA InitTables == Init => Tables!Init
<1> SUFFICES ASSUME Init
             PROVE  Tables!Init
  OBVIOUS
<1>1. \A n \in Node \ {pcbFree_h} : lists.next[n] = NoNode
  BY DEF Init, InitListHead
<1>2. /\ readyQueue \in Node \ {pcbFree_h} /\ \A p \in Pcb : p_child(p) \in Node \ {pcbFree_h}
      /\ \A s \in Semd : s_procq(s) \in Node \ {pcbFree_h}
  BY Nodes, NodesDiffer
<1>3. \A h \in Node \ {pcbFree_h} : ContentsIn(lists, h) = <<>>
  BY <1>1 DEF ContentsIn
<1>4. ContentsIn(lists, pcbFree_h) = <<>>
  <2>1. ListsInv
    BY InitLists
  <2>2. pcbFree_h \in Node /\ Home[pcbFree_h] = pcbFree_h
    BY Nodes, NodesDiffer, HomeAt DEF Home
  <2>3. Isolated(lists, pcbFree_h)
    BY Nodes DEF Init, InitListHead, Isolated
  <2> HIDE DEF Home
  <2> QED BY <2>1, <2>2, <2>3, EmptyContents DEF ListsInv, OnNone
<1>5. Queues(lists, s_key) = [sem \in Sem |-> <<>>]
  <2>1. \A sem \in Sem : QueueIn(lists, s_key, sem) = <<>>
    <3>1. \A s \in Semd, sem \in Sem : s_key[s] # sem
      BY Phase1Assumption DEF Init, Phase1Assumption
    <3> QED BY <3>1 DEF QueueIn
  <2> QED BY <2>1 DEF Queues
<1>6. Children(lists) = [p \in Pcb |-> <<>>]
  BY <1>2, <1>3 DEF Children
<1>7. HeldIn(state) = {} /\ p_prio = [p \in Pcb |-> 0]
  BY DEF Init, HeldIn
<1>8. /\ Contents(pcbFree_h) = <<>> /\ Contents(readyQueue) = <<>>
  BY <1>2, <1>3, <1>4, View
<1> QED BY <1>5, <1>6, <1>7, <1>8, View DEF Tables!Init

(* The rest of initialisation shows nothing.                               *)
LEMMA InitHeadStep ==
  ASSUME NEW m, NEW home, Tight(m, Node, NoNode, home), \A h \in Observed : home[h] = h,
         NEW n \in Node, OnNone(m, n, NoNode), home[n] = n
  PROVE  \A h \in Observed : ContentsIn(InitListHead(m, n), h) = ContentsIn(m, h)
BY InitContents, ObservedHeads

LEMMA ShownSame ==
  ASSUME NEW m, NEW m2, NEW key, NEW st, \A h \in Observed : ContentsIn(m2, h) = ContentsIn(m, h)
  PROVE  Shown(m2, key, st) = Shown(m, key, st)
<1>1. /\ pcbFree_h \in Observed /\ readyQueue \in Observed
      /\ \A p \in Pcb : p_child(p) \in Observed
      /\ \A s \in Semd : s_procq(s) \in Observed
  BY DEF Observed
<1>2. Queues(m2, key) = Queues(m, key) /\ Children(m2) = Children(m)
  BY <1>1, SameQueues, SameChildren
<1> QED BY <1>1, <1>2 DEF Shown

LEMMA InitHeadsStep ==
  ASSUME IInv, ListsInv, InitASLHeads \/ MkEmptyProcQ
  PROVE  UNCHANGED Tables!vars
<1> DEFINE m == InitListHead(lists, semdFree_h)
<1>1. /\ NoNode \notin Node /\ semdFree_h \in Node /\ semd_h \in Node /\ semdFree_h # semd_h
      /\ readyQueue \in Node
      /\ Home[semdFree_h] = semdFree_h /\ Home[semd_h] = semd_h /\ Home[readyQueue] = readyQueue
      /\ \A h \in Observed : Home[h] = h
  BY Nodes, NodesDiffer, HomeAt, ObservedHeads DEF Home
<1>2. Good(lists, Node, NoNode, Home) /\ Tight(lists, Node, NoNode, Home)
  BY DEF ListsInv, Tight
<1>3. CASE InitASLHeads
  <2>1. OnNone(lists, semdFree_h, NoNode) /\ OnNone(lists, semd_h, NoNode)
    BY <1>3 DEF IInv, Shape, Booted, InitASLHeads, Initialised, OnNone, Live
  <2>2. Tight(m, Node, NoNode, Home) /\ Keeps(lists, m, Node, NoNode, {semdFree_h})
    <3> HIDE DEF Home
    <3> QED BY <1>1, <1>2, <2>1, TightInit, InitListHeadLinks
  <2>3. OnNone(m, semd_h, NoNode)
    <3> HIDE DEF m
    <3> QED BY <1>1, <2>1, <2>2 DEF Keeps, OnNone, Live
  <2>4. \A h \in Observed : ContentsIn(m, h) = ContentsIn(lists, h)
    <3> HIDE DEF Home
    <3> QED BY <1>1, <1>2, <2>1, InitHeadStep
  <2>5. \A h \in Observed : ContentsIn(InitListHead(m, semd_h), h) = ContentsIn(m, h)
    <3> HIDE DEF m, Home
    <3> QED BY <1>1, <2>2, <2>3, InitHeadStep
  <2>6. lists' = InitListHead(m, semd_h) /\ UNCHANGED <<p_prio, s_key, state>>
    BY <1>3 DEF InitASLHeads
  <2> HIDE DEF m
  <2>7. \A h \in Observed : ContentsIn(lists', h) = ContentsIn(lists, h)
    BY <2>4, <2>5, <2>6
  <2> QED BY <2>6, <2>7, ShownSame, StutterStep
<1>4. CASE MkEmptyProcQ
  <2>1. OnNone(lists, readyQueue, NoNode)
    BY <1>4 DEF MkEmptyProcQ, Initialised, OnNone
  <2>2. lists' = InitListHead(lists, readyQueue) /\ UNCHANGED <<p_prio, s_key, state>>
    BY <1>4 DEF MkEmptyProcQ
  <2>3. \A h \in Observed : ContentsIn(lists', h) = ContentsIn(lists, h)
    <3> HIDE DEF Home
    <3> QED BY <1>1, <1>2, <2>1, <2>2, InitHeadStep
  <2> QED BY <2>2, <2>3, ShownSame, StutterStep
<1> QED BY <1>3, <1>4

(* An iteration of initASL. *)
LEMMA InitSemdStep ==
  ASSUME IInv, ListsInv, NEW s \in Semd, InitSemd(s)
  PROVE  UNCHANGED Tables!vars
<1> DEFINE n == s_link(s)
           procq == s_procq(s)
           m == InitListHead(lists, procq)
<1>1. /\ NoNode \notin Node /\ n \in Node /\ procq \in Node /\ semdFree_h \in Node
      /\ n # semdFree_h /\ n # procq /\ procq # semdFree_h
      /\ \A h \in Observed : h \in Node \ {semdFree_h, n} /\ Home[h] = h
  BY Nodes, NodesDiffer, ObservedHeads DEF Home
<1>2. /\ OnNone(lists, n, NoNode) /\ OnNone(lists, procq, NoNode)
      /\ Live(lists, semdFree_h, NoNode) /\ ~Live(lists, readyQueue, NoNode)
  BY DEF IInv, Shape, Booted, InitSemd, Initialised, OnNone, Live
<1>3. s_key[s] = NULL /\ s_key' = s_key /\ UNCHANGED <<p_prio, state>>
  <2>1. \A p \in Pcb : state[p] # "blocked"
    BY <1>2 DEF IInv, Shape, PcbPlaced, PcbAt
  <2>2. s_key[s] = NULL
    BY <2>1 DEF ListsInv, Blocked
  <2> QED BY <2>2 DEF InitSemd, IInv, FieldTypes
<1>4. Home[procq] = procq /\ Home[semdFree_h] = semdFree_h
  BY <1>3, HomeAt, NodesDiffer DEF Home
<1>5. Good(lists, Node, NoNode, Home) /\ Tight(lists, Node, NoNode, Home)
  BY DEF ListsInv, Tight
<1>6. /\ Tight(m, Node, NoNode, Home) /\ Keeps(lists, m, Node, NoNode, {procq})
      /\ \A h \in Observed : ContentsIn(m, h) = ContentsIn(lists, h)
  <2> HIDE DEF Home, procq
  <2> QED BY <1>1, <1>2, <1>4, <1>5, TightInit, InitListHeadLinks, InitHeadStep
<1>7. OnNone(m, n, NoNode) /\ Live(m, semdFree_h, NoNode)
  <2> HIDE DEF m
  <2> QED BY <1>1, <1>2, <1>6 DEF Keeps, OnNone, Live
<1>8. \A h \in Observed : ContentsIn(ListInsert(m, n, m.prev[semdFree_h], semdFree_h), h) = ContentsIn(m, h)
  <2> HIDE DEF Home, n, m
  <2> QED BY <1>1, <1>4, <1>6, <1>7, AddTailContents
<1>9. lists' = ListInsert(m, n, m.prev[semdFree_h], semdFree_h)
  BY DEF InitSemd, ListAddTail
<1> HIDE DEF m
<1>10. \A h \in Observed : ContentsIn(lists', h) = ContentsIn(lists, h)
  BY <1>6, <1>8, <1>9
<1> QED BY <1>3, <1>10, ShownSame, StutterStep

(* The operators of ProcQ are the same, whoever takes them from there.     *)
LEMMA SameInsert ==
  ASSUME NEW pr, NEW q, NEW p
  PROVE  Tables!InsertProcQ(pr, q, p) = Q!InsertProcQ(pr, q, p)
BY DEF Tables!InsertProcQ, Q!InsertProcQ, Tables!InsertAt, Q!InsertAt, Tables!Min, Q!Min

LEMMA SameOut ==
  ASSUME NEW q, NEW p
  PROVE  Tables!OutProcQ(q, p) = Q!RemoveFirst(q, p)
BY DEF Tables!OutProcQ, Tables!RemoveFirst, Q!RemoveFirst, Tables!RemoveAt, Q!RemoveAt,
       Tables!SelectInSeq, Q!SelectInSeq, Tables!Min, Q!Min

(* An iteration of initPcbs. *)
LEMMA InitPcbStep ==
  ASSUME IInv, ListsInv, NEW p \in Pcb, InitPcb(p)
  PROVE  Tables!Boot(p)
<1> DEFINE n == p_list(p)
           m == InitListHead(lists, n)
<1>1. /\ NoNode \notin Node /\ n \in Node /\ pcbFree_h \in Node /\ n # pcbFree_h
      /\ \A h \in Observed : h \in Node \ {n} /\ Home[h] = h
      /\ pcbFree_h \in Observed /\ Home[n] = n
  BY Nodes, NodesDiffer, ObservedHeads, HomeAt DEF Home, Observed, InitPcb
<1>2. OnNone(lists, n, NoNode) /\ Live(lists, pcbFree_h, NoNode)
  BY DEF IInv, Shape, Booted, PcbPlaced, PcbAt, InitPcb, OnNone, Live
<1>3. Good(lists, Node, NoNode, Home) /\ Tight(lists, Node, NoNode, Home)
  BY DEF ListsInv, Tight
<1>4. /\ Tight(m, Node, NoNode, Home) /\ Keeps(lists, m, Node, NoNode, {n}) /\ Isolated(m, n)
      /\ \A h \in Observed : ContentsIn(m, h) = ContentsIn(lists, h)
  <2> HIDE DEF Home, n
  <2> QED BY <1>1, <1>2, <1>3, TightInit, InitListHeadLinks, InitHeadStep
<1>5. OnNone(m, n, NoNode) /\ Live(m, pcbFree_h, NoNode)
  <2> HIDE DEF m
  <2> QED BY <1>1, <1>2, <1>4 DEF Keeps, OnNone, Live
<1>6. lists' = ListInsert(m, n, m.prev[pcbFree_h], pcbFree_h)
  BY DEF InitPcb, ListAddTail
<1>7. /\ \A h \in Observed \ {pcbFree_h} : ContentsIn(lists', h) = ContentsIn(m, h)
      /\ ContentsIn(lists', pcbFree_h) = Append(ContentsIn(m, pcbFree_h), ContainerOf(n))
  <2> HIDE DEF Home, n, m
  <2> QED BY <1>1, <1>4, <1>5, <1>6, AddTailContents
<1>8. ContainerOf(n) = p
  BY DEF ContainerOf, p_list
<1> HIDE DEF m, n
<1>9. OnlyChanges(lists, lists', pcbFree_h)
  BY <1>4, <1>7 DEF OnlyChanges
<1>10. /\ ContentsIn(lists', pcbFree_h) = Append(ContentsIn(lists, pcbFree_h), p)
       /\ ContentsIn(lists', readyQueue) = ContentsIn(lists, readyQueue)
       /\ Queues(lists', s_key) = Queues(lists, s_key) /\ Children(lists') = Children(lists)
  <2>1. ContentsIn(lists', pcbFree_h) = Append(ContentsIn(lists, pcbFree_h), p)
    BY <1>1, <1>4, <1>7, <1>8
  <2> QED BY <1>9, <2>1, OthersSame
<1>11. /\ p_prio' = p_prio /\ s_key' = s_key /\ HeldIn(state') = HeldIn(state)
  BY DEF InitPcb, IInv, FieldTypes, HeldIn
<1>12. /\ p \notin HeldIn(state) /\ p \notin Range(ContentsIn(lists, pcbFree_h))
       /\ p \notin Range(ContentsIn(lists, readyQueue))
       /\ \A sem \in Sem : p \notin Range(Queues(lists, s_key)[sem])
  BY InList, InView DEF InitPcb, HeldIn
<1> QED BY <1>10, <1>11, <1>12, View, ViewNext DEF Tables!Boot, Tables!Idle, Tables!Range, Range

(* Facts about a PCB that its caller holds or that is free.                *)
LEMMA Unrelated ==
  ASSUME IInv, ListsInv, NEW p \in Pcb, p_parent[p] = NULL, OnNone(lists, p_child(p), NoNode)
  PROVE  Children(lists)[p] = <<>> /\ \A prnt \in Pcb : p \notin Range(Children(lists)[prnt])
<1>1. NULL \notin Pcb
  BY Phase1Assumption DEF Phase1Assumption
<1> QED BY <1>1, NoChildren, InView

(* allocPcb. *)
LEMMA AllocPcbStep ==
  ASSUME IInv, ListsInv, NEW prio \in Prio, AllocPcb(prio)
  PROVE  Tables!Alloc(prio)
<1>1. PICK p \in Pcb :
        LET d  == ListDel(lists, p_list(p))
            d2 == InitListHead(d, p_child(p))
            home2 == HomeOf(p_parent, p_semAdd', state', s_key)
        IN  /\ lists.next[pcbFree_h] = p_list(p) /\ state[p] = "free" /\ p_parent[p] = NULL
            /\ lists' = InitListHead(d2, p_sib(p))
            /\ s_key' = s_key
            /\ \A q \in Pcb \ {p} : state'[q] = state[q]
            /\ state'[p] = "held"
            /\ p_prio' = [p_prio EXCEPT ![p] = prio]
            /\ Live(lists, p_list(p), NoNode) /\ Home[p_list(p)] = pcbFree_h
            /\ Tight(d, Node, NoNode, home2) /\ OnNone(d, p_child(p), NoNode)
            /\ Tight(d2, Node, NoNode, home2) /\ OnNone(d2, p_sib(p), NoNode)
            /\ home2[p_child(p)] = p_child(p) /\ home2[p_sib(p)] = p_sib(p)
  BY AllocPcbSteps
<1> DEFINE n == p_list(p)
           d == ListDel(lists, n)
           d2 == InitListHead(d, p_child(p))
           home2 == HomeOf(p_parent, p_semAdd', state', s_key)
<1>2. /\ n \in Node /\ p_child(p) \in Node /\ p_sib(p) \in Node /\ n # pcbFree_h
      /\ pcbFree_h \in Observed /\ \A h \in Observed : home2[h] = h
  BY Nodes, NodesDiffer, ObservedHeads DEF Observed
<1>3. /\ OnlyChanges(lists, d, pcbFree_h)
      /\ ContentsIn(lists, pcbFree_h) # <<>> /\ Head(ContentsIn(lists, pcbFree_h)) = p
      /\ ContentsIn(d, pcbFree_h) = Tail(ContentsIn(lists, pcbFree_h))
  <2>1. ContainerOf(n) = p
    BY DEF ContainerOf, p_list
  <2>2. lists.next[pcbFree_h] = n /\ Live(lists, n, NoNode) /\ Home[n] = pcbFree_h
    BY <1>1
  <2> HIDE DEF n, Home
  <2> QED BY <1>2, <2>1, <2>2, LeaveContents DEF d
<1>4. \A h \in Observed : ContentsIn(d2, h) = ContentsIn(d, h)
  <2>1. Tight(d, Node, NoNode, home2) /\ OnNone(d, p_child(p), NoNode) /\ home2[p_child(p)] = p_child(p)
    BY <1>1
  <2> HIDE DEF d, home2
  <2> QED BY <1>2, <2>1, InitHeadStep
<1>5. \A h \in Observed : ContentsIn(lists', h) = ContentsIn(d2, h)
  <2>1. /\ Tight(d2, Node, NoNode, home2) /\ OnNone(d2, p_sib(p), NoNode) /\ home2[p_sib(p)] = p_sib(p)
        /\ lists' = InitListHead(d2, p_sib(p))
    BY <1>1
  <2> HIDE DEF d2, home2
  <2> QED BY <1>2, <2>1, InitHeadStep
<1> HIDE DEF d, d2, home2
<1>6. OnlyChanges(lists, lists', pcbFree_h)
  BY <1>3, <1>4, <1>5 DEF OnlyChanges
<1>7. ContentsIn(lists', pcbFree_h) = Tail(ContentsIn(lists, pcbFree_h))
  BY <1>2, <1>3, <1>4, <1>5
<1>8. Children(lists)[p] = <<>> /\ \A prnt \in Pcb : p \notin Range(Children(lists)[prnt])
  <2>1. OnNone(lists, p_child(p), NoNode) /\ p_parent[p] = NULL
    BY <1>1 DEF IInv, Shape, PcbPlaced, PcbAt
  <2> QED BY <2>1, Unrelated
<1>9. HeldIn(state') = HeldIn(state) \cup {p}
  BY <1>1, HeldChanges
<1>10. /\ ContentsIn(lists', readyQueue) = ContentsIn(lists, readyQueue)
       /\ Queues(lists', s_key) = Queues(lists, s_key) /\ Children(lists') = Children(lists)
  BY <1>6, OthersSame
<1>11. s_key' = s_key /\ p_prio' = [p_prio EXCEPT ![p] = prio]
  BY <1>1
<1>12. [q \in Pcb |-> Contents(p_child(q))][p] = <<>> /\ Tables!Orphan(p)
  BY <1>8, View DEF Tables!Orphan, Tables!Range, Range
<1>13. Contents(pcbFree_h) # <<>> /\ Head(Contents(pcbFree_h)) = p
  BY <1>3, View
<1> QED BY <1>7, <1>9, <1>10, <1>11, <1>12, <1>13, View, ViewNext DEF Tables!Alloc

(* freePcb. *)
LEMMA FreePcbStep ==
  ASSUME IInv, ListsInv, NEW p \in Pcb, FreePcb(p)
  PROVE  Tables!Free(p)
<1>1. /\ p_list(p) \in Node \ Observed /\ pcbFree_h \in Observed /\ ContainerOf(p_list(p)) = p
      /\ OnNone(lists, p_list(p), NoNode) /\ Live(lists, pcbFree_h, NoNode)
      /\ OnNone(lists, p_child(p), NoNode) /\ p_parent[p] = NULL
  <2>1. /\ state[p] = "held" /\ Isolated(lists, p_list(p)) /\ Live(lists, pcbFree_h, NoNode)
        /\ p_parent[p] = NULL /\ ListEmpty(lists, p_child(p))
    BY DEF FreePcb, Held, IInv, Shape, Booted, PcbPlaced, PcbAt
  <2>2. Isolated(lists, p_child(p))
    BY <2>1, Nodes, EmptyIsolated DEF ListsInv, Tight
  <2> QED BY <2>1, <2>2, Nodes, ObservedHeads DEF OnNone, Observed, ContainerOf, p_list
<1>2. /\ OnlyChanges(lists, lists', pcbFree_h)
      /\ ContentsIn(lists', pcbFree_h) = Append(ContentsIn(lists, pcbFree_h), p)
  BY <1>1, JoinContents DEF FreePcb
<1>3. /\ ContentsIn(lists', readyQueue) = ContentsIn(lists, readyQueue)
      /\ Queues(lists', s_key) = Queues(lists, s_key) /\ Children(lists') = Children(lists)
  BY <1>2, OthersSame
<1>4. HeldIn(state') = HeldIn(state) \ {p} /\ p \in HeldIn(state)
  BY DEF FreePcb, Held, HeldIn, IInv, FieldTypes
<1>5. Children(lists)[p] = <<>> /\ \A prnt \in Pcb : p \notin Range(Children(lists)[prnt])
  BY <1>1, Unrelated
<1>6. s_key' = s_key /\ p_prio' = p_prio
  BY DEF FreePcb
<1> QED BY <1>2, <1>3, <1>4, <1>5, <1>6, View, ViewNext
        DEF Tables!Free, Tables!Orphan, Tables!Range, Range

(* removeProcQ and outProcQ. *)
LEMMA LeaveReadyStep ==
  ASSUME IInv, ListsInv, NEW p \in Pcb, state[p] = "ready", lists' = ListDel(lists, p_list(p)),
         state' = [state EXCEPT ![p] = "held"], UNCHANGED <<p_prio, s_key>>
  PROVE  /\ Tables!Out(p)
         /\ lists.next[readyQueue] = p_list(p) => Tables!TakeFirst
<1>1. /\ p_list(p) \in Node /\ readyQueue \in Observed /\ ContainerOf(p_list(p)) = p
      /\ readyQueue # p_list(p) /\ Live(lists, p_list(p), NoNode) /\ Home[p_list(p)] = readyQueue
  BY Nodes, NodesDiffer, HomeAt
     DEF Observed, ContainerOf, p_list, Home, IInv, Shape, PcbPlaced, PcbAt
<1> HIDE DEF Home
<1>2. /\ OnlyChanges(lists, lists', readyQueue)
      /\ p \in Range(ContentsIn(lists, readyQueue))
      /\ ContentsIn(lists', readyQueue) = Q!RemoveFirst(ContentsIn(lists, readyQueue), p)
      /\ lists.next[readyQueue] = p_list(p) =>
           ContentsIn(lists, readyQueue) # <<>> /\ Head(ContentsIn(lists, readyQueue)) = p
  BY <1>1, LeaveContents
<1>3. /\ ContentsIn(lists', pcbFree_h) = ContentsIn(lists, pcbFree_h)
      /\ Queues(lists', s_key) = Queues(lists, s_key) /\ Children(lists') = Children(lists)
  BY <1>2, OthersSame
<1>4. HeldIn(state') = HeldIn(state) \cup {p}
  BY DEF HeldIn, IInv, FieldTypes
<1>5. Tables!Out(p)
  <2>1. ContentsIn(lists', readyQueue) = Tables!OutProcQ(ContentsIn(lists, readyQueue), p)
    BY <1>2, SameOut
  <2> QED BY <1>2, <1>3, <1>4, <2>1, View, ViewNext DEF Tables!Out, Tables!Range, Range
<1>6. lists.next[readyQueue] = p_list(p) => Tables!TakeFirst
  BY <1>2, <1>5, View DEF Tables!TakeFirst
<1> QED BY <1>5, <1>6

LEMMA RemoveProcQStep ==
  ASSUME IInv, ListsInv, RemoveProcQ
  PROVE  Tables!TakeFirst
<1>1. PICK p \in Pcb : /\ lists.next[readyQueue] = p_list(p) /\ state[p] = "ready"
                       /\ lists' = ListDel(lists, p_list(p))
                       /\ state' = [state EXCEPT ![p] = "held"]
  BY RemoveProcQTakes
<1> QED BY <1>1, LeaveReadyStep DEF RemoveProcQ

LEMMA OutProcQStep ==
  ASSUME IInv, ListsInv, NEW p \in Pcb, OutProcQ(p)
  PROVE  Tables!Out(p)
<1>1. state[p] = "ready"
  BY OutProcQReady
<1> QED BY <1>1, LeaveReadyStep DEF OutProcQ

(* insertProcQ. *)
LEMMA InsertLast ==
  ASSUME NEW S, NEW q \in Seq(S), NEW p \in S
  PROVE  Q!InsertAt(q, Len(q) + 1, p) = Append(q, p)
<1> DEFINE a == Q!InsertAt(q, Len(q) + 1, p)
           b == Append(q, p)
<1>1. /\ a \in Seq(S) /\ Len(a) = Len(q) + 1
      /\ \A i \in 1 .. Len(q) + 1 : a[i] = IF i < Len(q) + 1 THEN q[i] ELSE p
  <2>1. Len(q) + 1 \in 1 .. Len(q) + 1
    OBVIOUS
  <2>2. /\ a \in Seq(S) /\ Len(a) = Len(q) + 1
        /\ \A i \in 1 .. Len(q) + 1 :
             a[i] = IF i < Len(q) + 1 THEN q[i] ELSE IF i = Len(q) + 1 THEN p ELSE q[i - 1]
    BY <2>1, Q!InsertAtElem
  <2> HIDE DEF a
  <2> QED BY <2>2
<1>2. /\ b \in Seq(S) /\ Len(b) = Len(q) + 1
      /\ \A i \in 1 .. Len(q) + 1 : b[i] = IF i < Len(q) + 1 THEN q[i] ELSE p
  OBVIOUS
<1> HIDE DEF a, b
<1>3. a = b
  BY <1>1, <1>2, SameSequence
<1> QED BY <1>3 DEF a, b

LEMMA InsertPlace ==
  ASSUME NEW S, NEW pr, NEW q \in Seq(S), NEW p \in S
  PROVE  /\ \A k \in 1 .. Len(q) :
              /\ pr[p] > pr[q[k]]
              /\ \A i \in 1 .. k - 1 : ~(pr[p] > pr[q[i]])
              => Q!InsertProcQ(pr, q, p) = Q!InsertAt(q, k, p)
         /\ (\A i \in 1 .. Len(q) : ~(pr[p] > pr[q[i]])) => Q!InsertProcQ(pr, q, p) = Append(q, p)
<1>1. PICK j \in 1 .. Len(q) + 1 :
        /\ Q!InsertProcQ(pr, q, p) = Q!InsertAt(q, j, p)
        /\ j <= Len(q) => pr[p] > pr[q[j]]
        /\ \A i \in 1 .. Len(q) : i < j => ~(pr[p] > pr[q[i]])
  BY Q!InsertProcQPlace
<1>2. ASSUME NEW k \in 1 .. Len(q), pr[p] > pr[q[k]], \A i \in 1 .. k - 1 : ~(pr[p] > pr[q[i]])
      PROVE  j = k
  <2>1. ~(k < j)
    BY <1>1, <1>2
  <2>2. ~(j < k)
    <3> SUFFICES ASSUME j < k
                 PROVE  FALSE
      OBVIOUS
    <3>1. j \in 1 .. k - 1 /\ j <= Len(q)
      OBVIOUS
    <3> QED BY <1>1, <1>2, <3>1
  <2> QED BY <2>1, <2>2
<1>3. ASSUME \A i \in 1 .. Len(q) : ~(pr[p] > pr[q[i]])
      PROVE  j = Len(q) + 1
  <2>1. ~(j <= Len(q))
    BY <1>1, <1>3
  <2> QED BY <2>1
<1> QED BY <1>1, <1>2, <1>3, InsertLast

LEMMA InsertReadyStep ==
  ASSUME IInv, ListsInv, NEW p \in Pcb, Held(p), Queue(p),
         OnlyChanges(lists, lists', readyQueue),
         ContentsIn(lists', readyQueue) = Q!InsertProcQ(p_prio, ContentsIn(lists, readyQueue), p)
  PROVE  Tables!Insert(p)
<1>1. /\ ContentsIn(lists', pcbFree_h) = ContentsIn(lists, pcbFree_h)
      /\ Queues(lists', s_key) = Queues(lists, s_key) /\ Children(lists') = Children(lists)
  BY OthersSame
<1>2. HeldIn(state') = HeldIn(state) \ {p} /\ p \in HeldIn(state)
  BY DEF Queue, Held, HeldIn, IInv, FieldTypes
<1>3. s_key' = s_key /\ p_prio' = p_prio
  BY DEF Queue
<1>4. ContentsIn(lists', readyQueue) = Tables!InsertProcQ(p_prio, ContentsIn(lists, readyQueue), p)
  BY SameInsert
<1> QED BY <1>1, <1>2, <1>3, <1>4, View, ViewNext DEF Tables!Insert

(* What the queue is before insertProcQ. *)
LEMMA ReadyContents ==
  ASSUME IInv, ListsInv, NEW p \in Pcb, Held(p)
  PROVE  LET pos == ListForEach(lists, readyQueue)
             c   == ContentsIn(lists, readyQueue)
         IN  /\ pos \in Seq(Node) /\ c \in Seq(Container) /\ Len(c) = Len(pos) /\ p \in Container
             /\ \A i \in 1 .. Len(pos) : c[i] = ContainerOf(pos[i])
             /\ p_list(p) \in Node \ Observed /\ ContainerOf(p_list(p)) = p
             /\ OnNone(lists, p_list(p), NoNode) /\ Home[p_list(p)] = p_list(p)
             /\ readyQueue \in Observed /\ Live(lists, readyQueue, NoNode)
             /\ readyQueue \in Node /\ Home[readyQueue] = readyQueue
<1>1. /\ p_list(p) \in Node \ Observed /\ ContainerOf(p_list(p)) = p
      /\ readyQueue \in Node /\ readyQueue \in Observed
      /\ Home[readyQueue] = readyQueue
  BY Nodes, NodesDiffer, ObservedHeads DEF Home, Observed, ContainerOf, p_list
<1>2. /\ OnNone(lists, p_list(p), NoNode) /\ Home[p_list(p)] = p_list(p)
      /\ Live(lists, readyQueue, NoNode)
  BY HomeAt DEF IInv, Shape, PcbPlaced, PcbAt, Held, OnNone, Home
<1>3. p \in Container
  BY <1>1 DEF Container
<1> HIDE DEF Home
<1> QED BY <1>1, <1>2, <1>3, ContentsElem DEF ListsInv

LEMMA InsertProcQLastStep ==
  ASSUME IInv, ListsInv, NEW p \in Pcb, InsertProcQLast(p)
  PROVE  Tables!Insert(p)
<1> DEFINE pos == ListForEach(lists, readyQueue)
           c == ContentsIn(lists, readyQueue)
<1>1. Held(p) /\ Queue(p) /\ lists' = ListAddTail(lists, p_list(p), readyQueue)
      /\ \A x \in Range(pos) : ~(p_prio[p] > p_prio[ContainerOf(x)])
  BY DEF InsertProcQLast, Precedes
<1>2. /\ pos \in Seq(Node) /\ c \in Seq(Container) /\ Len(c) = Len(pos) /\ p \in Container
      /\ \A i \in 1 .. Len(pos) : c[i] = ContainerOf(pos[i])
  BY <1>1, ReadyContents
<1>3. OnlyChanges(lists, lists', readyQueue) /\ ContentsIn(lists', readyQueue) = Append(c, p)
  <2> HIDE DEF Home
  <2>1. /\ p_list(p) \in Node \ Observed /\ ContainerOf(p_list(p)) = p
        /\ OnNone(lists, p_list(p), NoNode) /\ readyQueue \in Observed /\ Live(lists, readyQueue, NoNode)
    BY <1>1, ReadyContents
  <2> QED BY <1>1, <2>1, JoinContents
<1> HIDE DEF pos, c
<1>4. \A i \in 1 .. Len(c) : ~(p_prio[p] > p_prio[c[i]])
  <2>1. \A i \in 1 .. Len(pos) : pos[i] \in Range(pos)
    BY <1>2 DEF Range
  <2> QED BY <1>1, <1>2, <2>1
<1>5. Q!InsertProcQ(p_prio, c, p) = Append(c, p)
  BY <1>2, <1>4, InsertPlace
<1> QED BY <1>1, <1>3, <1>5, InsertReadyStep DEF c

LEMMA InsertProcQAheadStep ==
  ASSUME IInv, ListsInv, NEW p \in Pcb, InsertProcQAhead(p)
  PROVE  Tables!Insert(p)
<1> DEFINE pos == ListForEach(lists, readyQueue)
           c == ContentsIn(lists, readyQueue)
<1>1. PICK q \in Pcb, k \in DOMAIN pos :
        /\ state[q] = "ready" /\ pos[k] = p_list(q) /\ p_prio[p] > p_prio[ContainerOf(pos[k])]
        /\ \A j \in 1 .. k - 1 : ~(p_prio[p] > p_prio[ContainerOf(pos[j])])
        /\ lists' = ListInsert(lists, p_list(p), lists.prev[p_list(q)], p_list(q))
  BY DEF InsertProcQAhead, Precedes
<1>2. Held(p) /\ Queue(p)
  BY DEF InsertProcQAhead
<1>3. /\ pos \in Seq(Node) /\ c \in Seq(Container) /\ Len(c) = Len(pos) /\ p \in Container
      /\ \A i \in 1 .. Len(pos) : c[i] = ContainerOf(pos[i])
  BY <1>2, ReadyContents
<1>4. k \in 1 .. Len(c)
  BY <1>1, <1>3
<1> DEFINE n == p_list(p)
           at == p_list(q)
           home2 == [x \in Node |-> IF x = n THEN readyQueue ELSE Home[x]]
<1>5. /\ n \in Node \ Observed /\ ContainerOf(n) = p /\ OnNone(lists, n, NoNode) /\ Home[n] = n
      /\ readyQueue \in Node /\ readyQueue \in Observed /\ Live(lists, readyQueue, NoNode)
      /\ Home[readyQueue] = readyQueue /\ n # readyQueue
  <2> HIDE DEF Home
  <2> QED BY <1>2, ReadyContents
<1>6. at \in Node /\ Live(lists, at, NoNode) /\ Home[at] = readyQueue /\ at # n
  BY <1>1, <1>2, Nodes, NodesDiffer, HomeAt DEF Held, IInv, Shape, PcbPlaced, PcbAt, Home
<1>7. /\ \A x \in Node \ {n} : home2[x] = Home[x]
      /\ home2[n] = Home[at]
  BY <1>5, <1>6
<1>8. Tight(lists, Node, NoNode, Home) /\ \A h \in Observed : h \in Node \ {n} /\ Home[h] = h
  BY ObservedHeads DEF ListsInv, Home
<1>9. /\ OnlyChanges(lists, lists', readyQueue)
      /\ ContentsIn(lists', readyQueue) = Q!InsertAt(c, k, p)
  <2>1. lists' = ListInsert(lists, n, lists.prev[at], at) /\ pos[k] = at
    BY <1>1
  <2> DEFINE m2 == ListInsert(lists, n, lists.prev[at], at)
  <2> HIDE DEF n, at, home2, Home
  <2>2. /\ \A h \in Node \ {readyQueue, n} : Home[h] = h => ContentsIn(m2, h) = ContentsIn(lists, h)
        /\ \A i \in 1 .. Len(ContentsIn(lists, readyQueue)) : ListForEach(lists, readyQueue)[i] = at =>
             ContentsIn(m2, readyQueue) = Q!InsertAt(ContentsIn(lists, readyQueue), i, ContainerOf(n))
    BY <1>5, <1>6, <1>7, <1>8, InsertContents
  <2> HIDE DEF m2
  <2>3. ContentsIn(m2, readyQueue) = Q!InsertAt(c, k, p)
    BY <1>4, <1>5, <2>1, <2>2
  <2>4. OnlyChanges(lists, m2, readyQueue)
    BY <1>8, <2>2 DEF OnlyChanges
  <2> QED BY <2>1, <2>3, <2>4 DEF m2
<1> HIDE DEF pos, c
<1>10. p_prio[p] > p_prio[c[k]] /\ \A i \in 1 .. k - 1 : ~(p_prio[p] > p_prio[c[i]])
  <2>1. \A i \in 1 .. k - 1 : i \in 1 .. Len(pos)
    BY <1>3, <1>4
  <2>2. k \in 1 .. Len(pos)
    BY <1>3, <1>4
  <2> QED BY <1>1, <1>3, <2>1, <2>2
<1>11. Q!InsertProcQ(p_prio, c, p) = Q!InsertAt(c, k, p)
  BY <1>3, <1>4, <1>10, InsertPlace
<1> QED BY <1>2, <1>9, <1>11, InsertReadyStep DEF c

-----------------------------------------------------------------------------
(* insertChild. *)
LEMMA InsertChildStep ==
  ASSUME IInv, ListsInv, NEW prnt \in Pcb, NEW p \in Pcb, InsertChild(prnt, p)
  PROVE  Tables!Adopt(prnt, p)
<1>1. /\ p_sib(p) \in Node \ Observed /\ p_child(prnt) \in Observed /\ ContainerOf(p_sib(p)) = p
      /\ OnNone(lists, p_sib(p), NoNode) /\ Live(lists, p_child(prnt), NoNode)
      /\ OnNone(lists, p_child(p), NoNode) /\ p_parent[p] = NULL
  <2>1. /\ OnNone(lists, p_sib(p), NoNode) /\ Live(lists, p_child(prnt), NoNode)
        /\ p_parent[p] = NULL /\ ListEmpty(lists, p_child(p))
    BY DEF InsertChild, Allocated, Held, IInv, Shape, PcbPlaced, PcbAt
  <2>2. Isolated(lists, p_child(p))
    BY <2>1, Nodes, EmptyIsolated DEF ListsInv, Tight
  <2> QED BY <2>1, <2>2, Nodes, ObservedHeads DEF OnNone, Observed, ContainerOf, p_sib
<1>2. /\ OnlyChanges(lists, lists', p_child(prnt))
      /\ ContentsIn(lists', p_child(prnt)) = Append(ContentsIn(lists, p_child(prnt)), p)
  BY <1>1, JoinContents DEF InsertChild
<1>3. /\ ContentsIn(lists', pcbFree_h) = ContentsIn(lists, pcbFree_h)
      /\ ContentsIn(lists', readyQueue) = ContentsIn(lists, readyQueue)
      /\ Queues(lists', s_key) = Queues(lists, s_key)
      /\ Children(lists') = [Children(lists) EXCEPT ![prnt] = Append(@, p)]
  <2>1. /\ Children(lists)[prnt] = ContentsIn(lists, p_child(prnt))
        /\ Children(lists') = [Children(lists) EXCEPT ![prnt] = ContentsIn(lists', p_child(prnt))]
    BY <1>2, ChildrenChange
  <2> QED BY <1>2, <2>1, ChildrenChange
<1>4. /\ p \in HeldIn(state) /\ HeldIn(state') = HeldIn(state)
      /\ s_key' = s_key /\ p_prio' = p_prio
  BY DEF InsertChild, Held, HeldIn
<1>5. Children(lists)[p] = <<>> /\ \A q \in Pcb : p \notin Range(Children(lists)[q])
  BY <1>1, Unrelated
<1>6. [q \in Pcb |-> Contents(p_child(q))][p] = <<>> /\ Tables!Orphan(p)
  BY <1>5, View DEF Tables!Orphan, Tables!Range, Range
<1> QED BY <1>3, <1>4, <1>6, View, ViewNext DEF Tables!Adopt

(* removeChild and outChild. *)
LEMMA LeaveParentStep ==
  ASSUME IInv, ListsInv, NEW p \in Pcb, p_parent[p] # NULL,
         lists' = InitListHead(ListDel(lists, p_sib(p)), p_sib(p)),
         UNCHANGED <<p_prio, state, s_key>>
  PROVE  p_parent[p] \in Pcb /\ Tables!Leave(p_parent[p], p)
<1> DEFINE prnt == p_parent[p]
           n == p_sib(p)
<1>1. /\ prnt \in Pcb /\ n \in Node /\ p_child(prnt) \in Observed /\ p_child(prnt) # n
      /\ ContainerOf(n) = p /\ Live(lists, n, NoNode) /\ Home[n] = p_child(prnt)
  BY Nodes, NodesDiffer, HomeAt
     DEF Observed, ContainerOf, p_sib, Home, IInv, FieldTypes, Shape, PcbPlaced, PcbAt
<1>2. lists' = ListDel(lists, n)
  <2> HIDE DEF n, Home
  <2> QED BY <1>1, Nodes, DelInit DEF n, ListsInv, Tight
<1>3. /\ OnlyChanges(lists, lists', p_child(prnt))
      /\ p \in Range(ContentsIn(lists, p_child(prnt)))
      /\ ContentsIn(lists', p_child(prnt)) = Q!RemoveFirst(ContentsIn(lists, p_child(prnt)), p)
  <2> HIDE DEF n, prnt, Home
  <2> QED BY <1>1, <1>2, LeaveContents
<1> HIDE DEF prnt, n
<1>4. /\ ContentsIn(lists', pcbFree_h) = ContentsIn(lists, pcbFree_h)
      /\ ContentsIn(lists', readyQueue) = ContentsIn(lists, readyQueue)
      /\ Queues(lists', s_key) = Queues(lists, s_key)
      /\ p \in Range(Children(lists)[prnt])
      /\ Children(lists') = [Children(lists) EXCEPT ![prnt] = Q!RemoveFirst(@, p)]
  <2>1. /\ ContentsIn(lists', pcbFree_h) = ContentsIn(lists, pcbFree_h)
        /\ ContentsIn(lists', readyQueue) = ContentsIn(lists, readyQueue)
        /\ Queues(lists', s_key) = Queues(lists, s_key)
    BY <1>1, <1>3, ChildrenChange
  <2>2. Children(lists)[prnt] = ContentsIn(lists, p_child(prnt))
    BY <1>1 DEF Children
  <2>3. OnlyChanges(lists, lists', p_child(prnt)) /\ prnt \in Pcb
    BY <1>1, <1>3
  <2>4. Children(lists') = [Children(lists) EXCEPT ![prnt] = ContentsIn(lists', p_child(prnt))]
    <3> HIDE DEF Children, OnlyChanges
    <3> QED BY <2>3, ChildrenChange
  <2> QED BY <1>3, <2>1, <2>2, <2>4
<1>5. Q!RemoveFirst(Children(lists)[prnt], p) = Tables!RemoveFirst(Children(lists)[prnt], p)
  BY DEF Tables!RemoveFirst, Q!RemoveFirst, Tables!RemoveAt, Q!RemoveAt,
         Tables!SelectInSeq, Q!SelectInSeq, Tables!Min, Q!Min
<1>6. Tables!Leave(prnt, p)
  BY <1>4, <1>5, View, ViewNext DEF Tables!Leave, Tables!Range, Range
<1> QED BY <1>1, <1>6 DEF prnt

LEMMA OutChildStep ==
  ASSUME IInv, ListsInv, NEW p \in Pcb, OutChild(p)
  PROVE  \E prnt \in Pcb : Tables!Leave(prnt, p)
BY LeaveParentStep DEF OutChild

LEMMA RemoveChildStep ==
  ASSUME IInv, ListsInv, NEW p \in Pcb, RemoveChild(p)
  PROVE  \E prnt, c \in Pcb : Tables!Leave(prnt, c)
BY RemoveChildTakes, LeaveParentStep DEF RemoveChild

-----------------------------------------------------------------------------
(* insertBlocked.                                                          *)

(* As long as a descriptor has no key, fewer semaphores than there are PCBs *)
(* have a queue.                                                           *)
LEMMA QueuesLeft ==
  ASSUME NEW m, NEW key, NEW s \in Semd, key[s] = NULL
  PROVE  Cardinality({sem \in Sem : Queues(m, key)[sem] # <<>>}) < Cardinality(Pcb)
<1> DEFINE U == {sem \in Sem : Queues(m, key)[sem] # <<>>}
           D == Semd \ {s}
           K == {key[t] : t \in D}
<1>1. U \subseteq K
  <2> SUFFICES ASSUME NEW sem \in Sem, Queues(m, key)[sem] # <<>>
               PROVE  sem \in K
    OBVIOUS
  <2>1. PICK t \in Semd : key[t] = sem
    BY DEF Queues, QueueIn
  <2>2. t # s
    BY <2>1, Phase1Assumption DEF Phase1Assumption
  <2> QED BY <2>1, <2>2
<1>2. /\ IsFiniteSet(D) /\ Cardinality(D) = Cardinality(Pcb) - 1
      /\ Cardinality(Pcb) \in Nat /\ Cardinality(D) \in Nat
  <2>1. IsFiniteSet(Semd) /\ Cardinality(Semd) = Cardinality(Pcb) /\ Cardinality(Semd) \in Nat
    BY Phase1Assumption, FS_CardinalityType DEF Phase1Assumption
  <2> QED BY <2>1, FS_RemoveElement, FS_CardinalityType
<1>3. IsFiniteSet(K) /\ Cardinality(K) <= Cardinality(D)
  <2>1. \A x \in D : key[x] \in K
    OBVIOUS
  <2> DEFINE g == [x \in D |-> key[x]]
  <2>2. g \in Surjection(D, K)
    BY DEF Surjection
  <2> HIDE DEF D, K, g
  <2> QED BY <1>2, <2>2, FS_Surjection
<1>4. Cardinality(U) <= Cardinality(K) /\ Cardinality(U) \in Nat /\ Cardinality(K) \in Nat
  <2> HIDE DEF U, K
  <2> QED BY <1>1, <1>3, FS_Subset, FS_CardinalityType
<1> QED BY <1>2, <1>3, <1>4

LEMMA SameCardinality ==
  ASSUME NEW S
  PROVE  Tables!Cardinality(S) = Cardinality(S)
BY Zenon DEF Tables!Cardinality, Cardinality

(* What every insertBlocked is to ProcTables, when p joins the queue of    *)
(* sem and a descriptor is to be had.                                      *)
LEMMA BlockStep ==
  ASSUME IInv, NEW sem \in Sem, NEW p \in Pcb, Held(p), Block(p, sem),
         ContentsIn(lists', pcbFree_h) = ContentsIn(lists, pcbFree_h),
         ContentsIn(lists', readyQueue) = ContentsIn(lists, readyQueue),
         Children(lists') = Children(lists),
         Queues(lists', s_key') = [Queues(lists, s_key) EXCEPT ![sem] = Append(@, p)],
         \/ Queues(lists, s_key)[sem] # <<>>
         \/ Cardinality({x \in Sem : Queues(lists, s_key)[x] # <<>>}) < Cardinality(Pcb)
  PROVE  Tables!Block(sem, p)
<1>1. p \in HeldIn(state) /\ HeldIn(state') = HeldIn(state) \ {p} /\ p_prio' = p_prio
  BY DEF Block, pcbVars, Held, HeldIn, IInv, FieldTypes
<1>2. DOMAIN Queues(lists, s_key) = Sem
  BY DEF Queues
<1>3. Tables!CanBlock(Queues(lists, s_key), sem, Tables!Semds)
  <2>1. Tables!SemdInUse(Queues(lists, s_key)) = {x \in Sem : Queues(lists, s_key)[x] # <<>>}
    BY <1>2 DEF Tables!SemdInUse
  <2>2. /\ Tables!Semds = Cardinality(Pcb)
        /\ Tables!CanBlock(Queues(lists, s_key), sem, Cardinality(Pcb)) <=>
             \/ Queues(lists, s_key)[sem] # <<>>
             \/ Cardinality(Tables!SemdInUse(Queues(lists, s_key))) < Cardinality(Pcb)
    BY SameCardinality DEF Tables!Semds, Tables!CanBlock
  <2> QED BY <2>1, <2>2, Zenon
<1>4. Queues(lists', s_key') = Tables!InsertBlocked(Queues(lists, s_key), sem, p, Tables!Semds)
  BY <1>3 DEF Tables!InsertBlocked
<1> QED BY <1>1, <1>4, View, ViewNext DEF Tables!Block

LEMMA InsertBlockedActiveStep ==
  ASSUME IInv, ListsInv, NEW sem \in Sem, NEW p \in Pcb, InsertBlockedActive(sem, p)
  PROVE  Tables!Block(sem, p)
<1>1. PICK s \in Semd : s_key[s] = sem /\ lists' = ListAddTail(lists, p_list(p), s_procq(s))
  BY DEF InsertBlockedActive, Found
<1>2. /\ sem # NULL /\ state[p] = "held" /\ Live(lists, readyQueue, NoNode)
      /\ OnNone(lists, p_list(p), NoNode)
  BY Phase1Assumption
     DEF Phase1Assumption, InsertBlockedActive, Held, IInv, Shape, PcbPlaced, PcbAt, OnNone
<1>3. /\ p_list(p) \in Node \ Observed /\ ContainerOf(p_list(p)) = p
      /\ s_procq(s) \in Observed /\ s_procq(s) \in Node /\ Home[s_procq(s)] = s_procq(s)
      /\ Live(lists, s_procq(s), NoNode)
  <2>1. Live(lists, s_procq(s), NoNode)
    BY <1>2, Running DEF IInv, FieldTypes
  <2> QED BY <2>1, Nodes, ObservedHeads DEF Observed, ContainerOf, p_list, Home
<1>4. /\ OnlyChanges(lists, lists', s_procq(s))
      /\ ContentsIn(lists', s_procq(s)) = Append(ContentsIn(lists, s_procq(s)), p)
  BY <1>1, <1>2, <1>3, JoinContents
<1>5. s_key' = s_key /\ Block(p, sem) /\ Held(p)
  BY DEF InsertBlockedActive
<1>6. \A t \in Semd \ {s} : /\ s_key[t] # sem
                            /\ ContentsIn(lists', s_procq(t)) = ContentsIn(lists, s_procq(t))
  BY <1>1, <1>2, <1>4, NodesDiffer DEF OnlyChanges, Observed, ListsInv, Blocked
<1>7. /\ Queues(lists, s_key)[sem] = ContentsIn(lists, s_procq(s))
      /\ Queues(lists', s_key') = [Queues(lists, s_key) EXCEPT ![sem] = ContentsIn(lists', s_procq(s))]
  <2>1. ChangesQueue(lists, lists', s_key, s_key', s, sem)
    BY <1>1, <1>2, <1>5, <1>6 DEF ChangesQueue
  <2>2. sem \in Sem /\ s \in Semd
    OBVIOUS
  <2> QED BY <2>1, <2>2, QueueStep
<1>8. ContentsIn(lists, s_procq(s)) # <<>>
  <2>1. ~ListEmpty(lists, s_procq(s))
    BY <1>1, <1>2, BlockedQueue
  <2>2. Tight(lists, Node, NoNode, Home)
    BY DEF ListsInv
  <2> HIDE DEF Home
  <2> QED BY <1>3, <2>1, <2>2, FirstContents
<1>9. /\ ContentsIn(lists', pcbFree_h) = ContentsIn(lists, pcbFree_h)
      /\ ContentsIn(lists', readyQueue) = ContentsIn(lists, readyQueue)
      /\ Children(lists') = Children(lists)
  BY <1>4, OthersSame
<1>10. Queues(lists', s_key') = [Queues(lists, s_key) EXCEPT ![sem] = Append(@, p)]
  BY <1>4, <1>7
<1> QED BY <1>5, <1>7, <1>8, <1>9, <1>10, BlockStep

(* The first free descriptor: only its queue changes, which was empty.     *)
LEMMA NewContents ==
  ASSUME IInv, ListsInv, NEW sem \in Sem, NEW p \in Pcb, InsertBlockedNew(sem, p)
  PROVE  \E s \in Semd :
           /\ s_key[s] = NULL /\ s_key' = [s_key EXCEPT ![s] = sem]
           /\ Live(lists, readyQueue, NoNode)
           /\ OnlyChanges(lists, lists', s_procq(s))
           /\ ContentsIn(lists, s_procq(s)) = <<>>
           /\ ContentsIn(lists', s_procq(s)) = Append(<<>>, p)
<1> DEFINE n == p_list(p)
           l(s) == s_link(s)
           at(s) == s_procq(s)
           d(s) == ListDel(lists, l(s))
           h(s) == ListInsert(d(s), n, d(s).prev[at(s)], at(s))
           home1(s) == [Home EXCEPT ![l(s)] = l(s)]
           home2(s) == [home1(s) EXCEPT ![n] = at(s)]
<1>1. PICK s \in Semd :
        /\ s_key[s] = NULL /\ state[p] = "held"
        /\ lists' = ListInsert(h(s), l(s), h(s).prev[semd_h], semd_h)
        /\ s_key' = [s_key EXCEPT ![s] = sem]
        /\ OnNone(lists, at(s), NoNode) /\ Live(lists, readyQueue, NoNode)
        /\ Live(lists, l(s), NoNode) /\ Home[l(s)] = semdFree_h
        /\ Tight(d(s), Node, NoNode, home1(s)) /\ OnNone(d(s), n, NoNode) /\ Live(d(s), at(s), NoNode)
        /\ Tight(h(s), Node, NoNode, home2(s)) /\ OnNone(h(s), l(s), NoNode) /\ Live(h(s), semd_h, NoNode)
  BY InsertBlockedNewSteps
<1>2. /\ Tight(lists, Node, NoNode, Home) /\ Live(lists, semdFree_h, NoNode)
      /\ Home[semdFree_h] = semdFree_h /\ Home[semd_h] = semd_h /\ DOMAIN Home = Node
      /\ \A x \in Observed : Home[x] = x
  <2>1. Live(lists, semdFree_h, NoNode)
    BY <1>1, Running DEF IInv, FieldTypes, Heads
  <2>2. Home[semdFree_h] = semdFree_h /\ Home[semd_h] = semd_h
    BY HomeAt DEF Heads, Home
  <2>3. DOMAIN Home = Node
    BY DEF Home, HomeOf
  <2>4. \A x \in Observed : Home[x] = x
    BY ObservedHeads DEF Home
  <2> QED BY <2>1, <2>2, <2>3, <2>4 DEF ListsInv
<1>3. /\ n \in Node /\ l(s) \in Node /\ semdFree_h \in Node /\ semd_h \in Node
      /\ l(s) # semdFree_h /\ l(s) # semd_h /\ n # semd_h /\ n # l(s)
      /\ at(s) \in Observed /\ ContainerOf(n) = p
      /\ \A x \in Observed : x \in Node /\ x # semdFree_h /\ x # semd_h /\ x # n /\ x # l(s)
  BY Nodes, NodesDiffer, ObservedHeads DEF Observed, ContainerOf, p_list
<1> HIDE DEF Home, n, l, at
<1>4. \A x \in Observed : ContentsIn(d(s), x) = ContentsIn(lists, x)
  BY <1>1, <1>2, <1>3, DelOthers
<1>5. /\ \A x \in Observed : home1(s)[x] = x
      /\ \A x \in Observed : home2(s)[x] = x
      /\ home2(s)[semd_h] = semd_h
  BY <1>2, <1>3
<1> HIDE DEF d, home1, home2
<1>6. /\ \A x \in Observed \ {at(s)} : ContentsIn(h(s), x) = ContentsIn(d(s), x)
      /\ ContentsIn(h(s), at(s)) = Append(ContentsIn(d(s), at(s)), p)
  BY <1>1, <1>3, <1>5, AddTailContents
<1> HIDE DEF h
<1>7. \A x \in Observed : ContentsIn(lists', x) = ContentsIn(h(s), x)
  BY <1>1, <1>3, <1>5, AddTailContents
<1>8. OnlyChanges(lists, lists', at(s))
  BY <1>4, <1>6, <1>7 DEF OnlyChanges
<1>9. ContentsIn(lists, at(s)) = <<>>
  BY <1>1, <1>2, <1>3, EmptyContents
<1>10. ContentsIn(lists', at(s)) = Append(<<>>, p)
  BY <1>3, <1>4, <1>6, <1>7, <1>9
<1> QED BY <1>1, <1>8, <1>9, <1>10 DEF at

LEMMA InsertBlockedNewStep ==
  ASSUME IInv, ListsInv, NEW sem \in Sem, NEW p \in Pcb, InsertBlockedNew(sem, p)
  PROVE  Tables!Block(sem, p)
<1>1. PICK s \in Semd : /\ s_key[s] = NULL /\ s_key' = [s_key EXCEPT ![s] = sem]
                        /\ Live(lists, readyQueue, NoNode)
                        /\ OnlyChanges(lists, lists', s_procq(s))
                        /\ ContentsIn(lists, s_procq(s)) = <<>>
                        /\ ContentsIn(lists', s_procq(s)) = Append(<<>>, p)
  BY NewContents
<1>2. Held(p) /\ Block(p, sem) /\ Found(sem) = {}
  BY DEF InsertBlockedNew
<1>3. \A t \in Semd \ {s} : /\ s_key'[t] = s_key[t] /\ s_key[t] # sem
                            /\ ContentsIn(lists', s_procq(t)) = ContentsIn(lists, s_procq(t))
  <2>1. \A t \in Semd : s_key[t] # sem
    BY <1>1, <1>2, NotFound
  <2>2. \A t \in Semd \ {s} : s_procq(t) \in Observed \ {s_procq(s)}
    BY NodesDiffer DEF Observed
  <2> QED BY <1>1, <2>1, <2>2 DEF OnlyChanges
<1>4. s_key'[s] = sem /\ sem # NULL
  BY <1>1, Phase1Assumption DEF Phase1Assumption, IInv, FieldTypes
<1>5. /\ Queues(lists, s_key)[sem] = ContentsIn(lists, s_procq(s))
      /\ Queues(lists', s_key') = [Queues(lists, s_key) EXCEPT ![sem] = ContentsIn(lists', s_procq(s))]
  <2>1. ChangesQueue(lists, lists', s_key, s_key', s, sem)
    BY <1>1, <1>3, <1>4 DEF ChangesQueue
  <2> QED BY <2>1, QueueStep
<1>6. /\ ContentsIn(lists', pcbFree_h) = ContentsIn(lists, pcbFree_h)
      /\ ContentsIn(lists', readyQueue) = ContentsIn(lists, readyQueue)
      /\ Children(lists') = Children(lists)
  BY <1>1, OthersSame
<1>7. Queues(lists', s_key') = [Queues(lists, s_key) EXCEPT ![sem] = Append(@, p)]
  BY <1>1, <1>5
<1>8. Cardinality({x \in Sem : Queues(lists, s_key)[x] # <<>>}) < Cardinality(Pcb)
  BY <1>1, QueuesLeft
<1> QED BY <1>2, <1>6, <1>7, <1>8, BlockStep

-----------------------------------------------------------------------------
(* removeBlocked and outBlocked: only the queue of s changes, and when it  *)
(* is empty its descriptor has no key.                                     *)
LEMMA UnblockContents ==
  ASSUME IInv, ListsInv, NEW s \in Semd, NEW p \in Pcb, s_key[s] # NULL,
         state[p] = "blocked", p_semAdd[p] = s_key[s], Unblock(s, p)
  PROVE  LET c == ContentsIn(lists, s_procq(s))
             c2 == ContentsIn(lists', s_procq(s))
         IN  /\ OnlyChanges(lists, lists', s_procq(s))
             /\ p \in Range(c) /\ c2 = Q!RemoveFirst(c, p)
             /\ lists.next[s_procq(s)] = p_list(p) => c # <<>> /\ Head(c) = p /\ c2 = Tail(c)
             /\ \/ s_key' = s_key
                \/ s_key' = [s_key EXCEPT ![s] = NULL] /\ c2 = <<>>
<1> DEFINE n == p_list(p)
           l == s_link(s)
           at == s_procq(s)
           m == ListDel(lists, n)
           d == ListDel(m, l)
           home1 == HomeOf(p_parent, p_semAdd', state', s_key)
           home2 == [home1 EXCEPT ![l] = l]
<1>1. /\ Live(lists, n, NoNode)
      /\ Tight(m, Node, NoNode, home1) /\ home1[at] = at
      /\ \A k \in Node : Live(m, k, NoNode) <=> Live(lists, k, NoNode)
      /\ home1[l] = semd_h /\ DOMAIN home1 = Node /\ home1[semdFree_h] = semdFree_h
      /\ Tight(d, Node, NoNode, home2) /\ Isolated(d, l) /\ Live(d, semdFree_h, NoNode)
      /\ ListEmpty(m, at) => /\ s_key' = [s_key EXCEPT ![s] = NULL]
                             /\ lists' = ListInsert(d, l, d.prev[semdFree_h], semdFree_h)
      /\ ~ListEmpty(m, at) => s_key' = s_key /\ lists' = m
  BY UnblockSteps
<1>2. /\ Live(lists, semd_h, NoNode) /\ Live(lists, l, NoNode)
  <2>1. Live(lists, readyQueue, NoNode)
    BY DEF IInv, Shape, PcbPlaced, PcbAt
  <2> QED BY <2>1, Running DEF IInv, FieldTypes, Heads
<1>3. /\ n \in Node /\ l \in Node /\ semdFree_h \in Node /\ semd_h \in Node /\ at \in Node
      /\ l # semdFree_h /\ l # semd_h /\ at \in Observed /\ n # at /\ ContainerOf(n) = p
      /\ \A x \in Observed : x \in Node /\ x # semdFree_h /\ x # semd_h /\ x # n /\ x # l
  BY Nodes, NodesDiffer, ObservedHeads DEF Observed, ContainerOf, p_list
<1>4. Home[n] = at
  BY OnQueue DEF IInv, FieldTypes, ListsInv, Home
<1>5. home1[semd_h] = semd_h /\ \A x \in Observed : home1[x] = x
  BY ObservedHeads, HomeAt DEF Heads
<1> HIDE DEF Home, n, l, at
<1>6. /\ OnlyChanges(lists, m, at)
      /\ p \in Range(ContentsIn(lists, at))
      /\ ContentsIn(m, at) = Q!RemoveFirst(ContentsIn(lists, at), p)
      /\ lists.next[at] = n =>
           /\ ContentsIn(lists, at) # <<>> /\ Head(ContentsIn(lists, at)) = p
           /\ ContentsIn(m, at) = Tail(ContentsIn(lists, at))
  BY <1>1, <1>3, <1>4, LeaveContents
<1> HIDE DEF home1, m
<1>7. \A x \in Observed : home2[x] = x
  BY <1>1, <1>3, <1>5
<1>8. home2[semdFree_h] = semdFree_h
  BY <1>1, <1>3
<1>9. \A x \in Observed : ContentsIn(d, x) = ContentsIn(m, x)
  BY <1>1, <1>2, <1>3, <1>5, DelOthers
<1> HIDE DEF d, home2
<1>10. ASSUME ListEmpty(m, at)
       PROVE  /\ \A x \in Observed : ContentsIn(lists', x) = ContentsIn(m, x)
              /\ ContentsIn(m, at) = <<>>
  <2>1. lists' = ListInsert(d, l, d.prev[semdFree_h], semdFree_h) /\ OnNone(d, l, NoNode)
    BY <1>1, <1>10 DEF OnNone
  <2>2. \A x \in Observed : ContentsIn(lists', x) = ContentsIn(d, x)
    BY <1>1, <1>3, <1>7, <1>8, <2>1, AddTailContents
  <2>3. Isolated(m, at)
    BY <1>1, <1>3, <1>10, Nodes, EmptyIsolated DEF Tight
  <2>4. ContentsIn(m, at) = <<>>
    BY <1>1, <1>3, <2>3, EmptyContents DEF OnNone
  <2> QED BY <1>9, <2>2, <2>4
<1>11. /\ \A x \in Observed : ContentsIn(lists', x) = ContentsIn(m, x)
       /\ \/ s_key' = s_key
          \/ s_key' = [s_key EXCEPT ![s] = NULL] /\ ContentsIn(m, at) = <<>>
  BY <1>1, <1>10
<1>12. OnlyChanges(lists, lists', at) /\ ContentsIn(lists', at) = ContentsIn(m, at)
  BY <1>3, <1>6, <1>11 DEF OnlyChanges
<1> QED BY <1>6, <1>11, <1>12 DEF at, n

(* What they are to ProcTables.                                            *)
LEMMA UnblockStep ==
  ASSUME IInv, ListsInv, NEW s \in Semd, NEW p \in Pcb, s_key[s] # NULL,
         state[p] = "blocked", p_semAdd[p] = s_key[s], Unblock(s, p)
  PROVE  /\ s_key[s] \in Sem /\ Tables!Unblock(s_key[s], p)
         /\ lists.next[s_procq(s)] = p_list(p) => Tables!Wake(s_key[s])
<1> DEFINE sem == s_key[s]
           c == ContentsIn(lists, s_procq(s))
           c2 == ContentsIn(lists', s_procq(s))
           asl == Queues(lists, s_key)
           asl2 == Queues(lists', s_key')
<1>1. /\ OnlyChanges(lists, lists', s_procq(s))
      /\ p \in Range(c) /\ c2 = Q!RemoveFirst(c, p)
      /\ lists.next[s_procq(s)] = p_list(p) => c # <<>> /\ Head(c) = p /\ c2 = Tail(c)
      /\ \/ s_key' = s_key
         \/ s_key' = [s_key EXCEPT ![s] = NULL] /\ c2 = <<>>
  BY UnblockContents
<1>2. sem \in Sem /\ \A t \in Semd \ {s} : s_key[t] # sem
  BY DEF IInv, FieldTypes, ListsInv, Blocked
<1>3. \A t \in Semd \ {s} : ContentsIn(lists', s_procq(t)) = ContentsIn(lists, s_procq(t))
  <2>1. \A t \in Semd \ {s} : s_procq(t) \in Observed \ {s_procq(s)}
    BY NodesDiffer DEF Observed
  <2> QED BY <1>1, <2>1 DEF OnlyChanges
<1>4. /\ \A t \in Semd \ {s} : s_key'[t] = s_key[t]
      /\ s_key'[s] \in {NULL, sem}
      /\ s_key'[s] = NULL => c2 = <<>>
  BY <1>1 DEF IInv, FieldTypes
<1>5. ChangesQueue(lists, lists', s_key, s_key', s, sem)
  BY <1>2, <1>3, <1>4 DEF ChangesQueue
<1>6. asl[sem] = c /\ asl2 = [asl EXCEPT ![sem] = c2]
  <2> HIDE DEF sem
  <2> QED BY <1>2, <1>5, QueueStep
<1>7. /\ ContentsIn(lists', pcbFree_h) = ContentsIn(lists, pcbFree_h)
      /\ ContentsIn(lists', readyQueue) = ContentsIn(lists, readyQueue)
      /\ Children(lists') = Children(lists)
  BY <1>1, OthersSame
<1>8. HeldIn(state') = HeldIn(state) \cup {p} /\ p_prio' = p_prio
  BY DEF Unblock, pcbVars, HeldIn, IInv, FieldTypes
<1>9. Q!RemoveFirst(c, p) = Tables!RemoveFirst(c, p)
  BY DEF Tables!RemoveFirst, Q!RemoveFirst, Tables!RemoveAt, Q!RemoveAt,
         Tables!SelectInSeq, Q!SelectInSeq, Tables!Min, Q!Min
<1> HIDE DEF sem, c, c2
<1>10. asl2 = Tables!OutBlocked(asl, sem, p)
  BY <1>1, <1>6, <1>9 DEF Tables!OutBlocked
<1>11. Tables!Unblock(sem, p)
  <2>1. p \in Tables!Range(asl[sem])
    <3> HIDE DEF asl
    <3> QED BY <1>1, <1>6 DEF Tables!Range, Range
  <2> QED BY <1>7, <1>8, <1>10, <2>1, View, ViewNext DEF Tables!Unblock
<1>12. ASSUME lists.next[s_procq(s)] = p_list(p)
       PROVE  Tables!Wake(sem)
  <2>1. c # <<>> /\ Head(c) = p /\ c2 = Tail(c)
    BY <1>1, <1>12
  <2>2. asl2 = Tables!RemoveBlocked(asl, sem)
    BY <1>6, <2>1 DEF Tables!RemoveBlocked
  <2> QED BY <1>6, <1>7, <1>8, <2>1, <2>2, View, ViewNext DEF Tables!Wake
<1> QED BY <1>2, <1>11, <1>12 DEF sem

LEMMA RemoveBlockedStep ==
  ASSUME IInv, ListsInv, NEW sem \in Sem, RemoveBlocked(sem)
  PROVE  Tables!Wake(sem)
<1>1. PICK s \in Semd, p \in Pcb :
        /\ s_key[s] = sem /\ s_key[s] # NULL /\ lists.next[s_procq(s)] = p_list(p)
        /\ state[p] = "blocked" /\ p_semAdd[p] = s_key[s] /\ Unblock(s, p)
  BY RemoveBlockedTakes
<1> QED BY <1>1, UnblockStep

LEMMA OutBlockedStep ==
  ASSUME IInv, ListsInv, NEW p \in Pcb, OutBlocked(p)
  PROVE  \E sem \in Sem : Tables!Unblock(sem, p)
<1>1. PICK s \in Semd : /\ s_key[s] = p_semAdd[p] /\ s_key[s] # NULL
                        /\ state[p] = "blocked" /\ Unblock(s, p)
  BY OutBlockedTakes
<1> QED BY <1>1, UnblockStep

(* A step of the lists is a step of ProcTables, or is not one of its.      *)
LEMMA TablesNext ==
  ASSUME IInv, ListsInv, [Next]_vars
  PROVE  [Tables!Next]_Tables!vars
<1>1. CASE UNCHANGED vars
  <2>1. UNCHANGED <<lists, s_key, state, p_prio>>
    BY <1>1 DEF vars
  <2>2. Shown(lists', s_key', state') = Shown(lists, s_key, state) /\ p_prio' = p_prio
    BY <2>1
  <2> QED BY <2>2, StutterStep
<1>2. ASSUME NEW p \in Pcb, InitPcb(p)
      PROVE  Tables!Next
  BY <1>2, InitPcbStep DEF Tables!Next
<1>3. CASE InitASLHeads \/ MkEmptyProcQ
  BY <1>3, InitHeadsStep
<1>4. ASSUME NEW s \in Semd, InitSemd(s)
      PROVE  UNCHANGED Tables!vars
  BY <1>4, InitSemdStep
<1>5. ASSUME NEW prio \in Prio, AllocPcb(prio)
      PROVE  Tables!Next
  BY <1>5, AllocPcbStep DEF Tables!Next
<1>6. ASSUME NEW p \in Pcb,
             FreePcb(p) \/ InsertProcQAhead(p) \/ InsertProcQLast(p) \/ OutProcQ(p)
      PROVE  Tables!Next
  <2>1. Tables!Free(p) \/ Tables!Insert(p) \/ Tables!Out(p)
    BY <1>6, FreePcbStep, InsertProcQAheadStep, InsertProcQLastStep, OutProcQStep
  <2> QED BY <2>1 DEF Tables!Next
<1>7. CASE RemoveProcQ
  BY <1>7, RemoveProcQStep DEF Tables!Next
<1>8. ASSUME NEW prnt \in Pcb, NEW p \in Pcb, InsertChild(prnt, p)
      PROVE  Tables!Next
  BY <1>8, InsertChildStep DEF Tables!Next
<1>9. ASSUME NEW p \in Pcb, RemoveChild(p) \/ OutChild(p)
      PROVE  Tables!Next
  <2>1. \E prnt, c \in Pcb : Tables!Leave(prnt, c)
    BY <1>9, RemoveChildStep, OutChildStep
  <2> QED BY <2>1 DEF Tables!Next
<1>10. ASSUME NEW sem \in Sem, NEW p \in Pcb,
              InsertBlockedActive(sem, p) \/ InsertBlockedNew(sem, p)
       PROVE  Tables!Next
  <2>1. Tables!Block(sem, p)
    BY <1>10, InsertBlockedActiveStep, InsertBlockedNewStep
  <2> QED BY <2>1 DEF Tables!Next
<1>11. ASSUME NEW sem \in Sem, RemoveBlocked(sem)
       PROVE  Tables!Next
  BY <1>11, RemoveBlockedStep DEF Tables!Next
<1>12. ASSUME NEW p \in Pcb, OutBlocked(p)
       PROVE  Tables!Next
  BY <1>12, OutBlockedStep DEF Tables!Next
<1> QED BY <1>1, <1>2, <1>3, <1>4, <1>5, <1>6, <1>7, <1>8, <1>9, <1>10, <1>11, <1>12 DEF Next

(* For every number of PCBs, semaphores and priorities, the lists of       *)
(* pcb.c and asl.c are the queues and the tree of ProcTables, and every    *)
(* call changes them as its operators do: what the Nucleus relies on       *)
(* (pcb.c:8-126, asl.c:8-98).                                              *)
THEOREM ProcTablesImplemented == Spec => ImplementsProcTables
<1>1. IInv /\ ListsInv /\ [Next]_vars => [Tables!Next]_Tables!vars
  BY TablesNext
<1> QED BY <1>1, InitTables, SpecLists, PTL DEF Spec, ImplementsProcTables, Tables!Spec
=============================================================================
