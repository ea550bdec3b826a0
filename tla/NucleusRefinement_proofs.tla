----------------------- MODULE NucleusRefinement_proofs -----------------------
(***************************************************************************)
(* The Nucleus implements ProcessSystem for every number of PCBs, set of   *)
(* priorities, set of devices and number of semaphores.  The doomed        *)
(* processes are the least set that holds the active calls of              *)
(* terminateProcess and is closed downwards in the child lists: a turn of  *)
(* its loop leaves that set alone, and the end of a call takes one process *)
(* out of it that leaves its semaphore in the same step.  The other        *)
(* handlers find nobody doomed, and the abstract system sees the tree, the *)
(* queues and the values as they are.                                      *)
(***************************************************************************)
EXTENDS NucleusRefinement, Nucleus_proofs

-----------------------------------------------------------------------------
(* Recursion.                                                              *)

(* Induction, over the set of the numbers that have a property.            *)
LEMMA SetInduction ==
  ASSUME NEW S, 0 \in S, \A i \in Nat : i \in S => i + 1 \in S
  PROVE  \A i \in Nat : i \in S
<1> DEFINE Bad == Nat \ S
<1> SUFFICES ASSUME Bad # {}
             PROVE  FALSE
  OBVIOUS
<1>1. Min(Bad) \in Bad /\ \A y \in Bad : Min(Bad) <= y
  BY MinNat
<1>2. PICK x \in Bad : \A y \in Bad : x <= y
  BY <1>1
<1>3. x - 1 \in Nat /\ (x - 1) + 1 = x /\ ~(x <= x - 1)
  BY <1>2
<1> QED BY <1>2, <1>3

\* f starts at base and takes the step g in each of its N steps.
Steps(f, N, base, g) ==
  f = [i \in 0 .. N |-> IF i = 0 THEN base ELSE g[<<f[i - 1], i>>]]

(* A function defined by recursion exists, and takes its values in A.      *)
LEMMA StepsExist ==
  ASSUME NEW N \in Nat, NEW A, NEW base \in A, NEW g \in [A \X (1 .. N) -> A]
  PROVE  \E f \in [0 .. N -> A] : Steps(f, N, base, g)
<1> DEFINE S == {k \in Nat : k <= N => \E f \in [0 .. k -> A] : Steps(f, k, base, g)}
<1>1. 0 \in S
  <2> DEFINE f == [i \in 0 .. 0 |-> base]
  <2>1. f \in [0 .. 0 -> A]
    OBVIOUS
  <2>2. Steps(f, 0, base, g)
    BY DEF Steps
  <2> HIDE DEF f
  <2> QED BY <2>1, <2>2
<1>2. ASSUME NEW k \in Nat, k \in S
      PROVE  k + 1 \in S
  <2> SUFFICES ASSUME k + 1 <= N
               PROVE  \E f \in [0 .. k + 1 -> A] : Steps(f, k + 1, base, g)
    OBVIOUS
  <2>1. PICK f \in [0 .. k -> A] : Steps(f, k, base, g)
    BY <1>2
  <2>2. f[k] \in A /\ <<f[k], k + 1>> \in A \X (1 .. N)
    OBVIOUS
  <2>3. g[<<f[k], k + 1>>] \in A
    BY <2>2
  <2> DEFINE h == [i \in 0 .. k + 1 |-> IF i = k + 1 THEN g[<<f[k], k + 1>>] ELSE f[i]]
  <2>4. h \in [0 .. k + 1 -> A]
    BY <2>3
  <2>5. \A i \in 0 .. k : f[i] = IF i = 0 THEN base ELSE g[<<f[i - 1], i>>]
    BY <2>1 DEF Steps
  <2>6. ASSUME NEW i \in 0 .. k + 1
        PROVE  h[i] = IF i = 0 THEN base ELSE g[<<h[i - 1], i>>]
    <3>1. CASE i = k + 1
      <4>1. i # 0 /\ i - 1 = k /\ h[k] = f[k]
        BY <3>1
      <4> QED BY <3>1, <4>1
    <3>2. CASE i # k + 1
      <4>1. i \in 0 .. k /\ (i # 0 => i - 1 \in 0 .. k /\ i - 1 # k + 1)
        BY <3>2
      <4>2. h[i] = f[i] /\ (i # 0 => h[i - 1] = f[i - 1])
        BY <3>2, <4>1
      <4>3. f[i] = IF i = 0 THEN base ELSE g[<<f[i - 1], i>>]
        BY <2>5, <4>1
      <4> HIDE DEF h
      <4> QED BY <4>2, <4>3
    <3> QED BY <3>1, <3>2
  <2>7. h = [i \in 0 .. k + 1 |-> h[i]]
    OBVIOUS
  <2> HIDE DEF h
  <2>8. Steps(h, k + 1, base, g)
    BY <2>6, <2>7 DEF Steps
  <2> QED BY <2>4, <2>8
<1>3. N \in S
  <2> HIDE DEF S
  <2> QED BY <1>1, <1>2, SetInduction
<1> QED BY <1>3

-----------------------------------------------------------------------------
(* A queue that processes have left.                                       *)

\* f[i] is what is left of the first i processes of q without those in S.
Keeps(f, q, S) ==
  /\ f[0] = <<>>
  /\ \A i \in 1 .. Len(q) : f[i] = IF q[i] \in S THEN f[i - 1] ELSE Append(f[i - 1], q[i])

(* The recursion of Without has a value.                                   *)
LEMMA WithoutKeeps ==
  ASSUME NEW X, NEW q \in Seq(X), NEW S
  PROVE  \E f \in [0 .. Len(q) -> Seq(X)] : Keeps(f, q, S) /\ Without(q, S) = f[Len(q)]
<1> DEFINE A == Seq(X)
           g == [a \in A \X (1 .. Len(q)) |-> IF q[a[2]] \in S THEN a[1] ELSE Append(a[1], q[a[2]])]
           K(f) == f = [i \in 0 .. Len(q) |->
                          IF i = 0 THEN <<>>
                          ELSE IF q[i] \in S THEN f[i - 1] ELSE Append(f[i - 1], q[i])]
           f == CHOOSE f : K(f)
<1>1. g \in [A \X (1 .. Len(q)) -> A]
  <2>1. ASSUME NEW a \in A \X (1 .. Len(q))
        PROVE  (IF q[a[2]] \in S THEN a[1] ELSE Append(a[1], q[a[2]])) \in A
    <3>1. a[1] \in Seq(X) /\ q[a[2]] \in X
      OBVIOUS
    <3>2. Append(a[1], q[a[2]]) \in Seq(X)
      BY <3>1
    <3> QED BY <3>1, <3>2
  <2> HIDE DEF A
  <2> QED BY <2>1
<1>2. <<>> \in A /\ Len(q) \in Nat
  OBVIOUS
<1>3. PICK h \in [0 .. Len(q) -> A] : Steps(h, Len(q), <<>>, g)
  <2> HIDE DEF A, g
  <2> QED BY <1>1, <1>2, StepsExist
<1>4. \A i \in 0 .. Len(q) : h[i] = IF i = 0 THEN <<>> ELSE g[<<h[i - 1], i>>]
  <2> HIDE DEF g
  <2> QED BY <1>3 DEF Steps
<1>5. ASSUME NEW i \in 1 .. Len(q)
      PROVE  h[i] = IF q[i] \in S THEN h[i - 1] ELSE Append(h[i - 1], q[i])
  <2>1. h[i - 1] \in A /\ i # 0 /\ i \in 0 .. Len(q)
    <3> HIDE DEF A, g
    <3>1. i - 1 \in 0 .. Len(q) /\ i # 0 /\ i \in 0 .. Len(q)
      BY <1>2
    <3> QED BY <1>3, <3>1
  <2>2. <<h[i - 1], i>> \in A \X (1 .. Len(q))
    BY <2>1
  <2>3. g[<<h[i - 1], i>>] = IF q[i] \in S THEN h[i - 1] ELSE Append(h[i - 1], q[i])
    BY <2>2
  <2> HIDE DEF g, A
  <2> QED BY <1>4, <2>1, <2>3
<1>6. h[0] = <<>>
  <2> HIDE DEF g, A
  <2> QED BY <1>2, <1>4
<1>7. K(h)
  <2>1. h = [i \in 0 .. Len(q) |-> h[i]]
    BY <1>3
  <2>2. \A i \in 0 .. Len(q) : h[i] = IF i = 0 THEN <<>>
                          ELSE IF q[i] \in S THEN h[i - 1] ELSE Append(h[i - 1], q[i])
    <3> HIDE DEF A, g
    <3>1. \A i \in 0 .. Len(q) : i = 0 \/ i \in 1 .. Len(q)
      OBVIOUS
    <3>2. \A i \in 1 .. Len(q) : i # 0
      OBVIOUS
    <3> QED BY <1>5, <1>6, <3>1, <3>2
  <2> HIDE DEF A, g
  <2> QED BY <2>1, <2>2
<1>8. K(f)
  <2> HIDE DEF K
  <2> QED BY <1>7
<1>9. Without(q, S) = f[Len(q)]
  BY DEF Without
<1>10. \A i \in 0 .. Len(q) : f[i] = IF i = 0 THEN <<>>
                          ELSE IF q[i] \in S THEN f[i - 1] ELSE Append(f[i - 1], q[i])
  <2> HIDE DEF f
  <2> QED BY <1>8
<1>11. DOMAIN f = 0 .. Len(q) /\ f = [i \in 0 .. Len(q) |-> f[i]]
  <2> HIDE DEF f
  <2> QED BY <1>8
<1> DEFINE T == {i \in Nat : i <= Len(q) => f[i] = h[i]}
<1>12. \A i \in Nat : i \in T
  <2> HIDE DEF f, g, A, K
  <2>1. 0 \in T
    BY <1>2, <1>6, <1>10
  <2>2. ASSUME NEW i \in Nat, i \in T
        PROVE  i + 1 \in T
    <3> SUFFICES ASSUME i + 1 <= Len(q)
                 PROVE  f[i + 1] = h[i + 1]
      OBVIOUS
    <3>1. i + 1 \in 1 .. Len(q) /\ i + 1 \in 0 .. Len(q) /\ (i + 1) - 1 = i /\ f[i] = h[i] /\ i + 1 # 0
      BY <2>2
    <3>2. f[i + 1] = IF q[i + 1] \in S THEN f[i] ELSE Append(f[i], q[i + 1])
      BY <1>10, <3>1
    <3>3. h[i + 1] = IF q[i + 1] \in S THEN h[i] ELSE Append(h[i], q[i + 1])
      BY <1>5, <3>1
    <3> QED BY <3>1, <3>2, <3>3
  <2> HIDE DEF T
  <2> QED BY <2>1, <2>2, SetInduction
<1>13. f[Len(q)] = h[Len(q)]
  <2> HIDE DEF f, g, A, K
  <2> QED BY <1>2, <1>12
<1>14. Keeps(h, q, S)
  <2> HIDE DEF A, g
  <2> QED BY <1>5, <1>6 DEF Keeps
<1> HIDE DEF f, g, K
<1> QED BY <1>3, <1>9, <1>13, <1>14

(* Nobody who waits leaves.                                                *)
LEMMA WithoutNone ==
  ASSUME NEW X, NEW q \in Seq(X), NEW S, Range(q) \cap S = {}
  PROVE  Without(q, S) = q
<1>1. PICK f \in [0 .. Len(q) -> Seq(X)] : Keeps(f, q, S) /\ Without(q, S) = f[Len(q)]
  BY WithoutKeeps
<1>2. \A i \in 1 .. Len(q) : q[i] \notin S
  <2>1. Range(q) = {q[i] : i \in 1 .. Len(q)}
    BY RangeEquality
  <2> QED BY <2>1
<1>3. f[0] = <<>> /\ \A i \in 1 .. Len(q) : f[i] = Append(f[i - 1], q[i])
  BY <1>1, <1>2 DEF Keeps
<1> DEFINE T == {i \in Nat : i <= Len(q) => Len(f[i]) = i /\ \A j \in 1 .. i : f[i][j] = q[j]}
<1>4. 0 \in T
  BY <1>3
<1>5. ASSUME NEW i \in Nat, i \in T
      PROVE  i + 1 \in T
  <2> SUFFICES ASSUME i + 1 <= Len(q)
               PROVE  Len(f[i + 1]) = i + 1 /\ \A j \in 1 .. i + 1 : f[i + 1][j] = q[j]
    OBVIOUS
  <2>1. i + 1 \in 1 .. Len(q) /\ (i + 1) - 1 = i
    OBVIOUS
  <2>2. Len(f[i]) = i /\ \A j \in 1 .. i : f[i][j] = q[j]
    BY <1>5
  <2>3. f[i] \in Seq(X) /\ q[i + 1] \in X /\ f[i + 1] = Append(f[i], q[i + 1])
    <3>1. i \in 0 .. Len(q)
      OBVIOUS
    <3>2. f[i] \in Seq(X) /\ q[i + 1] \in X
      BY <2>1, <3>1
    <3>3. f[i + 1] = Append(f[(i + 1) - 1], q[i + 1])
      BY <1>3, <2>1
    <3> QED BY <2>1, <3>2, <3>3
  <2>4. Len(f[i + 1]) = i + 1
    BY <2>2, <2>3
  <2>5. ASSUME NEW j \in 1 .. i + 1
        PROVE  f[i + 1][j] = q[j]
    <3>1. CASE j = i + 1
      BY <2>2, <2>3, <3>1
    <3>2. CASE j # i + 1
      <4>1. j \in 1 .. i
        BY <3>2
      <4> QED BY <2>2, <2>3, <4>1
    <3> QED BY <3>1, <3>2
  <2> QED BY <2>4, <2>5
<1>6. Len(q) \in T
  <2> HIDE DEF T
  <2> QED BY <1>4, <1>5, SetInduction
<1>7. f[Len(q)] \in Seq(X) /\ Len(f[Len(q)]) = Len(q) /\ \A j \in 1 .. Len(q) : f[Len(q)][j] = q[j]
  BY <1>6
<1>8. f[Len(q)] = q
  BY <1>7, SeqEqual
<1> QED BY <1>1, <1>8

(* It only matters who of those who wait leaves.                           *)
LEMMA WithoutSame ==
  ASSUME NEW X, NEW q \in Seq(X), NEW S, NEW R,
         \A i \in 1 .. Len(q) : q[i] \in S <=> q[i] \in R
  PROVE  Without(q, S) = Without(q, R)
<1>1. PICK f \in [0 .. Len(q) -> Seq(X)] : Keeps(f, q, S) /\ Without(q, S) = f[Len(q)]
  BY WithoutKeeps
<1>2. PICK h \in [0 .. Len(q) -> Seq(X)] : Keeps(h, q, R) /\ Without(q, R) = h[Len(q)]
  BY WithoutKeeps
<1> DEFINE T == {i \in Nat : i <= Len(q) => f[i] = h[i]}
<1>3. 0 \in T
  BY <1>1, <1>2 DEF Keeps
<1>4. ASSUME NEW i \in Nat, i \in T
      PROVE  i + 1 \in T
  <2> SUFFICES ASSUME i + 1 <= Len(q)
               PROVE  f[i + 1] = h[i + 1]
    OBVIOUS
  <2>1. i + 1 \in 1 .. Len(q) /\ (i + 1) - 1 = i /\ f[i] = h[i]
    BY <1>4
  <2>2. f[i + 1] = IF q[i + 1] \in S THEN f[i] ELSE Append(f[i], q[i + 1])
    BY <1>1, <2>1 DEF Keeps
  <2>3. h[i + 1] = IF q[i + 1] \in R THEN h[i] ELSE Append(h[i], q[i + 1])
    BY <1>2, <2>1 DEF Keeps
  <2> QED BY <2>1, <2>2, <2>3
<1>5. Len(q) \in T
  <2> HIDE DEF T
  <2>1. \A i \in Nat : i \in T
    BY <1>3, <1>4, SetInduction
  <2>2. Len(q) \in Nat
    OBVIOUS
  <2> QED BY <2>1, <2>2
<1> QED BY <1>1, <1>2, <1>5

(* One of them may have left before.                                       *)
LEMMA WithoutRemoved ==
  ASSUME NEW X, NEW q \in Seq(X), NEW S, NEW p, p \in S, p \in Range(q)
  PROVE  Without(RemoveFirst(q, p), S) = Without(q, S)
<1> DEFINE r == RemoveFirst(q, p)
           n == Len(q)
<1>1. r \in Seq(X) /\ Len(r) = n - 1
  BY RemoveFirstElem
<1>2. PICK k \in 1 .. n : q[k] = p /\ \A i \in 1 .. n - 1 : r[i] = IF i < k THEN q[i] ELSE q[i + 1]
  BY RemoveFirstElem
<1> HIDE DEF r
<1>3. PICK f \in [0 .. n -> Seq(X)] : Keeps(f, q, S) /\ Without(q, S) = f[n]
  BY WithoutKeeps
<1>4. PICK h \in [0 .. Len(r) -> Seq(X)] : Keeps(h, r, S) /\ Without(r, S) = h[Len(r)]
  BY <1>1, WithoutKeeps
<1>5. f[0] = <<>> /\ \A i \in 1 .. n : f[i] = IF q[i] \in S THEN f[i - 1] ELSE Append(f[i - 1], q[i])
  BY <1>3 DEF Keeps
<1>6. h[0] = <<>> /\ \A i \in 1 .. n - 1 : h[i] = IF r[i] \in S THEN h[i - 1] ELSE Append(h[i - 1], r[i])
  BY <1>1, <1>4 DEF Keeps
<1>7. n \in Nat /\ k \in 1 .. n
  OBVIOUS
<1>8. f[k] = f[k - 1]
  BY <1>2, <1>5
<1> HIDE DEF n
<1> DEFINE T == {i \in Nat : i <= n - 1 => h[i] = IF i < k THEN f[i] ELSE f[i + 1]}
<1>9. 0 \in T
  BY <1>5, <1>6, <1>7
<1>10. ASSUME NEW i \in Nat, i \in T
       PROVE  i + 1 \in T
  <2> SUFFICES ASSUME i + 1 <= n - 1
               PROVE  h[i + 1] = IF i + 1 < k THEN f[i + 1] ELSE f[(i + 1) + 1]
    OBVIOUS
  <2>1. /\ i + 1 \in 1 .. n - 1 /\ (i + 1) - 1 = i
        /\ h[i] = IF i < k THEN f[i] ELSE f[i + 1]
    BY <1>7, <1>10
  <2>2. h[i + 1] = IF r[i + 1] \in S THEN h[i] ELSE Append(h[i], r[i + 1])
    BY <1>6, <2>1
  <2>3. CASE i + 1 < k
    <3>1. r[i + 1] = q[i + 1] /\ h[i] = f[i] /\ i + 1 \in 1 .. n
      BY <1>2, <1>7, <2>1, <2>3
    <3>2. f[i + 1] = IF q[i + 1] \in S THEN f[i] ELSE Append(f[i], q[i + 1])
      BY <1>5, <2>1, <3>1
    <3> QED BY <2>2, <2>3, <3>1, <3>2
  <2>4. CASE ~(i + 1 < k)
    <3>0. r[i + 1] = q[(i + 1) + 1]
      <4>1. r[i + 1] = IF i + 1 < k THEN q[i + 1] ELSE q[(i + 1) + 1]
        BY <1>2, <2>1
      <4> QED BY <2>4, <4>1
    <3>1. r[i + 1] = q[(i + 1) + 1] /\ (i + 1) + 1 \in 1 .. n /\ ((i + 1) + 1) - 1 = i + 1
      BY <1>7, <2>1, <3>0
    <3>2. h[i] = f[i + 1]
      <4>1. CASE i + 1 = k
        <5>1. k - 1 = i /\ i < k
          BY <1>7, <4>1
        <5>2. h[i] = f[i]
          BY <2>1, <5>1
        <5>3. f[i] = f[i + 1]
          BY <1>8, <4>1, <5>1
        <5> QED BY <5>2, <5>3
      <4>2. CASE i + 1 # k
        <5>1. ~(i < k)
          BY <1>7, <2>4, <4>2
        <5> QED BY <2>1, <5>1
      <4> QED BY <4>1, <4>2
    <3>3. f[(i + 1) + 1] = IF q[(i + 1) + 1] \in S THEN f[i + 1] ELSE Append(f[i + 1], q[(i + 1) + 1])
      BY <1>5, <3>1
    <3> QED BY <2>2, <2>4, <3>1, <3>2, <3>3
  <2> QED BY <2>3, <2>4
<1>11. n - 1 \in Nat
  BY <1>7
<1>12. n - 1 \in T
  <2> HIDE DEF T
  <2> QED BY <1>9, <1>10, <1>11, SetInduction
<1>13. h[n - 1] = f[n]
  <2>1. CASE n - 1 < k
    <3>1. k = n
      BY <1>7, <2>1
    <3> QED BY <1>8, <1>11, <1>12, <2>1, <3>1
  <2>2. CASE ~(n - 1 < k)
    <3>1. (n - 1) + 1 = n
      BY <1>7
    <3> QED BY <1>11, <1>12, <2>2, <3>1
  <2> QED BY <2>1, <2>2
<1> QED BY <1>1, <1>3, <1>4, <1>13 DEF r

(* How much shorter the queue is.                                          *)
LEMMA WithoutLen ==
  ASSUME NEW X, NEW q \in Seq(X), NEW S, IsInjective(q)
  PROVE  /\ Cardinality(Range(q) \cap S) \in Nat
         /\ Len(Without(q, S)) = Len(q) - Cardinality(Range(q) \cap S)
<1>1. PICK f \in [0 .. Len(q) -> Seq(X)] : Keeps(f, q, S) /\ Without(q, S) = f[Len(q)]
  BY WithoutKeeps
<1>2. f[0] = <<>> /\ \A i \in 1 .. Len(q) : f[i] = IF q[i] \in S THEN f[i - 1] ELSE Append(f[i - 1], q[i])
  BY <1>1 DEF Keeps
<1> DEFINE gone(i) == {q[j] : j \in 1 .. i} \cap S
           T == {i \in Nat : i <= Len(q) => /\ IsFiniteSet(gone(i))
                                            /\ Len(f[i]) = i - Cardinality(gone(i))}
<1>3. 0 \in T
  <2>1. gone(0) = {}
    OBVIOUS
  <2>2. IsFiniteSet(gone(0)) /\ Cardinality(gone(0)) = 0
    BY <2>1, FS_EmptySet
  <2> HIDE DEF gone
  <2> QED BY <1>2, <2>2
<1>4. ASSUME NEW i \in Nat, i \in T
      PROVE  i + 1 \in T
  <2> SUFFICES ASSUME i + 1 <= Len(q)
               PROVE  IsFiniteSet(gone(i + 1)) /\ Len(f[i + 1]) = (i + 1) - Cardinality(gone(i + 1))
    OBVIOUS
  <2>1. i + 1 \in 1 .. Len(q) /\ (i + 1) - 1 = i /\ 1 .. i + 1 = (1 .. i) \cup {i + 1}
    OBVIOUS
  <2>2. IsFiniteSet(gone(i)) /\ Len(f[i]) = i - Cardinality(gone(i))
    BY <1>4
  <2>3. f[i] \in Seq(X) /\ q[i + 1] \in X
    BY <2>1
  <2>4. f[i + 1] = IF q[i + 1] \in S THEN f[i] ELSE Append(f[i], q[i + 1])
    BY <1>2, <2>1
  <2>5. {q[j] : j \in 1 .. i + 1} = {q[j] : j \in 1 .. i} \cup {q[i + 1]}
    BY <2>1
  <2>6. q[i + 1] \notin {q[j] : j \in 1 .. i}
    BY <2>1 DEF IsInjective
  <2>7. Cardinality(gone(i)) \in Nat
    <3> HIDE DEF gone
    <3> QED BY <2>2, FS_CardinalityType
  <2>8. CASE q[i + 1] \in S
    <3>1. gone(i + 1) = gone(i) \cup {q[i + 1]} /\ q[i + 1] \notin gone(i)
      BY <2>5, <2>6, <2>8
    <3> HIDE DEF gone
    <3>2. IsFiniteSet(gone(i + 1)) /\ Cardinality(gone(i + 1)) = Cardinality(gone(i)) + 1
      <4>1. /\ IsFiniteSet(gone(i) \cup {q[i + 1]})
            /\ Cardinality(gone(i) \cup {q[i + 1]}) = Cardinality(gone(i)) + 1
        BY <2>2, <3>1, FS_AddElement
      <4> QED BY <3>1, <4>1
    <3>3. f[i + 1] = f[i]
      BY <2>4, <2>8
    <3> QED BY <2>2, <2>7, <3>2, <3>3
  <2>9. CASE q[i + 1] \notin S
    <3>1. gone(i + 1) = gone(i)
      BY <2>5, <2>9
    <3> HIDE DEF gone
    <3>2. Len(f[i + 1]) = Len(f[i]) + 1
      BY <2>3, <2>4, <2>9
    <3> QED BY <2>2, <2>7, <3>1, <3>2
  <2> QED BY <2>8, <2>9
<1>5. Len(q) \in T
  <2> HIDE DEF T
  <2> QED BY <1>3, <1>4, SetInduction
<1>6. gone(Len(q)) = Range(q) \cap S
  BY RangeEquality
<1> HIDE DEF gone
<1>7. IsFiniteSet(gone(Len(q))) /\ Len(f[Len(q)]) = Len(q) - Cardinality(gone(Len(q)))
  BY <1>5
<1>8. Cardinality(gone(Len(q))) \in Nat
  BY <1>7, FS_CardinalityType
<1> QED BY <1>1, <1>6, <1>7, <1>8

-----------------------------------------------------------------------------
(* The processes below others.                                             *)

\* f[i] holds top and what is at most i levels below.
Levels(f, child, top) ==
  /\ f[0] = top
  /\ \A i \in 1 .. MaxProc : f[i] = f[i - 1] \cup UNION {Range(child[p]) : p \in f[i - 1]}

(* There is a number of PCBs.                                             *)
LEMMA MaxProcNat == MaxProc \in Nat
BY PcbAssumption, FS_CardinalityType DEF MaxProc

(* The recursion of Below has a value.                                     *)
LEMMA BelowLevels ==
  ASSUME NEW child \in [Pcb -> Seq(Pcb)], NEW top \in SUBSET Pcb
  PROVE  \E f \in [0 .. MaxProc -> SUBSET Pcb] :
           Levels(f, child, top) /\ Below(child, top) = f[MaxProc]
<1> DEFINE A == SUBSET Pcb
           down(a) == a \cup UNION {Range(child[p]) : p \in a}
           g == [a \in A \X (1 .. MaxProc) |-> down(a[1])]
           K(f) == f = [n \in 0 .. MaxProc |->
                          IF n = 0 THEN top
                          ELSE f[n - 1] \cup UNION {Range(child[p]) : p \in f[n - 1]}]
           f == CHOOSE f : K(f)
<1>0. MaxProc \in Nat
  BY MaxProcNat
<1>1. \A a \in A : down(a) \in A
  <2>1. \A p \in Pcb : Range(child[p]) \subseteq Pcb
    <3> TAKE p \in Pcb
    <3>1. child[p] \in Seq(Pcb)
      OBVIOUS
    <3>2. Range(child[p]) = {child[p][i] : i \in 1 .. Len(child[p])}
      BY <3>1, RangeEquality
    <3> QED BY <3>1, <3>2
  <2> QED BY <2>1
<1>2. g \in [A \X (1 .. MaxProc) -> A]
  <2> HIDE DEF A, down
  <2> QED BY <1>1
<1>3. PICK h \in [0 .. MaxProc -> A] : Steps(h, MaxProc, top, g)
  <2>1. top \in A
    OBVIOUS
  <2> HIDE DEF A, g
  <2> QED BY <1>0, <1>2, <2>1, StepsExist
<1>4. ASSUME NEW i \in 0 .. MaxProc
      PROVE  h[i] = IF i = 0 THEN top ELSE down(h[i - 1])
  <2>1. h[i] = IF i = 0 THEN top ELSE g[<<h[i - 1], i>>]
    <3> HIDE DEF g, A
    <3> QED BY <1>3 DEF Steps
  <2>2. CASE i = 0
    BY <2>1, <2>2
  <2>3. CASE i # 0
    <3>1. i - 1 \in 0 .. MaxProc /\ i \in 1 .. MaxProc
      BY <1>0, <2>3
    <3>2. h[i - 1] \in A
      BY <1>3, <3>1
    <3> HIDE DEF A, down
    <3>3. <<h[i - 1], i>> \in A \X (1 .. MaxProc) /\ <<h[i - 1], i>>[1] = h[i - 1]
      BY <3>1, <3>2
    <3>4. g[<<h[i - 1], i>>] = down(<<h[i - 1], i>>[1])
      BY <3>3
    <3> QED BY <2>1, <2>3, <3>3, <3>4
  <2> QED BY <2>2, <2>3
<1>5. K(h)
  <2>1. h = [i \in 0 .. MaxProc |-> h[i]]
    BY <1>3
  <2> QED BY <1>4, <2>1
<1>6. K(f)
  <2> HIDE DEF K
  <2> QED BY <1>5
<1>7. Below(child, top) = f[MaxProc]
  BY DEF Below
<1> HIDE DEF f
<1>8. \A i \in 0 .. MaxProc : f[i] = IF i = 0 THEN top ELSE down(f[i - 1])
  BY <1>6
<1>9. f = [i \in 0 .. MaxProc |-> f[i]]
  BY <1>6
<1> DEFINE T == {i \in Nat : i <= MaxProc => f[i] \in A}
<1>10. \A i \in Nat : i \in T
  <2> HIDE DEF A, K, g, down
  <2>1. 0 \in T
    <3>1. 0 \in 0 .. MaxProc /\ top \in A
      BY <1>0 DEF A
    <3> QED BY <1>8, <3>1
  <2>2. ASSUME NEW i \in Nat, i \in T
        PROVE  i + 1 \in T
    <3> SUFFICES ASSUME i + 1 <= MaxProc
                 PROVE  f[i + 1] \in A
      OBVIOUS
    <3>1. i + 1 \in 0 .. MaxProc /\ (i + 1) - 1 = i /\ f[i] \in A /\ i + 1 # 0
      BY <1>0, <2>2
    <3>2. f[i + 1] = down(f[i])
      BY <1>8, <3>1
    <3> QED BY <1>1, <3>1, <3>2
  <2> HIDE DEF T
  <2> QED BY <2>1, <2>2, SetInduction
<1>11. f \in [0 .. MaxProc -> A]
  <2>1. \A i \in 0 .. MaxProc : f[i] \in A
    BY <1>0, <1>10
  <2> HIDE DEF A
  <2> QED BY <1>9, <2>1
<1>12. Levels(f, child, top)
  <2>1. f[0] = top
    <3> HIDE DEF down
    <3> QED BY <1>0, <1>8
  <2>2. ASSUME NEW i \in 1 .. MaxProc
        PROVE  f[i] = down(f[i - 1])
    <3>1. i \in 0 .. MaxProc /\ i # 0
      BY <1>0
    <3> HIDE DEF down
    <3> QED BY <1>8, <3>1
  <2> QED BY <2>1, <2>2 DEF Levels
<1> QED BY <1>7, <1>11, <1>12

(* It is closed: below a process of the set there are only others of it.   *)
(* A level that adds nobody is the last one, and there are MaxProc levels. *)
LEMMA BelowClosed ==
  ASSUME NEW child \in [Pcb -> Seq(Pcb)], NEW top \in SUBSET Pcb
  PROVE  /\ top \subseteq Below(child, top) /\ Below(child, top) \subseteq Pcb
         /\ \A p \in Below(child, top) : Range(child[p]) \subseteq Below(child, top)
<1>1. PICK f \in [0 .. MaxProc -> SUBSET Pcb] :
        Levels(f, child, top) /\ Below(child, top) = f[MaxProc]
  BY BelowLevels
<1>2. MaxProc \in Nat /\ IsFiniteSet(Pcb) /\ MaxProc = Cardinality(Pcb)
  BY MaxProcNat, PcbAssumption DEF MaxProc
<1> DEFINE Closed(S) == \A p \in S : Range(child[p]) \subseteq S
<1>3. f[0] = top /\ \A i \in 1 .. MaxProc : f[i] = f[i - 1] \cup UNION {Range(child[p]) : p \in f[i - 1]}
  BY <1>1 DEF Levels
<1>4. \A i \in 0 .. MaxProc : f[i] \subseteq Pcb /\ IsFiniteSet(f[i]) /\ Cardinality(f[i]) \in Nat
  <2> TAKE i \in 0 .. MaxProc
  <2>1. f[i] \subseteq Pcb
    OBVIOUS
  <2>2. IsFiniteSet(f[i])
    BY <1>2, <2>1, FS_Subset
  <2> QED BY <2>1, <2>2, FS_CardinalityType
<1>5. \A p \in Pcb : Range(child[p]) \subseteq Pcb
  <2> TAKE p \in Pcb
  <2>1. child[p] \in Seq(Pcb)
    OBVIOUS
  <2>2. Range(child[p]) = {child[p][i] : i \in 1 .. Len(child[p])}
    BY <2>1, RangeEquality
  <2> QED BY <2>1, <2>2
<1> DEFINE T == {i \in Nat : i <= MaxProc => top \subseteq f[i] /\ (Closed(f[i]) \/ Cardinality(f[i]) >= i)}
<1>6. 0 \in T
  <2>1. 0 \in 0 .. MaxProc
    BY <1>2
  <2>2. top \subseteq f[0] /\ Cardinality(f[0]) >= 0
    BY <1>3, <1>4, <2>1
  <2> HIDE DEF Closed
  <2> QED BY <2>2
<1>7. ASSUME NEW i \in Nat, i \in T
      PROVE  i + 1 \in T
  <2> SUFFICES ASSUME i + 1 <= MaxProc
               PROVE  top \subseteq f[i + 1] /\ (Closed(f[i + 1]) \/ Cardinality(f[i + 1]) >= i + 1)
    OBVIOUS
  <2>1. i + 1 \in 1 .. MaxProc /\ i \in 0 .. MaxProc /\ i + 1 \in 0 .. MaxProc /\ (i + 1) - 1 = i
    BY <1>2
  <2>2. top \subseteq f[i] /\ (Closed(f[i]) \/ Cardinality(f[i]) >= i)
    <3> HIDE DEF Closed
    <3> QED BY <1>2, <1>7
  <2>3. f[i + 1] = f[i] \cup UNION {Range(child[p]) : p \in f[i]}
    BY <1>3, <2>1
  <2>4. CASE Closed(f[i])
    <3>1. f[i + 1] = f[i]
      BY <2>3, <2>4
    <3> HIDE DEF Closed
    <3> QED BY <2>2, <2>4, <3>1
  <2>5. CASE ~Closed(f[i])
    <3>1. f[i] \subseteq f[i + 1] /\ f[i] # f[i + 1]
      BY <2>3, <2>5
    <3>2. Cardinality(f[i]) < Cardinality(f[i + 1])
      <4>1. IsFiniteSet(f[i + 1])
        BY <1>4, <2>1
      <4>2. /\ Cardinality(f[i]) <= Cardinality(f[i + 1])
            /\ Cardinality(f[i]) = Cardinality(f[i + 1]) => f[i] = f[i + 1]
        BY <3>1, <4>1, FS_Subset
      <4>3. Cardinality(f[i]) \in Nat /\ Cardinality(f[i + 1]) \in Nat
        BY <1>4, <2>1
      <4> QED BY <3>1, <4>2, <4>3
    <3>3. Cardinality(f[i]) >= i /\ Cardinality(f[i]) \in Nat /\ Cardinality(f[i + 1]) \in Nat
      <4> HIDE DEF Closed
      <4> QED BY <1>4, <2>1, <2>2, <2>5
    <3>4. Cardinality(f[i + 1]) >= i + 1
      BY <3>2, <3>3
    <3> HIDE DEF Closed
    <3> QED BY <2>2, <3>1, <3>4
  <2> QED BY <2>4, <2>5
<1>8. MaxProc \in T
  <2> HIDE DEF T
  <2> QED BY <1>2, <1>6, <1>7, SetInduction
<1>9. top \subseteq f[MaxProc] /\ (Closed(f[MaxProc]) \/ Cardinality(f[MaxProc]) >= MaxProc)
  <2> HIDE DEF Closed
  <2> QED BY <1>2, <1>8
<1>10. ASSUME Cardinality(f[MaxProc]) >= MaxProc
       PROVE  f[MaxProc] = Pcb
  <2>1. MaxProc \in 0 .. MaxProc
    BY <1>2
  <2>2. f[MaxProc] \subseteq Pcb /\ Cardinality(f[MaxProc]) \in Nat
    BY <1>4, <2>1
  <2>3. /\ Cardinality(f[MaxProc]) <= Cardinality(Pcb)
        /\ Cardinality(f[MaxProc]) = Cardinality(Pcb) => f[MaxProc] = Pcb
    BY <1>2, <2>2, FS_Subset
  <2> QED BY <1>2, <1>10, <2>2, <2>3
<1>11. Closed(f[MaxProc])
  BY <1>5, <1>9, <1>10
<1>12. f[MaxProc] \subseteq Pcb
  BY <1>2, <1>4
<1> HIDE DEF Levels
<1> QED BY <1>1, <1>9, <1>11, <1>12

(* It is the least such set.                                               *)
LEMMA BelowLeast ==
  ASSUME NEW child \in [Pcb -> Seq(Pcb)], NEW top \in SUBSET Pcb, NEW S,
         top \subseteq S, \A p \in S \cap Pcb : Range(child[p]) \subseteq S
  PROVE  Below(child, top) \subseteq S
<1>1. PICK f \in [0 .. MaxProc -> SUBSET Pcb] :
        Levels(f, child, top) /\ Below(child, top) = f[MaxProc]
  BY BelowLevels
<1>2. MaxProc \in Nat
  BY MaxProcNat
<1>3. f[0] = top /\ \A i \in 1 .. MaxProc : f[i] = f[i - 1] \cup UNION {Range(child[p]) : p \in f[i - 1]}
  BY <1>1 DEF Levels
<1> DEFINE T == {i \in Nat : i <= MaxProc => f[i] \subseteq S}
<1>4. 0 \in T
  BY <1>3
<1>5. ASSUME NEW i \in Nat, i \in T
      PROVE  i + 1 \in T
  <2> SUFFICES ASSUME i + 1 <= MaxProc
               PROVE  f[i + 1] \subseteq S
    OBVIOUS
  <2>1. i + 1 \in 1 .. MaxProc /\ i \in 0 .. MaxProc /\ (i + 1) - 1 = i /\ f[i] \subseteq S
    BY <1>2, <1>5
  <2>2. f[i + 1] = f[i] \cup UNION {Range(child[p]) : p \in f[i]}
    BY <1>3, <2>1
  <2>3. f[i] \subseteq Pcb
    BY <2>1
  <2> QED BY <2>1, <2>2, <2>3
<1>6. MaxProc \in T
  <2> HIDE DEF T
  <2> QED BY <1>2, <1>4, <1>5, SetInduction
<1> QED BY <1>1, <1>2, <1>6

-----------------------------------------------------------------------------
(* What the abstract system sees.                                          *)

(* What the following lemmas use of IInv.                                  *)
LEMMA CallsTyped ==
  ASSUME IInv
  PROVE  /\ p_child \in [Pcb -> Seq(Pcb)] /\ p_parent \in [Pcb -> Pcb \cup {NoProc}]
         /\ calls \in Seq(Pcb) /\ Range(calls) \in SUBSET Pcb
         /\ activeProcs \subseteq Pcb
         /\ s_procq \in [Sem -> Seq(Pcb)] /\ p_semAdd \in [Pcb -> Sem \cup {NoSem}]
         /\ semVal \in [Sem -> Int]
<1>1. calls \in Seq(Pcb)
  BY DEF IInv, CallTypes
<1>2. Range(calls) = {calls[i] : i \in 1 .. Len(calls)}
  BY <1>1, RangeEquality
<1>3. Range(calls) \in SUBSET Pcb
  BY <1>1, <1>2
<1> QED BY <1>1, <1>3 DEF IInv, TreeTypes, OtherTypes, PlacedNow, Placed, QueueTypes

(* Doomed is the least closed set around the calls, with or without one.   *)
LEMMA DoomedBelow ==
  ASSUME IInv
  PROVE  Doomed = Below(p_child, Range(calls))
<1>1. CASE calls = <<>>
  <2>1. Range(calls) = {}
    BY <1>1 DEF Range
  <2>2. Below(p_child, {}) \subseteq {}
    <3>1. {} \in SUBSET Pcb /\ p_child \in [Pcb -> Seq(Pcb)]
      BY CallsTyped
    <3>2. {} \subseteq {} /\ \A p \in {} \cap Pcb : Range(p_child[p]) \subseteq {}
      OBVIOUS
    <3> QED BY <3>1, <3>2, BelowLeast
  <2> QED BY <1>1, <2>1, <2>2 DEF Doomed
<1>2. CASE calls # <<>>
  BY <1>2 DEF Doomed
<1> QED BY <1>1, <1>2

\* No call of terminateProcess is active.
Undisturbed == calls = <<>>

\* The abstract system sees the tree, the queues and the values as they are.
AsItIs ==
  /\ AbsLive = activeProcs /\ AbsParent = p_parent /\ AbsWaitq = s_procq
  /\ AbsValue = [s \in Normal |-> semVal[s]]

(* While no call is active nobody is doomed, and the abstract system sees  *)
(* the tree and the queues as they are.                                    *)
LEMMA Quiet == IInv /\ Undisturbed => AsItIs
<1> SUFFICES ASSUME IInv, calls = <<>>
             PROVE  AsItIs
  BY DEF Undisturbed
<1>1. Doomed = {}
  BY DEF Doomed
<1>2. AbsLive = activeProcs
  BY <1>1 DEF AbsLive
<1>3. AbsParent = p_parent
  BY <1>1, CallsTyped DEF AbsParent
<1>4. AbsWaitq = s_procq
  <2>1. \A s \in Sem : Without(s_procq[s], {}) = s_procq[s]
    <3> TAKE s \in Sem
    <3>1. s_procq[s] \in Seq(Pcb) /\ Range(s_procq[s]) \cap {} = {}
      BY CallsTyped
    <3> QED BY <3>1, WithoutNone
  <2> QED BY <1>1, <2>1, CallsTyped DEF AbsWaitq
<1>5. AbsValue = [s \in Normal |-> semVal[s]]
  <2>1. \A s \in Normal : semVal[s] + Cardinality(Range(s_procq[s]) \cap {}) = semVal[s]
    <3> TAKE s \in Normal
    <3>1. semVal[s] \in Int
      BY CallsTyped DEF Sem
    <3>2. Range(s_procq[s]) \cap {} = {} /\ Cardinality({}) = 0
      BY FS_EmptySet
    <3> QED BY <3>1, <3>2
  <2> QED BY <1>1, <2>1 DEF AbsValue
<1> QED BY <1>2, <1>3, <1>4, <1>5 DEF AsItIs

(* The same after a step.                                                  *)
LEMMA QuietNext == IInv' /\ Undisturbed' => AsItIs'
BY Quiet, PTL

(* A process that executes is free for the abstract system.                *)
LEMMA CurrentFree ==
  ASSUME IInv, calls = <<>>, currentProcess # NoProc
  PROVE  currentProcess \in Pcb /\ currentProcess \in System!Free
<1>1. currentProcess \in Pcb /\ currentProcess \in activeProcs /\ p_semAdd[currentProcess] = NoSem
  BY DEF IInv, PlacedNow, Placed, QueueTypes, Elsewhere
<1>2. \A s \in Sem : currentProcess \notin Range(s_procq[s])
  BY <1>1, NoSemAssumption DEF IInv, PlacedNow, Placed, BlockedWhere
<1>3. ~System!Waiting(currentProcess)
  <2> SUFFICES ASSUME NEW s \in Sem, NEW i \in 1 .. Len(s_procq[s]), s_procq[s][i] = currentProcess
               PROVE  FALSE
    BY Quiet DEF System!Waiting, Sem, Undisturbed, AsItIs
  <2>1. Range(s_procq[s]) = {s_procq[s][j] : j \in 1 .. Len(s_procq[s])}
    BY CallsTyped, RangeEquality
  <2> QED BY <1>2, <2>1
<1> QED BY <1>1, <1>3, Quiet DEF System!Free, Undisturbed, AsItIs

(* The operators that both modules take from the libraries.                *)
LEMMA SameOperators ==
  /\ System!Cardinality(Pcb) = Cardinality(Pcb)
  /\ \A q, S : System!Without(q, S) = Without(q, S)
<1>1. System!Cardinality(Pcb) = Cardinality(Pcb)
  BY DEF System!Cardinality, Cardinality
<1>2. \A q, S : System!Without(q, S) = Without(q, S)
  BY DEF System!Without, Without
<1> QED BY <1>1, <1>2

(* The descendants of a process in the child lists are those in the parent *)
(* fields of the live processes, level by level.                           *)
LEMMA SubtreeBelow ==
  ASSUME IInv, AbsLive = activeProcs, AbsParent = p_parent, NEW t \in Pcb
  PROVE  System!Subtree(t) = Below(p_child, {t})
<1> DEFINE K(f) == f = [n \in 0 .. Cardinality(Pcb) |->
                          IF n = 0 THEN {t}
                          ELSE f[n - 1] \cup {p \in AbsLive : AbsParent[p] \in f[n - 1]}]
           f == CHOOSE f : K(f)
<1>1. PICK h \in [0 .. MaxProc -> SUBSET Pcb] :
        Levels(h, p_child, {t}) /\ Below(p_child, {t}) = h[MaxProc]
  BY CallsTyped, BelowLevels
<1>2. MaxProc \in Nat /\ MaxProc = Cardinality(Pcb)
  BY MaxProcNat DEF MaxProc
<1>3. ASSUME NEW S \in SUBSET Pcb
      PROVE  UNION {Range(p_child[p]) : p \in S} = {p \in activeProcs : p_parent[p] \in S}
  <2>1. \A p, c \in Pcb : c \in Range(p_child[p]) <=> p_parent[c] = p
    BY DEF IInv, TreeLinks
  <2>2. \A c \in Pcb : p_parent[c] \in Pcb => c \in activeProcs
    BY PcbAssumption DEF IInv, TreeLinks
  <2>3. \A p \in Pcb : Range(p_child[p]) \subseteq Pcb
    <3> TAKE p \in Pcb
    <3>1. p_child[p] \in Seq(Pcb)
      BY CallsTyped
    <3>2. Range(p_child[p]) = {p_child[p][i] : i \in 1 .. Len(p_child[p])}
      BY <3>1, RangeEquality
    <3> QED BY <3>1, <3>2
  <2>4. activeProcs \subseteq Pcb
    BY CallsTyped
  <2> QED BY <2>1, <2>2, <2>3, <2>4
<1>4. h[0] = {t} /\ \A i \in 1 .. MaxProc : h[i] = h[i - 1] \cup {p \in activeProcs : p_parent[p] \in h[i - 1]}
  <2>1. h[0] = {t}
    BY <1>1 DEF Levels
  <2>2. ASSUME NEW i \in 1 .. MaxProc
        PROVE  h[i] = h[i - 1] \cup {p \in activeProcs : p_parent[p] \in h[i - 1]}
    <3>1. i - 1 \in 0 .. MaxProc
      BY <1>2
    <3>2. h[i - 1] \in SUBSET Pcb
      BY <3>1
    <3>3. h[i] = h[i - 1] \cup UNION {Range(p_child[p]) : p \in h[i - 1]}
      BY <1>1 DEF Levels
    <3> QED BY <1>3, <3>2, <3>3
  <2> QED BY <2>1, <2>2
<1>5. K(h)
  <2>1. h = [i \in 0 .. Cardinality(Pcb) |-> h[i]]
    BY <1>2
  <2>2. ASSUME NEW i \in 0 .. Cardinality(Pcb)
        PROVE  h[i] = IF i = 0 THEN {t} ELSE h[i - 1] \cup {p \in AbsLive : AbsParent[p] \in h[i - 1]}
    <3>1. i = 0 \/ (i \in 1 .. MaxProc /\ i # 0)
      BY <1>2
    <3> QED BY <1>4, <3>1
  <2> QED BY <2>1, <2>2
<1>6. K(f)
  <2> HIDE DEF K
  <2> QED BY <1>5
<1>7. System!Subtree(t) = f[Cardinality(Pcb)]
  BY SameOperators DEF System!Subtree
<1> HIDE DEF f
<1>8. \A i \in 0 .. MaxProc :
        f[i] = IF i = 0 THEN {t} ELSE f[i - 1] \cup {p \in activeProcs : p_parent[p] \in f[i - 1]}
  BY <1>2, <1>6
<1> DEFINE T == {i \in Nat : i <= MaxProc => f[i] = h[i]}
<1>9. MaxProc \in T
  <2> HIDE DEF K
  <2>1. 0 \in T
    <3>1. 0 \in 0 .. MaxProc
      BY <1>2
    <3> QED BY <1>4, <1>8, <3>1
  <2>2. ASSUME NEW i \in Nat, i \in T
        PROVE  i + 1 \in T
    <3> SUFFICES ASSUME i + 1 <= MaxProc
                 PROVE  f[i + 1] = h[i + 1]
      OBVIOUS
    <3>1. i + 1 \in 0 .. MaxProc /\ i + 1 \in 1 .. MaxProc /\ (i + 1) - 1 = i /\ i + 1 # 0 /\ f[i] = h[i]
      BY <1>2, <2>2
    <3>2. f[i + 1] = f[i] \cup {p \in activeProcs : p_parent[p] \in f[i]}
      BY <1>8, <3>1
    <3>3. h[i + 1] = h[i] \cup {p \in activeProcs : p_parent[p] \in h[i]}
      BY <1>4, <3>1
    <3> QED BY <3>1, <3>2, <3>3
  <2> HIDE DEF T
  <2> QED BY <1>2, <2>1, <2>2, SetInduction
<1>10. f[MaxProc] = h[MaxProc]
  BY <1>2, <1>9
<1> QED BY <1>1, <1>2, <1>7, <1>10

DoomedIsBelow == Doomed = Below(p_child, Range(calls))

(* DoomedBelow after a step.                                               *)
LEMMA DoomedBelowNext == IInv' => DoomedIsBelow'
<1>1. IInv => DoomedIsBelow
  BY DoomedBelow DEF DoomedIsBelow
<1> QED BY <1>1, PTL

\* The doomed hold the calls, and are closed downwards.
IsClosed ==
  /\ Range(calls) \subseteq Doomed /\ Doomed \subseteq Pcb
  /\ \A p \in Doomed : Range(p_child[p]) \subseteq Doomed

\* No smaller set does and is.
IsLeast ==
  \A S \in SUBSET Pcb :
    Range(calls) \subseteq S /\ (\A p \in S : Range(p_child[p]) \subseteq S) => Doomed \subseteq S

(* They are the least set that holds the calls and is closed downwards.    *)
LEMMA DoomedClosed == IInv => IsClosed /\ IsLeast
<1> SUFFICES ASSUME IInv
             PROVE  IsClosed /\ IsLeast
  OBVIOUS
<1>1. p_child \in [Pcb -> Seq(Pcb)] /\ Range(calls) \in SUBSET Pcb
  BY CallsTyped
<1>2. Doomed = Below(p_child, Range(calls))
  BY DoomedBelow
<1>3. IsClosed
  BY <1>1, <1>2, BelowClosed DEF IsClosed
<1>4. ASSUME NEW S \in SUBSET Pcb, Range(calls) \subseteq S,
             \A p \in S : Range(p_child[p]) \subseteq S
      PROVE  Doomed \subseteq S
  <2>1. \A p \in S \cap Pcb : Range(p_child[p]) \subseteq S
    BY <1>4
  <2> QED BY <1>1, <1>2, <1>4, <2>1, BelowLeast
<1> QED BY <1>3, <1>4 DEF IsLeast

(* The same after a step.                                                  *)
LEMMA DoomedClosedNext == IInv' => IsClosed' /\ IsLeast'
BY DoomedClosed, PTL

-----------------------------------------------------------------------------
(* Termination.                                                            *)

(* The outermost call of terminateProcess kills the whole subtree at once. *)
LEMMA KillStep ==
  ASSUME IInv, IInv', Running, NEW t \in activeProcs, Terminate(t)
  PROVE  System!Kill(t)
<1>1. Undisturbed /\ currentProcess # NoProc
  BY NoCalls DEF Running, Undisturbed, IInv, CpuTypes
<1>2. AsItIs
  BY <1>1, Quiet
<1>3. currentProcess \in System!Free
  BY <1>1, CurrentFree DEF Undisturbed
<1>4. /\ calls' = <<t>> /\ p_child' = p_child /\ p_parent' = p_parent
      /\ activeProcs' = activeProcs /\ s_procq' = s_procq /\ semVal' = semVal
  BY DEF Terminate, tree, sems
<1>5. t \in Pcb
  BY CallsTyped
<1> DEFINE dead == Below(p_child, {t})
<1>6. Doomed' = dead
  <2>1. Range(<<t>>) = {t}
    BY DEF Range
  <2> QED BY <1>4, <2>1, DoomedBelowNext DEF DoomedIsBelow
<1>7. System!Subtree(t) = dead
  BY <1>2, <1>5, SubtreeBelow DEF AsItIs
<1> HIDE DEF dead
<1>8. AbsLive' = AbsLive \ dead
  BY <1>2, <1>4, <1>6 DEF AbsLive, AsItIs
<1>9. AbsParent' = [p \in Pcb |-> IF p \in dead THEN NoProc ELSE AbsParent[p]]
  BY <1>2, <1>4, <1>6 DEF AbsParent, AsItIs
<1>10. AbsWaitq' = [s \in DOMAIN AbsWaitq |-> System!Without(AbsWaitq[s], dead)]
  <2>1. AbsWaitq' = [s \in Sem |-> Without(s_procq[s], dead)]
    BY <1>4, <1>6 DEF AbsWaitq
  <2>2. AbsWaitq = s_procq /\ DOMAIN s_procq = Sem
    BY <1>2, CallsTyped DEF AsItIs
  <2> QED BY <2>1, <2>2, SameOperators
<1>11. AbsValue' = [s \in Normal |-> AbsValue[s] + Len(AbsWaitq[s]) - Len(System!Without(AbsWaitq[s], dead))]
  <2>1. AbsValue' = [s \in Normal |-> semVal[s] + Cardinality(Range(s_procq[s]) \cap dead)]
    BY <1>4, <1>6 DEF AbsValue
  <2>2. ASSUME NEW s \in Normal
        PROVE  semVal[s] + Cardinality(Range(s_procq[s]) \cap dead)
                 = AbsValue[s] + Len(AbsWaitq[s]) - Len(System!Without(AbsWaitq[s], dead))
    <3>1. s \in Sem
      BY DEF Sem
    <3>2. s_procq[s] \in Seq(Pcb) /\ IsInjective(s_procq[s]) /\ semVal[s] \in Int
      BY <3>1, CallsTyped DEF IInv, PlacedNow, Placed, NoDuplicates
    <3>3. AbsValue[s] = semVal[s] /\ AbsWaitq[s] = s_procq[s]
      BY <1>2 DEF AsItIs
    <3>4. /\ Cardinality(Range(s_procq[s]) \cap dead) \in Nat
          /\ Len(Without(s_procq[s], dead)) = Len(s_procq[s]) - Cardinality(Range(s_procq[s]) \cap dead)
      BY <3>2, WithoutLen
    <3>5. Len(s_procq[s]) \in Nat
      BY <3>2
    <3>6. System!Without(AbsWaitq[s], dead) = Without(s_procq[s], dead)
      BY <3>3, SameOperators
    <3> DEFINE c == Cardinality(Range(s_procq[s]) \cap dead)
               n == Len(s_procq[s])
    <3>7. semVal[s] + c = semVal[s] + n - (n - c)
      <4>1. semVal[s] \in Int /\ c \in Nat /\ n \in Nat
        BY <3>2, <3>4, <3>5
      <4> HIDE DEF c, n
      <4> QED BY <4>1
    <3>8. Len(AbsWaitq[s]) = n /\ Len(System!Without(AbsWaitq[s], dead)) = n - c
      BY <3>3, <3>4, <3>6
    <3> HIDE DEF c, n
    <3>9. semVal[s] + c = AbsValue[s] + Len(AbsWaitq[s]) - Len(System!Without(AbsWaitq[s], dead))
      BY <3>3, <3>7, <3>8
    <3> QED BY <3>9 DEF c
  <2> QED BY <2>1, <2>2
<1>12. t \in AbsLive
  BY <1>2 DEF AsItIs
<1> QED BY <1>3, <1>7, <1>8, <1>9, <1>10, <1>11, <1>12 DEF System!Kill

(* One turn of its loop moves nobody in or out of the doomed.              *)
LEMMA TerminateChildStutters ==
  ASSUME IInv, IInv', TerminateChild
  PROVE  UNCHANGED System!psvars
<1> DEFINE p     == Head(calls)
           child == Head(p_child[p])
           rest  == Tail(p_child[p])
<1>1. /\ UNCHANGED <<activeProcs, s_procq, semVal>>
      /\ cpu = "terminate" /\ p_child[p] # <<>>
      /\ p_child' = [p_child EXCEPT ![p] = rest]
      /\ p_parent' = [p_parent EXCEPT ![child] = NoProc]
      /\ calls' = IF child \in terminated THEN calls ELSE <<child>> \o calls
  BY DEF TerminateChild, sems, procs
<1>2. calls # <<>> /\ calls \in Seq(Pcb)
  BY <1>1 DEF IInv, CpuTypes, CallTypes
<1>3. p \in Pcb /\ p \in Range(calls)
  BY <1>2, TailProperties
<1> HIDE DEF p
<1>4. TreeTypes /\ TreeLinks
  BY DEF IInv
<1>5. p_child[p] \in Seq(Pcb) /\ IsInjective(p_child[p])
  BY <1>3, <1>4 DEF TreeTypes, TreeLinks
<1>6. /\ child \in Pcb /\ Range(p_child[p]) = Range(rest) \cup {child}
  BY <1>1, <1>5, TailProperties
<1> HIDE DEF child, rest
<1>7. child \in activeProcs
  BY <1>3, <1>4, <1>6, PcbAssumption DEF TreeLinks
<1>8. Range(calls') = Range(calls) \cup {child}
  <2>1. CASE child \in terminated
    <3>1. child \in Range(calls)
      BY <1>7, <2>1 DEF IInv, TerminationOnce
    <3> QED BY <1>1, <2>1, <3>1
  <2>2. CASE child \notin terminated
    <3>1. calls' = <<child>> \o calls
      BY <1>1, <2>2
    <3> QED BY <1>2, <1>6, <3>1, PushProperties
  <2> QED BY <2>1, <2>2
<1>9. /\ Range(p_child'[p]) \cup {child} = Range(p_child[p])
      /\ \A x \in Pcb : x # p => p_child'[x] = p_child[x]
  BY <1>1, <1>3, <1>4, <1>6 DEF TreeTypes
<1>10. /\ Range(calls) \subseteq Doomed /\ Doomed \subseteq Pcb
       /\ \A x \in Doomed : Range(p_child[x]) \subseteq Doomed
  BY DoomedClosed DEF IsClosed
<1>11. /\ Range(calls') \subseteq Doomed' /\ Doomed' \subseteq Pcb
       /\ \A x \in Doomed' : Range(p_child'[x]) \subseteq Doomed'
  BY DoomedClosedNext DEF IsClosed
<1>12. child \in Doomed
  BY <1>3, <1>6, <1>10
<1>13. Doomed' \subseteq Doomed
  <2>1. Range(calls') \subseteq Doomed
    BY <1>8, <1>10, <1>12
  <2>2. ASSUME NEW x \in Doomed
        PROVE  Range(p_child'[x]) \subseteq Doomed
    <3>1. Range(p_child[x]) \subseteq Doomed /\ x \in Pcb
      BY <1>10
    <3>2. Range(p_child'[x]) \subseteq Range(p_child[x])
      BY <1>9, <3>1
    <3> QED BY <3>1, <3>2
  <2> QED BY <1>10, <2>1, <2>2, DoomedClosedNext DEF IsLeast
<1>14. Doomed \subseteq Doomed'
  <2>1. Range(calls) \subseteq Doomed' /\ child \in Doomed'
    BY <1>8, <1>11
  <2>2. ASSUME NEW x \in Doomed'
        PROVE  Range(p_child[x]) \subseteq Doomed'
    <3>1. Range(p_child'[x]) \subseteq Doomed' /\ x \in Pcb
      BY <1>11
    <3>2. Range(p_child[x]) \subseteq Range(p_child'[x]) \cup {child}
      BY <1>9, <3>1
    <3> QED BY <2>1, <3>1, <3>2
  <2> QED BY <1>11, <2>1, <2>2, DoomedClosed DEF IsLeast
<1>15. Doomed' = Doomed
  BY <1>13, <1>14
<1>16. AbsLive' = AbsLive /\ AbsWaitq' = AbsWaitq /\ AbsValue' = AbsValue
  BY <1>1, <1>15 DEF AbsLive, AbsWaitq, AbsValue
<1>17. AbsParent' = AbsParent
  <2>1. \A x \in Pcb : x \notin Doomed => p_parent'[x] = p_parent[x]
    BY <1>1, <1>4, <1>6, <1>12 DEF TreeTypes
  <2> QED BY <1>15, <2>1 DEF AbsParent
<1> QED BY <1>16, <1>17 DEF System!psvars

(* The end of a call frees a process that is dead already.                 *)
LEMMA TerminateSelfStutters ==
  ASSUME IInv, IInv', TerminateSelf
  PROVE  UNCHANGED System!psvars
<1> DEFINE p  == Head(calls)
           up == p_parent[p]
           s0 == p_semAdd[p]
<1>1. /\ cpu = "terminate" /\ p_child[p] = <<>> /\ OutChild(p)
      /\ activeProcs' = activeProcs \ {p}
      /\ LeaveSemaphore(p)
      /\ calls' = Tail(calls)
  BY DEF TerminateSelf
<1>2. calls # <<>> /\ calls \in Seq(Pcb) /\ IsInjective(calls)
  BY <1>1 DEF IInv, CpuTypes, CallTypes, TerminationOnce
<1>3. p \in Pcb /\ Range(calls) = Range(Tail(calls)) \cup {p} /\ p \notin Range(Tail(calls))
  BY <1>2, TailProperties
<1> HIDE DEF p
<1>4. TreeTypes /\ TreeLinks /\ NoProc \notin Pcb
  BY PcbAssumption DEF IInv
<1>5. /\ p_parent'[p] = NoProc
      /\ \A x \in Pcb : x # p => p_parent'[x] = p_parent[x]
      /\ \A x \in Pcb : Range(p_child'[x]) = Range(p_child[x]) \ {p}
  <2>1. \A x \in Pcb : p_child[x] \in Seq(Pcb) /\ IsInjective(p_child[x])
    BY <1>4 DEF TreeTypes, TreeLinks
  <2>2. \A x \in Pcb : p \in Range(p_child[x]) <=> up = x
    BY <1>3, <1>4 DEF TreeLinks
  <2>3. CASE up = NoProc
    <3>1. p_parent' = p_parent /\ p_child' = p_child
      BY <1>1, <2>3 DEF OutChild, tree
    <3>2. \A x \in Pcb : p \notin Range(p_child[x])
      BY <1>4, <2>2, <2>3
    <3> QED BY <2>3, <3>1, <3>2
  <2>4. CASE up # NoProc
    <3>1. /\ p_parent' = [p_parent EXCEPT ![p] = NoProc]
          /\ p_child' = [p_child EXCEPT ![up] = RemoveFirst(@, p)]
      BY <1>1, <2>4 DEF OutChild
    <3>2. up \in Pcb
      BY <1>3, <1>4, <2>4 DEF TreeTypes
    <3>3. Range(RemoveFirst(p_child[up], p)) = Range(p_child[up]) \ {p}
      BY <2>1, <3>2, RemoveFirstProperties
    <3> HIDE DEF up
    <3>4. /\ p_child'[up] = RemoveFirst(p_child[up], p)
          /\ \A x \in Pcb : x # up => p_child'[x] = p_child[x]
      BY <1>4, <3>1, <3>2 DEF TreeTypes
    <3>5. \A x \in Pcb : Range(p_child'[x]) = Range(p_child[x]) \ {p}
      BY <2>2, <3>3, <3>4
    <3>6. p_parent'[p] = NoProc /\ \A x \in Pcb : x # p => p_parent'[x] = p_parent[x]
      BY <1>3, <1>4, <3>1 DEF TreeTypes
    <3> QED BY <3>5, <3>6
  <2> QED BY <2>3, <2>4
<1>6. /\ Range(calls) \subseteq Doomed /\ Doomed \subseteq Pcb
      /\ \A x \in Doomed : Range(p_child[x]) \subseteq Doomed
  BY DoomedClosed DEF IsClosed
<1>7. /\ Range(calls') \subseteq Doomed' /\ Doomed' \subseteq Pcb
      /\ \A x \in Doomed' : Range(p_child'[x]) \subseteq Doomed'
  BY DoomedClosedNext DEF IsClosed
<1>8. Doomed' \subseteq Doomed \ {p}
  <2> DEFINE S == Doomed \ {p}
  <2>1. Range(calls') \subseteq S /\ S \in SUBSET Pcb
    BY <1>1, <1>3, <1>6
  <2>2. \A x \in S : Range(p_child'[x]) \subseteq S
    BY <1>5, <1>6
  <2> HIDE DEF S
  <2>3. Doomed' \subseteq S
    BY <2>1, <2>2, DoomedClosedNext DEF IsLeast
  <2> QED BY <2>3 DEF S
<1>9. Doomed \subseteq Doomed' \cup {p}
  <2> DEFINE S == Doomed' \cup {p}
  <2>1. Range(calls) \subseteq S /\ S \in SUBSET Pcb
    BY <1>1, <1>3, <1>7
  <2>2. ASSUME NEW x \in S
        PROVE  Range(p_child[x]) \subseteq S
    <3>1. CASE x = p
      BY <1>1, <3>1 DEF Range
    <3>2. CASE x # p
      <4>1. x \in Doomed' /\ x \in Pcb
        BY <1>7, <3>2
      <4> QED BY <1>5, <1>7, <4>1
    <3> QED BY <3>1, <3>2
  <2> HIDE DEF S
  <2>3. Doomed \subseteq S
    BY <2>1, <2>2, DoomedClosed DEF IsLeast
  <2> QED BY <2>3 DEF S
<1>10. p \in Doomed /\ p \notin Doomed' /\ Doomed' = Doomed \ {p}
  BY <1>3, <1>6, <1>8, <1>9
<1>11. AbsLive' = AbsLive
  BY <1>1, <1>10 DEF AbsLive
<1>12. AbsParent' = AbsParent
  <2>1. ASSUME NEW x \in Pcb
        PROVE  (IF x \in Doomed' THEN NoProc ELSE p_parent'[x]) = IF x \in Doomed THEN NoProc ELSE p_parent[x]
    BY <1>5, <1>10
  <2> QED BY <2>1 DEF AbsParent
<1>13. ASSUME NEW s \in Sem
       PROVE  /\ s_procq[s] \in Seq(Pcb) /\ IsInjective(s_procq[s]) /\ semVal[s] \in Int
              /\ p \in Range(s_procq[s]) <=> s0 = s
  BY <1>3, CallsTyped DEF IInv, PlacedNow, Placed, NoDuplicates, BlockedWhere
<1>14. ASSUME NEW s \in Sem, s # s0
       PROVE  s_procq'[s] = s_procq[s] /\ semVal'[s] = semVal[s]
  BY <1>1, <1>14, CallsTyped DEF LeaveSemaphore, OutBlocked
<1>15. ASSUME s0 \in Sem
       PROVE  /\ s_procq'[s0] = RemoveFirst(s_procq[s0], p)
              /\ s0 \in Normal => semVal'[s0] = semVal[s0] + 1
  <2>1. p \in Range(s_procq[s0]) /\ s0 # NoSem
    BY <1>13, <1>15, NoSemAssumption
  <2>2. Contains(s_procq[s0], p)
    BY <1>13, <1>15, <2>1, RangeEquality DEF Contains
  <2>3. s_procq' = OutBlocked(s_procq, s0, p)
    BY <1>1, <2>1, <2>2 DEF LeaveSemaphore
  <2>4. s0 \in Normal => semVal' = [semVal EXCEPT ![s0] = @ + 1]
    BY <1>1, <2>1, <2>2, NormalIsNotSoft DEF LeaveSemaphore
  <2> HIDE DEF s0
  <2> QED BY <1>15, <2>3, <2>4, CallsTyped DEF OutBlocked
<1> HIDE DEF s0
<1>16. ASSUME NEW s \in Sem
       PROVE  /\ Without(s_procq'[s], Doomed') = Without(s_procq[s], Doomed)
              /\ s \in Normal => semVal'[s] + Cardinality(Range(s_procq'[s]) \cap Doomed')
                                   = semVal[s] + Cardinality(Range(s_procq[s]) \cap Doomed)
  <2>1. s_procq[s] \in Seq(Pcb) /\ IsInjective(s_procq[s]) /\ semVal[s] \in Int
    BY <1>13
  <2>2. Range(s_procq[s]) = {s_procq[s][i] : i \in 1 .. Len(s_procq[s])}
    BY <2>1, RangeEquality
  <2>3. CASE s # s0
    <3>1. p \notin Range(s_procq[s])
      BY <1>13, <2>3
    <3>2. \A i \in 1 .. Len(s_procq[s]) : s_procq[s][i] \in Doomed' <=> s_procq[s][i] \in Doomed
      BY <1>10, <2>2, <3>1
    <3>3. Range(s_procq[s]) \cap Doomed' = Range(s_procq[s]) \cap Doomed
      BY <1>10, <3>1
    <3>4. s_procq'[s] = s_procq[s] /\ semVal'[s] = semVal[s]
      BY <1>14, <2>3
    <3>5. Without(s_procq[s], Doomed') = Without(s_procq[s], Doomed)
      BY <2>1, <3>2, WithoutSame
    <3> QED BY <3>3, <3>4, <3>5
  <2>4. CASE s = s0
    <3> DEFINE q == s_procq[s]
               r == RemoveFirst(q, p)
    <3>1. s_procq'[s] = r /\ (s \in Normal => semVal'[s] = semVal[s] + 1)
      BY <1>15, <2>4
    <3>2. q \in Seq(Pcb) /\ IsInjective(q) /\ p \in Range(q)
      BY <1>13, <2>1, <2>4
    <3> HIDE DEF q
    <3>3. r \in Seq(Pcb) /\ Range(r) = Range(q) \ {p}
      BY <3>2, RemoveFirstProperties
    <3>4. Without(r, Doomed) = Without(q, Doomed)
      BY <1>10, <3>2, WithoutRemoved
    <3> HIDE DEF r
    <3>5. Range(r) = {r[i] : i \in 1 .. Len(r)}
      BY <3>3, RangeEquality
    <3>6. \A i \in 1 .. Len(r) : r[i] \in Doomed' <=> r[i] \in Doomed
      BY <1>10, <3>3, <3>5
    <3>7. Without(r, Doomed') = Without(r, Doomed)
      BY <3>3, <3>6, WithoutSame
    <3> DEFINE few  == Range(r) \cap Doomed'
               many == Range(q) \cap Doomed
    <3>8. many = few \cup {p} /\ p \notin few
      BY <1>10, <3>2, <3>3
    <3>9. IsFiniteSet(few)
      <4>1. few \subseteq Pcb
        BY <1>6, <1>10
      <4> HIDE DEF few
      <4> QED BY <4>1, PcbAssumption, FS_Subset
    <3>10. Cardinality(many) = Cardinality(few) + 1 /\ Cardinality(few) \in Nat
      <4> HIDE DEF few, many
      <4>1. Cardinality(few \cup {p}) = Cardinality(few) + 1
        BY <3>8, <3>9, FS_AddElement
      <4> QED BY <3>8, <3>9, <4>1, FS_CardinalityType
    <3>11. s \in Normal => semVal'[s] + Cardinality(few) = semVal[s] + Cardinality(many)
      <4> HIDE DEF few, many
      <4> QED BY <2>1, <3>1, <3>10
    <3>12. Without(s_procq'[s], Doomed') = Without(s_procq[s], Doomed)
      BY <3>1, <3>4, <3>7 DEF q
    <3> QED BY <3>1, <3>11, <3>12 DEF q
  <2> QED BY <2>3, <2>4
<1>17. AbsWaitq' = AbsWaitq
  BY <1>16 DEF AbsWaitq
<1>18. AbsValue' = AbsValue
  <2>1. Normal \subseteq Sem
    BY DEF Sem
  <2> QED BY <1>16, <2>1 DEF AbsValue
<1> QED BY <1>11, <1>12, <1>17, <1>18 DEF System!psvars

-----------------------------------------------------------------------------
(* The other handlers.                                                     *)

\* No call of terminateProcess is active before the step or after it.
Calm == IInv /\ IInv' /\ calls = <<>> /\ calls' = <<>>

(* What the abstract system sees of such a step.                           *)
LEMMA CalmView ==
  ASSUME Calm
  PROVE  /\ AbsLive = activeProcs /\ AbsParent = p_parent /\ AbsWaitq = s_procq
         /\ AbsValue = [s \in Normal |-> semVal[s]]
         /\ AbsLive' = activeProcs' /\ AbsParent' = p_parent' /\ AbsWaitq' = s_procq'
         /\ AbsValue' = [s \in Normal |-> semVal'[s]]
BY Quiet, QuietNext DEF Calm, Undisturbed, AsItIs

(* A handler outside terminateProcess is calm.                             *)
LEMMA CalmStep ==
  ASSUME IInv, IInv', cpu # "terminate", UNCHANGED calls
  PROVE  Calm
BY NoCalls DEF Calm

(* What the abstract system sees of a step that changes no process.        *)
LEMMA CalmStutters ==
  ASSUME Calm, UNCHANGED <<activeProcs, p_parent, s_procq>>,
         \A s \in Normal : semVal'[s] = semVal[s]
  PROVE  UNCHANGED System!psvars
BY CalmView DEF System!psvars

(* The process that executes may do a system call of the abstract system.  *)
LEMMA CallerFree ==
  ASSUME IInv, Running
  PROVE  currentProcess \in Pcb /\ currentProcess \in System!Free
<1>1. calls = <<>> /\ currentProcess # NoProc
  BY NoCalls DEF Running, IInv, CpuTypes
<1> QED BY <1>1, CurrentFree

(* blockCurrentProcess puts the caller last into the queue.                *)
LEMMA BlockAppends ==
  ASSUME IInv, Running, NEW s \in Sem, NEW soft, BlockCurrentProcess(s, soft)
  PROVE  s_procq' = [s_procq EXCEPT ![s] = Append(@, currentProcess)]
<1>1. currentProcess \in Pcb
  BY CallerFree
<1>2. CanBlock(s_procq, s, MaxProc)
  BY <1>1, PlacedCanBlock DEF IInv, PlacedNow
<1> QED BY <1>2 DEF BlockCurrentProcess, InsertBlocked

(* CREATEPROCESS starts a process.                                         *)
LEMMA CreateProcessStarts ==
  ASSUME IInv, IInv', NEW prio, NEW support, CreateProcess(prio, support)
  PROVE  \E p, c \in Pcb : System!Start(p, c)
<1> DEFINE child == Head(pcbFree)
<1>1. /\ Running /\ pcbFree # <<>>
      /\ p_parent' = [p_parent EXCEPT ![child] = currentProcess]
      /\ activeProcs' = activeProcs \cup {child}
      /\ UNCHANGED <<semVal, s_procq, calls>>
  BY DEF CreateProcess
<1>2. Calm
  BY <1>1, CalmStep DEF Running
<1>3. child \in Pcb \ activeProcs
  <2>1. pcbFree \in Seq(Pcb) /\ Range(pcbFree) = Pcb \ activeProcs
    BY DEF IInv, PlacedNow, Placed, QueueTypes, FreeApart
  <2>2. child \in Range(pcbFree)
    BY <1>1, <2>1, TailProperties
  <2> QED BY <2>1, <2>2
<1>4. currentProcess \in Pcb /\ currentProcess \in System!Free
  BY <1>1, CallerFree
<1> HIDE DEF child
<1>5. System!Start(currentProcess, child)
  BY <1>1, <1>2, <1>3, <1>4, CalmView DEF System!Start
<1> QED BY <1>3, <1>4, <1>5

(* PASSEREN is the P of the abstract system.                               *)
LEMMA PasserenTakes ==
  ASSUME IInv, IInv', NEW s \in Normal, Passeren(s)
  PROVE  \E p \in Pcb : System!P(p, s)
<1>1. /\ Running /\ semVal' = [semVal EXCEPT ![s] = @ - 1]
      /\ UNCHANGED <<p_parent, activeProcs, calls>>
  BY DEF Passeren, tree, procs
<1>2. Calm
  BY <1>1, CalmStep DEF Running
<1>3. s \in Sem /\ Normal \subseteq Sem
  BY DEF Sem
<1>4. semVal \in [Sem -> Int]
  BY CallsTyped
<1>5. [x \in Normal |-> semVal'[x]] = [[x \in Normal |-> semVal[x]] EXCEPT ![s] = @ - 1]
  BY <1>1, <1>3, <1>4
<1>6. s_procq' = IF semVal[s] > 0 THEN s_procq ELSE [s_procq EXCEPT ![s] = Append(@, currentProcess)]
  <2>1. semVal[s] \in Int
    BY <1>3, <1>4
  <2>2. CASE semVal[s] > 0
    BY <2>1, <2>2 DEF Passeren
  <2>3. CASE ~(semVal[s] > 0)
    <3>1. BlockCurrentProcess(s, softBlockCount)
      BY <2>1, <2>3 DEF Passeren
    <3> QED BY <1>1, <1>3, <2>3, <3>1, BlockAppends
  <2> QED BY <2>2, <2>3
<1>7. currentProcess \in Pcb /\ currentProcess \in System!Free
  BY <1>1, CallerFree
<1>8. AbsValue[s] = semVal[s]
  BY <1>2, CalmView
<1>9. System!P(currentProcess, s)
  BY <1>1, <1>2, <1>5, <1>6, <1>7, <1>8, CalmView DEF System!P
<1> QED BY <1>7, <1>9

(* VERHOGEN is its V: somebody waits only on a negative semaphore.         *)
LEMMA VerhogenGives ==
  ASSUME IInv, IInv', SemaphoreBalance, NEW s \in Normal, Verhogen(s)
  PROVE  System!V(s)
<1>1. /\ Running /\ semVal' = [semVal EXCEPT ![s] = @ + 1]
      /\ UNCHANGED <<p_parent, activeProcs, calls>>
  BY DEF Verhogen, tree, procs
<1>2. Calm
  BY <1>1, CalmStep DEF Running
<1>3. s \in Sem /\ Normal \subseteq Sem
  BY DEF Sem
<1>4. semVal \in [Sem -> Int] /\ s_procq[s] \in Seq(Pcb)
  BY <1>3, CallsTyped
<1>5. [x \in Normal |-> semVal'[x]] = [[x \in Normal |-> semVal[x]] EXCEPT ![s] = @ + 1]
  BY <1>1, <1>3, <1>4
<1>6. s_procq[s] # <<>> => semVal[s] + 1 <= 0
  <2>1. Len(s_procq[s]) = IF semVal[s] < 0 THEN -semVal[s] ELSE 0
    BY DEF SemaphoreBalance
  <2>2. s_procq[s] # <<>> => Len(s_procq[s]) # 0
    BY <1>4, EmptySeq
  <2>3. semVal[s] \in Int
    BY <1>3, <1>4
  <2> QED BY <2>1, <2>2, <2>3
<1>7. s_procq' = IF s_procq[s] = <<>> THEN s_procq ELSE [s_procq EXCEPT ![s] = Tail(@)]
  BY <1>6 DEF Verhogen, WakeOne, RemoveBlocked
<1>8. currentProcess \in System!Free
  BY <1>1, CallerFree
<1> QED BY <1>1, <1>2, <1>5, <1>7, <1>8, CalmView DEF System!V

(* The values of the process semaphores, when another one changes.         *)
LEMMA SoftValue ==
  ASSUME IInv, NEW d \in Soft, NEW v, semVal' = [semVal EXCEPT ![d] = v]
  PROVE  \A s \in Normal : semVal'[s] = semVal[s]
BY NormalIsNotSoft, CallsTyped DEF Sem

(* DOIO and CLOCKWAIT await an event.                                      *)
LEMMA WaitAwaits ==
  ASSUME IInv, IInv', Running, NEW d \in Soft, semVal' = [semVal EXCEPT ![d] = @ - 1],
         BlockCurrentProcess(d, softBlockCount + 1), UNCHANGED <<p_parent, activeProcs, calls>>
  PROVE  \E p \in Pcb : System!Await(p, d)
<1>1. Calm
  BY CalmStep DEF Running
<1>2. d \in Sem
  BY DEF Sem
<1>3. s_procq' = [s_procq EXCEPT ![d] = Append(@, currentProcess)]
  BY <1>2, BlockAppends
<1>4. \A s \in Normal : semVal'[s] = semVal[s]
  BY SoftValue
<1>5. currentProcess \in Pcb /\ currentProcess \in System!Free
  BY CallerFree
<1>6. System!Await(currentProcess, d)
  BY <1>1, <1>3, <1>4, <1>5, CalmView DEF System!Await
<1> QED BY <1>5, <1>6

(* The interval timer wakes one waiter of the clock at a time.             *)
LEMMA TickWakeHappens ==
  ASSUME IInv, IInv', TickWake
  PROVE  \E es \in SUBSET Soft : System!Happen(es)
<1>1. /\ cpu = "tick" /\ s_procq[Clock] # <<>>
      /\ s_procq' = [s_procq EXCEPT ![Clock] = Tail(@)]
      /\ UNCHANGED <<p_parent, activeProcs, semVal, calls>>
  BY DEF TickWake, WakeOne, RemoveBlocked, tree, procs
<1>2. Calm
  BY <1>1, CalmStep
<1>3. {Clock} \in SUBSET Soft
  BY DEF Soft
<1>4. s_procq \in [Sem -> Seq(Pcb)]
  BY CallsTyped
<1>5. s_procq' = [s \in DOMAIN s_procq |-> IF s \in {Clock} THEN Tail(s_procq[s]) ELSE s_procq[s]]
  <2> HIDE DEF Clock
  <2> QED BY <1>1, <1>4
<1>6. System!Happen({Clock})
  <2> HIDE DEF Clock
  <2> QED BY <1>1, <1>2, <1>5, CalmView DEF System!Happen
<1> QED BY <1>3, <1>6

(* The handlers of devices let the first waiters of some devices go on.    *)
LEMMA AcknowledgeHappens ==
  ASSUME IInv, IInv', cpu # "terminate", NEW ds \in SUBSET Dev, NEW rq, Acknowledge(ds, rq)
  PROVE  \E es \in SUBSET Soft : System!Happen(es)
<1>1. /\ semVal' = [s \in Sem |-> IF s \in Completed(ds) THEN semVal[s] + 1 ELSE semVal[s]]
      /\ s_procq' = [s \in Sem |-> IF s \in Woken(ds) THEN Tail(s_procq[s]) ELSE s_procq[s]]
      /\ UNCHANGED <<p_parent, activeProcs, calls>>
  BY DEF Acknowledge, tree, procs
<1>2. Calm
  BY <1>1, CalmStep
<1>3. /\ Woken(ds) \in SUBSET Soft /\ Completed(ds) \subseteq Soft
      /\ \A d \in Woken(ds) : s_procq[d] # <<>>
  BY DEF Woken, Completed, Soft
<1>4. \A s \in Normal : semVal'[s] = semVal[s]
  BY <1>1, <1>3, NormalIsNotSoft DEF Sem
<1>5. DOMAIN s_procq = Sem
  BY CallsTyped
<1>6. System!Happen(Woken(ds))
  BY <1>1, <1>2, <1>3, <1>4, <1>5, CalmView DEF System!Happen
<1> QED BY <1>3, <1>6

(* A step of the Nucleus is a step of ProcessSystem, or is not one of its. *)
LEMMA SystemStep ==
  ASSUME IInv, IInv', SemaphoreBalance, [Next]_vars
  PROVE  [System!PSNext]_System!psvars
<1>1. ASSUME NEW prio \in Prio, NEW support \in Support, CreateProcess(prio, support)
      PROVE  System!PSNext
  BY <1>1, CreateProcessStarts DEF System!PSNext
<1>2. ASSUME NEW s \in Normal, Passeren(s)
      PROVE  System!PSNext
  BY <1>2, PasserenTakes DEF System!PSNext
<1>3. ASSUME NEW s \in Normal, Verhogen(s)
      PROVE  System!PSNext
  BY <1>3, VerhogenGives DEF System!PSNext
<1>4. ASSUME NEW d \in Dev, DoIO(d)
      PROVE  System!PSNext
  <2>1. d \in Soft
    BY DEF Soft
  <2>2. \E p \in Pcb : System!Await(p, d)
    BY <1>4, <2>1, WaitAwaits DEF DoIO, tree, procs
  <2> QED BY <2>1, <2>2 DEF System!PSNext
<1>5. CASE ClockWait
  <2>1. Clock \in Soft
    BY DEF Soft
  <2>2. \E p \in Pcb : System!Await(p, Clock)
    BY <1>5, <2>1, WaitAwaits DEF ClockWait, tree, procs
  <2> QED BY <2>1, <2>2 DEF System!PSNext
<1>6. CASE Yield \/ TimeSlice \/ IntervalTimer
  <2>1. cpu # "terminate" /\ UNCHANGED <<p_parent, activeProcs, s_procq, semVal, calls>>
    BY <1>6 DEF Yield, TimeSlice, IntervalTimer, Running, Interruptible, tree, procs, sems
  <2> QED BY <2>1, CalmStep, CalmStutters
<1>7. ASSUME NEW t \in Pcb, TermProcess(t)
      PROVE  System!PSNext
  <2>1. Running /\ t \in activeProcs /\ Terminate(t)
    BY <1>7 DEF TermProcess
  <2> QED BY <2>1, KillStep DEF System!PSNext
<1>8. CASE PassUpOrDie
  <2>1. Running /\ Terminate(currentProcess)
    BY <1>8 DEF PassUpOrDie
  <2>2. currentProcess \in Pcb /\ currentProcess \in activeProcs
    <3>1. currentProcess \in Pcb
      BY <2>1, CallerFree
    <3> QED BY <3>1 DEF IInv, PlacedNow, Placed, Elsewhere
  <2> QED BY <2>1, <2>2, KillStep DEF System!PSNext
<1>9. CASE TerminateChild
  BY <1>9, TerminateChildStutters
<1>10. CASE TerminateSelf
  BY <1>10, TerminateSelfStutters
<1>11. CASE TickWake
  BY <1>11, TickWakeHappens DEF System!PSNext
<1>12. CASE TickEnd
  <2>1. /\ cpu # "terminate" /\ UNCHANGED <<p_parent, activeProcs, s_procq, calls>>
        /\ semVal' = [semVal EXCEPT ![Clock] = 0]
    BY <1>12 DEF TickEnd, tree, procs
  <2>2. Clock \in Soft
    BY DEF Soft
  <2>3. \A s \in Normal : semVal'[s] = semVal[s]
    BY <2>1, <2>2, SoftValue
  <2> QED BY <2>1, <2>3, CalmStep, CalmStutters
<1>13. ASSUME NEW line \in PlainLine, NEW n \in DevNo, DeviceInterrupt(line, n)
       PROVE  System!PSNext
  <2> DEFINE d == <<line, n>>
  <2>1. {d} \in SUBSET Dev
    BY DEF Dev, PlainDev
  <2>2. cpu # "terminate" /\ \E rq : Acknowledge({d}, rq)
    BY <1>13 DEF DeviceInterrupt, Interruptible
  <2> HIDE DEF d
  <2> QED BY <2>1, <2>2, AcknowledgeHappens DEF System!PSNext
<1>14. ASSUME NEW n \in TermNo, TerminalInterrupt(n)
       PROVE  System!PSNext
  <2> DEFINE tx == <<"tx", n>>
             rx == <<"rx", n>>
             ds == {d \in {tx, rx} : device[d] = "done"}
  <2>1. ds \in SUBSET Dev
    BY DEF Dev, TxDev, RxDev
  <2>2. cpu # "terminate" /\ \E rq : Acknowledge(ds, rq)
    BY <1>14 DEF TerminalInterrupt, Interruptible
  <2> HIDE DEF ds
  <2> QED BY <2>1, <2>2, AcknowledgeHappens DEF System!PSNext
<1>15. ASSUME UNCHANGED <<p_parent, p_child, activeProcs, s_procq, semVal, calls>>
       PROVE  UNCHANGED System!psvars
  <2>1. Doomed' = Doomed
    BY <1>15 DEF Doomed
  <2> QED BY <1>15, <2>1 DEF System!psvars, AbsLive, AbsParent, AbsWaitq, AbsValue
<1>16. ASSUME NEW d \in Dev, DeviceDone(d) \/ DeviceError(d)
       PROVE  UNCHANGED System!psvars
  BY <1>15, <1>16 DEF DeviceDone, DeviceError, tree, procs, sems
<1>17. CASE UNCHANGED vars
  BY <1>15, <1>17 DEF vars, tree, procs, sems
<1> QED BY <1>1, <1>2, <1>3, <1>4, <1>5, <1>6, <1>7, <1>8, <1>9, <1>10, <1>11, <1>12, <1>13,
           <1>14, <1>16, <1>17 DEF Next

(* The abstract system starts with the process of main().                  *)
LEMMA InitSystem == Init => System!PSInit
<1> SUFFICES ASSUME Init
             PROVE  System!PSInit
  OBVIOUS
<1> PICK table \in PcbTables, values \in [Normal -> 0 .. MaxVal] : Boot(table, values)
  BY DEF Init
<1>1. IInv /\ calls = <<>>
  BY InitIInv DEF Boot
<1>2. AsItIs
  BY <1>1, Quiet DEF Undisturbed
<1>3. currentProcess \in Pcb
  <2>1. currentProcess = Head(table) /\ table \in Seq(Pcb) /\ table # <<>>
    BY PcbTable DEF Boot
  <2> QED BY <2>1, TailProperties
<1>4. activeProcs = {currentProcess} /\ p_parent = [p \in Pcb |-> NoProc] /\ s_procq = [s \in Sem |-> <<>>]
  BY DEF Boot
<1>5. [s \in Normal |-> semVal[s]] \in [Normal -> Nat]
  <2>1. \A s \in Normal : semVal[s] = values[s] /\ s \in Sem
    BY NormalIsNotSoft DEF Boot, Sem
  <2>2. \A s \in Normal : values[s] \in Nat
    BY BoundAssumption
  <2> QED BY <2>1, <2>2
<1> QED BY <1>2, <1>3, <1>4, <1>5 DEF System!PSInit, AsItIs, Sem

(* The Nucleus implements ProcessSystem.                                   *)
THEOREM ProcessSystemImplemented == Spec => ImplementsProcessSystem
<1>1. IInv /\ IInv' /\ SemaphoreBalance /\ [Next]_vars => [System!PSNext]_System!psvars
  BY SystemStep
<1> QED BY <1>1, InitSystem, NucleusInvariant, SemaphoresBalance, PTL
        DEF Spec, ImplementsProcessSystem, System!PSSpec
=============================================================================
