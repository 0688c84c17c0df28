------------------------------- MODULE WireProofs -------------------------------
(***************************************************************************)
(* Proofs about Wire, for any messages, widths of keys and packets, bytes  *)
(* damaged and orders of delivery.                                         *)
(***************************************************************************)
EXTENDS Wire, FiniteSetTheorems, SequenceTheorems, WellFoundedInduction, TLAPS

-----------------------------------------------------------------------------
(* Induction and recursion, stated of sets and functions.                  *)

(* A set of numbers has a least one.                                       *)
LEMMA Least ==
    ASSUME NEW T \in SUBSET Nat, T # {}
    PROVE  \E m \in T : \A n \in T : m <= n
<1> DEFINE R == OpToRel(<, Nat)
<1>1. \A m, n \in Nat : n < m => <<n, m>> \in R
  BY Zenon DEF OpToRel
<1>2. IsWellFoundedOn(R, Nat)
  BY NatLessThanWellFounded
<1> HIDE DEF R
<1>3. PICK m \in T : \A n \in T : <<n, m>> \notin R
  BY <1>2, WFMin
<1>4. ASSUME NEW n \in T PROVE m <= n
  <2>1. n \in Nat /\ m \in Nat /\ ~(n < m)
    BY <1>1, <1>3
  <2>2. QED
    BY <2>1
<1>5. QED
  BY <1>4

(* A set with 0 and the successors of its members has all numbers.         *)
LEMMA Induction ==
    ASSUME NEW I, 0 \in I, \A n \in Nat : n \in I => n + 1 \in I
    PROVE  \A n \in Nat : n \in I
<1> SUFFICES ASSUME Nat \ I # {} PROVE FALSE
  OBVIOUS
<1>1. PICK m \in Nat \ I : \A n \in Nat \ I : m <= n
  BY Least
<1>2. m - 1 \in Nat /\ m - 1 \in I
  BY <1>1
<1>3. QED
  BY <1>1, <1>2

(* A function on 0..n given by its start and its steps.                    *)
Steps(step, S, n) == n \in Nat /\ step \in [1..n -> [S -> S]]

Runs(f, S, n, start, step) ==
    /\ f \in [0..n -> S]
    /\ f[0] = start /\ \A i \in 1..n : f[i] = step[i][f[i - 1]]

(* Such a function exists.                                                 *)
LEMMA Recursion ==
    ASSUME NEW S, NEW start, NEW n, NEW step, start \in S, Steps(step, S, n)
    PROVE  \E f : Runs(f, S, n, start, step)
<1> USE DEF Steps
<1> DEFINE Solves(f, k) == f[0] = start /\ \A i \in 1..k : f[i] = step[i][f[i - 1]]
           I == {k \in Nat : k <= n => \E f \in [0..k -> S] : Solves(f, k)}
<1>1. 0 \in I
  <2>1. [i \in 0..0 |-> start] \in [0..0 -> S] /\ Solves([i \in 0..0 |-> start], 0)
    OBVIOUS
  <2>2. QED
    BY <2>1
<1>2. ASSUME NEW k \in Nat, k \in I PROVE k + 1 \in I
  <2> SUFFICES ASSUME k + 1 <= n PROVE \E f \in [0..(k + 1) -> S] : Solves(f, k + 1)
    OBVIOUS
  <2>1. PICK f \in [0..k -> S] : Solves(f, k)
    BY <1>2
  <2>2. DEFINE g == [i \in 0..(k + 1) |-> IF i = k + 1 THEN step[k + 1][f[k]] ELSE f[i]]
  <2>3. g \in [0..(k + 1) -> S]
    OBVIOUS
  <2>4. g[k + 1] = step[k + 1][f[k]] /\ \A i \in 0..k : g[i] = f[i]
    OBVIOUS
  <2> HIDE DEF g
  <2>5. ASSUME NEW i \in 1..(k + 1) PROVE g[i] = step[i][g[i - 1]]
    <3>1. CASE i = k + 1
      BY <2>4, <3>1
    <3>2. CASE i \in 1..k
      BY <2>1, <2>4, <3>2
    <3>3. QED
      BY <3>1, <3>2
  <2>6. Solves(g, k + 1)
    BY <2>1, <2>4, <2>5
  <2>7. QED
    BY <2>3, <2>6
<1> HIDE DEF I
<1>3. n \in I
  BY <1>1, <1>2, Induction
<1>4. PICK f \in [0..n -> S] : Solves(f, n)
  BY <1>3 DEF I
<1>5. QED
  BY <1>4 DEF Runs

(* Two functions with the same start, and the same next value wherever     *)
(* they have the same one, agree.                                          *)
InStep(f, g, n) ==
    n \in Nat /\ f[0] = g[0] /\ \A i \in 1..n : f[i - 1] = g[i - 1] => f[i] = g[i]

Agree(f, g, n) == \A i \in 0..n : f[i] = g[i]

(* Two functions in step with each other have the same values.             *)
LEMMA Agreement ==
    ASSUME NEW f, NEW g, NEW n, InStep(f, g, n) PROVE Agree(f, g, n)
<1> USE DEF InStep
<1> DEFINE I == {k \in Nat : k <= n => f[k] = g[k]}
<1>1. 0 \in I
  OBVIOUS
<1>2. ASSUME NEW k \in Nat, k \in I PROVE k + 1 \in I
  <2>1. k + 1 <= n => f[k + 1] = g[k + 1]
    <3> SUFFICES ASSUME k + 1 <= n PROVE f[k + 1] = g[k + 1]
      OBVIOUS
    <3>1. k + 1 \in 1..n /\ (k + 1) - 1 = k /\ f[k] = g[k]
      BY <1>2
    <3>2. QED
      BY <3>1
  <2>2. QED
    BY <2>1
<1> HIDE DEF I
<1>3. \A k \in Nat : k \in I
  BY <1>1, <1>2, Induction
<1>4. QED
  BY <1>3 DEF I, Agree

-----------------------------------------------------------------------------
(* What the recursive functions of Wire compute.                           *)

(* Bytes.                                                                  *)
LEMMA ByteType == 0 \in Byte /\ \A b : b \in Byte <=> b \in Nat /\ b <= 255
BY DEF Byte

(* A byte string has a length, and its elements are bytes.                 *)
LEMMA BytesType ==
    ASSUME NEW bytes \in Seq(Byte)
    PROVE  Len(bytes) \in Nat /\ \A i \in 1..Len(bytes) : bytes[i] \in Byte /\ bytes[i] \in Nat
<1>1. Len(bytes) \in Nat /\ \A i \in 1..Len(bytes) : bytes[i] \in Byte
  OBVIOUS
<1>2. QED
  BY <1>1, ByteType

(* Joining, of sequences of any elements.                                  *)
JoinsRun(f, ss, S) ==
    /\ f \in [0..Len(ss) -> Seq(S)]
    /\ f[0] = <<>>
    /\ \A i \in 1..Len(ss) : f[i] = f[i - 1] \o ss[i]

(* Joins(ss) is a function, with the values its recursive definition says: *)
(* the join at i is that at i - 1 with the i-th string after it.           *)
LEMMA JoinsSteps ==
    ASSUME NEW S, NEW ss \in Seq(Seq(S))
    PROVE  JoinsRun(Joins(ss), ss, S)
<1> DEFINE n == Len(ss)
           T == Seq(S)
           start == <<>>
           next(i, s) == s \o ss[i]
           J == Joins(ss)
           step == [i \in 1..n |-> [s \in T |-> next(i, s)]]
           Solves(f) == f = [i \in 0..n |-> IF i = 0 THEN start ELSE next(i, f[i - 1])]
<1>1. n \in Nat /\ start \in T
  OBVIOUS
<1>2. ASSUME NEW i \in 1..n, NEW s \in T PROVE next(i, s) \in T
  OBVIOUS
<1>3. J = CHOOSE f : Solves(f)
  BY DEF Joins
<1> HIDE DEF n, T, J, next, start
<1>4. Steps(step, T, n)
  BY <1>1, <1>2 DEF Steps
<1>5. \A i \in 1..n, s \in T : step[i][s] = next(i, s)
  OBVIOUS
<1> HIDE DEF step
<1>6. PICK f : Runs(f, T, n, start, step)
  BY <1>1, <1>4, Recursion
<1>7. f \in [0..n -> T] /\ f[0] = start
  BY <1>6 DEF Runs
<1>8. ASSUME NEW i \in 1..n PROVE f[i] = next(i, f[i - 1])
  <2>1. i - 1 \in 0..n
    BY <1>1
  <2>2. f[i - 1] \in T /\ f[i] = step[i][f[i - 1]]
    BY <1>6, <2>1 DEF Runs
  <2>3. QED
    BY <1>5, <2>2, Zenon
<1>9. Solves(f)
  <2>1. ASSUME NEW i \in 0..n PROVE f[i] = IF i = 0 THEN start ELSE next(i, f[i - 1])
    <3>1. i = 0 \/ (i # 0 /\ i \in 1..n)
      BY <1>1
    <3>2. QED
      BY <1>7, <1>8, <3>1, Zenon
  <2>2. f = [i \in 0..n |-> f[i]]
    BY <1>7
  <2>3. QED
    BY <2>1, <2>2, Zenon
<1>10. Solves(J)
  <2> HIDE DEF Solves
  <2>1. QED
    BY <1>3, <1>9, Zenon
<1>11. J[0] = start /\ \A i \in 1..n : J[i] = next(i, J[i - 1])
  <2>1. \A i \in 0..n : J[i] = IF i = 0 THEN start ELSE next(i, J[i - 1])
    BY <1>10, Zenon
  <2>2. 0 \in 0..n /\ \A i \in 1..n : i \in 0..n /\ i # 0
    BY <1>1
  <2>3. QED
    BY <2>1, <2>2, Zenon
<1>12. InStep(f, J, n)
  <2>1. ASSUME NEW i \in 1..n, f[i - 1] = J[i - 1] PROVE f[i] = J[i]
    BY <1>8, <1>11, <2>1, Zenon
  <2>2. QED
    BY <1>1, <1>7, <1>11, <2>1, Zenon DEF InStep
<1>13. Agree(f, J, n)
  BY <1>12, Agreement
<1>14. J \in [0..n -> T]
  <2>1. J = [i \in 0..n |-> J[i]]
    BY <1>10, Zenon
  <2>2. \A i \in 0..n : J[i] \in T
    BY <1>7, <1>13 DEF Agree
  <2>3. QED
    BY <2>1, <2>2, Zenon
<1>15. QED
  BY <1>11, <1>14 DEF JoinsRun, n, T, J, start, next

(* What is left of a number without its last bytes.                        *)
RestRun(f, value, width) ==
    /\ f \in [0..width -> Nat]
    /\ f[0] = value
    /\ \A i \in 1..width : f[i] = f[i - 1] \div 256

(* Rest(value, width) is such a function: each step divides by 256.        *)
LEMMA RestSteps ==
    ASSUME NEW value \in Nat, NEW width \in Nat
    PROVE  RestRun(Rest(value, width), value, width)
<1> DEFINE n == width
           T == Nat
           start == value
           next(i, s) == s \div 256
           J == Rest(value, width)
           step == [i \in 1..n |-> [s \in T |-> next(i, s)]]
           Solves(f) == f = [i \in 0..n |-> IF i = 0 THEN start ELSE next(i, f[i - 1])]
<1>1. n \in Nat /\ start \in T
  OBVIOUS
<1>2. ASSUME NEW i \in 1..n, NEW s \in T PROVE next(i, s) \in T
  OBVIOUS
<1>3. J = CHOOSE f : Solves(f)
  BY DEF Rest
<1> HIDE DEF n, T, J, next, start
<1>4. Steps(step, T, n)
  BY <1>1, <1>2 DEF Steps
<1>5. \A i \in 1..n, s \in T : step[i][s] = next(i, s)
  OBVIOUS
<1> HIDE DEF step
<1>6. PICK f : Runs(f, T, n, start, step)
  BY <1>1, <1>4, Recursion
<1>7. f \in [0..n -> T] /\ f[0] = start
  BY <1>6 DEF Runs
<1>8. ASSUME NEW i \in 1..n PROVE f[i] = next(i, f[i - 1])
  <2>1. i - 1 \in 0..n
    BY <1>1
  <2>2. f[i - 1] \in T /\ f[i] = step[i][f[i - 1]]
    BY <1>6, <2>1 DEF Runs
  <2>3. QED
    BY <1>5, <2>2, Zenon
<1>9. Solves(f)
  <2>1. ASSUME NEW i \in 0..n PROVE f[i] = IF i = 0 THEN start ELSE next(i, f[i - 1])
    <3>1. i = 0 \/ (i # 0 /\ i \in 1..n)
      BY <1>1
    <3>2. QED
      BY <1>7, <1>8, <3>1, Zenon
  <2>2. f = [i \in 0..n |-> f[i]]
    BY <1>7
  <2>3. QED
    BY <2>1, <2>2, Zenon
<1>10. Solves(J)
  <2> HIDE DEF Solves
  <2>1. QED
    BY <1>3, <1>9, Zenon
<1>11. J[0] = start /\ \A i \in 1..n : J[i] = next(i, J[i - 1])
  <2>1. \A i \in 0..n : J[i] = IF i = 0 THEN start ELSE next(i, J[i - 1])
    BY <1>10, Zenon
  <2>2. 0 \in 0..n /\ \A i \in 1..n : i \in 0..n /\ i # 0
    BY <1>1
  <2>3. QED
    BY <2>1, <2>2, Zenon
<1>12. InStep(f, J, n)
  <2>1. ASSUME NEW i \in 1..n, f[i - 1] = J[i - 1] PROVE f[i] = J[i]
    BY <1>8, <1>11, <2>1, Zenon
  <2>2. QED
    BY <1>1, <1>7, <1>11, <2>1, Zenon DEF InStep
<1>13. Agree(f, J, n)
  BY <1>12, Agreement
<1>14. J \in [0..n -> T]
  <2>1. J = [i \in 0..n |-> J[i]]
    BY <1>10, Zenon
  <2>2. \A i \in 0..n : J[i] \in T
    BY <1>7, <1>13 DEF Agree
  <2>3. QED
    BY <2>1, <2>2, Zenon
<1>15. QED
  BY <1>11, <1>14 DEF RestRun, n, T, J, start, next

(* What bytes say.                                                         *)
ValuesRun(f, bytes) ==
    /\ f \in [0..Len(bytes) -> Nat]
    /\ f[0] = 0
    /\ \A i \in 1..Len(bytes) : f[i] = 256 * f[i - 1] + bytes[i]

(* Values(bytes) is such a function: each step takes one more byte in.     *)
LEMMA ValuesSteps ==
    ASSUME NEW bytes \in Seq(Byte)
    PROVE  ValuesRun(Values(bytes), bytes)
<1> DEFINE n == Len(bytes)
           T == Nat
           start == 0
           next(i, s) == 256 * s + bytes[i]
           J == Values(bytes)
           step == [i \in 1..n |-> [s \in T |-> next(i, s)]]
           Solves(f) == f = [i \in 0..n |-> IF i = 0 THEN start ELSE next(i, f[i - 1])]
<1>1. n \in Nat /\ start \in T
  OBVIOUS
<1>2. ASSUME NEW i \in 1..n, NEW s \in T PROVE next(i, s) \in T
  BY BytesType
<1>3. J = CHOOSE f : Solves(f)
  BY DEF Values
<1> HIDE DEF n, T, J, next, start
<1>4. Steps(step, T, n)
  BY <1>1, <1>2 DEF Steps
<1>5. \A i \in 1..n, s \in T : step[i][s] = next(i, s)
  OBVIOUS
<1> HIDE DEF step
<1>6. PICK f : Runs(f, T, n, start, step)
  BY <1>1, <1>4, Recursion
<1>7. f \in [0..n -> T] /\ f[0] = start
  BY <1>6 DEF Runs
<1>8. ASSUME NEW i \in 1..n PROVE f[i] = next(i, f[i - 1])
  <2>1. i - 1 \in 0..n
    BY <1>1
  <2>2. f[i - 1] \in T /\ f[i] = step[i][f[i - 1]]
    BY <1>6, <2>1 DEF Runs
  <2>3. QED
    BY <1>5, <2>2, Zenon
<1>9. Solves(f)
  <2>1. ASSUME NEW i \in 0..n PROVE f[i] = IF i = 0 THEN start ELSE next(i, f[i - 1])
    <3>1. i = 0 \/ (i # 0 /\ i \in 1..n)
      BY <1>1
    <3>2. QED
      BY <1>7, <1>8, <3>1, Zenon
  <2>2. f = [i \in 0..n |-> f[i]]
    BY <1>7
  <2>3. QED
    BY <2>1, <2>2, Zenon
<1>10. Solves(J)
  <2> HIDE DEF Solves
  <2>1. QED
    BY <1>3, <1>9, Zenon
<1>11. J[0] = start /\ \A i \in 1..n : J[i] = next(i, J[i - 1])
  <2>1. \A i \in 0..n : J[i] = IF i = 0 THEN start ELSE next(i, J[i - 1])
    BY <1>10, Zenon
  <2>2. 0 \in 0..n /\ \A i \in 1..n : i \in 0..n /\ i # 0
    BY <1>1
  <2>3. QED
    BY <2>1, <2>2, Zenon
<1>12. InStep(f, J, n)
  <2>1. ASSUME NEW i \in 1..n, f[i - 1] = J[i - 1] PROVE f[i] = J[i]
    BY <1>8, <1>11, <2>1, Zenon
  <2>2. QED
    BY <1>1, <1>7, <1>11, <2>1, Zenon DEF InStep
<1>13. Agree(f, J, n)
  BY <1>12, Agreement
<1>14. J \in [0..n -> T]
  <2>1. J = [i \in 0..n |-> J[i]]
    BY <1>10, Zenon
  <2>2. \A i \in 0..n : J[i] \in T
    BY <1>7, <1>13 DEF Agree
  <2>3. QED
    BY <2>1, <2>2, Zenon
<1>15. QED
  BY <1>11, <1>14 DEF ValuesRun, n, T, J, start, next

(* Where fields end.                                                       *)
EndsRun(f, kind) ==
    /\ f \in [0..Len(Layout[kind]) -> Nat]
    /\ f[0] = 0
    /\ \A i \in 1..Len(Layout[kind]) : f[i] = f[i - 1] + Layout[kind][i]

(* Ends(kind) is such a function: each step adds one field's width.        *)
LEMMA EndsSteps ==
    ASSUME NEW kind, Layout[kind] \in Seq(Nat)
    PROVE  EndsRun(Ends(kind), kind)
<1> DEFINE n == Len(Layout[kind])
           T == Nat
           start == 0
           next(i, s) == s + Layout[kind][i]
           J == Ends(kind)
           step == [i \in 1..n |-> [s \in T |-> next(i, s)]]
           Solves(f) == f = [i \in 0..n |-> IF i = 0 THEN start ELSE next(i, f[i - 1])]
<1>1. n \in Nat /\ start \in T
  OBVIOUS
<1>2. ASSUME NEW i \in 1..n, NEW s \in T PROVE next(i, s) \in T
  OBVIOUS
<1>3. J = CHOOSE f : Solves(f)
  BY DEF Ends
<1> HIDE DEF n, T, J, next, start
<1>4. Steps(step, T, n)
  BY <1>1, <1>2 DEF Steps
<1>5. \A i \in 1..n, s \in T : step[i][s] = next(i, s)
  OBVIOUS
<1> HIDE DEF step
<1>6. PICK f : Runs(f, T, n, start, step)
  BY <1>1, <1>4, Recursion
<1>7. f \in [0..n -> T] /\ f[0] = start
  BY <1>6 DEF Runs
<1>8. ASSUME NEW i \in 1..n PROVE f[i] = next(i, f[i - 1])
  <2>1. i - 1 \in 0..n
    BY <1>1
  <2>2. f[i - 1] \in T /\ f[i] = step[i][f[i - 1]]
    BY <1>6, <2>1 DEF Runs
  <2>3. QED
    BY <1>5, <2>2, Zenon
<1>9. Solves(f)
  <2>1. ASSUME NEW i \in 0..n PROVE f[i] = IF i = 0 THEN start ELSE next(i, f[i - 1])
    <3>1. i = 0 \/ (i # 0 /\ i \in 1..n)
      BY <1>1
    <3>2. QED
      BY <1>7, <1>8, <3>1, Zenon
  <2>2. f = [i \in 0..n |-> f[i]]
    BY <1>7
  <2>3. QED
    BY <2>1, <2>2, Zenon
<1>10. Solves(J)
  <2> HIDE DEF Solves
  <2>1. QED
    BY <1>3, <1>9, Zenon
<1>11. J[0] = start /\ \A i \in 1..n : J[i] = next(i, J[i - 1])
  <2>1. \A i \in 0..n : J[i] = IF i = 0 THEN start ELSE next(i, J[i - 1])
    BY <1>10, Zenon
  <2>2. 0 \in 0..n /\ \A i \in 1..n : i \in 0..n /\ i # 0
    BY <1>1
  <2>3. QED
    BY <2>1, <2>2, Zenon
<1>12. InStep(f, J, n)
  <2>1. ASSUME NEW i \in 1..n, f[i - 1] = J[i - 1] PROVE f[i] = J[i]
    BY <1>8, <1>11, <2>1, Zenon
  <2>2. QED
    BY <1>1, <1>7, <1>11, <2>1, Zenon DEF InStep
<1>13. Agree(f, J, n)
  BY <1>12, Agreement
<1>14. J \in [0..n -> T]
  <2>1. J = [i \in 0..n |-> J[i]]
    BY <1>10, Zenon
  <2>2. \A i \in 0..n : J[i] \in T
    BY <1>7, <1>13 DEF Agree
  <2>3. QED
    BY <2>1, <2>2, Zenon
<1>15. QED
  BY <1>11, <1>14 DEF EndsRun, n, T, J, start, next

(* Checksums of what bytes begin with.                                     *)
CrcsRun(f, bytes) ==
    /\ f \in [0..Len(bytes) -> Byte]
    /\ f[0] = 0
    /\ \A i \in 1..Len(bytes) : f[i] = CrcOf[XorOf[f[i - 1]][bytes[i]]]

(* Crcs(bytes) is such a function: each step takes one more byte into the  *)
(* checksum.                                                               *)
LEMMA CrcsSteps ==
    ASSUME NEW bytes \in Seq(Byte), CrcOf \in [Byte -> Byte], XorOf \in [Byte -> [Byte -> Byte]]
    PROVE  CrcsRun(Crcs(bytes), bytes)
<1> DEFINE n == Len(bytes)
           T == Byte
           start == 0
           next(i, s) == CrcOf[XorOf[s][bytes[i]]]
           J == Crcs(bytes)
           step == [i \in 1..n |-> [s \in T |-> next(i, s)]]
           Solves(f) == f = [i \in 0..n |-> IF i = 0 THEN start ELSE next(i, f[i - 1])]
<1>1. n \in Nat /\ start \in T
  BY ByteType, BytesType
<1>2. ASSUME NEW i \in 1..n, NEW s \in T PROVE next(i, s) \in T
  OBVIOUS
<1>3. J = CHOOSE f : Solves(f)
  BY DEF Crcs
<1> HIDE DEF n, T, J, next, start
<1>4. Steps(step, T, n)
  BY <1>1, <1>2 DEF Steps
<1>5. \A i \in 1..n, s \in T : step[i][s] = next(i, s)
  OBVIOUS
<1> HIDE DEF step
<1>6. PICK f : Runs(f, T, n, start, step)
  BY <1>1, <1>4, Recursion
<1>7. f \in [0..n -> T] /\ f[0] = start
  BY <1>6 DEF Runs
<1>8. ASSUME NEW i \in 1..n PROVE f[i] = next(i, f[i - 1])
  <2>1. i - 1 \in 0..n
    BY <1>1
  <2>2. f[i - 1] \in T /\ f[i] = step[i][f[i - 1]]
    BY <1>6, <2>1 DEF Runs
  <2>3. QED
    BY <1>5, <2>2, Zenon
<1>9. Solves(f)
  <2>1. ASSUME NEW i \in 0..n PROVE f[i] = IF i = 0 THEN start ELSE next(i, f[i - 1])
    <3>1. i = 0 \/ (i # 0 /\ i \in 1..n)
      BY <1>1
    <3>2. QED
      BY <1>7, <1>8, <3>1, Zenon
  <2>2. f = [i \in 0..n |-> f[i]]
    BY <1>7
  <2>3. QED
    BY <2>1, <2>2, Zenon
<1>10. Solves(J)
  <2> HIDE DEF Solves
  <2>1. QED
    BY <1>3, <1>9, Zenon
<1>11. J[0] = start /\ \A i \in 1..n : J[i] = next(i, J[i - 1])
  <2>1. \A i \in 0..n : J[i] = IF i = 0 THEN start ELSE next(i, J[i - 1])
    BY <1>10, Zenon
  <2>2. 0 \in 0..n /\ \A i \in 1..n : i \in 0..n /\ i # 0
    BY <1>1
  <2>3. QED
    BY <2>1, <2>2, Zenon
<1>12. InStep(f, J, n)
  <2>1. ASSUME NEW i \in 1..n, f[i - 1] = J[i - 1] PROVE f[i] = J[i]
    BY <1>8, <1>11, <2>1, Zenon
  <2>2. QED
    BY <1>1, <1>7, <1>11, <2>1, Zenon DEF InStep
<1>13. Agree(f, J, n)
  BY <1>12, Agreement
<1>14. J \in [0..n -> T]
  <2>1. J = [i \in 0..n |-> J[i]]
    BY <1>10, Zenon
  <2>2. \A i \in 0..n : J[i] \in T
    BY <1>7, <1>13 DEF Agree
  <2>3. QED
    BY <2>1, <2>2, Zenon
<1>15. QED
  BY <1>11, <1>14 DEF CrcsRun, n, T, J, start, next

-----------------------------------------------------------------------------
(* Numbers as bytes.                                                       *)

(* A number encoded is as many bytes as its field is wide.                 *)
LEMMA BigEndianType ==
    ASSUME NEW value \in Nat, NEW width \in Nat
    PROVE  BigEndian(value, width) \in Seq(Byte) /\ Len(BigEndian(value, width)) = width
<1>1. ASSUME NEW i \in 1..width PROVE Rest(value, width)[width - i] % 256 \in Byte
  <2>1. width - i \in 0..width
    OBVIOUS
  <2>2. Rest(value, width)[width - i] \in Nat
    BY <2>1, RestSteps DEF RestRun
  <2>3. QED
    BY <2>2, ByteType
<1>2. QED
  BY <1>1 DEF BigEndian

(* The bytes of a number say it, unless it overflows them.                 *)
LEMMA RoundTrip ==
    ASSUME NEW value \in Nat, NEW width \in Nat, ~Overflows(value, width)
    PROVE  ValueOf(BigEndian(value, width)) = value
<1> DEFINE bytes == BigEndian(value, width)
           r == Rest(value, width)
           v == Values(bytes)
           g == [k \in 0..width |-> r[width - k]]
<1>1. bytes \in Seq(Byte) /\ Len(bytes) = width
  BY BigEndianType
<1>2. r \in [0..width -> Nat] /\ r[0] = value /\ \A i \in 1..width : r[i] = r[i - 1] \div 256
  <2>1. RestRun(r, value, width)
    BY RestSteps
  <2>2. QED
    BY <2>1 DEF RestRun
<1>3. v[0] = 0 /\ \A i \in 1..width : v[i] = 256 * v[i - 1] + bytes[i]
  <2>1. ValuesRun(v, bytes)
    BY <1>1, ValuesSteps
  <2>2. QED
    BY <1>1, <2>1 DEF ValuesRun
<1>4. r[width] = 0
  BY DEF Overflows
<1>5. \A i \in 1..width : bytes[i] = r[width - i] % 256
  BY DEF BigEndian
<1> HIDE DEF bytes, r, v
<1>6. g[0] = 0 /\ \A k \in 0..width : g[k] = r[width - k]
  BY <1>4
<1> HIDE DEF g
<1>7. ASSUME NEW i \in 1..width, v[i - 1] = g[i - 1] PROVE v[i] = g[i]
  <2> DEFINE x == r[width - i]
  <2>1. x \in Nat
    BY <1>2
  <2>2. r[width - (i - 1)] = x \div 256
    <3>1. width - (i - 1) \in 1..width /\ (width - (i - 1)) - 1 = width - i
      OBVIOUS
    <3>2. QED
      BY <1>2, <3>1
  <2>3. g[i - 1] = x \div 256
    BY <1>6, <2>2
  <2>4. v[i] = 256 * (x \div 256) + (x % 256)
    BY <1>3, <1>5, <1>7, <2>3
  <2> HIDE DEF x
  <2>5. v[i] = x
    BY <2>1, <2>4
  <2>6. QED
    BY <1>6, <2>5 DEF x
<1>8. InStep(v, g, width)
  BY <1>3, <1>6, <1>7 DEF InStep
<1>9. Agree(v, g, width)
  BY <1>8, Agreement
<1>10. v[width] = value
  BY <1>2, <1>6, <1>9 DEF Agree
<1>11. QED
  BY <1>1, <1>10 DEF ValueOf, v, bytes

(* An id always fits its two bytes.                                        *)
LEMMA IdFits ==
    ASSUME NEW value \in MsgId PROVE value \in Nat /\ ~Overflows(value, 2)
<1> DEFINE r == Rest(value, 2)
<1>0. value \in Nat /\ value \div 256 <= 255
  <2>1. value \in Nat /\ value <= 65535
    BY SMT DEF MsgId
  <2>2. QED
    BY <2>1, SMT
<1>1. 2 \in Nat
  OBVIOUS
<1>2. r \in [0..2 -> Nat] /\ r[0] = value /\ \A i \in 1..2 : r[i] = r[i - 1] \div 256
  <2>1. RestRun(r, value, 2)
    BY <1>0, <1>1, RestSteps
  <2>2. QED
    BY <2>1 DEF RestRun
<1> HIDE DEF r
<1>3. r[1] = value \div 256 /\ r[2] = r[1] \div 256
  BY <1>2
<1>4. r[2] = 0
  BY <1>0, <1>2, <1>3, SMT
<1>5. QED
  BY <1>0, <1>4 DEF Overflows, r

-----------------------------------------------------------------------------
(* Strings joined, and cut again.                                          *)

(* A function on 1..n is a sequence of length n.                           *)
LEMMA FunctionIsSeq ==
    ASSUME NEW S, NEW n \in Nat, NEW f \in [1..n -> S]
    PROVE  f \in Seq(S) /\ Len(f) = n
OBVIOUS

(* A sequence is the function of its elements.                             *)
LEMMA SeqIsFunction ==
    ASSUME NEW S, NEW s \in Seq(S)
    PROVE  s = [i \in 1..Len(s) |-> s[i]] /\ s \in [1..Len(s) -> S] /\ DOMAIN s = 1..Len(s)
OBVIOUS

(* A piece of the first of two strings is that piece of both joined.       *)
LEMMA CutFirst ==
    ASSUME NEW S, NEW s \in Seq(S), NEW t \in Seq(S), NEW m \in Nat \ {0}, NEW n \in 0..Len(s)
    PROVE  SubSeq(s \o t, m, n) = SubSeq(s, m, n)
<1>1. CASE m <= n
  <2>1. m \in 1..Len(s) /\ n \in 1..Len(s)
    BY <1>1
  <2>2. QED
    BY <2>1, SubSeqOfConcat1
<1>2. CASE n < m
  <2>1. SubSeq(s \o t, m, n) = <<>> /\ SubSeq(s, m, n) = <<>>
    BY <1>2, SubSeqEmpty
  <2>2. QED
    BY <2>1
<1>3. QED
  BY <1>1, <1>2

(* What follows the first of two joined strings is the second.             *)
LEMMA CutSecond ==
    ASSUME NEW S, NEW s \in Seq(S), NEW t \in Seq(S)
    PROVE  SubSeq(s \o t, Len(s) + 1, Len(s \o t)) = t
<1>1. Len(s \o t) = Len(s) + Len(t) /\ Len(s) \in Nat /\ Len(t) \in Nat
  BY ConcatProperties
<1>2. CASE t = <<>>
  <2>1. Len(s \o t) < Len(s) + 1
    BY <1>1, <1>2
  <2>2. SubSeq(s \o t, Len(s) + 1, Len(s \o t)) = <<>>
    BY <1>1, <2>1, SubSeqEmpty
  <2>3. QED
    BY <1>2, <2>2
<1>3. CASE t # <<>>
  <2>1. Len(t) # 0
    BY <1>3
  <2>2. SubSeq(s \o t, Len(s) + 1, Len(s) + Len(t)) = SubSeq(t, 1, Len(t))
    BY <1>1, <2>1, SubSeqOfConcat2
  <2>3. QED
    BY <1>1, <2>2, SubSeqFull
<1>4. QED
  BY <1>2, <1>3

(* The strings joined one by one, and how long they are.                   *)
LEMMA JoinsFacts ==
    ASSUME NEW S, NEW ss \in Seq(Seq(S))
    PROVE  /\ Len(ss) \in Nat
           /\ \A k \in 0..Len(ss) : Joins(ss)[k] \in Seq(S) /\ Len(Joins(ss)[k]) \in Nat
           /\ \A k \in 1..Len(ss) :
                /\ ss[k] \in Seq(S) /\ Len(ss[k]) \in Nat
                /\ Joins(ss)[k] = Joins(ss)[k - 1] \o ss[k]
                /\ Len(Joins(ss)[k]) = Len(Joins(ss)[k - 1]) + Len(ss[k])
           /\ Joins(ss)[0] = <<>>
<1> DEFINE J == Joins(ss)
           n == Len(ss)
<1>1. JoinsRun(J, ss, S)
  BY JoinsSteps
<1>2. n \in Nat /\ \A k \in 1..n : ss[k] \in Seq(S) /\ Len(ss[k]) \in Nat
  OBVIOUS
<1> HIDE DEF J
<1>3. J \in [0..n -> Seq(S)] /\ J[0] = <<>> /\ \A k \in 1..n : J[k] = J[k - 1] \o ss[k]
  BY <1>1 DEF JoinsRun
<1> HIDE DEF n
<1>4. \A k \in 0..n : J[k] \in Seq(S)
  BY <1>3
<1>5. \A k \in 0..n : Len(J[k]) \in Nat
  BY <1>4
<1>6. ASSUME NEW k \in 1..n PROVE Len(J[k]) = Len(J[k - 1]) + Len(ss[k])
  <2>1. k - 1 \in 0..n
    BY <1>2
  <2>2. J[k] = J[k - 1] \o ss[k] /\ J[k - 1] \in Seq(S) /\ ss[k] \in Seq(S)
    BY <1>2, <1>3, <1>4, <2>1
  <2>3. QED
    BY <2>2, ConcatProperties
<1>7. QED
  BY <1>2, <1>3, <1>4, <1>5, <1>6, Zenon DEF J, n

(* Each of the strings joined is found between where the ones before it    *)
(* end and where it ends.                                                  *)
LEMMA JoinsCut ==
    ASSUME NEW S, NEW ss \in Seq(Seq(S)), NEW i \in 1..Len(ss)
    PROVE  /\ Len(Joins(ss)[i]) <= Len(Flat(ss))
           /\ SubSeq(Flat(ss), Len(Joins(ss)[i - 1]) + 1, Len(Joins(ss)[i])) = ss[i]
<1> DEFINE J == Joins(ss)
           n == Len(ss)
           len(k) == Len(J[k])
           Piece(k) == SubSeq(J[k], len(i - 1) + 1, len(i))
           Cut(k) == len(i) <= len(k) /\ Piece(k) = ss[i]
           I == {d \in Nat : i + d <= n => Cut(i + d)}
<1>1. /\ n \in Nat
      /\ \A k \in 0..n : J[k] \in Seq(S) /\ len(k) \in Nat
      /\ \A k \in 1..n : /\ ss[k] \in Seq(S) /\ Len(ss[k]) \in Nat
                         /\ J[k] = J[k - 1] \o ss[k]
                         /\ len(k) = len(k - 1) + Len(ss[k])
  BY JoinsFacts, Zenon
<1> HIDE DEF J, n
<1>2. i \in 1..n /\ i - 1 \in 0..n /\ i \in 0..n
  BY <1>1 DEF n
<1>3. 0 \in I
  <2>1. Piece(i) = ss[i]
    <3>1. J[i] = J[i - 1] \o ss[i] /\ J[i - 1] \in Seq(S) /\ ss[i] \in Seq(S)
      BY <1>1, <1>2, Zenon
    <3>2. QED
      BY <3>1, CutSecond
  <2>2. len(i) \in Nat
    BY <1>1, <1>2, Zenon
  <2> HIDE DEF len, Piece
  <2>3. Cut(i)
    BY <2>1, <2>2
  <2>4. i + 0 = i
    BY <1>2
  <2> HIDE DEF Cut
  <2>5. QED
    BY <2>3, <2>4
<1>4. ASSUME NEW d \in Nat, d \in I PROVE d + 1 \in I
  <2> SUFFICES ASSUME i + (d + 1) <= n PROVE Cut(i + (d + 1))
    BY d + 1 \in Nat, Zenon
  <2> DEFINE k == i + d
             l == i + (d + 1)
  <2>1. k \in 1..n /\ l \in 1..n /\ l - 1 = k /\ k <= n /\ k \in 0..n
    BY <1>1, <1>2
  <2>2. Cut(k)
    BY <1>4, <2>1, Zenon
  <2> HIDE DEF k, l
  <2>3. /\ J[l] = J[k] \o ss[l] /\ J[k] \in Seq(S) /\ ss[l] \in Seq(S)
        /\ len(l) = len(k) + Len(ss[l]) /\ Len(ss[l]) \in Nat
    BY <1>1, <2>1, Zenon
  <2>4. len(k) \in Nat /\ len(i) \in Nat /\ len(i - 1) \in Nat
    BY <1>1, <1>2, <2>1, Zenon
  <2>5. Piece(l) = Piece(k)
    <3> DEFINE a == len(i - 1) + 1
               b == len(i)
    <3>1. a \in Nat \ {0} /\ b \in 0..Len(J[k])
      <4> HIDE DEF Piece
      <4>1. len(i) <= len(k)
        BY <2>2, Zenon
      <4>2. b \in 0..len(k)
        <5> HIDE DEF len
        <5>1. QED
          BY <4>1, <2>4
      <4>3. a \in Nat \ {0}
        <5> HIDE DEF len
        <5>1. QED
          BY <2>4
      <4>4. QED
        BY <4>2, <4>3, Zenon
    <3> HIDE DEF a, b
    <3>2. SubSeq(J[k] \o ss[l], a, b) = SubSeq(J[k], a, b)
      BY <2>3, <3>1, CutFirst
    <3>3. QED
      BY <2>3, <3>2, Zenon DEF a, b
  <2> HIDE DEF Piece, len
  <2>6. Cut(l)
    <3>1. len(i) <= len(l)
      BY <2>2, <2>3, <2>4
    <3>2. QED
      BY <2>2, <2>5, <3>1, Zenon
  <2>7. QED
    BY <2>6, Zenon DEF l
<1> HIDE DEF I
<1>5. \A d \in Nat : d \in I
  BY <1>3, <1>4, Induction
<1>6. n - i \in Nat /\ i + (n - i) = n /\ n <= n
  BY <1>1, <1>2
<1>7. Cut(n)
  <2>1. n - i \in I
    BY <1>5, <1>6, Zenon
  <2> HIDE DEF Cut
  <2>2. i + (n - i) <= n => Cut(i + (n - i))
    BY <2>1, Zenon DEF I
  <2>3. QED
    BY <1>6, <2>2, Zenon
<1>8. QED
  BY <1>7, Zenon DEF Flat, J, n

(* Strings as long as the fields of a layout end where its fields do.      *)
LEMMA JoinsLengths ==
    ASSUME NEW S, NEW kind, Layout[kind] \in Seq(Nat), NEW ss \in Seq(Seq(S)),
           Len(ss) = Len(Layout[kind]), \A i \in 1..Len(ss) : Len(ss[i]) = Layout[kind][i]
    PROVE  \A i \in 0..Len(ss) : Len(Joins(ss)[i]) = Ends(kind)[i]
<1> DEFINE J == Joins(ss)
           E == Ends(kind)
           n == Len(ss)
           f == [i \in 0..n |-> Len(J[i])]
<1>1. /\ n \in Nat /\ J[0] = <<>>
      /\ \A k \in 1..n : Len(J[k]) = Len(J[k - 1]) + Len(ss[k])
  BY JoinsFacts, Zenon
<1>2. \A k \in 1..n : Len(ss[k]) = Layout[kind][k]
  OBVIOUS
<1>3. E[0] = 0 /\ \A k \in 1..n : E[k] = E[k - 1] + Layout[kind][k]
  <2>1. EndsRun(E, kind)
    BY EndsSteps
  <2>2. QED
    BY <2>1 DEF EndsRun
<1> HIDE DEF J, n, E
<1>4. \A i \in 0..n : f[i] = Len(J[i])
  OBVIOUS
<1> HIDE DEF f
<1>5. ASSUME NEW i \in 1..n, f[i - 1] = E[i - 1] PROVE f[i] = E[i]
  <2>1. i - 1 \in 0..n /\ i \in 0..n
    BY <1>1
  <2>2. Len(J[i]) = Len(J[i - 1]) + Layout[kind][i]
    BY <1>1, <1>2, Zenon
  <2>3. QED
    BY <1>3, <1>4, <1>5, <2>1, <2>2, Zenon
<1>6. f[0] = E[0]
  <2>1. 0 \in 0..n /\ Len(<<>>) = 0
    BY <1>1
  <2>2. QED
    BY <1>1, <1>3, <1>4, <2>1, Zenon
<1>7. InStep(f, E, n)
  BY <1>1, <1>5, <1>6 DEF InStep
<1>8. Agree(f, E, n)
  BY <1>7, Agreement
<1>9. QED
  BY <1>4, <1>8, Zenon DEF Agree, J, E, n

(* Dividing into pieces, rounding up.                                      *)
LEMMA RoundedUp ==
    ASSUME NEW l \in Nat, NEW c \in Nat \ {0}, l # 0
    PROVE  /\ (l + c - 1) \div c \in Nat \ {0}
           /\ l <= ((l + c - 1) \div c) * c
           /\ \A i \in 1..((l + c - 1) \div c) : (i - 1) * c \in Nat /\ (i - 1) * c < l /\ i * c = (i - 1) * c + c
<1> DEFINE s == l + c - 1
           t == s \div c
<1>1. s \in Nat /\ s >= c
  OBVIOUS
<1>2. t \in Int /\ s = c * t + (s % c) /\ (s % c) \in 0..(c - 1)
  <2> HIDE DEF s
  <2>1. QED
    BY <1>1
<1> HIDE DEF t
<1>3. c * t > s - c /\ c * t <= s
  BY <1>1, <1>2
<1>4. c * t > 0 /\ l <= c * t
  <2> DEFINE p == c * t
  <2>1. p \in Int /\ p > s - c
    BY <1>2, <1>3
  <2> HIDE DEF p
  <2>2. p > 0 /\ l <= p
    BY <2>1
  <2>3. QED
    BY <2>2, Zenon DEF p
<1>5. t > 0
  BY <1>2, <1>4
<1>6. c * (t - 1) < l
  BY <1>2, <1>3
<1>7. ASSUME NEW i \in 1..t
      PROVE  (i - 1) * c \in Nat /\ (i - 1) * c < l /\ i * c = (i - 1) * c + c
  <2>1. (i - 1) * c \in Nat
    <3>1. i - 1 \in Nat
      BY <1>2
    <3>2. QED
      BY <3>1
  <2>2. c * (t - i) >= 0
    BY <1>2
  <2>3. c * (t - 1) = c * (t - i) + (i - 1) * c
    BY <1>2
  <2>4. (i - 1) * c <= c * (t - 1)
    BY <1>2, <2>1, <2>2, <2>3
  <2>5. QED
    BY <1>2, <1>6, <2>1, <2>4
<1>8. t * c = c * t
  BY <1>2
<1>9. t \in Nat \ {0} /\ l <= t * c
  BY <1>2, <1>4, <1>5, <1>8
<1>10. QED
  BY <1>7, <1>9, Zenon DEF t

(* A number at most c * n, divided by c and rounded up, is at most n.      *)
LEMMA RoundedUpFits ==
    ASSUME NEW l \in Nat, NEW c \in Nat \ {0}, NEW n \in Nat, l <= c * n
    PROVE  (l + c - 1) \div c <= n
OBVIOUS

(* A string cut into pieces of one length, and a last one that may be      *)
(* shorter, is what the pieces make when joined.                           *)
ArePieces(ss, data, c) ==
    ss = [i \in 1..((Len(data) + c - 1) \div c) |->
            SubSeq(data, (i - 1) * c + 1, IF i * c < Len(data) THEN i * c ELSE Len(data))]

Joinable(ss, data, c, S) ==
    /\ ss \in Seq(Seq(S)) /\ Len(ss) = (Len(data) + c - 1) \div c
    /\ \A i \in 1..Len(ss) : Len(ss[i]) <= c
    /\ Flat(ss) = data

(* The pieces chunk_payload cuts a string into are no longer than a chunk, *)
(* and make the string when joined.                                        *)
THEOREM PiecesJoin ==
    ASSUME NEW S, NEW data \in Seq(S), NEW c \in Nat \ {0}, Len(data) # 0, NEW ss,
           ArePieces(ss, data, c)
    PROVE  Joinable(ss, data, c, S)
<1> DEFINE l == Len(data)
           t == (l + c - 1) \div c
           End(i) == IF i * c < l THEN i * c ELSE l
           Piece(i) == SubSeq(data, (i - 1) * c + 1, End(i))
           J == Joins(ss)
           f == [i \in 0..t |-> SubSeq(data, 1, End(i))]
<1>1. l \in Nat /\ l # 0
  OBVIOUS
<1>2. /\ t \in Nat \ {0} /\ l <= t * c
      /\ \A i \in 1..t : (i - 1) * c \in Nat /\ (i - 1) * c < l /\ i * c = (i - 1) * c + c
  <2> HIDE DEF l
  <2>1. QED
    BY <1>1, RoundedUp
<1>3. ss = [i \in 1..t |-> Piece(i)]
  BY Zenon DEF ArePieces
<1> HIDE DEF l, t
<1>4. ASSUME NEW i \in 1..t
      PROVE  /\ End(i) \in ((i - 1) * c + 1)..l /\ End(i) <= (i - 1) * c + c
             /\ End(i - 1) = (i - 1) * c
  <2> DEFINE a == (i - 1) * c
  <2>1. a \in Nat /\ a < l /\ i * c = a + c
    BY <1>2, Zenon
  <2> HIDE DEF a
  <2>2. End(i) \in (a + 1)..l /\ End(i) <= a + c
    BY <1>1, <2>1
  <2>3. End(i - 1) = a
    BY <2>1, Zenon DEF a
  <2>4. QED
    BY <2>2, <2>3, Zenon DEF a
<1> HIDE DEF End
<1>5. ASSUME NEW i \in 1..t PROVE Piece(i) \in Seq(S) /\ Len(Piece(i)) <= c
  <2> DEFINE a == (i - 1) * c
             b == End(i)
  <2>1. a \in Nat /\ b \in (a + 1)..l /\ b <= a + c
    BY <1>2, <1>4, Zenon
  <2> HIDE DEF a, b
  <2>2. \A k \in (a + 1)..b : data[k] \in S
    BY <1>1, <2>1 DEF l
  <2>3. a + 1 \in Int /\ b \in Int /\ a + 1 <= b
    BY <1>1, <2>1
  <2>4. SubSeq(data, a + 1, b) \in Seq(S) /\ Len(SubSeq(data, a + 1, b)) = b - (a + 1) + 1
    BY <2>2, <2>3, SubSeqProperties
  <2>5. b - (a + 1) + 1 <= c
    BY <2>1, <2>3
  <2>6. QED
    BY <2>4, <2>5, Zenon DEF a, b
<1> HIDE DEF Piece
<1>6. ss \in Seq(Seq(S)) /\ Len(ss) = t /\ \A i \in 1..t : ss[i] = Piece(i)
  <2> DEFINE T == Seq(S)
  <2>1. \A i \in 1..t : Piece(i) \in T
    BY <1>5
  <2> HIDE DEF T
  <2>2. ss \in [1..t -> T]
    BY <1>3, <2>1
  <2>3. ss \in Seq(T) /\ Len(ss) = t
    BY <1>2, <2>2, FunctionIsSeq
  <2>4. \A i \in 1..t : ss[i] = Piece(i)
    BY <1>3, Zenon
  <2>5. QED
    BY <2>3, <2>4, Zenon DEF T
<1>7. /\ \A k \in 1..t : J[k] = J[k - 1] \o ss[k]
      /\ J[0] = <<>>
  BY <1>6, JoinsFacts
<1>8. \A k \in 0..t : f[k] = SubSeq(data, 1, End(k))
  OBVIOUS
<1> HIDE DEF J, f
<1>9. ASSUME NEW i \in 1..t, J[i - 1] = f[i - 1] PROVE J[i] = f[i]
  <2> DEFINE a == (i - 1) * c
             b == End(i)
  <2>1. a \in Nat /\ a < l /\ b \in (a + 1)..l /\ End(i - 1) = a
    BY <1>2, <1>4, Zenon
  <2>2. i - 1 \in 0..t /\ i \in 0..t
    BY <1>2
  <2>3. J[i] = SubSeq(data, 1, a) \o SubSeq(data, a + 1, b)
    BY <1>6, <1>7, <1>8, <1>9, <2>1, <2>2, Zenon DEF Piece
  <2> HIDE DEF a, b
  <2>4. 1 \in 1..(Len(data) + 1) /\ a \in (1 - 1)..Len(data) /\ b \in a..Len(data)
    BY <1>1, <2>1 DEF l
  <2>5. SubSeq(data, 1, a) \o SubSeq(data, a + 1, b) = SubSeq(data, 1, b)
    BY <2>4, ConcatAdjacentSubSeq
  <2>6. QED
    BY <1>8, <2>2, <2>3, <2>5, Zenon DEF b
<1>10. J[0] = f[0]
  <2>1. End(0) = 0
    BY <1>1 DEF End
  <2>2. SubSeq(data, 1, 0) = <<>> /\ 0 \in 0..t
    BY <1>2, SubSeqEmpty
  <2>3. QED
    BY <1>7, <1>8, <2>1, <2>2, Zenon
<1>11. InStep(J, f, t)
  BY <1>2, <1>9, <1>10 DEF InStep
<1>12. Agree(J, f, t)
  BY <1>11, Agreement
<1>13. J[t] = data
  <2>1. t \in 0..t
    BY <1>2
  <2>2. End(t) = l
    <3>1. t * c \in Int
      BY <1>2
    <3>2. QED
      BY <1>1, <1>2, <3>1 DEF End
  <2>3. J[t] = SubSeq(data, 1, l)
    BY <1>8, <1>12, <2>1, <2>2, Zenon DEF Agree
  <2>4. QED
    BY <2>3, SubSeqFull DEF l
<1>14. \A i \in 1..t : Len(ss[i]) <= c
  BY <1>5, <1>6, Zenon
<1>15. QED
  BY <1>6, <1>13, <1>14, Zenon DEF Joinable, Flat, J, t, l

-----------------------------------------------------------------------------
(* The exclusive or, and the checksum.                                     *)

(* What is proved of the exclusive or at each width, ab being that of a    *)
(* and b: its range, its parity, that the order does not matter, that      *)
(* nothing changes nothing, and that what went in follows from what came   *)
(* out.                                                                    *)
Laws(top, a, b, c, ab, ba, a0, cb) ==
    /\ ab \in Nat /\ ab <= top /\ ab % 2 = (a + b) % 2
    /\ ab = ba /\ a0 = a
    /\ (ab = cb) => (a = c)

(* The laws hold of two bits,                                              *)
LEMMA Xor2Laws ==
    ASSUME NEW a \in 0..3, NEW b \in 0..3, NEW c \in 0..3
    PROVE  Laws(3, a, b, c, Xor2(a, b), Xor2(b, a), Xor2(a, 0), Xor2(c, b))
BY DEF Xor2, Laws

(* of four,                                                                *)
LEMMA Xor4Laws ==
    ASSUME NEW a \in 0..15, NEW b \in 0..15, NEW c \in 0..15
    PROVE  Laws(15, a, b, c, Xor4(a, b), Xor4(b, a), Xor4(a, 0), Xor4(c, b))
<1> DEFINE ah == a \div 4
           al == a % 4
           bh == b \div 4
           bl == b % 4
           ch == c \div 4
           cl == c % 4
<1>1. ah \in 0..3 /\ al \in 0..3 /\ a = 4 * ah + al
  OBVIOUS
<1>2. bh \in 0..3 /\ bl \in 0..3 /\ b = 4 * bh + bl
  OBVIOUS
<1>3. ch \in 0..3 /\ cl \in 0..3 /\ c = 4 * ch + cl
  OBVIOUS
<1>4. /\ Xor4(a, b) = 4 * Xor2(ah, bh) + Xor2(al, bl)
      /\ Xor4(b, a) = 4 * Xor2(bh, ah) + Xor2(bl, al)
      /\ Xor4(c, b) = 4 * Xor2(ch, bh) + Xor2(cl, bl)
  BY Zenon DEF Xor4
<1>5. Xor4(a, 0) = 4 * Xor2(ah, 0) + Xor2(al, 0)
  <2>1. 0 \div 4 = 0 /\ 0 % 4 = 0
    BY SMT
  <2>2. Xor4(a, 0) = 4 * Xor2(ah, 0 \div 4) + Xor2(al, 0 % 4)
    BY Zenon DEF Xor4
  <2>3. QED
    BY <2>1, <2>2, Zenon
<1> HIDE DEF ah, al, bh, bl, ch, cl
<1>6. Laws(3, ah, bh, ch, Xor2(ah, bh), Xor2(bh, ah), Xor2(ah, 0), Xor2(ch, bh))
  BY <1>1, <1>2, <1>3, Xor2Laws
<1>7. Laws(3, al, bl, cl, Xor2(al, bl), Xor2(bl, al), Xor2(al, 0), Xor2(cl, bl))
  BY <1>1, <1>2, <1>3, Xor2Laws
<1>8. Laws(3, ch, bh, ah, Xor2(ch, bh), Xor2(bh, ch), Xor2(ch, 0), Xor2(ah, bh))
  BY <1>1, <1>2, <1>3, Xor2Laws
<1>9. Laws(3, cl, bl, al, Xor2(cl, bl), Xor2(bl, cl), Xor2(cl, 0), Xor2(al, bl))
  BY <1>1, <1>2, <1>3, Xor2Laws
<1> DEFINE h == Xor2(ah, bh)
           l == Xor2(al, bl)
           g == Xor2(ch, bh)
           k == Xor2(cl, bl)
<1>10. /\ h \in Nat /\ h <= 3 /\ Xor2(bh, ah) = h /\ Xor2(ah, 0) = ah
       /\ (h = g) => (ah = ch)
  BY <1>6 DEF Laws
<1>11. /\ l \in Nat /\ l <= 3 /\ Xor2(bl, al) = l /\ Xor2(al, 0) = al
       /\ l % 2 = (al + bl) % 2
       /\ (l = k) => (al = cl)
  BY <1>7 DEF Laws
<1>12. g \in Nat /\ g <= 3 /\ k \in Nat /\ k <= 3
  BY <1>8, <1>9 DEF Laws
<1>13. Xor4(a, b) = 4 * h + l /\ Xor4(b, a) = 4 * h + l /\ Xor4(c, b) = 4 * g + k
  BY <1>4, <1>10, <1>11
<1>14. Xor4(a, 0) = a
  BY <1>1, <1>5, <1>10, <1>11
<1> HIDE DEF h, l, g, k
<1>15. 4 * h + l \in Nat /\ 4 * h + l <= 15
  BY <1>10, <1>11
<1>16. (4 * h + l) % 2 = (a + b) % 2
  <2>1. (4 * h + l) % 2 = l % 2
    BY <1>10, <1>11
  <2>2. (a + b) % 2 = (al + bl) % 2
    BY <1>1, <1>2
  <2>3. QED
    BY <1>11, <2>1, <2>2
<1>17. ASSUME 4 * h + l = 4 * g + k PROVE a = c
  <2>1. h = g /\ l = k
    BY <1>10, <1>11, <1>12, <1>17
  <2>2. ah = ch /\ al = cl
    BY <1>10, <1>11, <2>1
  <2>3. QED
    BY <1>1, <1>3, <2>2
<1>18. QED
  BY <1>13, <1>14, <1>15, <1>16, <1>17 DEF Laws

(* and of eight, so of bytes.                                              *)
LEMMA Xor8Laws ==
    ASSUME NEW a \in 0..255, NEW b \in 0..255, NEW c \in 0..255
    PROVE  Laws(255, a, b, c, Xor8(a, b), Xor8(b, a), Xor8(a, 0), Xor8(c, b))
<1> DEFINE ah == a \div 16
           al == a % 16
           bh == b \div 16
           bl == b % 16
           ch == c \div 16
           cl == c % 16
<1>1. ah \in 0..15 /\ al \in 0..15 /\ a = 16 * ah + al
  OBVIOUS
<1>2. bh \in 0..15 /\ bl \in 0..15 /\ b = 16 * bh + bl
  OBVIOUS
<1>3. ch \in 0..15 /\ cl \in 0..15 /\ c = 16 * ch + cl
  OBVIOUS
<1>4. /\ Xor8(a, b) = 16 * Xor4(ah, bh) + Xor4(al, bl)
      /\ Xor8(b, a) = 16 * Xor4(bh, ah) + Xor4(bl, al)
      /\ Xor8(c, b) = 16 * Xor4(ch, bh) + Xor4(cl, bl)
  BY Zenon DEF Xor8
<1>5. Xor8(a, 0) = 16 * Xor4(ah, 0) + Xor4(al, 0)
  <2>1. 0 \div 16 = 0 /\ 0 % 16 = 0
    BY SMT
  <2>2. Xor8(a, 0) = 16 * Xor4(ah, 0 \div 16) + Xor4(al, 0 % 16)
    BY Zenon DEF Xor8
  <2>3. QED
    BY <2>1, <2>2, Zenon
<1> HIDE DEF ah, al, bh, bl, ch, cl
<1>6. Laws(15, ah, bh, ch, Xor4(ah, bh), Xor4(bh, ah), Xor4(ah, 0), Xor4(ch, bh))
  BY <1>1, <1>2, <1>3, Xor4Laws
<1>7. Laws(15, al, bl, cl, Xor4(al, bl), Xor4(bl, al), Xor4(al, 0), Xor4(cl, bl))
  BY <1>1, <1>2, <1>3, Xor4Laws
<1>8. Laws(15, ch, bh, ah, Xor4(ch, bh), Xor4(bh, ch), Xor4(ch, 0), Xor4(ah, bh))
  BY <1>1, <1>2, <1>3, Xor4Laws
<1>9. Laws(15, cl, bl, al, Xor4(cl, bl), Xor4(bl, cl), Xor4(cl, 0), Xor4(al, bl))
  BY <1>1, <1>2, <1>3, Xor4Laws
<1> DEFINE h == Xor4(ah, bh)
           l == Xor4(al, bl)
           g == Xor4(ch, bh)
           k == Xor4(cl, bl)
<1>10. /\ h \in Nat /\ h <= 15 /\ Xor4(bh, ah) = h /\ Xor4(ah, 0) = ah
       /\ (h = g) => (ah = ch)
  BY <1>6 DEF Laws
<1>11. /\ l \in Nat /\ l <= 15 /\ Xor4(bl, al) = l /\ Xor4(al, 0) = al
       /\ l % 2 = (al + bl) % 2
       /\ (l = k) => (al = cl)
  BY <1>7 DEF Laws
<1>12. g \in Nat /\ g <= 15 /\ k \in Nat /\ k <= 15
  BY <1>8, <1>9 DEF Laws
<1>13. Xor8(a, b) = 16 * h + l /\ Xor8(b, a) = 16 * h + l /\ Xor8(c, b) = 16 * g + k
  BY <1>4, <1>10, <1>11
<1>14. Xor8(a, 0) = a
  BY <1>1, <1>5, <1>10, <1>11
<1> HIDE DEF h, l, g, k
<1>15. 16 * h + l \in Nat /\ 16 * h + l <= 255
  BY <1>10, <1>11
<1>16. (16 * h + l) % 2 = (a + b) % 2
  <2>1. (16 * h + l) % 2 = l % 2
    BY <1>10, <1>11
  <2>2. (a + b) % 2 = (al + bl) % 2
    BY <1>1, <1>2
  <2>3. QED
    BY <1>11, <2>1, <2>2
<1>17. ASSUME 16 * h + l = 16 * g + k PROVE a = c
  <2>1. h = g /\ l = k
    BY <1>10, <1>11, <1>12, <1>17
  <2>2. ah = ch /\ al = cl
    BY <1>10, <1>11, <2>1
  <2>3. QED
    BY <1>1, <1>3, <2>2
<1>18. QED
  BY <1>13, <1>14, <1>15, <1>16, <1>17 DEF Laws

(* The table of the exclusive or is of bytes.                              *)
LEMMA XorOfType == XorOf \in [Byte -> [Byte -> Byte]]
<1>1. ASSUME NEW a \in Byte, NEW b \in Byte PROVE Xor8(a, b) \in Byte
  <2>1. a \in 0..255 /\ b \in 0..255
    BY DEF Byte
  <2>2. Laws(255, a, b, a, Xor8(a, b), Xor8(b, a), Xor8(a, 0), Xor8(a, b))
    BY <2>1, Xor8Laws
  <2>3. QED
    BY <2>2, ByteType DEF Laws
<1>2. QED
  BY <1>1, Zenon DEF XorOf

(* Bytes that differ still do with the same byte added on either side, and *)
(* adding something changes a byte.                                        *)
LEMMA XorOfDiffers ==
    ASSUME NEW a \in Byte, NEW b \in Byte, NEW c \in Byte
    PROVE  /\ a # c => XorOf[a][b] # XorOf[c][b] /\ XorOf[b][a] # XorOf[b][c]
           /\ b # 0 => XorOf[a][b] # a
<1>1. \A x, y \in Byte : XorOf[x][y] = Xor8(x, y)
  BY Zenon DEF XorOf
<1>2. a \in 0..255 /\ b \in 0..255 /\ c \in 0..255 /\ 0 \in 0..255
  BY DEF Byte
<1>3. /\ Laws(255, a, b, c, Xor8(a, b), Xor8(b, a), Xor8(a, 0), Xor8(c, b))
      /\ Laws(255, c, b, a, Xor8(c, b), Xor8(b, c), Xor8(c, 0), Xor8(a, b))
      /\ Laws(255, b, a, 0, Xor8(b, a), Xor8(a, b), Xor8(b, 0), Xor8(0, a))
      /\ Laws(255, 0, a, b, Xor8(0, a), Xor8(a, 0), Xor8(0, 0), Xor8(b, a))
  BY <1>2, Xor8Laws
<1>4. /\ (Xor8(a, b) = Xor8(c, b)) => (a = c)
      /\ Xor8(a, b) = Xor8(b, a) /\ Xor8(c, b) = Xor8(b, c)
      /\ Xor8(a, 0) = a /\ Xor8(0, a) = Xor8(a, 0)
      /\ (Xor8(b, a) = Xor8(0, a)) => (b = 0)
  BY <1>3, Zenon DEF Laws
<1>5. QED
  BY <1>1, <1>4, Zenon

(* A byte shifted eight times tells which byte it was.                     *)
OneToOne(f) == f \in [Byte -> Byte] /\ \A b, c \in Byte : f[b] = f[c] => b = c

(* Shifting twice loses no more than shifting once.                        *)
LEMMA TwiceOneToOne ==
    ASSUME NEW f, OneToOne(f) PROVE OneToOne([b \in Byte |-> f[f[b]]])
<1> DEFINE g == [b \in Byte |-> f[f[b]]]
<1>1. \A b \in Byte : f[b] \in Byte /\ f[f[b]] \in Byte
  BY DEF OneToOne
<1>2. g \in [Byte -> Byte] /\ \A b \in Byte : g[b] = f[f[b]]
  BY <1>1, Zenon
<1> HIDE DEF g
<1>3. ASSUME NEW b \in Byte, NEW c \in Byte, g[b] = g[c] PROVE b = c
  <2>1. f[f[b]] = f[f[c]]
    BY <1>2, <1>3, Zenon
  <2>2. f[b] = f[c]
    BY <1>1, <2>1, Zenon DEF OneToOne
  <2>3. QED
    BY <2>2, Zenon DEF OneToOne
<1>4. OneToOne(g)
  BY <1>2, <1>3, Zenon DEF OneToOne
<1>5. QED
  BY <1>4, Zenon DEF g

(* One shift of the checksum maps no two bytes to one: the polynomial is   *)
(* odd, so the bit shifted out can be told from the result.                *)
LEMMA ShiftOneToOne == OneToOne(Shift)
<1> DEFINE Odd(b) == XorOf[(2 * b) % 256][49]
<1>1. 49 \in Byte
  BY DEF Byte
<1>2. ASSUME NEW b \in Byte, b >= 128
      PROVE  /\ (2 * b) % 256 \in Byte /\ (2 * b) % 256 = 2 * b - 256
             /\ Odd(b) \in Byte /\ Odd(b) % 2 = 1
  <2> DEFINE x == (2 * b) % 256
  <2>1. b \in Nat /\ b <= 255
    BY ByteType
  <2>2. x = 2 * b - 256 /\ x \in Nat /\ x <= 255
    BY <1>2, <2>1, SMT
  <2>3. x \in Byte /\ x \in 0..255 /\ 49 \in 0..255
    BY <2>2, ByteType
  <2> HIDE DEF x
  <2>4. Laws(255, x, 49, x, Xor8(x, 49), Xor8(49, x), Xor8(x, 0), Xor8(x, 49))
    BY <2>3, Xor8Laws
  <2>5. XorOf[x][49] = Xor8(x, 49)
    BY <1>1, <2>3, Zenon DEF XorOf
  <2>6. XorOf[x][49] \in Nat /\ XorOf[x][49] <= 255 /\ XorOf[x][49] % 2 = (x + 49) % 2
    BY <2>4, <2>5 DEF Laws
  <2>7. (x + 49) % 2 = 1
    BY <2>1, <2>2
  <2>8. XorOf[x][49] \in Byte /\ XorOf[x][49] % 2 = 1
    BY <2>6, <2>7, ByteType
  <2>9. QED
    BY <2>2, <2>3, <2>8, Zenon DEF x
<1>3. ASSUME NEW b \in Byte, ~(b >= 128)
      PROVE  2 * b \in Byte /\ (2 * b) % 2 = 0
  BY <1>3, SMT DEF Byte
<1>4. ASSUME NEW b \in Byte PROVE Shift[b] = IF b >= 128 THEN Odd(b) ELSE 2 * b
  BY Zenon DEF Shift
<1>5. Shift = [b \in Byte |-> Shift[b]]
  BY Zenon DEF Shift
<1> HIDE DEF Odd
<1>6. \A b \in Byte : Shift[b] \in Byte
  BY <1>2, <1>3, <1>4, Zenon
<1>7. ASSUME NEW b \in Byte, NEW c \in Byte, Shift[b] = Shift[c] PROVE b = c
  <2>1. b \in Nat /\ c \in Nat
    BY ByteType
  <2>2. CASE b >= 128 /\ c >= 128
    <3> DEFINE x == (2 * b) % 256
               y == (2 * c) % 256
    <3>1. x \in Byte /\ y \in Byte /\ x = 2 * b - 256 /\ y = 2 * c - 256
      BY <1>2, <2>2
    <3> HIDE DEF x, y
    <3>2. XorOf[x][49] = XorOf[y][49]
      BY <1>4, <1>7, <2>2, Zenon DEF Odd, x, y
    <3>3. x = y
      <4> DEFINE p == 49
      <4>1. x \in Byte /\ y \in Byte /\ p \in Byte /\ XorOf[x][p] = XorOf[y][p]
        BY <1>1, <3>1, <3>2
      <4> HIDE DEF p
      <4>2. QED
        BY <4>1, XorOfDiffers, Zenon
    <3>4. QED
      BY <2>1, <3>1, <3>3
  <2>3. CASE ~(b >= 128) /\ ~(c >= 128)
    <3>1. 2 * b = 2 * c
      BY <1>4, <1>7, <2>3, Zenon
    <3>2. QED
      BY <2>1, <3>1
  <2>4. CASE b >= 128 /\ ~(c >= 128)
    <3>1. Odd(b) = 2 * c /\ Odd(b) % 2 = 1 /\ (2 * c) % 2 = 0
      BY <1>2, <1>3, <1>4, <1>7, <2>4, Zenon
    <3>2. QED
      BY <3>1
  <2>5. CASE ~(b >= 128) /\ c >= 128
    <3>1. Odd(c) = 2 * b /\ Odd(c) % 2 = 1 /\ (2 * b) % 2 = 0
      BY <1>2, <1>3, <1>4, <1>7, <2>5, Zenon
    <3>2. QED
      BY <3>1
  <2>6. QED
    BY <2>2, <2>3, <2>4, <2>5, Zenon
<1>8. Shift \in [Byte -> Byte]
  BY <1>5, <1>6, Zenon
<1>9. QED
  BY <1>7, <1>8, Zenon DEF OneToOne

(* Nor do eight shifts.                                                    *)
LEMMA CrcOfOneToOne == OneToOne(CrcOf)
<1>1. OneToOne(Shift2)
  BY ShiftOneToOne, TwiceOneToOne, Zenon DEF Shift2
<1>2. OneToOne(Shift4)
  BY <1>1, TwiceOneToOne, Zenon DEF Shift4
<1>3. QED
  BY <1>2, TwiceOneToOne, Zenon DEF CrcOf

(* One more byte taken into the checksum: different checksums stay         *)
(* different over equal bytes, equal ones become different over different  *)
(* bytes.                                                                  *)
LEMMA CrcStep ==
    ASSUME NEW s \in Byte, NEW t \in Byte, NEW b \in Byte, NEW c \in Byte
    PROVE  /\ CrcOf[XorOf[s][b]] \in Byte
           /\ s # t => CrcOf[XorOf[s][b]] # CrcOf[XorOf[t][b]]
           /\ b # c => CrcOf[XorOf[s][b]] # CrcOf[XorOf[s][c]]
<1>1. XorOf[s][b] \in Byte /\ XorOf[t][b] \in Byte /\ XorOf[s][c] \in Byte
  BY XorOfType
<1>2. /\ \A x \in Byte : CrcOf[x] \in Byte
      /\ \A x, y \in Byte : x # y => CrcOf[x] # CrcOf[y]
  BY CrcOfOneToOne, Zenon DEF OneToOne
<1>3. /\ s # t => XorOf[s][b] # XorOf[t][b]
      /\ b # c => XorOf[s][b] # XorOf[s][c]
  BY XorOfDiffers
<1>4. QED
  BY <1>1, <1>2, <1>3, Zenon

(* The checksum of the first so many bytes is a byte, and each byte takes  *)
(* one step.                                                               *)
LEMMA CrcsFacts ==
    ASSUME NEW bytes \in Seq(Byte)
    PROVE  /\ Len(bytes) \in Nat
           /\ Crcs(bytes)[0] = 0
           /\ \A i \in 0..Len(bytes) : Crcs(bytes)[i] \in Byte
           /\ \A i \in 1..Len(bytes) :
                /\ bytes[i] \in Byte
                /\ Crcs(bytes)[i] = CrcOf[XorOf[Crcs(bytes)[i - 1]][bytes[i]]]
<1>1. CrcsRun(Crcs(bytes), bytes)
  BY XorOfType, CrcOfOneToOne, CrcsSteps, Zenon DEF OneToOne
<1>2. Len(bytes) \in Nat /\ \A i \in 1..Len(bytes) : bytes[i] \in Byte
  OBVIOUS
<1>3. QED
  BY <1>1, <1>2, Zenon DEF CrcsRun

(* A checksum is a byte.                                                   *)
LEMMA Crc8Type ==
    ASSUME NEW bytes \in Seq(Byte) PROVE Crc8(bytes) \in Byte
<1>1. Len(bytes) \in Nat
  OBVIOUS
<1>2. Len(bytes) \in 0..Len(bytes)
  BY <1>1
<1>3. QED
  BY <1>2, CrcsFacts, Zenon DEF Crc8

(* The checksum tells apart bytes of which exactly one differs.            *)
THEOREM OneByteDiffers ==
    ASSUME NEW x \in Seq(Byte), NEW y \in Seq(Byte), Len(x) = Len(y),
           NEW p \in 1..Len(x), x[p] # y[p],
           \A i \in 1..Len(x) : i # p => x[i] = y[i]
    PROVE  Crc8(x) # Crc8(y)
<1> DEFINE n == Len(x)
           X == Crcs(x)
           Y == Crcs(y)
           I == {d \in Nat : p + d <= n => X[p + d] # Y[p + d]}
<1>1. /\ n \in Nat /\ X[0] = 0 /\ Y[0] = 0
      /\ \A i \in 0..n : X[i] \in Byte /\ Y[i] \in Byte
      /\ \A i \in 1..n : /\ x[i] \in Byte /\ y[i] \in Byte
                         /\ X[i] = CrcOf[XorOf[X[i - 1]][x[i]]]
                         /\ Y[i] = CrcOf[XorOf[Y[i - 1]][y[i]]]
  BY CrcsFacts, Zenon
<1> HIDE DEF n, X, Y
<1>2. p \in 1..n /\ p - 1 \in 0..n /\ p - 1 \in Nat /\ p \in 1..n
  BY <1>1 DEF n
<1>3. X[p - 1] = Y[p - 1]
  <2>1. ASSUME NEW i \in 1..(p - 1), X[i - 1] = Y[i - 1] PROVE X[i] = Y[i]
    <3>1. i \in 1..n /\ i # p
      BY <1>1, <1>2
    <3>2. x[i] = y[i]
      BY <3>1, Zenon DEF n
    <3>3. QED
      BY <1>1, <2>1, <3>1, <3>2, Zenon
  <2>2. InStep(X, Y, p - 1)
    BY <1>1, <1>2, <2>1, Zenon DEF InStep
  <2>3. Agree(X, Y, p - 1)
    BY <2>2, Agreement
  <2>4. p - 1 \in 0..(p - 1)
    BY <1>2
  <2>5. QED
    BY <2>3, <2>4, Zenon DEF Agree
<1>4. 0 \in I
  <2>1. X[p - 1] \in Byte /\ x[p] \in Byte /\ y[p] \in Byte
    BY <1>1, <1>2, Zenon
  <2>2. CrcOf[XorOf[X[p - 1]][x[p]]] # CrcOf[XorOf[X[p - 1]][y[p]]]
    BY <2>1, CrcStep
  <2>3. X[p] # Y[p]
    BY <1>1, <1>2, <1>3, <2>2, Zenon
  <2>4. p + 0 = p
    BY <1>2
  <2>5. QED
    BY <2>3, <2>4
<1>5. ASSUME NEW d \in Nat, d \in I PROVE d + 1 \in I
  <2> SUFFICES ASSUME p + (d + 1) <= n PROVE X[p + (d + 1)] # Y[p + (d + 1)]
    BY d + 1 \in Nat, Zenon
  <2> DEFINE k == p + d
             l == p + (d + 1)
  <2>1. k \in 0..n /\ k <= n /\ l \in 1..n /\ l - 1 = k /\ l # p
    BY <1>1, <1>2
  <2>2. X[k] # Y[k]
    BY <1>5, <2>1, Zenon
  <2> HIDE DEF k, l
  <2>3. x[l] = y[l] /\ x[l] \in Byte /\ X[k] \in Byte /\ Y[k] \in Byte
    BY <1>1, <2>1, Zenon DEF n
  <2>4. CrcOf[XorOf[X[k]][x[l]]] # CrcOf[XorOf[Y[k]][x[l]]]
    BY <2>2, <2>3, CrcStep
  <2>5. X[l] # Y[l]
    BY <1>1, <2>1, <2>3, <2>4, Zenon
  <2>6. QED
    BY <2>5, Zenon DEF l
<1> HIDE DEF I
<1>6. \A d \in Nat : d \in I
  BY <1>4, <1>5, Induction
<1>7. n - p \in Nat /\ p + (n - p) = n /\ n <= n
  BY <1>1, <1>2
<1>8. X[n] # Y[n]
  <2>1. n - p \in I
    BY <1>6, <1>7, Zenon
  <2>2. p + (n - p) <= n => X[p + (n - p)] # Y[p + (n - p)]
    BY <2>1, Zenon DEF I
  <2>3. QED
    BY <1>7, <2>2, Zenon
<1>9. QED
  BY <1>8, Zenon DEF Crc8, X, Y, n

-----------------------------------------------------------------------------
(* Messages encoded, and decoded again.                                    *)

(* What is assumed of the constants, in the form the proofs take it.       *)
LEMMA ConstantTypes ==
    /\ \A m \in Messages : IsMessage(m)
    /\ Ids \subseteq MsgId
    /\ \A x \in Patterns : x \in Byte /\ x # 0
    /\ MaxChunkData \in Nat \ {0} /\ MaxChunkData <= 245
    /\ MaxChunks \in Nat \ {0} /\ MaxChunks <= 255 /\ MaxDamage \in Nat
    /\ Key \in Nat \ {0} /\ Signature \in Nat /\ Amount \in Nat
<1>1. /\ \A m \in Messages : IsMessage(m)
      /\ Ids \subseteq MsgId /\ Patterns \subseteq Byte \ {0}
      /\ MaxDamage \in Nat
      /\ Key \in Nat \ {0} /\ Signature \in Nat /\ Amount \in Nat
  BY WireAssumption, Zenon
<1>2. MaxChunkData \in Nat \ {0} /\ MaxChunkData <= 245
  BY WireAssumption, SMT
<1>3. MaxChunks \in Nat \ {0} /\ MaxChunks <= 255
  BY WireAssumption, SMT
<1>4. \A x \in Patterns : x \in Byte /\ x # 0
  BY <1>1, Zenon
<1>5. QED
  BY <1>1, <1>2, <1>3, <1>4, SMT

(* The kinds of message.                                                  *)
Kinds == DOMAIN MsgType

(* The kinds of message; none may go on with both a key told by length and *)
(* text.                                                                   *)
LEMMA KindsAre ==
    /\ Kinds = {"TX_CHUNK", "TX_REQUEST", "ADDR_SHARE", "ACK", "NACK", "BALANCE_REQ",
                "BALANCE_RESP", "BLOCKHASH_REQ", "BLOCKHASH_RESP", "TX_RESULT", "GATEWAY_BEACON"}
    /\ KeyByLength \cap (OpenEnded \cup {"TX_REQUEST"}) = {}
BY DEF Kinds, MsgType, KeyByLength, OpenEnded

(* The widths of every kind's fields are numbers.                          *)
LEMMA LayoutType ==
    ASSUME NEW kind \in Kinds PROVE Layout[kind] \in Seq(Nat)
<1>1. Key \in Nat /\ Signature \in Nat /\ Amount \in Nat
  BY ConstantTypes
<1>2. kind \in {"TX_CHUNK", "BLOCKHASH_REQ"} => Layout[kind] = <<>>
  BY DEF Layout
<1>3. kind = "TX_REQUEST" => Layout[kind] = <<Signature, Key, Key, Amount>>
  BY DEF Layout
<1>4. kind \in {"ADDR_SHARE", "BALANCE_REQ", "BLOCKHASH_RESP"} => Layout[kind] = <<Key>>
  BY DEF Layout
<1>5. kind = "ACK" => Layout[kind] = <<2, 1, 1>>
  BY DEF Layout
<1>6. kind \in {"NACK", "TX_RESULT"} => Layout[kind] = <<2, 1>>
  BY DEF Layout
<1>7. kind = "BALANCE_RESP" => Layout[kind] = <<Key, Amount>>
  BY DEF Layout
<1>8. kind = "GATEWAY_BEACON" => Layout[kind] = <<1, 1, 4>>
  BY DEF Layout
<1>9. /\ <<>> \in Seq(Nat) /\ <<Key>> \in Seq(Nat) /\ <<Key, Amount>> \in Seq(Nat)
      /\ <<Signature, Key, Key, Amount>> \in Seq(Nat)
      /\ <<2, 1, 1>> \in Seq(Nat) /\ <<2, 1>> \in Seq(Nat) /\ <<1, 1, 4>> \in Seq(Nat)
  BY <1>1
<1>10. QED
  BY <1>2, <1>3, <1>4, <1>5, <1>6, <1>7, <1>8, <1>9, KindsAre, Zenon

(* What is known of what the encoders are given.                           *)
LEMMA MessageType ==
    ASSUME NEW m, IsMessage(m)
    PROVE  /\ m = [kind |-> m.kind, fields |-> m.fields, key |-> m.key, text |-> m.text]
           /\ m.kind \in Kinds /\ m.fields \in Seq(Nat) /\ m.key \in Seq(Byte) /\ m.text \in Seq(Byte)
           /\ Len(m.fields) \in Nat /\ Len(m.fields) = Len(Layout[m.kind])
           /\ Layout[m.kind] \in Seq(Nat)
           /\ m.key # <<>> => Len(m.key) = Key /\ m.kind \in KeyByLength \cup {"TX_REQUEST"}
           /\ m.text # <<>> => m.kind \in OpenEnded
<1>1. /\ m \in [kind : Kinds, fields : Seq(Nat), key : Seq(Byte), text : Seq(Byte)]
      /\ Len(m.fields) = Len(Layout[m.kind])
      /\ m.key # <<>> => Len(m.key) = Key /\ m.kind \in KeyByLength \cup {"TX_REQUEST"}
      /\ m.text # <<>> => m.kind \in OpenEnded
  BY Zenon DEF IsMessage, Kinds
<1>2. /\ m = [kind |-> m.kind, fields |-> m.fields, key |-> m.key, text |-> m.text]
      /\ m.kind \in Kinds /\ m.fields \in Seq(Nat) /\ m.key \in Seq(Byte) /\ m.text \in Seq(Byte)
  BY <1>1
<1>3. Len(m.fields) \in Nat
  BY <1>2
<1>4. QED
  BY <1>1, <1>2, <1>3, LayoutType, Zenon

(* A message's encoding is its fields' bytes and what follows them.        *)
Strings(m) == [i \in 1..Len(m.fields) |-> BigEndian(m.fields[i], Layout[m.kind][i])]

FlagPart(m) == IF m.kind = "TX_REQUEST" THEN Flags(m) ELSE <<>>

After(m) == (FlagPart(m) \o m.key) \o m.text

(* Every field is encoded to the bytes its layout gives it.                *)
LEMMA StringsType ==
    ASSUME NEW m, IsMessage(m)
    PROVE  /\ Strings(m) \in Seq(Seq(Byte)) /\ Len(Strings(m)) = Len(m.fields)
           /\ \A i \in 1..Len(m.fields) :
                /\ m.fields[i] \in Nat /\ Layout[m.kind][i] \in Nat
                /\ Strings(m)[i] = BigEndian(m.fields[i], Layout[m.kind][i])
                /\ Len(Strings(m)[i]) = Layout[m.kind][i]
<1> DEFINE n == Len(m.fields)
           ss == Strings(m)
           T == Seq(Byte)
<1>1. /\ n \in Nat /\ n = Len(Layout[m.kind])
      /\ m.fields \in Seq(Nat) /\ Layout[m.kind] \in Seq(Nat)
  BY MessageType, Zenon
<1>2. ASSUME NEW i \in 1..n PROVE m.fields[i] \in Nat /\ Layout[m.kind][i] \in Nat
  BY <1>1
<1> HIDE DEF T
<1>3. ASSUME NEW i \in 1..n
      PROVE  /\ BigEndian(m.fields[i], Layout[m.kind][i]) \in T
             /\ Len(BigEndian(m.fields[i], Layout[m.kind][i])) = Layout[m.kind][i]
  BY <1>2, BigEndianType, Zenon DEF T
<1>4. ss = [i \in 1..n |-> BigEndian(m.fields[i], Layout[m.kind][i])]
  BY Zenon DEF Strings
<1> HIDE DEF n, ss
<1>5. ss \in [1..n -> T]
  BY <1>3, <1>4, Zenon
<1>6. ss \in Seq(T) /\ Len(ss) = n
  BY <1>1, <1>5, FunctionIsSeq
<1>7. \A i \in 1..n : ss[i] = BigEndian(m.fields[i], Layout[m.kind][i])
  BY <1>4, Zenon
<1>8. QED
  BY <1>2, <1>3, <1>6, <1>7, Zenon DEF n, ss, T

(* Joining may be done in any order.                                       *)
LEMMA Associates ==
    ASSUME NEW s \in Seq(Byte), NEW t \in Seq(Byte), NEW u \in Seq(Byte)
    PROVE  (s \o t) \o u = s \o (t \o u)
BY ConcatAssociative

(* An encoding is the bytes of the fields, then the flags byte, the key    *)
(* and the text.                                                           *)
LEMMA EncodeParts ==
    ASSUME NEW m, IsMessage(m)
    PROVE  /\ Flat(Strings(m)) \in Seq(Byte)
           /\ Len(Flat(Strings(m))) = Ends(m.kind)[Len(m.fields)]
           /\ FlagPart(m) \in Seq(Byte) /\ FlagPart(m) \o m.key \in Seq(Byte)
           /\ After(m) \in Seq(Byte)
           /\ Encode(m) = Flat(Strings(m)) \o After(m)
<1> DEFINE F == Flat(Strings(m))
           G == FlagPart(m)
           n == Len(m.fields)
<1>1. m.key \in Seq(Byte) /\ m.text \in Seq(Byte) /\ n \in Nat
  BY MessageType, Zenon
<1>2. Strings(m) \in Seq(Seq(Byte)) /\ Len(Strings(m)) = n
  BY StringsType, Zenon
<1>3. n \in 0..n
  BY <1>1
<1>4. F \in Seq(Byte)
  BY <1>2, <1>3, JoinsFacts, Zenon DEF Flat
<1>5. Len(F) = Ends(m.kind)[n]
  <2>1. \A i \in 1..Len(Strings(m)) : Len(Strings(m)[i]) = Layout[m.kind][i]
    BY <1>2, StringsType, Zenon
  <2>2. Layout[m.kind] \in Seq(Nat) /\ Len(Strings(m)) = Len(Layout[m.kind])
    BY <1>2, MessageType, Zenon
  <2>3. Len(Joins(Strings(m))[n]) = Ends(m.kind)[n]
    <3> HIDE DEF n
    <3> DEFINE ss == Strings(m)
               k == m.kind
    <3>1. /\ ss \in Seq(Seq(Byte)) /\ Layout[k] \in Seq(Nat) /\ Len(ss) = Len(Layout[k])
          /\ \A i \in 1..Len(ss) : Len(ss[i]) = Layout[k][i]
      BY <1>2, <2>1, <2>2, Zenon
    <3> HIDE DEF ss, k
    <3>2. \A i \in 0..Len(ss) : Len(Joins(ss)[i]) = Ends(k)[i]
      BY <3>1, JoinsLengths, Zenon
    <3>3. QED
      BY <1>2, <1>3, <3>2, Zenon DEF ss, k
  <2>4. QED
    BY <1>2, <2>3, Zenon DEF Flat
<1>6. G \in Seq(Byte)
  <2>1. 0 \in Byte /\ 1 \in Byte
    BY DEF Byte
  <2>2. <<0>> \in Seq(Byte) /\ <<1>> \in Seq(Byte) /\ <<>> \in Seq(Byte)
    BY <2>1
  <2>3. G \in {<<>>, <<0>>, <<1>>}
    BY Zenon DEF FlagPart, Flags
  <2>4. QED
    BY <2>2, <2>3, Zenon
<1>7. Encode(m) = ((F \o G) \o m.key) \o m.text
  BY Zenon DEF Encode, Strings, FlagPart
<1> HIDE DEF F, G, n
<1>8. G \o m.key \in Seq(Byte)
  BY <1>1, <1>6, ConcatProperties
<1>9. (G \o m.key) \o m.text \in Seq(Byte)
  BY <1>1, <1>8, ConcatProperties
<1>10. (F \o G) \o m.key = F \o (G \o m.key)
  BY <1>1, <1>4, <1>6, Associates, Zenon
<1>11. (F \o (G \o m.key)) \o m.text = F \o ((G \o m.key) \o m.text)
  BY <1>1, <1>4, <1>8, Associates, Zenon
<1>12. QED
  BY <1>4, <1>5, <1>6, <1>7, <1>8, <1>9, <1>10, <1>11, Zenon DEF After, F, G, n

(* An encoding is as long as its fields say.                               *)
LEMMA EncodeType ==
    ASSUME NEW m, IsMessage(m)
    PROVE  Encode(m) \in Seq(Byte) /\ Len(Encode(m)) = Size(m) /\ Size(m) \in Nat
<1> DEFINE F == Flat(Strings(m))
           G == FlagPart(m)
           K == m.key
           X == m.text
           e == Ends(m.kind)[Len(m.fields)]
<1>1. /\ F \in Seq(Byte) /\ Len(F) = e /\ G \in Seq(Byte) /\ G \o K \in Seq(Byte)
      /\ K \in Seq(Byte) /\ X \in Seq(Byte)
      /\ (G \o K) \o X \in Seq(Byte) /\ Encode(m) = F \o ((G \o K) \o X)
  BY EncodeParts, MessageType, Zenon DEF After
<1>2. Len(G) = IF m.kind = "TX_REQUEST" THEN 1 ELSE 0
  BY DEF FlagPart, Flags
<1>3. Size(m) = e + Len(K) + Len(X) + Len(G)
  BY <1>2, Zenon DEF Size
<1> HIDE DEF F, G, K, X, e
<1>4. Len(G \o K) = Len(G) + Len(K)
  BY <1>1, ConcatProperties
<1>5. Len((G \o K) \o X) = Len(G \o K) + Len(X)
  BY <1>1, ConcatProperties
<1>6. /\ Encode(m) \in Seq(Byte)
      /\ Len(Encode(m)) = Len(F) + Len((G \o K) \o X)
  BY <1>1, ConcatProperties
<1>7. Len(F) \in Nat /\ Len(G) \in Nat /\ Len(K) \in Nat /\ Len(X) \in Nat
  BY <1>1, LenProperties
<1> DEFINE f == Len(F)
           g == Len(G)
           k == Len(K)
           x == Len(X)
<1>8. Len(Encode(m)) = f + (g + k + x) /\ Size(m) = f + k + x + g
  BY <1>1, <1>3, <1>4, <1>5, <1>6, Zenon
<1>9. f \in Nat /\ g \in Nat /\ k \in Nat /\ x \in Nat
  BY <1>7
<1> HIDE DEF f, g, k, x
<1>10. f + (g + k + x) = f + k + x + g /\ f + k + x + g \in Nat
  BY <1>9
<1>11. QED
  BY <1>6, <1>8, <1>10, Zenon

(* Fields are read back from the front of an encoding.                     *)
LEMMA FieldsRead ==
    ASSUME NEW m, IsMessage(m), NEW R \in Seq(Byte),
           \A i \in DOMAIN m.fields : ~Overflows(m.fields[i], Layout[m.kind][i])
    PROVE  [i \in 1..Len(m.fields) |->
              ValueOf(SubSeq(Flat(Strings(m)) \o R,
                             Ends(m.kind)[i - 1] + 1, Ends(m.kind)[i]))] = m.fields
<1> DEFINE n == Len(m.fields)
           ss == Strings(m)
           F == Flat(ss)
           E == Ends(m.kind)
           kind == m.kind
<1>1. m.fields \in Seq(Nat) /\ n \in Nat /\ DOMAIN m.fields = 1..n
  BY MessageType
<1>2. /\ ss \in Seq(Seq(Byte)) /\ Len(ss) = n /\ F \in Seq(Byte)
      /\ \A i \in 1..n : ss[i] = BigEndian(m.fields[i], Layout[m.kind][i])
  BY StringsType, EncodeParts, Zenon
<1>3. \A i \in 0..n : Len(Joins(ss)[i]) = E[i]
  <2>1. \A i \in 1..Len(ss) : Len(ss[i]) = Layout[kind][i]
    BY <1>2, StringsType, Zenon
  <2>2. Layout[kind] \in Seq(Nat) /\ Len(ss) = Len(Layout[kind])
    BY <1>2, MessageType, Zenon
  <2> HIDE DEF ss, kind, n
  <2>3. \A i \in 0..Len(ss) : Len(Joins(ss)[i]) = Ends(kind)[i]
    BY <1>2, <2>1, <2>2, JoinsLengths, Zenon
  <2>4. QED
    BY <1>2, <2>3, Zenon DEF kind
<1>4. \A i \in 0..n : Joins(ss)[i] \in Seq(Byte) /\ Len(Joins(ss)[i]) \in Nat
  <2> HIDE DEF ss
  <2>1. QED
    BY <1>2, JoinsFacts, Zenon
<1>5. ASSUME NEW i \in 1..n
      PROVE  ValueOf(SubSeq(F \o R, E[i - 1] + 1, E[i])) = m.fields[i]
  <2>1. i - 1 \in 0..n /\ i \in 0..n /\ i \in 1..Len(ss)
    BY <1>1, <1>2
  <2> HIDE DEF ss, E, F, n
  <2>2. /\ Len(Joins(ss)[i]) <= Len(F)
        /\ SubSeq(F, Len(Joins(ss)[i - 1]) + 1, Len(Joins(ss)[i])) = ss[i]
    BY <1>2, <2>1, JoinsCut, Zenon DEF F
  <2>3. E[i] <= Len(F) /\ SubSeq(F, E[i - 1] + 1, E[i]) = ss[i]
    BY <1>3, <2>1, <2>2, Zenon
  <2>4. E[i - 1] \in Nat /\ E[i] \in Nat
    BY <1>3, <1>4, <2>1, Zenon
  <2>5. E[i - 1] + 1 \in Nat \ {0} /\ E[i] \in 0..Len(F)
    <3>1. Len(F) \in Nat
      BY <1>2
    <3>2. QED
      BY <2>3, <2>4, <3>1
  <2>6. SubSeq(F \o R, E[i - 1] + 1, E[i]) = ss[i]
    <3> DEFINE a == E[i - 1] + 1
               b == E[i]
    <3>1. a \in Nat \ {0} /\ b \in 0..Len(F) /\ SubSeq(F, a, b) = ss[i]
      BY <2>3, <2>5, Zenon
    <3> HIDE DEF a, b
    <3>2. SubSeq(F \o R, a, b) = SubSeq(F, a, b)
      BY <1>2, <3>1, CutFirst
    <3>3. QED
      BY <3>1, <3>2, Zenon DEF a, b
  <2>7. m.fields[i] \in Nat /\ Layout[m.kind][i] \in Nat
    BY StringsType, Zenon DEF n
  <2>8. ~Overflows(m.fields[i], Layout[m.kind][i])
    BY <1>1, Zenon
  <2>9. ValueOf(BigEndian(m.fields[i], Layout[m.kind][i])) = m.fields[i]
    BY <2>7, <2>8, RoundTrip, Zenon
  <2>10. QED
    BY <1>2, <2>6, <2>9, Zenon
<1>6. m.fields = [i \in 1..n |-> m.fields[i]]
  BY <1>1, SeqIsFunction, Zenon
<1> HIDE DEF n, F, E
<1>7. [i \in 1..n |-> ValueOf(SubSeq(F \o R, E[i - 1] + 1, E[i]))] = [i \in 1..n |-> m.fields[i]]
  BY <1>5, Zenon
<1>8. QED
  BY <1>6, <1>7, Zenon DEF n, F, E, ss

(* The first byte of two joined strings is that of the first one, unless   *)
(* it is empty.                                                            *)
LEMMA FirstOf ==
    ASSUME NEW s \in Seq(Byte), NEW t \in Seq(Byte), Len(s) # 0
    PROVE  (s \o t)[1] = s[1]
<1>1. 1 \in 1..(Len(s) + Len(t)) /\ 1 <= Len(s)
  OBVIOUS
<1>2. QED
  BY <1>1, ConcatProperties

(* What a message is encoded to decodes to that message and nothing else.  *)
THEOREM DecodeEncode ==
    ASSUME NEW m, IsMessage(m),
           \A i \in DOMAIN m.fields : ~Overflows(m.fields[i], Layout[m.kind][i])
    PROVE  Decode(m.kind, Encode(m)) = {m}
<1> DEFINE kind == m.kind
           payload == Encode(m)
           F == Flat(Strings(m))
           G == FlagPart(m)
           K == m.key
           X == m.text
           R == (G \o K) \o X
           n     == Len(Layout[kind])
           ends  == Ends(kind)
           fixed == ends[n]
           rest  == SubSeq(payload, fixed + 1, Len(payload))
           flag  == IF kind = "TX_REQUEST" /\ rest # <<>> THEN 1 ELSE 0
           keyed == \/ flag = 1 /\ rest[1] % 2 = 1
                    \/ kind \in KeyByLength /\ Len(rest) >= Key
           start == flag + (IF keyed THEN Key ELSE 0)
           fields == [i \in 1..n |-> ValueOf(SubSeq(payload, ends[i - 1] + 1, ends[i]))]
<1>1. Decode(kind, payload) =
        IF Len(payload) < fixed \/ Len(rest) < start THEN {}
        ELSE {[kind |-> kind, fields |-> fields, key |-> SubSeq(rest, flag + 1, start),
               text |-> IF kind \in OpenEnded THEN SubSeq(rest, start + 1, Len(rest)) ELSE <<>>]}
  BY Zenon DEF Decode
<1>2. /\ F \in Seq(Byte) /\ Len(F) = fixed /\ G \in Seq(Byte) /\ G \o K \in Seq(Byte)
      /\ K \in Seq(Byte) /\ X \in Seq(Byte) /\ R \in Seq(Byte) /\ payload = F \o R
      /\ kind \in Kinds /\ n = Len(m.fields)
      /\ m = [kind |-> kind, fields |-> m.fields, key |-> K, text |-> X]
      /\ K # <<>> => Len(K) = Key /\ kind \in KeyByLength \cup {"TX_REQUEST"}
      /\ X # <<>> => kind \in OpenEnded
  BY EncodeParts, MessageType, Zenon DEF After
<1>3. fields = m.fields
  <2> HIDE DEF R, payload, n
  <2>1. [i \in 1..Len(m.fields) |-> ValueOf(SubSeq(F \o R, ends[i - 1] + 1, ends[i]))] = m.fields
    BY <1>2, FieldsRead, Zenon
  <2>2. QED
    BY <1>2, <2>1, Zenon
<1>4. IF kind = "TX_REQUEST" THEN Len(G) = 1 /\ G[1] % 2 = (IF K = <<>> THEN 0 ELSE 1)
      ELSE Len(G) = 0
  BY DEF FlagPart, Flags
<1> HIDE DEF kind, payload, F, G, K, X, R, n, ends, fields
<1>5. /\ Len(F) \in Nat /\ Len(G) \in Nat /\ Len(K) \in Nat /\ Len(X) \in Nat /\ Len(R) \in Nat
      /\ Len(payload) \in Nat
  <2>1. payload \in Seq(Byte)
    BY <1>2, ConcatProperties
  <2>2. QED
    BY <1>2, <2>1, LenProperties
<1>6. /\ Len(payload) = Len(F) + Len(R)
      /\ Len(G \o K) = Len(G) + Len(K)
      /\ Len(R) = Len(G \o K) + Len(X)
  <2>1. Len(F \o R) = Len(F) + Len(R)
    BY <1>2, ConcatProperties
  <2>2. Len(G \o K) = Len(G) + Len(K)
    BY <1>2, ConcatProperties
  <2>3. Len((G \o K) \o X) = Len(G \o K) + Len(X)
    BY <1>2, ConcatProperties
  <2>4. QED
    BY <1>2, <2>1, <2>2, <2>3, Zenon DEF R
<1>7. rest = R
  BY <1>2, CutSecond, Zenon
<1>8. Key \in Nat \ {0}
  BY ConstantTypes, Zenon
<1> HIDE DEF rest, fixed
<1>9. flag = Len(G)
  <2>1. CASE kind = "TX_REQUEST"
    <3>1. Len(R) # 0
      BY <1>4, <1>5, <1>6, <2>1
    <3>2. R # <<>>
      BY <3>1
    <3>3. QED
      BY <1>4, <1>7, <2>1, <3>2, Zenon
  <2>2. CASE kind # "TX_REQUEST"
    BY <1>4, <2>2, Zenon
  <2>3. QED
    BY <2>1, <2>2, Zenon
<1>10. keyed <=> K # <<>>
  <2>1. CASE kind = "TX_REQUEST"
    <3>1. Len(G) = 1 /\ G[1] % 2 = (IF K = <<>> THEN 0 ELSE 1)
      BY <1>4, <2>1, Zenon
    <3>2. (G \o K)[1] = G[1]
      BY <1>2, <3>1, FirstOf
    <3>3. Len(G \o K) # 0
      BY <1>5, <1>6, <3>1
    <3>4. R[1] = (G \o K)[1]
      BY <1>2, <3>3, FirstOf DEF R
    <3>5. kind \notin KeyByLength
      BY <2>1, KindsAre
    <3>6. rest[1] = G[1] /\ flag = 1
      BY <1>7, <1>9, <3>1, <3>2, <3>4, Zenon
    <3>7. K = <<>> => G[1] % 2 # 1
      BY <3>1
    <3>8. K # <<>> => G[1] % 2 = 1
      BY <3>1
    <3> HIDE DEF flag
    <3>9. QED
      BY <3>5, <3>6, <3>7, <3>8, Zenon
  <2>2. CASE kind # "TX_REQUEST" /\ kind \in KeyByLength
    <3>1. flag # 1
      BY <2>2
    <3>2. X = <<>>
      BY <1>2, <2>2, KindsAre, Zenon
    <3>3. Len(X) = 0 /\ Len(G) = 0
      BY <1>4, <2>2, <3>2
    <3>4. Len(R) = Len(K)
      BY <1>5, <1>6, <3>3
    <3>5. K # <<>> => Len(K) >= Key
      BY <1>2, <1>8
    <3>6. K = <<>> => ~(Len(K) >= Key)
      BY <1>8
    <3> HIDE DEF flag
    <3>7. QED
      BY <1>7, <2>2, <3>1, <3>4, <3>5, <3>6, Zenon
  <2>3. CASE kind # "TX_REQUEST" /\ kind \notin KeyByLength
    <3>1. flag # 1
      BY <2>3
    <3>2. K = <<>>
      BY <1>2, <2>3, Zenon
    <3> HIDE DEF flag
    <3>3. QED
      BY <2>3, <3>1, <3>2, Zenon
  <2>4. QED
    BY <2>1, <2>2, <2>3, Zenon
<1> HIDE DEF keyed, flag
<1>11. start = Len(G \o K)
  <2>1. K = <<>> => Len(K) = 0
    OBVIOUS
  <2>2. (IF keyed THEN Key ELSE 0) = Len(K)
    BY <1>2, <1>10, <2>1, Zenon
  <2>3. QED
    BY <1>6, <1>9, <2>2, Zenon
<1> HIDE DEF start
<1>12. ~(Len(payload) < fixed) /\ ~(Len(rest) < start)
  <2>1. Len(G \o K) \in Nat
    BY <1>5, <1>6
  <2>2. Len(payload) >= Len(F) /\ Len(R) >= Len(G \o K)
    BY <1>5, <1>6, <2>1
  <2>3. Len(payload) >= fixed /\ Len(rest) >= start
    BY <1>2, <1>7, <1>11, <2>2, Zenon
  <2>4. Len(payload) \in Nat /\ fixed \in Nat /\ Len(rest) \in Nat /\ start \in Nat
    BY <1>2, <1>5, <1>7, <1>11, <2>1, Zenon
  <2>5. QED
    BY <2>3, <2>4
<1>13. SubSeq(rest, flag + 1, start) = K
  <2> DEFINE a == Len(G) + 1
             b == Len(G \o K)
  <2>1. a \in Nat \ {0} /\ b \in 0..Len(G \o K)
    BY <1>5, <1>6
  <2>2. SubSeq(G \o K, a, b) = K
    BY <1>2, CutSecond, Zenon
  <2>3. SubSeq(rest, flag + 1, start) = SubSeq((G \o K) \o X, a, b)
    BY <1>7, <1>9, <1>11, Zenon DEF R
  <2> HIDE DEF a, b
  <2>4. SubSeq((G \o K) \o X, a, b) = SubSeq(G \o K, a, b)
    BY <1>2, <2>1, CutFirst
  <2>5. QED
    BY <2>2, <2>3, <2>4, Zenon
<1>14. (IF kind \in OpenEnded THEN SubSeq(rest, start + 1, Len(rest)) ELSE <<>>) = X
  <2>1. SubSeq((G \o K) \o X, Len(G \o K) + 1, Len((G \o K) \o X)) = X
    BY <1>2, CutSecond, Zenon
  <2>2. SubSeq(rest, start + 1, Len(rest)) = X
    BY <1>7, <1>11, <2>1, Zenon DEF R
  <2>3. QED
    BY <1>2, <2>2, Zenon
<1>15. Decode(kind, payload) = {[kind |-> kind, fields |-> m.fields, key |-> K, text |-> X]}
  BY <1>1, <1>3, <1>12, <1>13, <1>14, Zenon
<1>16. Decode(kind, payload) = {m}
  BY <1>2, <1>15, Zenon
<1>17. QED
  BY <1>16, Zenon DEF kind, payload

-----------------------------------------------------------------------------
(* Packets packed, and unpacked again.                                     *)

(* The kinds have different type bytes.                                    *)
LEMMA TypeBytes ==
    /\ \A kind \in Kinds : MsgType[kind] \in Byte
    /\ \A kind, other \in Kinds : MsgType[kind] = MsgType[other] => kind = other
<1>1. \A kind \in Kinds : MsgType[kind] \in Byte
  BY KindsAre DEF MsgType, Byte
<1>2. ASSUME NEW kind \in Kinds, NEW other \in Kinds, MsgType[kind] = MsgType[other]
      PROVE  kind = other
  BY <1>2, KindsAre, SMTT(30) DEF MsgType
<1>3. QED
  BY <1>1, <1>2, Zenon

(* Two byte strings joined, of which the lengths are known.                *)
JoinOf(r, s, t, a, b) ==
    /\ r \in Seq(Byte) /\ Len(r) = a + b
    /\ \A i \in 1..a : r[i] = s[i]
    /\ \A i \in 1..b : r[a + i] = t[i]
    /\ \A m \in 1..a, n \in 0..a : SubSeq(r, m, n) = SubSeq(s, m, n)
    /\ SubSeq(r, 1, a) = s /\ SubSeq(r, a + 1, a + b) = t

(* What joining two byte strings does to the places of their bytes.        *)
LEMMA JoinedBytes ==
    ASSUME NEW s \in Seq(Byte), NEW t \in Seq(Byte), NEW a \in Nat, NEW b \in Nat,
           Len(s) = a, Len(t) = b
    PROVE  JoinOf(s \o t, s, t, a, b)
<1>1. /\ s \o t \in Seq(Byte) /\ Len(s \o t) = a + b
      /\ \A i \in 1..(a + b) : (s \o t)[i] = IF i <= a THEN s[i] ELSE t[i - a]
  BY ConcatProperties
<1>2. ASSUME NEW i \in 1..a PROVE (s \o t)[i] = s[i]
  BY <1>1
<1>3. ASSUME NEW i \in 1..b PROVE (s \o t)[a + i] = t[i]
  <2>1. a + i \in 1..(a + b) /\ ~(a + i <= a) /\ (a + i) - a = i
    OBVIOUS
  <2>2. QED
    BY <1>1, <2>1, Zenon
<1>4. ASSUME NEW m \in 1..a, NEW n \in 0..a PROVE SubSeq(s \o t, m, n) = SubSeq(s, m, n)
  <2>1. m \in Nat \ {0} /\ n \in 0..Len(s)
    OBVIOUS
  <2>2. QED
    BY <2>1, CutFirst, Zenon
<1>5. SubSeq(s \o t, 1, a) = s
  <2>1. 1 \in Nat \ {0} /\ a \in 0..Len(s)
    OBVIOUS
  <2>2. SubSeq(s \o t, 1, a) = SubSeq(s, 1, Len(s))
    BY <2>1, CutFirst, Zenon
  <2>3. QED
    BY <2>2, SubSeqFull
<1>6. SubSeq(s \o t, a + 1, a + b) = t
  BY <1>1, CutSecond, Zenon
<1>7. QED
  BY <1>1, <1>2, <1>3, <1>4, <1>5, <1>6, Zenon DEF JoinOf

(* The nine bytes of a header before its checksum.                         *)
Header(kind, num, total, size) ==
    Magic \o <<Version, MsgType[kind]>> \o BigEndian(id, 2) \o <<num, total, size>>

IsHeader(h, kind, num, total, size) ==
    /\ h \in Seq(Byte) /\ Len(h) = 9
    /\ SubSeq(h, 1, 2) = Magic /\ SubSeq(h, 5, 6) = BigEndian(id, 2)
    /\ h[3] = Version /\ h[4] = MsgType[kind]
    /\ h[7] = num /\ h[8] = total /\ h[9] = size

(* A header's bytes are where unpack_message looks for them.               *)
LEMMA HeaderFacts ==
    ASSUME NEW kind \in Kinds, NEW num \in Byte, NEW total \in Byte, NEW size \in Byte,
           id \in MsgId
    PROVE  IsHeader(Header(kind, num, total, size), kind, num, total, size)
<1> DEFINE M == Magic
           V == <<Version, MsgType[kind]>>
           B == BigEndian(id, 2)
           N == <<num, total, size>>
           X == M \o V
           Y == X \o B
           Z == Y \o N
<1>1. MsgType[kind] \in Byte /\ Version \in Byte /\ 83 \in Byte /\ 77 \in Byte
  <2>1. Version \in Byte /\ 83 \in Byte /\ 77 \in Byte
    BY DEF Byte, Version
  <2>2. QED
    BY <2>1, TypeBytes, Zenon
<1>2. M \in Seq(Byte) /\ Len(M) = 2 /\ V \in Seq(Byte) /\ Len(V) = 2
  BY <1>1 DEF Magic
<1>3. N \in Seq(Byte) /\ Len(N) = 3
  OBVIOUS
<1>4. B \in Seq(Byte) /\ Len(B) = 2
  <2>1. id \in Nat /\ 2 \in Nat
    BY IdFits
  <2>2. QED
    BY <2>1, BigEndianType, Zenon
<1>5. V[1] = Version /\ V[2] = MsgType[kind] /\ N[1] = num /\ N[2] = total /\ N[3] = size
  OBVIOUS
<1>6. Header(kind, num, total, size) = Z
  BY Zenon DEF Header
<1> HIDE DEF M, V, B, N
<1>7. JoinOf(X, M, V, 2, 2)
  BY <1>2, JoinedBytes
<1> HIDE DEF X
<1>8. /\ X \in Seq(Byte) /\ Len(X) = 4 /\ X[3] = V[1] /\ X[4] = V[2] /\ SubSeq(X, 1, 2) = M
  BY <1>7 DEF JoinOf
<1>9. JoinOf(Y, X, B, 4, 2)
  BY <1>4, <1>8, JoinedBytes
<1> HIDE DEF Y
<1>10. /\ Y \in Seq(Byte) /\ Len(Y) = 6 /\ Y[3] = X[3] /\ Y[4] = X[4]
       /\ SubSeq(Y, 1, 2) = SubSeq(X, 1, 2) /\ SubSeq(Y, 5, 6) = B
  BY <1>9 DEF JoinOf
<1>11. JoinOf(Z, Y, N, 6, 3)
  BY <1>3, <1>10, JoinedBytes
<1> HIDE DEF Z
<1>12. /\ Z \in Seq(Byte) /\ Len(Z) = 9 /\ Z[3] = Y[3] /\ Z[4] = Y[4]
       /\ Z[7] = N[1] /\ Z[8] = N[2] /\ Z[9] = N[3]
       /\ SubSeq(Z, 1, 2) = SubSeq(Y, 1, 2) /\ SubSeq(Z, 5, 6) = SubSeq(Y, 5, 6)
  BY <1>11 DEF JoinOf
<1>13. QED
  BY <1>5, <1>6, <1>8, <1>10, <1>12, Zenon DEF M, B, IsHeader

(* A packet: its header's bytes, the checksum, and the payload's bytes.    *)
IsPacket(P, kind, num, total, payload) ==
    /\ P \in Seq(Byte) /\ Len(P) = 10 + Len(payload)
    /\ IsHeader(SubSeq(P, 1, 9), kind, num, total, Len(payload))
    /\ SubSeq(P, 11, 10 + Len(payload)) = payload
    /\ P[10] = Crc8(SubSeq(P, 1, 9) \o payload)
    /\ SubSeq(P, 1, 2) = Magic /\ SubSeq(P, 5, 6) = BigEndian(id, 2)
    /\ P[3] = Version /\ P[4] = MsgType[kind]
    /\ P[7] = num /\ P[8] = total /\ P[9] = Len(payload)

(* So are a packet's.                                                      *)
LEMMA PackFacts ==
    ASSUME NEW kind \in Kinds, NEW num \in Byte, NEW total \in Byte,
           NEW payload \in Seq(Byte), Len(payload) \in Byte, id \in MsgId
    PROVE  IsPacket(PackMessage(kind, num, total, payload), kind, num, total, payload)
<1> DEFINE l == Len(payload)
           h == Header(kind, num, total, l)
           C == <<Crc8(h \o payload)>>
           H == h \o C
           P == H \o payload
<1>1. IsHeader(h, kind, num, total, l)
  BY HeaderFacts
<1>2. PackMessage(kind, num, total, payload) = P
  BY Zenon DEF PackMessage, Header, Checksum
<1>3. l \in Nat
  OBVIOUS
<1> HIDE DEF h, l
<1>4. /\ h \in Seq(Byte) /\ Len(h) = 9
      /\ SubSeq(h, 1, 2) = Magic /\ SubSeq(h, 5, 6) = BigEndian(id, 2)
      /\ h[3] = Version /\ h[4] = MsgType[kind]
      /\ h[7] = num /\ h[8] = total /\ h[9] = l
  BY <1>1 DEF IsHeader
<1>5. Crc8(h \o payload) \in Byte
  <2>1. h \o payload \in Seq(Byte)
    BY <1>4, ConcatProperties
  <2>2. QED
    BY <2>1, Crc8Type, Zenon
<1>6. C \in Seq(Byte) /\ Len(C) = 1 /\ C[1] = Crc8(h \o payload)
  BY <1>5
<1> HIDE DEF C
<1>7. JoinOf(H, h, C, 9, 1)
  BY <1>4, <1>6, JoinedBytes
<1> HIDE DEF H
<1>8. /\ H \in Seq(Byte) /\ Len(H) = 10 /\ H[10] = C[1]
      /\ H[3] = h[3] /\ H[4] = h[4] /\ H[7] = h[7] /\ H[8] = h[8] /\ H[9] = h[9]
      /\ SubSeq(H, 1, 9) = h
      /\ SubSeq(H, 1, 2) = SubSeq(h, 1, 2) /\ SubSeq(H, 5, 6) = SubSeq(h, 5, 6)
  BY <1>7 DEF JoinOf
<1>9. JoinOf(P, H, payload, 10, l)
  <2>1. Len(payload) = l
    BY DEF l
  <2>2. QED
    BY <1>3, <1>8, <2>1, JoinedBytes
<1> HIDE DEF P
<1>10. /\ P \in Seq(Byte) /\ Len(P) = 10 + l
       /\ SubSeq(P, 1, 9) = SubSeq(H, 1, 9) /\ SubSeq(P, 11, 10 + l) = payload
       /\ P[10] = H[10]
       /\ SubSeq(P, 1, 2) = SubSeq(H, 1, 2) /\ SubSeq(P, 5, 6) = SubSeq(H, 5, 6)
       /\ P[3] = H[3] /\ P[4] = H[4] /\ P[7] = H[7] /\ P[8] = H[8] /\ P[9] = H[9]
  BY <1>3, <1>9 DEF JoinOf
<1>11. QED
  BY <1>1, <1>2, <1>4, <1>6, <1>8, <1>10, Zenon DEF IsPacket, l

(* What unpack_message lets through.                                       *)
Unpacked(raw, h) ==
    /\ ~(Len(raw) < 10) /\ SubSeq(raw, 1, 2) = Magic /\ raw[3] = Version
    /\ ~(Len(raw) < 10 + raw[9])
    /\ h = [kind |-> h.kind, id |-> ValueOf(SubSeq(raw, 5, 6)), num |-> raw[7],
            total |-> raw[8], payload |-> SubSeq(raw, 11, 10 + raw[9])]
    /\ h.kind \in Kinds /\ MsgType[h.kind] = raw[4]
    /\ raw[10] = Crc8(SubSeq(raw, 1, 9) \o SubSeq(raw, 11, 10 + raw[9]))

(* UnpackMessage gives exactly what it lets through.                       *)
LEMMA UnpackIs ==
    ASSUME NEW raw, NEW h PROVE h \in UnpackMessage(raw) <=> Unpacked(raw, h)
<1> DEFINE payload == SubSeq(raw, 11, 10 + raw[9])
           Of(kind) == [kind |-> kind, id |-> ValueOf(SubSeq(raw, 5, 6)), num |-> raw[7],
                        total |-> raw[8], payload |-> payload]
           Good == {k \in Kinds : MsgType[k] = raw[4]
                                  /\ raw[10] = Crc8(SubSeq(raw, 1, 9) \o payload)}
           Bad == Len(raw) < 10 \/ SubSeq(raw, 1, 2) # Magic \/ raw[3] # Version
                  \/ Len(raw) < 10 + raw[9]
<1>1. HeaderSize = 10 /\ HeaderSize + 1 = 11
  BY DEF HeaderSize
<1>2. UnpackMessage(raw) = IF Bad THEN {} ELSE {Of(kind) : kind \in Good}
  BY <1>1, Zenon DEF UnpackMessage, Checksum, Kinds
<1>3. \A kind : Of(kind).kind = kind
  OBVIOUS
<1>4. h \in {Of(kind) : kind \in Good} <=> h = Of(h.kind) /\ h.kind \in Good
  <2> HIDE DEF Of, Good
  <2>1. QED
    BY <1>3, Zenon
<1>5. h.kind \in Good <=> /\ h.kind \in Kinds /\ MsgType[h.kind] = raw[4]
                          /\ raw[10] = Crc8(SubSeq(raw, 1, 9) \o payload)
  <2> HIDE DEF payload
  <2>1. QED
    BY Zenon
<1> HIDE DEF Good
<1>6. Unpacked(raw, h) <=> ~Bad /\ h = Of(h.kind) /\ h.kind \in Good
  BY <1>5, Zenon DEF Unpacked
<1> HIDE DEF Of, Bad
<1>7. QED
  BY <1>2, <1>4, <1>6, Zenon

(* A packet as it was packed is unpacked.                                  *)
LEMMA UnpackPacked ==
    ASSUME NEW P, NEW kind \in Kinds, NEW num, NEW total, NEW payload \in Seq(Byte),
           IsPacket(P, kind, num, total, payload), id \in MsgId
    PROVE  UnpackMessage(P) = {[kind |-> kind, id |-> id, num |-> num, total |-> total,
                                payload |-> payload]}
<1> DEFINE l == Len(payload)
           r == [kind |-> kind, id |-> id, num |-> num, total |-> total, payload |-> payload]
<1>1. /\ P \in Seq(Byte) /\ Len(P) = 10 + l /\ l \in Nat
      /\ SubSeq(P, 11, 10 + l) = payload
      /\ P[10] = Crc8(SubSeq(P, 1, 9) \o payload)
      /\ SubSeq(P, 1, 2) = Magic /\ SubSeq(P, 5, 6) = BigEndian(id, 2)
      /\ P[3] = Version /\ P[4] = MsgType[kind]
      /\ P[7] = num /\ P[8] = total /\ P[9] = l
  <2>1. l \in Nat
    OBVIOUS
  <2>2. QED
    BY <2>1, Zenon DEF IsPacket
<1>2. ValueOf(SubSeq(P, 5, 6)) = id
  <2>1. id \in Nat /\ 2 \in Nat /\ ~Overflows(id, 2)
    BY IdFits
  <2>2. ValueOf(BigEndian(id, 2)) = id
    BY <2>1, RoundTrip, Zenon
  <2>3. QED
    BY <1>1, <2>2, Zenon
<1> HIDE DEF l
<1>3. ~(Len(P) < 10) /\ ~(Len(P) < 10 + P[9])
  BY <1>1
<1>4. r.kind = kind
  OBVIOUS
<1>5. r = [kind |-> r.kind, id |-> ValueOf(SubSeq(P, 5, 6)), num |-> P[7], total |-> P[8],
           payload |-> SubSeq(P, 11, 10 + P[9])]
  BY <1>1, <1>2, <1>4, Zenon
<1>6. Unpacked(P, r)
  <2> HIDE DEF r
  <2>1. QED
    BY <1>1, <1>3, <1>4, <1>5, Zenon DEF Unpacked
<1>7. ASSUME NEW h, Unpacked(P, h) PROVE h = r
  <2>1. /\ h.kind \in Kinds /\ MsgType[h.kind] = MsgType[kind]
        /\ h = [kind |-> h.kind, id |-> ValueOf(SubSeq(P, 5, 6)), num |-> P[7], total |-> P[8],
                payload |-> SubSeq(P, 11, 10 + P[9])]
    BY <1>1, <1>7, Zenon DEF Unpacked
  <2>2. h.kind = kind
    BY <2>1, TypeBytes, Zenon
  <2>3. QED
    BY <1>1, <1>2, <2>1, <2>2, Zenon
<1> HIDE DEF r
<1>8. UnpackMessage(P) = {r}
  BY <1>6, <1>7, UnpackIs, Zenon
<1>9. QED
  BY <1>8, Zenon DEF r

(* The bytes the checksum is taken over.                                   *)
Body(raw, l) == SubSeq(raw, 1, 9) \o SubSeq(raw, 11, 10 + l)

IsBody(B, raw, l) ==
    /\ B \in Seq(Byte) /\ Len(B) = 9 + l
    /\ \A i \in 1..9 : B[i] = raw[i]
    /\ \A i \in 10..(9 + l) : B[i] = raw[i + 1]

(* Where the bytes the checksum is taken over lie in the packet.           *)
LEMMA Checked ==
    ASSUME NEW raw \in Seq(Byte), NEW l \in Nat, Len(raw) = 10 + l
    PROVE  IsBody(Body(raw, l), raw, l)
<1> DEFINE B == Body(raw, l)
           h == SubSeq(raw, 1, 9)
           p == SubSeq(raw, 11, 10 + l)
<1>1. \A i \in 1..(10 + l) : raw[i] \in Byte
  OBVIOUS
<1>2. h \in Seq(Byte) /\ Len(h) = 9 /\ \A i \in 1..9 : h[i] = raw[i]
  <2>1. \A i \in 1..9 : raw[i] \in Byte
    BY <1>1
  <2>2. SubSeq(raw, 1, 9) \in Seq(Byte) /\ Len(SubSeq(raw, 1, 9)) = 9
    BY <2>1, SubSeqProperties
  <2>3. ASSUME NEW i \in 1..9 PROVE h[i] = raw[i]
    <3>1. i \in 1..(9 - 1 + 1) /\ 1 + i - 1 = i
      OBVIOUS
    <3>2. \A k \in 1..(9 - 1 + 1) : SubSeq(raw, 1, 9)[k] = raw[1 + k - 1]
      BY <2>1, SubSeqProperties
    <3>3. QED
      BY <3>1, <3>2, Zenon
  <2>4. QED
    BY <2>2, <2>3
<1>3. p \in Seq(Byte) /\ Len(p) = l /\ \A i \in 1..l : p[i] = raw[10 + i]
  <2> DEFINE e == 10 + l
  <2>1. \A i \in 11..e : raw[i] \in Byte
    BY <1>1
  <2>2. e \in Int /\ e - 11 + 1 = l /\ (IF 11 <= e THEN e - 11 + 1 ELSE 0) = l
    OBVIOUS
  <2> HIDE DEF e
  <2>3. /\ SubSeq(raw, 11, e) \in Seq(Byte)
        /\ Len(SubSeq(raw, 11, e)) = IF 11 <= e THEN e - 11 + 1 ELSE 0
        /\ \A k \in 1..(e - 11 + 1) : SubSeq(raw, 11, e)[k] = raw[11 + k - 1]
    BY <2>1, <2>2, SubSeqProperties
  <2>4. ASSUME NEW i \in 1..l PROVE SubSeq(raw, 11, e)[i] = raw[10 + i]
    <3>1. 11 + i - 1 = 10 + i
      OBVIOUS
    <3>2. QED
      BY <2>2, <2>3, <3>1, Zenon
  <2>5. QED
    BY <2>2, <2>3, <2>4, Zenon DEF e
<1> HIDE DEF h, p
<1>4. B = h \o p
  BY Zenon DEF h, p, Body
<1> HIDE DEF B
<1>5. JoinOf(B, h, p, 9, l)
  BY <1>2, <1>3, <1>4, JoinedBytes
<1>6. /\ B \in Seq(Byte) /\ Len(B) = 9 + l /\ \A i \in 1..9 : B[i] = h[i]
      /\ \A j \in 1..l : B[9 + j] = p[j]
  BY <1>5, Zenon DEF JoinOf
<1>7. ASSUME NEW i \in 10..(9 + l) PROVE B[i] = raw[i + 1]
  <2> DEFINE j == i - 9
  <2>1. j \in 1..l /\ 9 + j = i /\ 10 + j = i + 1
    OBVIOUS
  <2>2. B[9 + j] = p[j] /\ p[j] = raw[10 + j]
    BY <1>3, <1>6, <2>1, Zenon
  <2>3. QED
    BY <2>1, <2>2, Zenon
<1>8. \A i \in 1..9 : B[i] = raw[i]
  BY <1>2, <1>6, Zenon
<1>9. IsBody(B, raw, l)
  BY <1>6, <1>7, <1>8, Zenon DEF IsBody
<1>10. QED
  BY <1>9, Zenon DEF B

(* A packet with one byte of it changed.                                   *)
ByteChanged(raw, P, b) ==
    /\ raw \in Seq(Byte) /\ Len(raw) = Len(P) /\ b \in 1..Len(P) /\ raw[b] # P[b]
    /\ \A i \in 1..Len(P) : i # b => raw[i] = P[i]

(* Where two byte strings have the same bytes, they have the same pieces.  *)
LEMMA PiecesSame ==
    ASSUME NEW raw \in Seq(Byte), NEW P \in Seq(Byte), Len(raw) = Len(P),
           NEW m \in 1..Len(P), NEW n \in 1..Len(P), \A i \in m..n : raw[i] = P[i]
    PROVE  SubSeq(raw, m, n) = SubSeq(P, m, n)
<1>1. m \in Int /\ n \in Int
  OBVIOUS
<1>2. \A i \in m..n : raw[i] \in Byte /\ P[i] \in Byte
  OBVIOUS
<1>3. /\ SubSeq(raw, m, n) \in Seq(Byte)
      /\ Len(SubSeq(raw, m, n)) = IF m <= n THEN n - m + 1 ELSE 0
      /\ \A i \in 1..(n - m + 1) : SubSeq(raw, m, n)[i] = raw[m + i - 1]
  BY <1>1, <1>2, SubSeqProperties
<1>4. /\ SubSeq(P, m, n) \in Seq(Byte)
      /\ Len(SubSeq(P, m, n)) = IF m <= n THEN n - m + 1 ELSE 0
      /\ \A i \in 1..(n - m + 1) : SubSeq(P, m, n)[i] = P[m + i - 1]
  BY <1>1, <1>2, SubSeqProperties
<1> DEFINE x == SubSeq(raw, m, n)
           y == SubSeq(P, m, n)
           l == IF m <= n THEN n - m + 1 ELSE 0
<1>5. x \in Seq(Byte) /\ y \in Seq(Byte) /\ Len(x) = l /\ Len(y) = l
  BY <1>3, <1>4, Zenon
<1>6. ASSUME NEW i \in 1..l PROVE x[i] = y[i]
  <2>1. i \in 1..(n - m + 1) /\ m + i - 1 \in m..n
    BY <1>1
  <2>2. QED
    BY <1>3, <1>4, <2>1, Zenon
<1> HIDE DEF x, y, l
<1>7. x = y
  <2>1. \A i \in 1..Len(x) : x[i] = y[i]
    BY <1>5, <1>6, Zenon
  <2>2. Len(x) = Len(y)
    BY <1>5, Zenon
  <2>3. QED
    BY <1>5, <2>1, <2>2, SeqEqual
<1>8. QED
  BY <1>7, Zenon DEF x, y

(* One damaged byte, unless it is the length, and unpacking fails.         *)
LEMMA UnpackDamaged ==
    ASSUME NEW P, NEW kind \in Kinds, NEW num, NEW total, NEW payload \in Seq(Byte),
           IsPacket(P, kind, num, total, payload),
           NEW raw, NEW b, ByteChanged(raw, P, b), b # 9
    PROVE  UnpackMessage(raw) = {}
<1> DEFINE l == Len(payload)
<1>1. /\ P \in Seq(Byte) /\ Len(P) = 10 + l /\ l \in Nat
      /\ SubSeq(P, 11, 10 + l) = payload
      /\ P[10] = Crc8(SubSeq(P, 1, 9) \o payload)
      /\ SubSeq(P, 1, 2) = Magic /\ P[3] = Version /\ P[9] = l
  <2>1. l \in Nat
    OBVIOUS
  <2>2. QED
    BY <2>1, Zenon DEF IsPacket
<1>2. /\ raw \in Seq(Byte) /\ Len(raw) = Len(P) /\ b \in 1..Len(P) /\ raw[b] # P[b]
      /\ \A i \in 1..Len(P) : i # b => raw[i] = P[i]
  BY Zenon DEF ByteChanged
<1> HIDE DEF l
<1> SUFFICES ASSUME NEW h, Unpacked(raw, h) PROVE FALSE
  BY UnpackIs, Zenon
<1>3. 9 \in 1..Len(P) /\ 10 \in 1..Len(P)
  BY <1>1
<1>4. raw[9] = l
  BY <1>1, <1>2, <1>3, Zenon
<1> DEFINE x == Body(raw, l)
           y == Body(P, l)
<1>5. raw[10] = Crc8(x) /\ P[10] = Crc8(y)
  BY <1>1, <1>4, Zenon DEF Unpacked, Body
<1>6. /\ x \in Seq(Byte) /\ Len(x) = 9 + l
      /\ \A i \in 1..9 : x[i] = raw[i]
      /\ \A i \in 10..(9 + l) : x[i] = raw[i + 1]
  <2>1. Len(raw) = 10 + l
    BY <1>1, <1>2, Zenon
  <2>2. QED
    <3>1. IsBody(x, raw, l)
      BY <1>1, <1>2, <2>1, Checked, Zenon
    <3>2. QED
      BY <3>1, Zenon DEF IsBody
<1>7. /\ y \in Seq(Byte) /\ Len(y) = 9 + l
      /\ \A i \in 1..9 : y[i] = P[i]
      /\ \A i \in 10..(9 + l) : y[i] = P[i + 1]
  <2>1. IsBody(y, P, l)
    BY <1>1, Checked, Zenon
  <2>2. QED
    BY <2>1, Zenon DEF IsBody
<1> HIDE DEF x, y
<1>8. CASE b = 10
  <2>1. ASSUME NEW i \in 1..Len(x) PROVE x[i] = y[i]
    <3>1. CASE i \in 1..9
      <4>1. i \in 1..Len(P) /\ i # b
        BY <1>1, <1>8, <3>1
      <4>2. QED
        BY <1>2, <1>6, <1>7, <3>1, <4>1, Zenon
    <3>2. CASE i \in 10..(9 + l)
      <4>1. i + 1 \in 1..Len(P) /\ i + 1 # b
        BY <1>1, <1>8, <3>2
      <4>2. QED
        BY <1>2, <1>6, <1>7, <3>2, <4>1, Zenon
    <3>3. QED
      BY <1>1, <1>6, <3>1, <3>2
  <2>2. x = y
    BY <1>6, <1>7, <2>1, SeqEqual
  <2>3. QED
    BY <1>2, <1>5, <1>8, <2>2, Zenon
<1>9. CASE b # 10
  <2> DEFINE p == IF b < 10 THEN b ELSE b - 1
  <2>1. p \in 1..Len(x) /\ x[p] # y[p]
    <3>1. CASE b < 10
      <4>1. b \in 1..9 /\ b \in 1..Len(x) /\ p = b
        BY <1>1, <1>2, <1>6, <3>1
      <4>2. QED
        BY <1>2, <1>6, <1>7, <4>1, Zenon
    <3>2. CASE ~(b < 10)
      <4>1. b - 1 \in 10..(9 + l) /\ (b - 1) + 1 = b /\ p = b - 1 /\ b - 1 \in 1..Len(x)
        BY <1>1, <1>2, <1>6, <1>9, <3>2
      <4> HIDE DEF p
      <4>2. x[b - 1] = raw[b] /\ y[b - 1] = P[b]
        <5> DEFINE q == b - 1
        <5>1. q \in 10..(9 + l) /\ q + 1 = b
          BY <4>1
        <5> HIDE DEF q
        <5>2. x[q] = raw[b] /\ y[q] = P[b]
          BY <1>6, <1>7, <5>1, Zenon
        <5>3. QED
          BY <5>2, Zenon DEF q
      <4>3. QED
        BY <1>2, <4>1, <4>2, Zenon
    <3>3. QED
      BY <3>1, <3>2, Zenon
  <2>2. ASSUME NEW i \in 1..Len(x), i # p PROVE x[i] = y[i]
    <3>1. CASE i \in 1..9
      <4>1. i \in 1..Len(P) /\ i # b
        BY <1>1, <1>2, <2>2, <3>1
      <4>2. QED
        BY <1>2, <1>6, <1>7, <3>1, <4>1, Zenon
    <3>2. CASE i \in 10..(9 + l)
      <4>1. i + 1 \in 1..Len(P) /\ i + 1 # b
        BY <1>1, <1>2, <2>2, <3>2
      <4>2. QED
        BY <1>2, <1>6, <1>7, <3>2, <4>1, Zenon
    <3>3. QED
      BY <1>1, <1>6, <3>1, <3>2
  <2> HIDE DEF p
  <2>3. Crc8(x) # Crc8(y)
    BY <1>6, <1>7, <2>1, <2>2, OneByteDiffers
  <2>4. raw[10] = P[10]
    BY <1>2, <1>3, <1>9, Zenon
  <2>5. QED
    BY <1>5, <2>3, <2>4, Zenon
<1>10. QED
  BY <1>8, <1>9, Zenon

Headed(h, kind, num, total) ==
    h.kind = kind /\ h.id = id /\ h.num = num /\ h.total = total

(* With the length damaged, a packet may be unpacked, but to a payload     *)
(* with the same header.                                                   *)
LEMMA UnpackLength ==
    ASSUME NEW P, NEW kind \in Kinds, NEW num, NEW total, NEW payload \in Seq(Byte),
           IsPacket(P, kind, num, total, payload), id \in MsgId,
           NEW raw, ByteChanged(raw, P, 9), NEW h \in UnpackMessage(raw)
    PROVE  Headed(h, kind, num, total)
<1> DEFINE l == Len(payload)
<1>1. /\ P \in Seq(Byte) /\ Len(P) = 10 + l /\ l \in Nat
      /\ SubSeq(P, 5, 6) = BigEndian(id, 2)
      /\ P[4] = MsgType[kind] /\ P[7] = num /\ P[8] = total
  <2>1. l \in Nat
    OBVIOUS
  <2>2. QED
    BY <2>1, Zenon DEF IsPacket
<1>2. /\ raw \in Seq(Byte) /\ Len(raw) = Len(P)
      /\ \A i \in 1..Len(P) : i # 9 => raw[i] = P[i]
  BY Zenon DEF ByteChanged
<1> HIDE DEF l
<1>3. raw[4] = P[4] /\ raw[7] = P[7] /\ raw[8] = P[8]
  BY <1>1, <1>2
<1>4. SubSeq(raw, 5, 6) = SubSeq(P, 5, 6)
  <2>1. 5 \in 1..Len(P) /\ 6 \in 1..Len(P) /\ \A i \in 5..6 : raw[i] = P[i]
    BY <1>1, <1>2
  <2>2. QED
    BY <1>1, <1>2, <2>1, PiecesSame, Zenon
<1>5. ValueOf(SubSeq(P, 5, 6)) = id
  <2>1. id \in Nat /\ 2 \in Nat /\ ~Overflows(id, 2)
    BY IdFits
  <2>2. ValueOf(BigEndian(id, 2)) = id
    BY <2>1, RoundTrip, Zenon
  <2>3. QED
    BY <1>1, <2>2, Zenon
<1>6. Unpacked(raw, h)
  BY UnpackIs, Zenon
<1>7. /\ h.kind \in Kinds /\ MsgType[h.kind] = MsgType[kind]
      /\ h = [kind |-> h.kind, id |-> id, num |-> num, total |-> total,
              payload |-> SubSeq(raw, 11, 10 + raw[9])]
  BY <1>1, <1>3, <1>4, <1>5, <1>6, Zenon DEF Unpacked
<1>8. h.kind = kind
  BY <1>7, TypeBytes, Zenon
<1>9. h.id = id /\ h.num = num /\ h.total = total
  <2> DEFINE p == SubSeq(raw, 11, 10 + raw[9])
             k == h.kind
  <2> HIDE DEF p, k
  <2>1. h = [kind |-> k, id |-> id, num |-> num, total |-> total, payload |-> p]
    BY <1>7, Zenon DEF p, k
  <2>2. QED
    BY <2>1
<1>10. QED
  BY <1>8, <1>9, Zenon DEF Headed

(* A packet cut short does not unpack.                                     *)
LEMMA UnpackCut ==
    ASSUME NEW P, NEW kind, NEW num, NEW total, NEW payload \in Seq(Byte),
           IsPacket(P, kind, num, total, payload), NEW n \in 0..(Len(P) - 1)
    PROVE  UnpackMessage(SubSeq(P, 1, n)) = {}
<1> DEFINE l == Len(payload)
           raw == SubSeq(P, 1, n)
<1>1. P \in Seq(Byte) /\ Len(P) = 10 + l /\ l \in Nat /\ P[9] = l
  <2>1. l \in Nat
    OBVIOUS
  <2>2. QED
    BY <2>1, Zenon DEF IsPacket
<1> HIDE DEF l
<1>2. Len(raw) = n /\ (n >= 9 => raw[9] = P[9])
  <2>1. \A i \in 1..n : P[i] \in Byte
    BY <1>1
  <2>2. n \in Nat
    BY <1>1
  <2>3. /\ Len(SubSeq(P, 1, n)) = IF 1 <= n THEN n - 1 + 1 ELSE 0
        /\ \A i \in 1..(n - 1 + 1) : SubSeq(P, 1, n)[i] = P[1 + i - 1]
    BY <2>1, <2>2, SubSeqProperties
  <2>4. (IF 1 <= n THEN n - 1 + 1 ELSE 0) = n
    BY <2>2
  <2>5. ASSUME n >= 9 PROVE raw[9] = P[9]
    BY <2>2, <2>3, <2>5
  <2>6. Len(raw) = n
    BY <2>3, <2>4
  <2>7. QED
    BY <2>5, <2>6
<1> HIDE DEF raw
<1> SUFFICES ASSUME NEW h, Unpacked(raw, h) PROVE FALSE
  BY UnpackIs, Zenon DEF raw
<1>3. ~(Len(raw) < 10) /\ ~(Len(raw) < 10 + raw[9])
  BY Zenon DEF Unpacked
<1>4. QED
  BY <1>1, <1>2, <1>3

-----------------------------------------------------------------------------
(* The inductive invariant.                                                *)

(* What packing does not refuse.                                           *)
Sendable(m) ==
    /\ \A i \in 1..Len(Payloads(m)) : ~TooLarge(Payloads(m)[i])
    /\ Len(Payloads(m)) <= MaxChunks
    /\ \A i \in DOMAIN m.fields : ~Overflows(m.fields[i], Layout[m.kind][i])

Count == Len(Payloads(message))

(* A packet as it was sent, and what unpacking it then gives.              *)
Original(i) == PackMessage(message.kind, i - 1, Count, Payloads(message)[i])

Contents(i) ==
    [kind |-> message.kind, id |-> id, num |-> i - 1, total |-> Count,
     payload |-> Payloads(message)[i]]

LengthIntact == \A d \in damage : d[2] # 9

StatusInv ==
    /\ message \in Messages /\ id \in Ids
    /\ status \in {"new", "sent", "refused"}
    /\ status = "refused" => ~Sendable(message)
    /\ status = "sent" => Sendable(message) /\ DOMAIN packets = 1..Count
    /\ status # "sent" => packets = <<>> /\ damage = {} /\ buffers = <<>> /\ received = {}

(* What the mesh has made of a packet.                                     *)
Carried(i) ==
    \/ packets[i] = Original(i) /\ \A d \in damage : d[1] # i
    \/ \E b \in 1..Len(Original(i)) :
         <<i, b>> \in damage /\ ByteChanged(packets[i], Original(i), b)
    \/ /\ <<i, 0>> \in damage
       /\ \E n \in 0..(Len(Original(i)) - 1) : packets[i] = SubSeq(Original(i), 1, n)

MeshInv ==
    /\ \A i \in DOMAIN packets : Carried(i)
    /\ IsFiniteSet(damage) /\ Cardinality(damage) <= MaxDamage
    /\ delivered \subseteq DOMAIN packets

(* A buffer is of this message, lacks a chunk, and holds the others as     *)
(* they were sent.                                                         *)
Partial(b) ==
    /\ b = [total |-> Count, parts |-> b.parts]
    /\ DOMAIN b.parts \subseteq 0..(Count - 1) /\ DOMAIN b.parts # 0..(Count - 1)
    /\ LengthIntact => \A n \in DOMAIN b.parts : b.parts[n] = Payloads(message)[n + 1]

BuffersInv == DOMAIN buffers \subseteq {id} /\ \A m \in DOMAIN buffers : Partial(buffers[m])

ReceivedInv == LengthIntact => received \subseteq {message}

(* An undamaged packet delivered is in the message received, or waits in   *)
(* the buffer.                                                             *)
Arrived(i) ==
    \/ message \in received
    \/ id \in DOMAIN buffers /\ i - 1 \in DOMAIN buffers[id].parts

ArrivedInv == damage = {} => \A i \in delivered : Arrived(i)

IInv == StatusInv /\ MeshInv /\ BuffersInv /\ ReceivedInv /\ ArrivedInv

(* One string, joined, is itself.                                          *)
LEMMA FlatOfOne ==
    ASSUME NEW S, NEW s \in Seq(S)
    PROVE  <<s>> \in Seq(Seq(S)) /\ Len(<<s>>) = 1 /\ Flat(<<s>>) = s
<1> DEFINE T == Seq(S)
           ss == <<s>>
           J == Joins(ss)
<1>1. ss \in Seq(T) /\ Len(ss) = 1 /\ ss[1] = s
  <2> HIDE DEF T
  <2>1. s \in T
    BY DEF T
  <2>2. QED
    BY <2>1
<1> HIDE DEF ss
<1>2. J[1] = J[1 - 1] \o s /\ J[0] = <<>>
  <2>1. 1 \in 1..Len(ss)
    BY <1>1
  <2>2. QED
    BY <1>1, <2>1, JoinsFacts, Zenon
<1> HIDE DEF J
<1>3. J[1] = <<>> \o s
  <2>1. 1 - 1 = 0
    OBVIOUS
  <2>2. QED
    BY <1>2, <2>1, Zenon
<1>4. J[1] = s
  BY <1>3, ConcatEmptySeq
<1>5. QED
  BY <1>1, <1>4, Zenon DEF Flat, J, ss

(* The payloads of a message's packets are not none, and make its encoding *)
(* when joined; only a transaction's are several.                          *)
PiecesOf(m) ==
    /\ Payloads(m) \in Seq(Seq(Byte)) /\ Len(Payloads(m)) \in Nat \ {0}
    /\ Flat(Payloads(m)) = Encode(m)
    /\ m.kind # "TX_CHUNK" => Payloads(m) = <<Encode(m)>>

(* So for every message, whether its data is empty, whole chunks, or more. *)
LEMMA PayloadsFacts ==
    ASSUME NEW m, IsMessage(m) PROVE PiecesOf(m)
<1> DEFINE data == Encode(m)
<1>1. data \in Seq(Byte) /\ Len(data) \in Nat
  BY EncodeType
<1>2. CASE m.kind # "TX_CHUNK" \/ data = <<>>
  <2>1. Payloads(m) = <<data>>
    BY <1>2, Zenon DEF Payloads
  <2> HIDE DEF data
  <2>2. <<data>> \in Seq(Seq(Byte)) /\ Len(<<data>>) = 1 /\ Flat(<<data>>) = data
    BY <1>1, FlatOfOne
  <2>3. 1 \in Nat \ {0}
    OBVIOUS
  <2>4. QED
    BY <2>1, <2>2, <2>3, Zenon DEF PiecesOf, data
<1>3. CASE ~(m.kind # "TX_CHUNK" \/ data = <<>>)
  <2> DEFINE c == MaxChunkData
             ss == Payloads(m)
             t == (Len(data) + c - 1) \div c
  <2>1. ArePieces(ss, data, c)
    BY <1>3, Zenon DEF Payloads, Total, ArePieces
  <2>2. Len(data) # 0 /\ c \in Nat \ {0}
    <3> HIDE DEF data
    <3>1. data # <<>>
      BY <1>3, Zenon
    <3>2. QED
      BY <1>1, <3>1, ConstantTypes, EmptySeq
  <2> HIDE DEF data, ss, c
  <2>3. ss \in Seq(Seq(Byte)) /\ Len(ss) = t /\ Flat(ss) = data
    <3>1. Joinable(ss, data, c, Byte)
      BY <1>1, <2>1, <2>2, PiecesJoin, Zenon
    <3>2. QED
      BY <3>1, Zenon DEF Joinable
  <2>4. t \in Nat \ {0}
    BY <1>1, <2>2, RoundedUp
  <2> HIDE DEF t
  <2>5. QED
    BY <1>3, <2>3, <2>4, Zenon DEF PiecesOf, ss, data
<1>4. QED
  BY <1>2, <1>3, Zenon

(* What fits is not refused.                                               *)
LEMMA FittingSendable ==
    ASSUME NEW m, IsMessage(m), Fits(m) PROVE Sendable(m)
<1> DEFINE data == Encode(m)
           c == MaxChunkData
<1>1. data \in Seq(Byte) /\ Len(data) \in Nat /\ Len(data) = Size(m)
  BY EncodeType
<1>2. /\ Size(m) <= MaxChunkData * (IF m.kind = "TX_CHUNK" THEN MaxChunks ELSE 1)
      /\ \A i \in DOMAIN m.fields : ~Overflows(m.fields[i], Layout[m.kind][i])
  BY Zenon DEF Fits
<1>3. c \in Nat \ {0} /\ MaxChunks \in Nat \ {0}
  BY ConstantTypes, Zenon
<1> DEFINE ss == Payloads(m)
<1> SUFFICES Len(ss) <= MaxChunks /\ \A i \in 1..Len(ss) : ~(Len(ss[i]) > c)
  BY <1>2, Zenon DEF Sendable, TooLarge
<1>4. CASE m.kind # "TX_CHUNK" \/ data = <<>>
  <2>1. ss = <<data>>
    BY <1>4, Zenon DEF Payloads
  <2>2. Len(data) <= c
    <3>1. CASE m.kind # "TX_CHUNK"
      <4>1. (IF m.kind = "TX_CHUNK" THEN MaxChunks ELSE 1) = 1
        BY <3>1, Zenon
      <4>2. Len(data) <= c * 1
        BY <1>1, <1>2, <4>1, Zenon
      <4> HIDE DEF data, c
      <4>3. QED
        BY <1>3, <4>2
    <3>2. CASE data = <<>>
      <4>1. Len(data) = 0
        BY <3>2
      <4> HIDE DEF data, c
      <4>2. QED
        BY <1>3, <4>1
    <3>3. QED
      BY <1>4, <3>1, <3>2, Zenon
  <2> HIDE DEF data, ss, c
  <2>3. Len(ss) = 1 /\ ss[1] = data
    BY <2>1
  <2>4. QED
    BY <1>1, <1>3, <2>2, <2>3
<1>5. CASE ~(m.kind # "TX_CHUNK" \/ data = <<>>)
  <2> DEFINE t == (Len(data) + c - 1) \div c
  <2>1. ArePieces(ss, data, c)
    BY <1>5, Zenon DEF Payloads, Total, ArePieces
  <2>2. Len(data) <= c * MaxChunks
    <3>1. m.kind = "TX_CHUNK"
      BY <1>5, Zenon
    <3>2. QED
      BY <1>1, <1>2, <3>1, Zenon
  <2>3. Len(data) # 0
    <3> HIDE DEF data
    <3>1. data # <<>>
      BY <1>5, Zenon
    <3>2. QED
      BY <1>1, <3>1, EmptySeq
  <2> HIDE DEF data, ss, c
  <2>4. ss \in Seq(Seq(Byte)) /\ Len(ss) = t /\ \A i \in 1..Len(ss) : Len(ss[i]) <= c
    <3>1. Joinable(ss, data, c, Byte)
      BY <1>1, <1>3, <2>1, <2>3, PiecesJoin, Zenon
    <3>2. QED
      BY <3>1, Zenon DEF Joinable
  <2>5. t <= MaxChunks
    BY <1>1, <1>3, <2>2, RoundedUpFits
  <2>6. \A i \in 1..Len(ss) : Len(ss[i]) \in Nat
    <3> DEFINE T == Seq(Byte)
    <3>1. \A s \in T : Len(s) \in Nat
      OBVIOUS
    <3>2. ss \in Seq(T)
      BY <2>4
    <3> HIDE DEF T
    <3>3. \A i \in 1..Len(ss) : ss[i] \in T
      BY <3>2
    <3>4. QED
      BY <3>1, <3>3
  <2> HIDE DEF t
  <2>7. QED
    BY <1>3, <2>4, <2>5, <2>6
<1>6. QED
  BY <1>4, <1>5, Zenon

(* A message's packets, as they are sent.                                  *)
IsSent(i) ==
    /\ message.kind \in Kinds /\ id \in MsgId /\ Payloads(message)[i] \in Seq(Byte)
    /\ Len(Payloads(message)[i]) \in Nat /\ Len(Payloads(message)[i]) <= MaxChunkData
    /\ IsPacket(Original(i), message.kind, i - 1, Count, Payloads(message)[i])

(* Every packet of a message that is not refused is such a packet, its     *)
(* number and total fitting a byte.                                        *)
LEMMA SentPackets ==
    ASSUME message \in Messages, id \in Ids, Sendable(message), NEW i \in 1..Count
    PROVE  IsSent(i)
<1> DEFINE ss == Payloads(message)
           p == ss[i]
           T == Seq(Byte)
           n == Len(ss)
           num == i - 1
           kind == message.kind
<1>1. IsMessage(message) /\ id \in MsgId
  BY ConstantTypes, Zenon
<1>2. kind \in Kinds
  BY <1>1, MessageType, Zenon
<1>3. ss \in Seq(T) /\ n \in Nat \ {0}
  BY <1>1, PayloadsFacts, Zenon DEF PiecesOf
<1>4. ~(Len(p) > MaxChunkData) /\ n <= MaxChunks
  BY Zenon DEF Sendable, TooLarge, Count
<1>5. i \in 1..n
  BY Zenon DEF Count
<1>6. MaxChunkData \in Nat /\ MaxChunkData <= 245 /\ MaxChunks \in Nat /\ MaxChunks <= 255
  BY ConstantTypes
<1> HIDE DEF p, ss, n, T, num, kind
<1>7. p \in T
  BY <1>3, <1>5 DEF p, n
<1>8. Len(p) \in Nat
  BY <1>7 DEF T
<1>9. Len(p) <= MaxChunkData /\ Len(p) \in Byte
  BY <1>4, <1>6, <1>8, ByteType
<1>10. num \in Byte /\ n \in Byte
  BY <1>3, <1>4, <1>5, <1>6, ByteType DEF num
<1>11. p \in Seq(Byte)
  BY <1>7, Zenon DEF T
<1>12. IsPacket(PackMessage(kind, num, n, p), kind, num, n, p)
  BY <1>1, <1>2, <1>9, <1>10, <1>11, PackFacts, Zenon
<1>13. QED
  BY <1>1, <1>2, <1>8, <1>9, <1>11, <1>12, Zenon DEF IsSent, Original, Count, kind, num, n, p, ss

(* What unpacking what the mesh has made of a packet gives.                *)
Given(i) ==
    /\ \A h \in UnpackMessage(packets[i]) : Headed(h, message.kind, i - 1, Count)
    /\ LengthIntact => \A h \in UnpackMessage(packets[i]) : h.payload = Payloads(message)[i]
    /\ damage = {} => UnpackMessage(packets[i]) = {Contents(i)}

(* Unpacking what the mesh has made of a packet gives the packet's         *)
(* contents or nothing, except that a damaged length may give another      *)
(* payload.                                                                *)
LEMMA GivenPacket ==
    ASSUME NEW i, IsSent(i), Carried(i) PROVE Given(i)
<1> DEFINE O == Original(i)
           kind == message.kind
           num == i - 1
           p == Payloads(message)[i]
           c == Contents(i)
           raw == packets[i]
<1>1. kind \in Kinds /\ id \in MsgId /\ p \in Seq(Byte) /\ IsPacket(O, kind, num, Count, p)
  BY Zenon DEF IsSent
<1>2. c = [kind |-> kind, id |-> id, num |-> num, total |-> Count, payload |-> p]
  BY Zenon DEF Contents
<1>3. Headed(c, kind, num, Count) /\ c.payload = p
  BY <1>2 DEF Headed
<1>4. UnpackMessage(O) = {c}
  <2> DEFINE n == Count
  <2> HIDE DEF kind, num, p, n, O, c
  <2>1. IsPacket(O, kind, num, n, p)
    BY <1>1, Zenon DEF n
  <2>2. UnpackMessage(O) =
          {[kind |-> kind, id |-> id, num |-> num, total |-> n, payload |-> p]}
    BY <1>1, <2>1, UnpackPacked, Zenon
  <2>3. QED
    BY <1>2, <2>2, Zenon DEF n
<1>5. CASE raw = O /\ \A d \in damage : d[1] # i
  <2>1. UnpackMessage(raw) = {c}
    BY <1>4, <1>5, Zenon
  <2> HIDE DEF c, p, raw
  <2>2. \A h \in UnpackMessage(raw) : h = c
    BY <2>1, Zenon
  <2>3. QED
    BY <1>3, <2>1, <2>2, Zenon DEF Given, c, p, raw, kind, num
<1>6. CASE \E b \in 1..Len(O) : <<i, b>> \in damage /\ ByteChanged(raw, O, b)
  <2>1. PICK b \in 1..Len(O) : <<i, b>> \in damage /\ ByteChanged(raw, O, b)
    BY <1>6
  <2>2. damage # {}
    BY <2>1, Zenon
  <2>3. CASE b # 9
    <3>1. UnpackMessage(raw) = {}
      BY <1>1, <2>1, <2>3, UnpackDamaged, Zenon
    <3>2. \A h : h \notin UnpackMessage(raw)
      BY <3>1, Zenon
    <3>3. QED
      BY <2>2, <3>2, Zenon DEF Given
  <2>4. CASE b = 9
    <3>1. ByteChanged(raw, O, 9)
      BY <2>1, <2>4, Zenon
    <3>2. ASSUME NEW h \in UnpackMessage(raw)
          PROVE  Headed(h, kind, num, Count)
      <4> DEFINE n == Count
      <4> HIDE DEF kind, num, p, n, O, raw
      <4>1. IsPacket(O, kind, num, n, p)
        BY <1>1, Zenon DEF n
      <4>2. Headed(h, kind, num, n)
        BY <1>1, <3>1, <4>1, UnpackLength, Zenon
      <4>3. QED
        BY <4>2, Zenon DEF n
    <3>3. ~LengthIntact
      <4>1. <<i, b>>[2] = b
        OBVIOUS
      <4>2. QED
        BY <2>1, <2>4, <4>1, Zenon DEF LengthIntact
    <3>4. QED
      BY <2>2, <3>2, <3>3, Zenon DEF Given
  <2>5. QED
    BY <2>3, <2>4, Zenon
<1>7. CASE /\ <<i, 0>> \in damage
           /\ \E n \in 0..(Len(O) - 1) : raw = SubSeq(O, 1, n)
  <2>1. PICK n \in 0..(Len(O) - 1) : raw = SubSeq(O, 1, n)
    BY <1>7
  <2>2. UnpackMessage(raw) = {}
    BY <1>1, <2>1, UnpackCut, Zenon
  <2>3. damage # {} /\ \A h : h \notin UnpackMessage(raw)
    BY <1>7, <2>2, Zenon
  <2>4. QED
    BY <2>3, Zenon DEF Given
<1>8. QED
  BY <1>5, <1>6, <1>7, Zenon DEF Carried

(* All the payloads together, decoded, are the message.                    *)
LEMMA DecodeWhole ==
    ASSUME IsMessage(message), Sendable(message),
           NEW parts, \A n \in 0..(Count - 1) : parts[n] = Payloads(message)[n + 1]
    PROVE  Decode(message.kind, Flat([i \in 1..Count |-> parts[i - 1]])) = {message}
<1> DEFINE ss == Payloads(message)
           T == Seq(Byte)
           n == Len(ss)
           whole == [i \in 1..n |-> parts[i - 1]]
<1>1. ss \in Seq(T) /\ n \in Nat \ {0} /\ Flat(ss) = Encode(message)
  BY PayloadsFacts, Zenon DEF PiecesOf
<1>2. \A k \in 0..(n - 1) : parts[k] = ss[k + 1]
  BY Zenon DEF Count
<1> HIDE DEF ss, T
<1>3. ss = [i \in 1..n |-> ss[i]]
  BY <1>1
<1> HIDE DEF n
<1>4. ASSUME NEW i \in 1..n PROVE parts[i - 1] = ss[i]
  <2> DEFINE k == i - 1
  <2>1. k \in 0..(n - 1) /\ k + 1 = i
    BY <1>1
  <2> HIDE DEF k
  <2>2. parts[k] = ss[i]
    BY <1>2, <2>1, Zenon
  <2>3. QED
    BY <2>2, Zenon DEF k
<1>5. whole = ss
  BY <1>3, <1>4
<1>6. Decode(message.kind, Encode(message)) = {message}
  BY DecodeEncode, Zenon DEF Sendable
<1>7. QED
  BY <1>1, <1>5, <1>6, Zenon DEF whole, n, ss, Count

(* The one payload of any other message decodes to it.                     *)
LEMMA DecodeOne ==
    ASSUME IsMessage(message), Sendable(message), message.kind # "TX_CHUNK"
    PROVE  Count = 1 /\ Decode(message.kind, Payloads(message)[1]) = {message}
<1> DEFINE data == Encode(message)
<1>1. Payloads(message) = <<data>>
  BY PayloadsFacts, Zenon DEF PiecesOf
<1>2. Decode(message.kind, data) = {message}
  BY DecodeEncode, Zenon DEF Sendable
<1> HIDE DEF data
<1>3. Len(<<data>>) = 1 /\ <<data>>[1] = data
  OBVIOUS
<1>4. QED
  BY <1>1, <1>2, <1>3, Zenon DEF Count

-----------------------------------------------------------------------------
(* The invariant is inductive.                                             *)

(* What depends on the message and its id alone stays while they do.       *)
LEMMA SameMessage ==
    ASSUME message' = message, id' = id
    PROVE  /\ Count' = Count /\ Sendable(message)' = Sendable(message)
           /\ Payloads(message)' = Payloads(message)
           /\ \A i : Original(i)' = Original(i)
<1>1. Payloads(message)' = Payloads(message)
  OBVIOUS
<1>2. Count' = Count
  BY DEF Count
<1>3. Sendable(message)' = Sendable(message)
  OBVIOUS
<1>4. ASSUME NEW i PROVE Original(i)' = Original(i)
  BY Zenon DEF Original, PackMessage, Count
<1>5. QED
  BY <1>1, <1>2, <1>3, <1>4, Zenon

(* The invariant holds at first.                                           *)
LEMMA InitIInv ==
    ASSUME Init PROVE IInv
<1>1. /\ message \in Messages /\ id \in Ids
      /\ status = "new" /\ packets = <<>> /\ damage = {} /\ delivered = {}
      /\ buffers = <<>> /\ received = {}
  BY Zenon DEF Init
<1>2. StatusInv
  BY <1>1 DEF StatusInv
<1>3. DOMAIN packets = {} /\ DOMAIN buffers = {}
  BY <1>1
<1>4. MeshInv
  <2>1. IsFiniteSet(damage) /\ Cardinality(damage) = 0
    BY <1>1, FS_EmptySet, Zenon
  <2>2. 0 <= MaxDamage
    BY ConstantTypes
  <2>3. QED
    BY <1>1, <1>3, <2>1, <2>2, Zenon DEF MeshInv
<1>5. BuffersInv /\ ReceivedInv /\ ArrivedInv
  BY <1>1, <1>3, Zenon DEF BuffersInv, ReceivedInv, ArrivedInv
<1>6. QED
  BY <1>2, <1>4, <1>5, Zenon DEF IInv

(* Send establishes the packets' part, or is refused for a reason.         *)
LEMMA SendIInv ==
    ASSUME IInv, Send PROVE IInv'
<1> DEFINE m == message
           ss == Payloads(message)
           n == Len(ss)
           Bad == \/ \E i \in 1..n : TooLarge(ss[i])
                  \/ n > MaxChunks
                  \/ \E i \in DOMAIN message.fields :
                       Overflows(message.fields[i], Layout[message.kind][i])
           Packed == [i \in 1..n |-> PackMessage(message.kind, i - 1, n, ss[i])]
<1>1. /\ status = "new"
      /\ \/ Bad /\ status' = "refused" /\ UNCHANGED packets
         \/ ~Bad /\ status' = "sent" /\ packets' = Packed
      /\ message' = message /\ id' = id /\ damage' = damage /\ delivered' = delivered
      /\ buffers' = buffers /\ received' = received
  BY Zenon DEF Send
<1>2. message \in Messages /\ id \in Ids
  BY Zenon DEF IInv, StatusInv
<1>3. packets = <<>> /\ damage = {} /\ buffers = <<>> /\ received = {}
  <2>1. status # "sent"
    BY <1>1
  <2>2. QED
    BY <2>1, Zenon DEF IInv, StatusInv
<1>4. delivered = {} /\ IsFiniteSet(damage) /\ Cardinality(damage) <= MaxDamage
  <2>1. DOMAIN packets = {}
    BY <1>3
  <2>2. QED
    BY <2>1, Zenon DEF IInv, MeshInv
<1>5. ~Bad <=> Sendable(message)
  <2>1. n \in Nat /\ MaxChunks \in Nat
    BY <1>2, ConstantTypes, PayloadsFacts, Zenon DEF PiecesOf
  <2>2. ~(n > MaxChunks) <=> n <= MaxChunks
    <3> HIDE DEF n
    <3>1. QED
      BY <2>1
  <2>3. QED
    BY <2>2, Zenon DEF Sendable
<1>6. /\ Count' = Count /\ Sendable(message)' = Sendable(message)
      /\ \A i : Original(i)' = Original(i)
  BY <1>1, SameMessage, Zenon
<1>7. BuffersInv' /\ ReceivedInv' /\ ArrivedInv'
  <2>1. DOMAIN buffers' = {} /\ received' = {} /\ delivered' = {}
    BY <1>1, <1>3, <1>4
  <2>2. QED
    BY <2>1, Zenon DEF BuffersInv, ReceivedInv, ArrivedInv
<1> HIDE DEF Bad, Packed
<1>8. CASE Bad /\ status' = "refused" /\ UNCHANGED packets
  <2>1. ~Sendable(message)'
    BY <1>5, <1>6, <1>8, Zenon
  <2>2. StatusInv'
    BY <1>1, <1>2, <1>3, <1>8, <2>1 DEF StatusInv
  <2>3. DOMAIN packets' = {}
    BY <1>3, <1>8
  <2>4. MeshInv'
    BY <1>1, <1>4, <2>3, Zenon DEF MeshInv
  <2>5. QED
    BY <1>7, <2>2, <2>4, Zenon DEF IInv
<1>9. CASE ~Bad /\ status' = "sent" /\ packets' = Packed
  <2>1. Sendable(message)'
    BY <1>5, <1>6, <1>9, Zenon
  <2>2. DOMAIN packets' = 1..n /\ \A i \in 1..n : packets'[i] = Original(i)
    BY <1>9, Zenon DEF Packed, Original, Count
  <2>3. StatusInv'
    <3>1. DOMAIN packets' = 1..Count'
      BY <1>6, <2>2, Zenon DEF Count
    <3>2. QED
      BY <1>1, <1>2, <1>9, <2>1, <3>1 DEF StatusInv
  <2>4. MeshInv'
    <3>1. \A d : d \notin damage'
      BY <1>1, <1>3, Zenon
    <3>2. ASSUME NEW i \in DOMAIN packets' PROVE Carried(i)'
      <4>1. packets'[i] = Original(i)'
        BY <1>6, <2>2, Zenon
      <4>2. QED
        BY <3>1, <4>1, Zenon DEF Carried
    <3>3. delivered' \subseteq DOMAIN packets'
      BY <1>1, <1>4, Zenon
    <3>4. QED
      BY <1>1, <1>4, <3>2, <3>3, Zenon DEF MeshInv
  <2>5. QED
    BY <1>7, <2>3, <2>4, Zenon DEF IInv
<1>10. QED
  BY <1>1, <1>8, <1>9, Zenon

(* Damage changes one packet, undamaged so far, in one byte or its length. *)
LEMMA DamageIInv ==
    ASSUME IInv, NEW i \in DOMAIN packets, Damage(i) PROVE IInv'
<1> DEFINE O == Original(i)
<1>1. /\ Cardinality(damage) < MaxDamage /\ \A d \in damage : d[1] # i
      /\ message' = message /\ id' = id /\ status' = status /\ delivered' = delivered
      /\ buffers' = buffers /\ received' = received
  BY Zenon DEF Damage
<1>2. \/ \E b \in 1..Len(packets[i]), x \in Patterns :
            /\ packets' = [packets EXCEPT ![i][b] = XorOf[@][x]]
            /\ damage' = damage \cup {<<i, b>>}
      \/ \E n \in 0..(Len(packets[i]) - 1) :
            /\ packets' = [packets EXCEPT ![i] = SubSeq(@, 1, n)]
            /\ damage' = damage \cup {<<i, 0>>}
  BY Zenon DEF Damage
<1>3. /\ message \in Messages /\ id \in Ids /\ status = "sent" /\ Sendable(message)
      /\ DOMAIN packets = 1..Count
  <2>1. packets # <<>>
    <3>1. DOMAIN packets # {}
      OBVIOUS
    <3>2. QED
      BY <3>1
  <2>2. QED
    BY <2>1, Zenon DEF IInv, StatusInv
<1>4. packets[i] = O
  <2>1. \A b : <<i, b>>[1] = i
    OBVIOUS
  <2>2. Carried(i)
    BY Zenon DEF IInv, MeshInv
  <2>3. QED
    BY <1>1, <2>1, <2>2, Zenon DEF Carried
<1>5. O \in Seq(Byte)
  <2>1. IsSent(i)
    BY <1>3, SentPackets, Zenon
  <2>2. QED
    BY <2>1, Zenon DEF IsSent, IsPacket
<1>6. /\ Count' = Count /\ Sendable(message)' = Sendable(message)
      /\ Payloads(message)' = Payloads(message)
      /\ \A k : Original(k)' = Original(k)
  BY <1>1, SameMessage, Zenon
<1>7. \E b : /\ damage' = damage \cup {<<i, b>>}
             /\ DOMAIN packets' = DOMAIN packets
             /\ \A k \in DOMAIN packets : k # i => packets'[k] = packets[k]
             /\ Carried(i)'
  <2>1. CASE \E b \in 1..Len(packets[i]), x \in Patterns :
                /\ packets' = [packets EXCEPT ![i][b] = XorOf[@][x]]
                /\ damage' = damage \cup {<<i, b>>}
    <3>1. PICK b \in 1..Len(O), x \in Patterns :
            /\ packets' = [packets EXCEPT ![i] = [O EXCEPT ![b] = XorOf[O[b]][x]]]
            /\ damage' = damage \cup {<<i, b>>}
      BY <1>4, <2>1
    <3> DEFINE raw == [O EXCEPT ![b] = XorOf[O[b]][x]]
    <3>2. /\ DOMAIN packets' = DOMAIN packets /\ packets'[i] = raw
          /\ \A k \in DOMAIN packets : k # i => packets'[k] = packets[k]
      BY <3>1
    <3>3. ByteChanged(raw, O, b)
      <4>1. O[b] \in Byte /\ x \in Byte /\ x # 0
        BY <1>5, ConstantTypes
      <4>2. XorOf[O[b]][x] \in Byte /\ XorOf[O[b]][x] # O[b]
        BY <4>1, XorOfType, XorOfDiffers
      <4> HIDE DEF O
      <4>3. /\ raw \in Seq(Byte) /\ Len(raw) = Len(O) /\ raw[b] # O[b]
            /\ \A k \in 1..Len(O) : k # b => raw[k] = O[k]
        BY <1>5, <4>2
      <4>4. QED
        BY <4>3, Zenon DEF ByteChanged
    <3>4. Carried(i)'
      <4> HIDE DEF raw
      <4>1. <<i, b>> \in damage' /\ ByteChanged(packets'[i], O, b)
        BY <3>1, <3>2, <3>3, Zenon
      <4>2. Original(i)' = O
        BY <1>6, Zenon
      <4> HIDE DEF O
      <4>3. \E c \in 1..Len(Original(i)') :
               <<i, c>> \in damage' /\ ByteChanged(packets'[i], Original(i)', c)
        BY <4>1, <4>2, Zenon
      <4>4. QED
        BY <4>3, Zenon DEF Carried
    <3>5. QED
      BY <3>1, <3>2, <3>4, Zenon
  <2>2. CASE \E n \in 0..(Len(packets[i]) - 1) :
                /\ packets' = [packets EXCEPT ![i] = SubSeq(@, 1, n)]
                /\ damage' = damage \cup {<<i, 0>>}
    <3>1. PICK n \in 0..(Len(O) - 1) :
            /\ packets' = [packets EXCEPT ![i] = SubSeq(O, 1, n)]
            /\ damage' = damage \cup {<<i, 0>>}
      BY <1>4, <2>2
    <3> DEFINE raw == SubSeq(O, 1, n)
    <3> HIDE DEF raw
    <3>2. /\ DOMAIN packets' = DOMAIN packets /\ packets'[i] = raw
          /\ \A k \in DOMAIN packets : k # i => packets'[k] = packets[k]
      BY <3>1 DEF raw
    <3>3. Carried(i)'
      <4>1. <<i, 0>> \in damage' /\ Original(i)' = O
        BY <1>6, <3>1, Zenon
      <4>2. packets'[i] = SubSeq(O, 1, n)
        BY <3>2, Zenon DEF raw
      <4> HIDE DEF O
      <4>3. \E k \in 0..(Len(Original(i)') - 1) : packets'[i] = SubSeq(Original(i)', 1, k)
        BY <4>1, <4>2, Zenon
      <4>4. QED
        BY <4>1, <4>3, Zenon DEF Carried
    <3>4. QED
      BY <3>1, <3>2, <3>3, Zenon
  <2>3. QED
    BY <1>2, <2>1, <2>2, Zenon
<1>8. PICK b : /\ damage' = damage \cup {<<i, b>>}
               /\ DOMAIN packets' = DOMAIN packets
               /\ \A k \in DOMAIN packets : k # i => packets'[k] = packets[k]
               /\ Carried(i)'
  BY <1>7, Zenon
<1>9. StatusInv'
  BY <1>1, <1>3, <1>6, <1>8 DEF StatusInv
<1>10. MeshInv'
  <2>1. ASSUME NEW k \in DOMAIN packets' PROVE Carried(k)'
    <3>1. CASE k # i
      <4>1. Carried(k) /\ packets'[k] = packets[k] /\ Original(k)' = Original(k)
        BY <1>6, <1>8, <3>1, Zenon DEF IInv, MeshInv
      <4>2. \A d \in damage' : d \in damage \/ d = <<i, b>>
        BY <1>8, Zenon
      <4>3. <<i, b>>[1] # k
        BY <3>1
      <4>4. damage \subseteq damage'
        BY <1>8, Zenon
      <4>5. (\A d \in damage : d[1] # k) => (\A d \in damage' : d[1] # k)
        BY <4>2, <4>3, Zenon
      <4>6. QED
        BY <4>1, <4>4, <4>5, Zenon DEF Carried
    <3>2. QED
      BY <1>8, <3>1, Zenon
  <2>2. IsFiniteSet(damage') /\ Cardinality(damage') <= MaxDamage
    <3> DEFINE d == <<i, b>>
    <3> HIDE DEF d
    <3>1. IsFiniteSet(damage) /\ Cardinality(damage) <= MaxDamage
      BY Zenon DEF IInv, MeshInv
    <3>2. damage' = damage \cup {d}
      BY <1>8, Zenon DEF d
    <3>3. IsFiniteSet(damage \cup {d})
      BY <3>1, FS_AddElement, Zenon
    <3>4. \/ Cardinality(damage \cup {d}) = Cardinality(damage)
          \/ Cardinality(damage \cup {d}) = Cardinality(damage) + 1
      BY <3>1, FS_AddElement
    <3>5. Cardinality(damage) \in Nat
      BY <3>1, FS_CardinalityType
    <3>6. Cardinality(damage \cup {d}) <= MaxDamage
      BY <1>1, <3>1, <3>4, <3>5, ConstantTypes
    <3>7. QED
      BY <3>2, <3>3, <3>6, Zenon
  <2>3. delivered' \subseteq DOMAIN packets'
    BY <1>1, <1>8, Zenon DEF IInv, MeshInv
  <2>4. QED
    BY <2>1, <2>2, <2>3, Zenon DEF MeshInv
<1>11. LengthIntact' => LengthIntact
  BY <1>8, Zenon DEF LengthIntact
<1>12. BuffersInv'
  <2>1. ASSUME NEW k \in DOMAIN buffers PROVE Partial(buffers[k])'
    <3>1. Partial(buffers[k])
      BY Zenon DEF IInv, BuffersInv
    <3>2. QED
      BY <1>1, <1>6, <1>11, <3>1, Zenon DEF Partial
  <2>2. QED
    BY <1>1, <2>1, Zenon DEF IInv, BuffersInv
<1>13. ReceivedInv'
  BY <1>1, <1>11, Zenon DEF IInv, ReceivedInv
<1>14. ArrivedInv'
  <2>1. damage' # {}
    BY <1>8, Zenon
  <2>2. QED
    BY <2>1, Zenon DEF ArrivedInv
<1>15. QED
  BY <1>9, <1>10, <1>12, <1>13, <1>14, Zenon DEF IInv

(* A chunk received leaves the buffer partial, or makes the message whole. *)
LEMMA ChunkKeeps ==
    ASSUME IInv, status = "sent", NEW i \in 1..Count, NEW h, message.kind = "TX_CHUNK",
           Headed(h, message.kind, i - 1, Count),
           LengthIntact => h.payload = Payloads(message)[i],
           ReceiveChunk(h), UNCHANGED <<message, id, damage>>, delivered' = delivered \cup {i}
    PROVE  BuffersInv' /\ ReceivedInv' /\ ArrivedInv'
<1> DEFINE old == IF h.id \in DOMAIN buffers THEN buffers[h.id]
                  ELSE [total |-> h.total, parts |-> <<>>]
           parts == [n \in DOMAIN old.parts \cup {h.num} |->
                       IF n = h.num THEN h.payload ELSE old.parts[n]]
           whole == [k \in 1..old.total |-> parts[k - 1]]
<1>1. \/ /\ DOMAIN parts = 0..(old.total - 1)
         /\ received' = received \cup Decode("TX_CHUNK", Flat(whole))
         /\ buffers' = [m \in DOMAIN buffers \ {h.id} |-> buffers[m]]
      \/ /\ DOMAIN parts # 0..(old.total - 1)
         /\ buffers' = [m \in DOMAIN buffers \cup {h.id} |->
                          IF m = h.id THEN [old EXCEPT !.parts = parts] ELSE buffers[m]]
         /\ UNCHANGED received
  BY Zenon DEF ReceiveChunk
<1>2. h.id = id /\ h.num = i - 1 /\ h.total = Count
  BY Zenon DEF Headed
<1>3. /\ message \in Messages /\ Sendable(message) /\ DOMAIN buffers \subseteq {id}
      /\ \A m \in DOMAIN buffers : Partial(buffers[m])
      /\ LengthIntact => received \subseteq {message}
      /\ damage = {} => \A k \in delivered : Arrived(k)
  BY Zenon DEF IInv, StatusInv, BuffersInv, ReceivedInv, ArrivedInv
<1>4. IsMessage(message)
  BY <1>3, ConstantTypes, Zenon
<1>5. /\ message' = message /\ id' = id /\ damage' = damage /\ Count' = Count
      /\ Payloads(message)' = Payloads(message) /\ (LengthIntact' <=> LengthIntact)
  <2>1. message' = message /\ id' = id /\ damage' = damage
    BY Zenon
  <2>2. QED
    BY <2>1, SameMessage, Zenon DEF LengthIntact
<1>6. /\ old = [total |-> Count, parts |-> old.parts]
      /\ DOMAIN old.parts \subseteq 0..(Count - 1)
      /\ LengthIntact => \A n \in DOMAIN old.parts : old.parts[n] = Payloads(message)[n + 1]
  <2>1. CASE id \in DOMAIN buffers
    <3>1. old = buffers[id]
      BY <1>2, <2>1, Zenon
    <3>2. Partial(old)
      BY <1>3, <2>1, <3>1, Zenon
    <3> HIDE DEF old
    <3>3. QED
      BY <3>2, Zenon DEF Partial
  <2>2. CASE id \notin DOMAIN buffers
    <3>1. old = [total |-> Count, parts |-> <<>>]
      BY <1>2, <2>2, Zenon
    <3> HIDE DEF old
    <3>2. old.parts = <<>> /\ DOMAIN <<>> = {}
      BY <3>1
    <3>3. QED
      BY <3>1, <3>2, Zenon
  <2>3. QED
    BY <2>1, <2>2, Zenon
<1>7. id \in DOMAIN buffers => old = buffers[id]
  BY <1>2, Zenon
<1> HIDE DEF old
<1>8. old.total = Count
  BY <1>6
<1>9. i - 1 \in 0..(Count - 1) /\ (i - 1) + 1 = i
  <2>1. Count \in Nat
    BY <1>4, PayloadsFacts, Zenon DEF PiecesOf, Count
  <2>2. QED
    BY <2>1
<1> DEFINE j == i - 1
<1>10. /\ DOMAIN parts = DOMAIN old.parts \cup {j} /\ parts[j] = h.payload
       /\ \A n \in DOMAIN old.parts : n # j => parts[n] = old.parts[n]
  <2> HIDE DEF j
  <2>1. h.num = j
    BY <1>2, Zenon DEF j
  <2>2. QED
    BY <2>1
<1> HIDE DEF parts
<1>11. DOMAIN parts \subseteq 0..(Count - 1)
  BY <1>6, <1>9, <1>10, Zenon
<1>12. ASSUME LengthIntact, NEW n \in DOMAIN parts PROVE parts[n] = Payloads(message)[n + 1]
  <2>1. CASE n = j
    BY <1>9, <1>10, <1>12, <2>1, Zenon
  <2>2. CASE n # j
    BY <1>6, <1>10, <1>12, <2>2, Zenon
  <2>3. QED
    BY <2>1, <2>2, Zenon
<1>13. damage = {} => LengthIntact
  BY Zenon DEF LengthIntact
<1> HIDE DEF j
<1>14. CASE /\ DOMAIN parts = 0..(old.total - 1)
            /\ received' = received \cup Decode("TX_CHUNK", Flat(whole))
            /\ buffers' = [m \in DOMAIN buffers \ {h.id} |-> buffers[m]]
  <2>1. DOMAIN buffers' = {}
    BY <1>2, <1>3, <1>14
  <2>2. ASSUME LengthIntact PROVE received' \subseteq {message} /\ message \in received'
    <3>1. \A n \in 0..(Count - 1) : parts[n] = Payloads(message)[n + 1]
      BY <1>8, <1>12, <1>14, <2>2, Zenon
    <3>2. Decode(message.kind, Flat([k \in 1..Count |-> parts[k - 1]])) = {message}
      BY <1>3, <1>4, <3>1, DecodeWhole, Zenon
    <3>3. Decode("TX_CHUNK", Flat(whole)) = {message}
      BY <1>8, <3>2, Zenon
    <3> HIDE DEF whole
    <3>4. QED
      BY <1>3, <1>14, <2>2, <3>3, Zenon
  <2>3. BuffersInv'
    BY <2>1, Zenon DEF BuffersInv
  <2>4. ReceivedInv'
    BY <1>5, <2>2, Zenon DEF ReceivedInv
  <2>5. ArrivedInv'
    BY <1>5, <1>13, <2>2, Zenon DEF ArrivedInv, Arrived
  <2>6. QED
    BY <2>3, <2>4, <2>5, Zenon
<1>15. CASE /\ DOMAIN parts # 0..(old.total - 1)
            /\ buffers' = [m \in DOMAIN buffers \cup {h.id} |->
                             IF m = h.id THEN [old EXCEPT !.parts = parts] ELSE buffers[m]]
            /\ UNCHANGED received
  <2> DEFINE b == [total |-> Count, parts |-> parts]
  <2>1. DOMAIN buffers' = {id} /\ buffers'[id] = b
    <3>1. [old EXCEPT !.parts = parts] = b
      BY <1>6
    <3> HIDE DEF b
    <3>2. DOMAIN buffers \cup {id} = {id}
      BY <1>3
    <3>3. QED
      BY <1>2, <1>15, <3>1, <3>2
  <2>2. b.parts = parts /\ b = [total |-> Count, parts |-> b.parts]
    OBVIOUS
  <2>3. Partial(buffers[id])'
    <3> HIDE DEF b
    <3>1. buffers'[id'] = b
      BY <1>5, <2>1, Zenon
    <3>2. b = [total |-> Count', parts |-> b.parts]
      BY <1>5, <2>2, Zenon
    <3>3. DOMAIN b.parts \subseteq 0..(Count' - 1) /\ DOMAIN b.parts # 0..(Count' - 1)
      BY <1>5, <1>8, <1>11, <1>15, <2>2, Zenon
    <3>4. LengthIntact' => \A n \in DOMAIN b.parts : b.parts[n] = Payloads(message)'[n + 1]
      BY <1>5, <1>12, <2>2, Zenon
    <3>5. QED
      BY <3>1, <3>2, <3>3, <3>4, Zenon DEF Partial
  <2>4. BuffersInv'
    BY <1>5, <2>1, <2>3, Zenon DEF BuffersInv
  <2>5. ReceivedInv'
    BY <1>3, <1>5, <1>15, Zenon DEF ReceivedInv
  <2>6. ASSUME damage' = {}, NEW k \in delivered' PROVE Arrived(k)'
    <3>1. CASE k = i
      <4>1. k - 1 \in DOMAIN parts
        BY <1>10, <3>1, Zenon DEF j
      <4> HIDE DEF b
      <4>2. QED
        BY <1>5, <2>1, <2>2, <4>1, Zenon DEF Arrived
    <3>2. CASE k # i
      <4>1. Arrived(k)
        BY <1>3, <1>5, <2>6, <3>2, Zenon
      <4>2. CASE message \in received
        BY <1>5, <1>15, <4>2, Zenon DEF Arrived
      <4>3. CASE id \in DOMAIN buffers /\ k - 1 \in DOMAIN buffers[id].parts
        <5>1. k - 1 \in DOMAIN parts
          BY <1>7, <1>10, <4>3, Zenon
        <5> HIDE DEF b
        <5>2. QED
          BY <1>5, <2>1, <2>2, <5>1, Zenon DEF Arrived
      <4>4. QED
        BY <4>1, <4>2, <4>3, Zenon DEF Arrived
    <3>3. QED
      BY <3>1, <3>2, Zenon
  <2>7. ArrivedInv'
    BY <2>6, Zenon DEF ArrivedInv
  <2>8. QED
    BY <2>4, <2>5, <2>7, Zenon
<1>16. QED
  BY <1>1, <1>14, <1>15, Zenon

(* Deliver gives the receiver the packet's contents or nothing.            *)
LEMMA DeliverIInv ==
    ASSUME IInv, NEW i \in DOMAIN packets, Deliver(i) PROVE IInv'
<1> DEFINE H == UnpackMessage(packets[i])
<1>1. /\ delivered' = delivered \cup {i} /\ message' = message /\ id' = id
      /\ status' = status /\ packets' = packets /\ damage' = damage
      /\ \/ H = {} /\ UNCHANGED <<buffers, received>>
         \/ \E h \in H :
              IF h.kind = "TX_CHUNK" THEN ReceiveChunk(h)
              ELSE /\ received' = received \cup Decode(h.kind, h.payload)
                   /\ UNCHANGED buffers
  BY Zenon DEF Deliver
<1>2. /\ message \in Messages /\ id \in Ids /\ status = "sent" /\ Sendable(message)
      /\ DOMAIN packets = 1..Count
  <2>1. packets # <<>>
    <3>1. DOMAIN packets # {}
      OBVIOUS
    <3>2. QED
      BY <3>1
  <2>2. QED
    BY <2>1, Zenon DEF IInv, StatusInv
<1>3. IsMessage(message) /\ i \in 1..Count
  BY <1>2, ConstantTypes, Zenon
<1>4. /\ \A h \in H : Headed(h, message.kind, i - 1, Count)
      /\ LengthIntact => \A h \in H : h.payload = Payloads(message)[i]
      /\ damage = {} => H = {Contents(i)}
  <2>1. IsSent(i)
    BY <1>2, <1>3, SentPackets, Zenon
  <2>2. Carried(i)
    BY Zenon DEF IInv, MeshInv
  <2>3. Given(i)
    BY <2>1, <2>2, GivenPacket, Zenon
  <2>4. QED
    BY <2>3, Zenon DEF Given
<1>5. /\ Count' = Count /\ Sendable(message)' = Sendable(message)
      /\ Payloads(message)' = Payloads(message)
      /\ \A k : Original(k)' = Original(k)
  BY <1>1, SameMessage, Zenon
<1>6. StatusInv'
  BY <1>1, <1>2, <1>5 DEF StatusInv
<1>7. MeshInv'
  <2>1. ASSUME NEW k \in DOMAIN packets' PROVE Carried(k)'
    <3>1. Carried(k)
      BY <1>1, Zenon DEF IInv, MeshInv
    <3>2. Original(k)' = Original(k)
      BY <1>5, Zenon
    <3>3. QED
      BY <1>1, <3>1, <3>2, Zenon DEF Carried
  <2>2. delivered' \subseteq DOMAIN packets'
    BY <1>1, Zenon DEF IInv, MeshInv
  <2>3. QED
    BY <1>1, <2>1, <2>2, Zenon DEF IInv, MeshInv
<1>8. BuffersInv /\ ReceivedInv /\ ArrivedInv
  BY Zenon DEF IInv
<1>9. /\ LengthIntact' <=> LengthIntact
      /\ damage = {} => LengthIntact
  BY <1>1, Zenon DEF LengthIntact
<1>10. ASSUME buffers' = buffers PROVE BuffersInv'
  <2>1. ASSUME NEW m \in DOMAIN buffers PROVE Partial(buffers[m])'
    <3>1. Partial(buffers[m])
      BY <1>8, Zenon DEF BuffersInv
    <3>2. QED
      BY <1>5, <1>9, <1>10, <3>1, Zenon DEF Partial
  <2>2. QED
    BY <1>1, <1>8, <1>10, <2>1, Zenon DEF BuffersInv
<1> HIDE DEF H
<1>11. BuffersInv' /\ ReceivedInv' /\ ArrivedInv'
  <2>1. CASE H = {} /\ UNCHANGED <<buffers, received>>
    <3>1. H = {} /\ buffers' = buffers /\ received' = received
      BY <2>1, Zenon
    <3>2. damage # {}
      BY <1>4, <3>1, Zenon
    <3>3. QED
      BY <1>1, <1>8, <1>9, <1>10, <3>1, <3>2, Zenon DEF ReceivedInv, ArrivedInv
  <2>2. ASSUME NEW h \in H, h.kind # "TX_CHUNK",
               received' = received \cup Decode(h.kind, h.payload), UNCHANGED buffers
        PROVE  BuffersInv' /\ ReceivedInv' /\ ArrivedInv'
    <3>1. h.kind = message.kind
      BY <1>4, Zenon DEF Headed
    <3>2. Count = 1 /\ Decode(message.kind, Payloads(message)[1]) = {message}
      BY <1>2, <1>3, <2>2, <3>1, DecodeOne, Zenon
    <3>3. i = 1
      BY <1>3, <3>2
    <3>4. ASSUME LengthIntact PROVE Decode(h.kind, h.payload) = {message}
      BY <1>4, <3>1, <3>2, <3>3, <3>4, Zenon
    <3>5. ReceivedInv'
      BY <1>1, <1>8, <1>9, <2>2, <3>4, Zenon DEF ReceivedInv
    <3>6. ArrivedInv'
      BY <1>1, <1>9, <2>2, <3>4, Zenon DEF ArrivedInv, Arrived
    <3>7. QED
      BY <1>10, <2>2, <3>5, <3>6, Zenon
  <2>3. ASSUME NEW h \in H, h.kind = "TX_CHUNK", ReceiveChunk(h)
        PROVE  BuffersInv' /\ ReceivedInv' /\ ArrivedInv'
    <3>1. Headed(h, message.kind, i - 1, Count)
      BY <1>4, Zenon
    <3>2. message.kind = "TX_CHUNK"
      BY <2>3, <3>1, Zenon DEF Headed
    <3>3. LengthIntact => h.payload = Payloads(message)[i]
      BY <1>4, Zenon
    <3>4. UNCHANGED <<message, id, damage>> /\ delivered' = delivered \cup {i}
      BY <1>1, Zenon
    <3>5. QED
      BY <1>2, <1>3, <2>3, <3>1, <3>2, <3>3, <3>4, ChunkKeeps, Zenon
  <2>4. QED
    BY <1>1, <2>1, <2>2, <2>3, Zenon DEF H
<1>12. QED
  BY <1>6, <1>7, <1>11, Zenon DEF IInv

(* A step that changes nothing keeps the invariant.                        *)
LEMMA StutterIInv ==
    ASSUME IInv, UNCHANGED vars PROVE IInv'
<1>1. /\ message' = message /\ id' = id /\ status' = status /\ packets' = packets
      /\ damage' = damage /\ delivered' = delivered /\ buffers' = buffers
      /\ received' = received
  BY Zenon DEF vars
<1>2. /\ Count' = Count /\ Sendable(message)' = Sendable(message)
      /\ Payloads(message)' = Payloads(message)
      /\ \A k : Original(k)' = Original(k)
  BY <1>1, SameMessage, Zenon
<1>3. LengthIntact' <=> LengthIntact
  BY <1>1, Zenon DEF LengthIntact
<1>4. StatusInv'
  BY <1>1, <1>2, Zenon DEF IInv, StatusInv
<1>5. MeshInv'
  BY <1>1, <1>2, Zenon DEF IInv, MeshInv, Carried
<1>6. BuffersInv'
  <2>1. ASSUME NEW m \in DOMAIN buffers PROVE Partial(buffers[m])'
    <3>1. Partial(buffers[m])
      BY Zenon DEF IInv, BuffersInv
    <3>2. QED
      BY <1>1, <1>2, <1>3, <3>1, Zenon DEF Partial
  <2>2. QED
    BY <1>1, <2>1, Zenon DEF IInv, BuffersInv
<1>7. ReceivedInv' /\ ArrivedInv'
  BY <1>1, <1>3, Zenon DEF IInv, ReceivedInv, ArrivedInv, Arrived
<1>8. QED
  BY <1>4, <1>5, <1>6, <1>7, Zenon DEF IInv

(* Every reachable state satisfies the inductive invariant, whatever the   *)
(* messages, the widths, the limits, the patterns and the order.           *)
THEOREM Inductive == Spec => []IInv
<1>1. Init => IInv
  BY InitIInv
<1>2. IInv /\ [Next]_vars => IInv'
  <2> SUFFICES ASSUME IInv, [Next]_vars PROVE IInv'
    OBVIOUS
  <2>1. CASE Send
    BY <2>1, SendIInv
  <2>2. CASE \E i \in DOMAIN packets : Damage(i) \/ Deliver(i)
    BY <2>2, DamageIInv, DeliverIInv
  <2>3. CASE UNCHANGED vars
    BY <2>3, StutterIInv
  <2>4. QED
    BY <2>1, <2>2, <2>3 DEF Next
<1>3. QED
  BY <1>1, <1>2, PTL DEF Spec

(* Type correctness of the message, its packets and the receiver: the      *)
(* packets are bytes and never longer than a header and a full chunk.      *)
THEOREM TypeCorrect == Spec => []TypeOK
<1>1. ASSUME IInv PROVE TypeOK
  <2>1. /\ message \in Messages /\ id \in Ids
        /\ status \in {"new", "sent", "refused"}
    BY <1>1, Zenon DEF IInv, StatusInv
  <2>2. ASSUME NEW i \in DOMAIN packets
        PROVE  /\ Len(packets[i]) <= HeaderSize + MaxChunkData
               /\ \A b \in DOMAIN packets[i] : packets[i][b] \in Byte
    <3> DEFINE O == Original(i)
               raw == packets[i]
               l == Len(Payloads(message)[i])
    <3>1. status = "sent" /\ Sendable(message) /\ i \in 1..Count
      <4>1. packets # <<>>
        <5>1. DOMAIN packets # {}
          OBVIOUS
        <5>2. QED
          BY <5>1
      <4>2. QED
        BY <1>1, <4>1, Zenon DEF IInv, StatusInv
    <3>2. O \in Seq(Byte) /\ Len(O) = 10 + l /\ l \in Nat /\ l <= MaxChunkData
      BY <2>1, <3>1, SentPackets, Zenon DEF IsSent, IsPacket
    <3> HIDE DEF O, l
    <3>3. Carried(i)
      BY <1>1, Zenon DEF IInv, MeshInv
    <3>4. raw \in Seq(Byte) /\ Len(raw) <= Len(O)
      <4>1. CASE raw = O
        BY <3>2, <4>1
      <4>2. CASE \E b \in 1..Len(O) : ByteChanged(raw, O, b)
        <5>1. raw \in Seq(Byte) /\ Len(raw) = Len(O)
          BY <4>2, Zenon DEF ByteChanged
        <5>2. QED
          BY <3>2, <5>1
      <4>3. CASE \E n \in 0..(Len(O) - 1) : raw = SubSeq(O, 1, n)
        <5>1. PICK n \in 0..(Len(O) - 1) : raw = SubSeq(O, 1, n)
          BY <4>3
        <5>2. \A k \in 1..n : O[k] \in Byte
          BY <3>2
        <5>3. n \in Int /\ n <= Len(O) /\ n >= 0
          BY <3>2
        <5>4. /\ SubSeq(O, 1, n) \in Seq(Byte)
              /\ Len(SubSeq(O, 1, n)) = IF 1 <= n THEN n - 1 + 1 ELSE 0
          BY <5>2, <5>3, SubSeqProperties
        <5>5. QED
          BY <5>1, <5>3, <5>4
      <4>4. QED
        BY <3>3, <4>1, <4>2, <4>3, Zenon DEF Carried, O
    <3> HIDE DEF raw
    <3>5. Len(raw) <= HeaderSize + MaxChunkData
      BY <3>2, <3>4, ConstantTypes DEF HeaderSize
    <3>6. \A b \in DOMAIN raw : raw[b] \in Byte
      BY <3>4
    <3>7. QED
      BY <3>5, <3>6, Zenon DEF raw
  <2>3. Cardinality(damage) <= MaxDamage /\ delivered \subseteq DOMAIN packets
    BY <1>1, Zenon DEF IInv, MeshInv
  <2>4. ASSUME NEW m \in DOMAIN buffers
        PROVE  m \in Ids /\ DOMAIN buffers[m].parts \subseteq 0..(buffers[m].total - 1)
    <3> DEFINE b == buffers[m]
    <3>1. m = id /\ Partial(b)
      BY <1>1, Zenon DEF IInv, BuffersInv
    <3> HIDE DEF b
    <3>2. b = [total |-> Count, parts |-> b.parts] /\ DOMAIN b.parts \subseteq 0..(Count - 1)
      BY <3>1, Zenon DEF Partial
    <3>3. b.total = Count
      BY <3>2
    <3>4. QED
      BY <2>1, <3>1, <3>2, <3>3, Zenon DEF b
  <2>5. QED
    BY <2>1, <2>2, <2>3, <2>4, Zenon DEF TypeOK
<1>2. QED
  BY <1>1, Inductive, PTL

(* Unless a length byte was damaged, what a handler is given is the        *)
(* message that was sent: what unpack_message, the reassembler and the     *)
(* decoders let through of any packets damaged, cut, repeated or out of    *)
(* order.                                                                  *)
THEOREM OnlyTheMessage == Spec => []ReceivedAsSent
<1>1. ASSUME IInv PROVE ReceivedAsSent
  BY <1>1, Zenon DEF IInv, ReceivedInv, LengthIntact, ReceivedAsSent
<1>2. QED
  BY <1>1, Inductive, PTL

(* Every message whose bytes fit is sent, and is received whole once each  *)
(* of its packets has been delivered undamaged.                            *)
THEOREM WholeMessage == Spec => []FittingArrives
<1>1. ASSUME IInv PROVE FittingArrives
  <2>1. message \in Messages /\ IsMessage(message)
    BY <1>1, ConstantTypes, Zenon DEF IInv, StatusInv
  <2>2. Fits(message) => status # "refused"
    BY <1>1, <2>1, FittingSendable, Zenon DEF IInv, StatusInv
  <2>3. ASSUME status = "sent", damage = {}, delivered = DOMAIN packets,
               message \notin received
        PROVE  FALSE
    <3>1. DOMAIN packets = 1..Count
      BY <1>1, <2>3, Zenon DEF IInv, StatusInv
    <3>2. Count \in Nat \ {0}
      BY <2>1, PayloadsFacts, Zenon DEF PiecesOf, Count
    <3>3. ASSUME NEW i \in 1..Count
          PROVE  id \in DOMAIN buffers /\ i - 1 \in DOMAIN buffers[id].parts
      BY <1>1, <2>3, <3>1, Zenon DEF IInv, ArrivedInv, Arrived
    <3>4. id \in DOMAIN buffers
      <4>1. 1 \in 1..Count
        BY <3>2
      <4>2. QED
        BY <3>3, <4>1, Zenon
    <3> DEFINE P == DOMAIN buffers[id].parts
    <3>5. P \subseteq 0..(Count - 1) /\ P # 0..(Count - 1)
      BY <1>1, <3>4, Zenon DEF IInv, BuffersInv, Partial
    <3>6. ASSUME NEW n \in 0..(Count - 1) PROVE n \in P
      <4>1. n + 1 \in 1..Count /\ (n + 1) - 1 = n
        BY <3>2
      <4>2. (n + 1) - 1 \in P
        BY <3>3, <4>1, Zenon
      <4>3. QED
        BY <4>1, <4>2, Zenon
    <3>7. QED
      BY <3>5, <3>6, Zenon
  <2>4. QED
    BY <2>2, <2>3, Zenon DEF FittingArrives
<1>2. QED
  BY <1>1, Inductive, PTL

=============================================================================
