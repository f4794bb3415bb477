---------------------------- MODULE Lockout_proofs ----------------------------
(***************************************************************************)
(* Theorems of Lockout: three for any number of concurrent attempts, the   *)
(* bound on the failures they store among them; and that attempts that run *)
(* one at a time keep LockoutPolicy.  Any update may be rolled back.       *)
(***************************************************************************)
EXTENDS LockoutSerial, FiniteSetTheorems, WellFoundedInduction, TLAPS

LEMMA NextAttemptsInRange ==
  ASSUME TypeOK, NEW p \in Slot
  PROVE  /\ NextAttempts(p) \in 0..CounterCap
         /\ NextAttempts(p) >= MaxAttempts <=> attempt[p].seen + 1 >= MaxAttempts
         /\ NextLock(p) \in {0, LockFor}
         /\ NextLock(p) > 0 <=> NextAttempts(p) >= MaxAttempts
<1>1. attempt[p] \in Attempt
  BY DEF TypeOK
<1>2. attempt[p].seen \in 0..CounterCap
  BY <1>1 DEF Attempt
<1> QED
  BY <1>2, LockoutAssumption DEF NextAttempts, NextLock, AtMost

LEMMA IdleIsAnAttempt == Idle \in Attempt /\ Idle.pc = "idle"
  BY LockoutAssumption DEF Idle, Attempt

LEMMA TypeStep == TypeOK /\ [Next]_vars => TypeOK'
<1> SUFFICES ASSUME TypeOK, [Next]_vars PROVE TypeOK'
  OBVIOUS
<1>1. ASSUME NEW p \in Slot, NEW right \in BOOLEAN, Begin(p, right)
      PROVE  TypeOK'
  <2>1. [pc |-> "compare", seen |-> failed, right |-> right] \in Attempt
    BY DEF TypeOK, Attempt
  <2> QED
    BY <1>1, <2>1 DEF Begin, stored, TypeOK
<1>2. ASSUME NEW p \in Slot, Fail(p)
      PROVE  TypeOK'
  <2>1. failed' \in 0..CounterCap /\ lockLeft' \in 0..LockFor
    BY <1>2, NextAttemptsInRange, LockoutAssumption DEF Fail, stored, TypeOK
  <2>2. counted' \in 0..GuessCap
    BY <1>2, LockoutAssumption DEF Fail, stored, TypeOK, AtMost
  <2>3. attempt' \in [Slot -> Attempt]
    BY <1>2, IdleIsAnAttempt DEF Fail, TypeOK
  <2> QED
    BY <2>1, <2>2, <2>3 DEF TypeOK
<1>3. ASSUME NEW p \in Slot, Succeed(p)
      PROVE  TypeOK'
  BY <1>3, IdleIsAnAttempt, LockoutAssumption DEF Succeed, stored, TypeOK
<1>4. ASSUME NEW p \in Slot, Abort(p)
      PROVE  TypeOK'
  BY <1>4, IdleIsAnAttempt DEF Abort, stored, TypeOK
<1>5. CASE Tick
  BY <1>5, LockoutAssumption DEF Tick, TypeOK
<1>6. CASE UNCHANGED vars
  BY <1>6 DEF vars, TypeOK
<1> QED
  BY <1>1, <1>2, <1>3, <1>4, <1>5, <1>6 DEF Next

\* Type correctness, for any number of concurrent attempts.
THEOREM TypeCorrect == Spec => []TypeOK
<1>1. Init => TypeOK
  BY IdleIsAnAttempt, LockoutAssumption DEF Init, TypeOK
<1> QED
  BY <1>1, TypeStep, PTL DEF Spec

\* Whatever attempts interleave, an account is locked only with a counter that
\* reached MAX_ATTEMPTS.
THEOREM LockIsWarranted == Spec => []LockHasItsCount
<1>1. Init => LockHasItsCount
  BY DEF Init, LockHasItsCount
<1>2. TypeOK /\ LockHasItsCount /\ [Next]_vars => LockHasItsCount'
  <2> SUFFICES ASSUME TypeOK, LockHasItsCount, [Next]_vars
               PROVE  LockHasItsCount'
    OBVIOUS
  <2>1. ASSUME NEW p \in Slot, Fail(p)
        PROVE  LockHasItsCount'
    BY <2>1, NextAttemptsInRange DEF Fail, stored, LockHasItsCount
  <2>2. CASE Tick
    BY <2>2 DEF Tick, LockHasItsCount, TypeOK
  <2>3. ASSUME NEW p \in Slot, Succeed(p)
        PROVE  LockHasItsCount'
    BY <2>3 DEF Succeed, stored, LockHasItsCount
  <2>4. CASE UNCHANGED <<failed, lockLeft>>
    BY <2>4 DEF LockHasItsCount
  <2> QED
    BY <2>1, <2>2, <2>3, <2>4 DEF Next, Begin, Abort, stored, vars
<1> QED
  BY <1>1, <1>2, TypeCorrect, PTL DEF Spec

-----------------------------------------------------------------------------
\* How many failures concurrent attempts store.

\* Induction over the naturals, for a set: they are well-founded.
LEMMA SetInduction ==
  ASSUME NEW S, 0 \in S, \A n \in Nat : n \in S => n + 1 \in S
  PROVE  Nat \subseteq S
<1> DEFINE T == Nat \ S
<1>1. SUFFICES ASSUME T # {} PROVE FALSE
  OBVIOUS
<1>2. PICK x \in T : \A y \in T : ~ (<<y, x>> \in OpToRel(<, Nat))
  BY <1>1, NatLessThanWellFounded, WFMin
<1>3. \A y \in T : ~(y < x)
  BY <1>2 DEF OpToRel
<1>4. x # 0
  OBVIOUS
<1>5. x - 1 \in Nat /\ x - 1 < x /\ x - 1 + 1 = x
  BY <1>4
<1> QED BY <1>3, <1>5

\* The values of the factorial up to N.
Table(f, N) == /\ f \in [0..N -> Nat \ {0}]
               /\ f[0] = 1
               /\ \A n \in 1..N : f[n] = n * f[n - 1]

\* The product of positive numbers is positive.
LEMMA ProductIsPositive == \A a, b \in Nat \ {0} : a * b \in Nat \ {0}
OBVIOUS

\* Each table is extended by one value.
LEMMA TablesExist == \A N \in Nat : \E f : Table(f, N)
<1> DEFINE S == {N \in Nat : \E f : Table(f, N)}
<1>1. 0 \in S
  <2>1. Table([n \in 0..0 |-> 1], 0)
    BY DEF Table
  <2> QED BY <2>1
<1>2. ASSUME NEW N \in Nat, N \in S PROVE N + 1 \in S
  <2>1. PICK f : Table(f, N)
    BY <1>2
  <2> DEFINE g == [n \in 0..(N + 1) |-> IF n = N + 1 THEN (N + 1) * f[N] ELSE f[n]]
  <2>2. (N + 1) * f[N] \in Nat \ {0}
    BY <2>1, ProductIsPositive DEF Table
  <2>3. Table(g, N + 1)
    <3>1. g \in [0..(N + 1) -> Nat \ {0}]
      BY <2>1, <2>2 DEF Table
    <3>2. ASSUME NEW n \in 1..(N + 1) PROVE g[n] = n * g[n - 1]
      <4>1. n - 1 \in 0..N /\ g[n - 1] = f[n - 1]
        OBVIOUS
      <4>2. CASE n = N + 1
        <5>1. n - 1 = N
          BY <4>2
        <5>2. g[n] = (N + 1) * f[N]
          BY <4>2
        <5> QED BY <4>1, <4>2, <5>1, <5>2
      <4>3. CASE n # N + 1
        <5>1. n \in 1..N /\ g[n] = f[n]
          BY <4>3
        <5> HIDE DEF g
        <5> QED BY <2>1, <4>1, <5>1 DEF Table
      <4> QED BY <4>2, <4>3
    <3>3. g[0] = 1
      BY <2>1 DEF Table
    <3> QED BY <3>1, <3>2, <3>3 DEF Table
  <2> QED BY <2>3
<1>3. Nat \subseteq S
  <2> HIDE DEF S
  <2> QED BY <1>1, <1>2, SetInduction
<1> QED BY <1>3

\* A value of the factorial does not depend on the table it is read from.
LEMMA TablesAgree ==
  ASSUME NEW M \in Nat, NEW N \in Nat, M <= N, NEW f, Table(f, M), NEW g, Table(g, N)
  PROVE  \A n \in 0..M : f[n] = g[n]
<1> DEFINE S == {n \in Nat : n <= M => f[n] = g[n]}
<1>1. 0 \in S
  BY DEF Table
<1>2. ASSUME NEW n \in Nat, n \in S PROVE n + 1 \in S
  <2> SUFFICES ASSUME n + 1 <= M PROVE f[n + 1] = g[n + 1]
    OBVIOUS
  <2>1. f[n] = g[n]
    BY <1>2
  <2>2. n + 1 \in 1..M /\ n + 1 \in 1..N /\ (n + 1) - 1 = n
    OBVIOUS
  <2>3. f[n + 1] = (n + 1) * f[(n + 1) - 1] /\ g[n + 1] = (n + 1) * g[(n + 1) - 1]
    BY <2>2 DEF Table
  <2> QED BY <2>1, <2>2, <2>3
<1>3. Nat \subseteq S
  <2> HIDE DEF S
  <2> QED BY <1>1, <1>2, SetInduction
<1> QED BY <1>3

\* The recursive definition has the value it describes.
LEMMA Factorial ==
  /\ factorial \in [Nat -> Nat \ {0}]
  /\ factorial[0] = 1
  /\ \A n \in Nat \ {0} : factorial[n] = n * factorial[n - 1]
<1> DEFINE T(N) == CHOOSE f : Table(f, N)
           F == [N \in Nat |-> T(N)[N]]
<1>1. \A N \in Nat : Table(T(N), N)
  BY TablesExist
<1> HIDE DEF T
<1>2. F[0] = 1 /\ F \in [Nat -> Nat \ {0}]
  BY <1>1 DEF Table
<1>3. ASSUME NEW n \in Nat \ {0} PROVE F[n] = n * F[n - 1]
  <2>1. n - 1 \in Nat /\ n \in 1..n /\ n - 1 \in 0..(n - 1) /\ n - 1 <= n /\ n \in Nat
    OBVIOUS
  <2>2. T(n)[n] = n * T(n)[n - 1]
    BY <1>1, <2>1 DEF Table
  <2>3. Table(T(n - 1), n - 1) /\ Table(T(n), n)
    BY <1>1, <2>1
  <2>4. \A i \in 0..(n - 1) : T(n - 1)[i] = T(n)[i]
    BY <2>1, <2>3, TablesAgree
  <2>5. T(n - 1)[n - 1] = T(n)[n - 1]
    BY <2>1, <2>4
  <2>6. F[n] = T(n)[n] /\ F[n - 1] = T(n - 1)[n - 1]
    BY <2>1
  <2> QED BY <2>2, <2>5, <2>6
<1> HIDE DEF F
<1>4. F = [n \in Nat |-> IF n = 0 THEN 1 ELSE n * F[n - 1]]
  BY <1>2, <1>3
<1>5. \E f : f = [n \in Nat |-> IF n = 0 THEN 1 ELSE n * f[n - 1]]
  BY <1>4
<1>6. factorial = [n \in Nat |-> IF n = 0 THEN 1 ELSE n * factorial[n - 1]]
  BY <1>5 DEF factorial
<1>7. factorial[0] = 1 /\ \A n \in Nat \ {0} : factorial[n] = n * factorial[n - 1]
  BY <1>6
<1>8. factorial \in [Nat -> Nat \ {0}]
  <2> DEFINE S == {n \in Nat : factorial[n] \in Nat \ {0}}
  <2>1. 0 \in S
    BY <1>7
  <2>2. ASSUME NEW n \in Nat, n \in S PROVE n + 1 \in S
    <3>1. factorial[n + 1] = (n + 1) * factorial[(n + 1) - 1] /\ (n + 1) - 1 = n
      BY <1>7
    <3>2. n + 1 \in Nat \ {0} /\ factorial[n] \in Nat \ {0}
      BY <2>2
    <3>3. factorial[n + 1] \in Nat \ {0}
      BY <3>1, <3>2, ProductIsPositive
    <3> QED BY <3>3
  <2>3. Nat \subseteq S
    <3> HIDE DEF S
    <3> QED BY <2>1, <2>2, SetInduction
  <2>4. \A n \in Nat : factorial[n] \in Nat \ {0}
    BY <2>3
  <2>5. factorial = [n \in Nat |-> factorial[n]]
    BY <1>6
  <2> QED BY <2>4, <2>5
<1> QED BY <1>7, <1>8

\* The monotone functions from 1..m to 0..n.
Staircase(m, n) == {a \in [1..m -> 0..n] : \A i, j \in 1..m : i <= j => a[i] <= a[j]}

\* Without steps there is one staircase.
LEMMA NoSteps == \A n \in Nat : IsFiniteSet(Staircase(0, n)) /\ Cardinality(Staircase(0, n)) = 1
<1> SUFFICES ASSUME NEW n \in Nat
             PROVE  IsFiniteSet(Staircase(0, n)) /\ Cardinality(Staircase(0, n)) = 1
  OBVIOUS
<1> DEFINE e == [i \in 1..0 |-> 0]
<1>1. \A a \in [1..0 -> 0..n] : a = e
  OBVIOUS
<1>2. e \in Staircase(0, n)
  BY DEF Staircase
<1>3. Staircase(0, n) = {e}
  BY <1>1, <1>2 DEF Staircase
<1> QED BY <1>3, FS_Singleton

\* Without height there is one staircase.
LEMMA NoHeight == \A m \in Nat : IsFiniteSet(Staircase(m, 0)) /\ Cardinality(Staircase(m, 0)) = 1
<1> SUFFICES ASSUME NEW m \in Nat
             PROVE  IsFiniteSet(Staircase(m, 0)) /\ Cardinality(Staircase(m, 0)) = 1
  OBVIOUS
<1> DEFINE e == [i \in 1..m |-> 0]
<1>1. \A a \in [1..m -> 0..0] : a = e
  OBVIOUS
<1>2. e \in Staircase(m, 0)
  BY DEF Staircase
<1>3. Staircase(m, 0) = {e}
  BY <1>1, <1>2 DEF Staircase
<1> QED BY <1>3, FS_Singleton

\* Those that end at the top are the ones a step shorter, and the others are
\* the ones a height lower.
LEMMA Pascal ==
  ASSUME NEW m \in Nat \ {0}, NEW n \in Nat \ {0},
         IsFiniteSet(Staircase(m - 1, n)), IsFiniteSet(Staircase(m, n - 1))
  PROVE  /\ IsFiniteSet(Staircase(m, n))
         /\ Cardinality(Staircase(m, n))
              = Cardinality(Staircase(m - 1, n)) + Cardinality(Staircase(m, n - 1))
<1> DEFINE Top == {a \in Staircase(m, n) : a[m] = n}
           Cut(a) == [i \in 1..(m - 1) |-> a[i]]
           cut == [a \in Top |-> Cut(a)]
<1>1. cut \in Injection(Top, Staircase(m - 1, n))
  <2>1. ASSUME NEW a \in Top PROVE cut[a] \in Staircase(m - 1, n)
    BY DEF Staircase
  <2>2. ASSUME NEW a \in Top, NEW b \in Top, cut[a] = cut[b] PROVE a = b
    <3>1. \A i \in 1..(m - 1) : cut[a][i] = a[i] /\ cut[b][i] = b[i]
      OBVIOUS
    <3>2. \A i \in 1..m : a[i] = b[i]
      BY <2>2, <3>1
    <3> QED BY <3>2 DEF Staircase
  <2>3. cut \in [Top -> Staircase(m - 1, n)]
    BY <2>1
  <2> HIDE DEF cut, Top
  <2> QED BY <2>2, <2>3 DEF Injection, IsInjective
<1>2. cut \in Surjection(Top, Staircase(m - 1, n))
  <2>1. ASSUME NEW c \in Staircase(m - 1, n) PROVE \E a \in Top : cut[a] = c
    <3> DEFINE a == [i \in 1..m |-> IF i = m THEN n ELSE c[i]]
    <3>1. a \in [1..m -> 0..n] /\ a[m] = n
      BY DEF Staircase
    <3>2. \A i, j \in 1..m : i <= j => a[i] <= a[j]
      BY DEF Staircase
    <3>3. a \in Top
      BY <3>1, <3>2 DEF Staircase
    <3>4. c \in [1..(m - 1) -> 0..n]
      BY DEF Staircase
    <3>5. \A i \in 1..(m - 1) : a[i] = c[i]
      OBVIOUS
    <3> HIDE DEF a
    <3>6. Cut(a) = c
      BY <3>4, <3>5
    <3> QED BY <3>3, <3>6
  <2> QED BY <2>1, <1>1 DEF Surjection, Injection
<1>3. IsFiniteSet(Top) /\ Cardinality(Top) = Cardinality(Staircase(m - 1, n))
  BY <1>1, <1>2, FS_Injection
<1>4. Staircase(m, n) = Top \cup Staircase(m, n - 1)
  <2>1. ASSUME NEW a \in Staircase(m, n), a[m] # n PROVE a \in Staircase(m, n - 1)
    <3>1. a \in [1..m -> 0..n] /\ \A i \in 1..m : a[i] <= a[m]
      BY DEF Staircase
    <3>2. \A i \in 1..m : a[i] \in 0..(n - 1)
      BY <3>1, <2>1
    <3> QED BY <3>1, <3>2 DEF Staircase
  <2>2. ASSUME NEW a \in Staircase(m, n - 1) PROVE a \in Staircase(m, n)
    <3>1. a \in [1..m -> 0..(n - 1)]
      BY DEF Staircase
    <3>2. a \in [1..m -> 0..n]
      BY <3>1
    <3> QED BY <3>2 DEF Staircase
  <2> QED BY <2>1, <2>2
<1>5. Top \cap Staircase(m, n - 1) = {}
  BY DEF Staircase
<1> HIDE DEF Top
<1>6. IsFiniteSet(Top \cup Staircase(m, n - 1))
      /\ Cardinality(Top \cup Staircase(m, n - 1))
           = Cardinality(Top) + Cardinality(Staircase(m, n - 1)) - Cardinality({})
  BY <1>3, <1>5, FS_Union
<1>7. Cardinality({}) = 0 /\ Cardinality(Top) \in Nat /\ Cardinality(Staircase(m, n - 1)) \in Nat
  BY <1>3, FS_EmptySet, FS_CardinalityType
<1> QED BY <1>3, <1>4, <1>6, <1>7

\* The arithmetic of the induction step.
LEMMA Times ==
  \A k, l, x, y, p, q, f \in Nat :
    x * (p * (l * q)) = f /\ y * ((k * p) * q) = f
      => (x + y) * ((k * p) * (l * q)) = (k + l) * f
<1> SUFFICES ASSUME NEW k \in Nat, NEW l \in Nat, NEW x \in Nat, NEW y \in Nat, NEW p \in Nat,
                    NEW q \in Nat, NEW f \in Nat,
                    x * (p * (l * q)) = f, y * ((k * p) * q) = f
             PROVE  (x + y) * ((k * p) * (l * q)) = (k + l) * f
  OBVIOUS
<1>1. (x + y) * ((k * p) * (l * q)) = k * (x * (p * (l * q))) + l * (y * ((k * p) * q))
  OBVIOUS
<1>2. k * f + l * f = (k + l) * f
  OBVIOUS
<1> QED BY <1>1, <1>2

\* Their number, without a quotient.
Counted(m, n) ==
  /\ IsFiniteSet(Staircase(m, n))
  /\ Cardinality(Staircase(m, n)) * (factorial[m] * factorial[n]) = factorial[m + n]

\* By induction on m + n.
LEMMA CountingStairs == \A m, n \in Nat : Counted(m, n)
<1> DEFINE S == {s \in Nat : \A m, n \in Nat : m + n = s => Counted(m, n)}
<1>0. \A m, n \in Nat : m = 0 \/ n = 0 => Counted(m, n)
  <2> SUFFICES ASSUME NEW m \in Nat, NEW n \in Nat, m = 0 \/ n = 0
               PROVE  Counted(m, n)
    OBVIOUS
  <2>1. factorial[0] = 1 /\ factorial[m] \in Nat /\ factorial[n] \in Nat
    BY Factorial
  <2>2. IsFiniteSet(Staircase(m, n)) /\ Cardinality(Staircase(m, n)) = 1
    BY NoSteps, NoHeight
  <2>3. 1 * (factorial[m] * factorial[n]) = factorial[m + n]
    <3>1. CASE m = 0
      BY <3>1, <2>1
    <3>2. CASE n = 0
      BY <3>2, <2>1
    <3> QED BY <3>1, <3>2
  <2> QED BY <2>2, <2>3 DEF Counted
<1>1. 0 \in S
  <2>1. \A m, n \in Nat : m + n = 0 => m = 0
    OBVIOUS
  <2> QED BY <1>0, <2>1
<1>2. ASSUME NEW s \in Nat, s \in S PROVE s + 1 \in S
  <2> SUFFICES ASSUME NEW m \in Nat, NEW n \in Nat, m + n = s + 1, m # 0, n # 0
               PROVE  Counted(m, n)
    BY <1>0
  <2>1. m - 1 \in Nat /\ n - 1 \in Nat /\ (m - 1) + n = s /\ m + (n - 1) = s
    OBVIOUS
  <2>2. Counted(m - 1, n) /\ Counted(m, n - 1)
    BY <1>2, <2>1
  <2> DEFINE x == Cardinality(Staircase(m - 1, n))
             y == Cardinality(Staircase(m, n - 1))
  <2>3. /\ IsFiniteSet(Staircase(m, n)) /\ Cardinality(Staircase(m, n)) = x + y
        /\ x \in Nat /\ y \in Nat
    BY <2>2, Pascal, FS_CardinalityType DEF Counted
  <2>4. /\ factorial[m] = m * factorial[m - 1] /\ factorial[n] = n * factorial[n - 1]
        /\ factorial[m - 1] \in Nat /\ factorial[n - 1] \in Nat
        /\ factorial[s] \in Nat
        /\ factorial[m + n] = (m + n) * factorial[s]
    <3>1. s + 1 \in Nat \ {0} /\ (s + 1) - 1 = s
      OBVIOUS
    <3> QED BY <2>1, <3>1, Factorial
  <2>5. /\ x * (factorial[m - 1] * factorial[n]) = factorial[s]
        /\ y * (factorial[m] * factorial[n - 1]) = factorial[s]
    BY <2>1, <2>2 DEF Counted
  <2> HIDE DEF x, y
  <2>6. (x + y) * (factorial[m] * factorial[n]) = (m + n) * factorial[s]
    BY <2>3, <2>4, <2>5, Times
  <2> QED BY <2>3, <2>4, <2>6 DEF Counted
<1>3. Nat \subseteq S
  <2> HIDE DEF S
  <2> QED BY <1>1, <1>2, SetInduction
<1> QED
  <2> SUFFICES ASSUME NEW m \in Nat, NEW n \in Nat PROVE Counted(m, n)
    OBVIOUS
  <2>1. m + n \in Nat
    OBVIOUS
  <2>2. \A s \in S : \A i, j \in Nat : i + j = s => Counted(i, j)
    OBVIOUS
  <2>3. m + n \in S
    <3> HIDE DEF S
    <3> QED BY <1>3, <2>1
  <2> HIDE DEF S
  <2> QED BY <2>2, <2>3

\* A product divided by one of its factors.
LEMMA QuotientExact == \A x \in Nat, y \in Nat \ {0} : (x * y) \div y = x
OBVIOUS

\* The binomial coefficient counts the staircases.
LEMMA StairsChoose ==
  ASSUME NEW m \in Nat, NEW n \in Nat
  PROVE  /\ IsFiniteSet(Staircase(m, n))
         /\ Cardinality(Staircase(m, n)) = choose(m + n, n)
<1>1. Counted(m, n)
  BY CountingStairs
<1>2. (m + n) - n = m /\ Cardinality(Staircase(m, n)) \in Nat
  BY <1>1, FS_CardinalityType DEF Counted
<1>3. factorial[m] * factorial[n] = factorial[n] * factorial[m]
      /\ factorial[n] * factorial[m] \in Nat \ {0}
  BY Factorial, ProductIsPositive
<1> QED BY <1>1, <1>2, <1>3, QuotientExact DEF Counted, choose

\* How many failures from a counter of s are needed until the account locks.
Left(s) == IF s < MaxAttempts THEN MaxAttempts - s ELSE 1

\* How many are needed from the stored row; a locked account takes none.
Open == IF lockLeft > 0 THEN 0 ELSE Left(failed)

\* The highest that slot p can put the stored count down to, now or by
\* beginning an attempt: what it read, or what is stored.
Reach(p) == IF attempt[p].pc = "compare" /\ Left(attempt[p].seen) > Open
            THEN Left(attempt[p].seen) ELSE Open

\* The slots that can no longer fail at height j before the count starts anew.
Passed(j) == {p \in Slot : Reach(p) < j}

Staircases == Staircase(MaxAttempts, Cardinality(Slot))

\* Their numbers: what a stored failure uses up.
Progress == [j \in 1..MaxAttempts |-> Cardinality(Passed(j))]

\* Lexicographic order, from the last step down.
Before(a, b) == \E j \in 1..MaxAttempts :
                  a[j] < b[j] /\ \A i \in 1..MaxAttempts : i > j => a[i] <= b[i]

Below(b) == {a \in Staircases : Before(a, b)}

\* The inductive invariant: every stored failure took Progress further along its
\* order.
CountInv == counted <= Cardinality(Below(Progress))

\* The staircases Progress ranges over.
LEMMA StaircasesCounted ==
  /\ IsFiniteSet(Staircases)
  /\ Cardinality(Staircases) = choose(MaxAttempts + Cardinality(Slot), Cardinality(Slot))
  /\ Staircases \subseteq [1..MaxAttempts -> Nat]
<1>1. MaxAttempts \in Nat /\ Cardinality(Slot) \in Nat
  BY LockoutAssumption, FS_CardinalityType
<1>2. Staircases \subseteq [1..MaxAttempts -> Nat]
  BY <1>1 DEF Staircases, Staircase
<1> QED BY <1>1, <1>2, StairsChoose DEF Staircases

\* A staircase is not below itself.
LEMMA BelowIsFinite ==
  ASSUME NEW a \in Staircases
  PROVE  /\ IsFiniteSet(Below(a)) /\ Cardinality(Below(a)) \in Nat
         /\ a \notin Below(a)
         /\ Cardinality(Below(a)) < Cardinality(Staircases)
<1>1. a \notin Below(a)
  <2>1. \A j \in 1..MaxAttempts : a[j] \in Nat
    BY StaircasesCounted
  <2>2. \A j \in 1..MaxAttempts : ~(a[j] < a[j])
    BY <2>1
  <2> QED BY <2>2 DEF Below, Before
<1>2. Below(a) \subseteq Staircases /\ Below(a) # Staircases
  BY <1>1 DEF Below
<1> QED BY <1>1, <1>2, StaircasesCounted, FS_Subset, FS_CardinalityType

\* Raising steps loses none of the staircases below.
LEMMA BelowGrows ==
  ASSUME NEW a \in Staircases, NEW b \in Staircases, \A j \in 1..MaxAttempts : a[j] <= b[j]
  PROVE  Cardinality(Below(a)) <= Cardinality(Below(b))
<1>1. ASSUME NEW c \in Staircases, Before(c, a) PROVE Before(c, b)
  <2>1. PICK j \in 1..MaxAttempts : c[j] < a[j] /\ \A i \in 1..MaxAttempts : i > j => c[i] <= a[i]
    BY <1>1 DEF Before
  <2>2. \A i \in 1..MaxAttempts : a[i] \in Nat /\ b[i] \in Nat /\ c[i] \in Nat
    BY StaircasesCounted
  <2>3. c[j] < b[j] /\ \A i \in 1..MaxAttempts : i > j => c[i] <= b[i]
    BY <2>1, <2>2
  <2> QED BY <2>3 DEF Before
<1>2. Below(a) \subseteq Below(b)
  BY <1>1 DEF Below
<1> QED BY <1>2, BelowIsFinite, FS_Subset

\* Moving on in the order gains one at least.
LEMMA BelowAdvances ==
  ASSUME NEW a \in Staircases, NEW b \in Staircases, Before(a, b)
  PROVE  Cardinality(Below(a)) + 1 <= Cardinality(Below(b))
<1>1. ASSUME NEW c \in Staircases, Before(c, a) PROVE Before(c, b)
  <2>1. PICK j \in 1..MaxAttempts : c[j] < a[j] /\ \A i \in 1..MaxAttempts : i > j => c[i] <= a[i]
    BY <1>1 DEF Before
  <2>2. PICK k \in 1..MaxAttempts : a[k] < b[k] /\ \A i \in 1..MaxAttempts : i > k => a[i] <= b[i]
    BY DEF Before
  <2>3. \A i \in 1..MaxAttempts : a[i] \in Nat /\ b[i] \in Nat /\ c[i] \in Nat
    BY StaircasesCounted
  <2>4. CASE j > k
    <3>1. c[j] < b[j] /\ \A i \in 1..MaxAttempts : i > j => c[i] <= b[i]
      BY <2>1, <2>2, <2>3, <2>4
    <3> QED BY <3>1 DEF Before
  <2>5. CASE ~(j > k)
    <3>1. c[k] < b[k] /\ \A i \in 1..MaxAttempts : i > k => c[i] <= b[i]
      BY <2>1, <2>2, <2>3, <2>5
    <3> QED BY <3>1 DEF Before
  <2> QED BY <2>4, <2>5
<1>2. Below(a) \cup {a} \subseteq Below(b)
  BY <1>1 DEF Below
<1>3. IsFiniteSet(Below(a)) /\ a \notin Below(a) /\ IsFiniteSet(Below(b))
  BY BelowIsFinite
<1>4. Cardinality(Below(a) \cup {a}) = Cardinality(Below(a)) + 1
  BY <1>3, FS_AddElement
<1> QED BY <1>2, <1>3, <1>4, FS_Subset

\* Heights are at most MAX_ATTEMPTS.
InRange == /\ Open \in 0..MaxAttempts
           /\ \A p \in Slot : /\ Reach(p) \in 0..MaxAttempts
                              /\ Left(attempt[p].seen) \in 1..MaxAttempts

\* What was read and what is stored are counters.
LEMMA ReachInRange == TypeOK => InRange
<1> SUFFICES ASSUME TypeOK PROVE InRange
  OBVIOUS
<1>1. \A s \in 0..CounterCap : Left(s) \in 1..MaxAttempts
  BY LockoutAssumption DEF Left
<1>2. Open \in 0..MaxAttempts
  BY <1>1, LockoutAssumption DEF Open, TypeOK
<1>3. ASSUME NEW p \in Slot PROVE attempt[p].seen \in 0..CounterCap
  BY DEF TypeOK, Attempt
<1> QED BY <1>1, <1>2, <1>3 DEF InRange, Reach

\* Sets of slots are finite.
LEMMA PassedIsFinite ==
  ASSUME NEW S, S \subseteq Slot
  PROVE  IsFiniteSet(S) /\ Cardinality(S) \in 0..Cardinality(Slot)
BY LockoutAssumption, FS_Subset, FS_CardinalityType

\* A slot past a height is past every greater one.
LEMMA ProgressIsAStaircase == TypeOK => Progress \in Staircases
<1> SUFFICES ASSUME TypeOK PROVE Progress \in Staircases
  OBVIOUS
<1>1. \A j \in 1..MaxAttempts : Passed(j) \subseteq Slot
  BY DEF Passed
<1>2. Progress \in [1..MaxAttempts -> 0..Cardinality(Slot)]
  BY <1>1, PassedIsFinite DEF Progress
<1>3. ASSUME NEW i \in 1..MaxAttempts, NEW j \in 1..MaxAttempts, i <= j
      PROVE  Progress[i] <= Progress[j]
  <2>1. \A p \in Slot : Reach(p) < i => Reach(p) < j
    BY <1>3, ReachInRange DEF InRange
  <2>2. Passed(i) \subseteq Passed(j)
    BY <2>1 DEF Passed
  <2> QED BY <1>1, <2>2, PassedIsFinite, FS_Subset DEF Progress
<1> QED BY <1>2, <1>3 DEF Staircases, Staircase

\* A stored failure takes its own slot past the height it read and puts no other slot
\* back above it; a begin, an abort or a tick lets no slot reach higher.
LEMMA CountStep ==
  ASSUME TypeOK, TypeOK', CountInv, [Next]_vars
  PROVE  CountInv'
<1>0. Progress \in Staircases /\ Progress' \in Staircases
  <2>1. TypeOK' => (Progress \in Staircases)'
    BY ProgressIsAStaircase, PTL
  <2> QED BY <2>1, ProgressIsAStaircase DEF Staircases
<1>01. \A p \in Slot : Reach(p) \in 0..MaxAttempts /\ Reach(p)' \in 0..MaxAttempts
  <2>1. TypeOK' => InRange'
    BY ReachInRange, PTL
  <2> QED BY <2>1, ReachInRange DEF InRange
<1>02. counted \in Nat /\ counted' \in Nat
  BY LockoutAssumption DEF TypeOK
<1>03. Cardinality(Below(Progress)) \in Nat /\ Cardinality(Below(Progress')) \in Nat
  BY <1>0, BelowIsFinite
<1>04. CountInv' <=> counted' <= Cardinality(Below(Progress'))
  BY DEF CountInv, Below
<1>1. ASSUME \A p \in Slot : Reach(p)' <= Reach(p), counted' <= counted
      PROVE  CountInv'
  <2>1. ASSUME NEW j \in 1..MaxAttempts PROVE Progress[j] <= Progress'[j]
    <3>1. Passed(j) \subseteq Passed(j)'
      BY <1>01, <1>1 DEF Passed
    <3>2. Passed(j)' \subseteq Slot
      BY DEF Passed
    <3> QED BY <3>1, <3>2, PassedIsFinite, FS_Subset DEF Progress
  <2>2. Cardinality(Below(Progress)) <= Cardinality(Below(Progress'))
    BY <1>0, <2>1, BelowGrows
  <2> QED BY <1>02, <1>03, <1>04, <1>1, <2>2 DEF CountInv
<1>2. ASSUME counted' = 0 PROVE CountInv'
  BY <1>02, <1>03, <1>04, <1>2
<1>3. ASSUME NEW q \in Slot, NEW right \in BOOLEAN, Begin(q, right) PROVE CountInv'
  <2>1. Open' = Open /\ counted' = counted
    BY <1>3 DEF Begin, stored, Open
  <2>2. Left(failed) = Open
    BY <1>3 DEF Begin, Open, TypeOK
  <2>3. attempt'[q] = [pc |-> "compare", seen |-> failed, right |-> right]
    BY <1>3 DEF Begin, TypeOK
  <2>4. Reach(q)' = Open
    BY <2>1, <2>2, <2>3 DEF Reach
  <2>5. Reach(q) = Open
    BY <1>3 DEF Begin, Reach
  <2>6. \A p \in Slot : p # q => attempt'[p] = attempt[p]
    BY <1>3 DEF Begin, TypeOK
  <2>7. \A p \in Slot : p # q => Reach(p)' = Reach(p)
    BY <2>1, <2>6 DEF Reach
  <2>8. \A p \in Slot : Reach(p)' <= Reach(p)
    BY <1>01, <2>4, <2>5, <2>7
  <2> QED BY <1>1, <1>02, <2>1, <2>8
<1>4. ASSUME NEW q \in Slot, attempt' = [attempt EXCEPT ![q] = Idle], UNCHANGED stored
      PROVE  CountInv'
  <2>1. Open' = Open /\ counted' = counted
    BY <1>4 DEF stored, Open
  <2>2. attempt'[q] = Idle /\ \A p \in Slot : p # q => attempt'[p] = attempt[p]
    BY <1>4 DEF TypeOK
  <2>3. Reach(q)' = Open
    BY <2>1, <2>2, IdleIsAnAttempt DEF Reach
  <2>4. Reach(q) >= Open
    BY ReachInRange DEF InRange, Reach
  <2>5. \A p \in Slot : p # q => Reach(p)' = Reach(p)
    BY <2>1, <2>2 DEF Reach
  <2>6. \A p \in Slot : Reach(p)' <= Reach(p)
    BY <1>01, <2>3, <2>4, <2>5
  <2> QED BY <1>1, <1>02, <2>1, <2>6
<1>5. ASSUME NEW q \in Slot, Succeed(q) PROVE CountInv'
  BY <1>2, <1>4, <1>5 DEF Succeed
<1>6. CASE Tick
  <2>1. CASE lockLeft = 1
    BY <1>2, <1>6, <2>1 DEF Tick
  <2>2. CASE lockLeft # 1
    <3>1. lockLeft' > 0 <=> lockLeft > 0
      BY <1>6, <2>2, LockoutAssumption DEF Tick, TypeOK
    <3>2. Open' = Open
      BY <1>6, <3>1 DEF Tick, Open
    <3>3. \A p \in Slot : Reach(p)' = Reach(p)
      BY <1>6, <3>2 DEF Tick, Reach
    <3>4. \A p \in Slot : Reach(p)' <= Reach(p)
      BY <1>01, <3>3
    <3>5. counted' <= counted
      BY <1>02, <1>6, <2>2 DEF Tick
    <3> QED BY <1>1, <3>4, <3>5
  <2> QED BY <2>1, <2>2
<1>7. ASSUME NEW q \in Slot, Fail(q), ~UNCHANGED stored PROVE CountInv'
  <2>0. attempt[q].seen \in 0..CounterCap
    BY DEF TypeOK, Attempt
  <2>1. PICK d \in 1..MaxAttempts : d = Left(attempt[q].seen)
    BY ReachInRange DEF InRange
  <2>2. Open' = d - 1
    BY <1>7, <2>0, <2>1, LockoutAssumption DEF Fail, Open, Left, NextLock, NextAttempts, AtMost
  <2>3. attempt'[q] = Idle /\ \A p \in Slot : p # q => attempt'[p] = attempt[p]
    BY <1>7 DEF Fail, TypeOK
  <2>4. Reach(q)' = d - 1
    BY <2>2, <2>3, IdleIsAnAttempt DEF Reach
  <2>5. Reach(q) >= d
    BY <1>7, <2>1, ReachInRange DEF InRange, Fail, Reach
  <2>6. \A p \in Slot : Reach(p)' <= d - 1 \/ Reach(p)' <= Reach(p)
    BY <1>01, <2>1, <2>2, <2>3, <2>4, ReachInRange DEF InRange, Reach
  <2>7. ASSUME NEW j \in 1..MaxAttempts, j >= d
        PROVE  /\ Passed(j) \subseteq Passed(j)'
               /\ IsFiniteSet(Passed(j)')
               /\ Progress[j] <= Progress'[j]
               /\ Progress[j] \in Nat /\ Progress'[j] \in Nat
    <3>1. Passed(j) \subseteq Passed(j)'
      BY <1>01, <2>1, <2>6, <2>7 DEF Passed
    <3>2. Passed(j)' \subseteq Slot
      BY DEF Passed
    <3> QED BY <1>0, <3>1, <3>2, PassedIsFinite, FS_Subset, StaircasesCounted DEF Progress
  <2>8. Progress[d] < Progress'[d]
    <3>1. q \notin Passed(d) /\ q \in Passed(d)'
      BY <1>01, <2>1, <2>4, <2>5 DEF Passed
    <3>2. Passed(d) \subseteq Passed(d)' /\ Passed(d) # Passed(d)' /\ IsFiniteSet(Passed(d)')
      BY <2>1, <2>7, <3>1
    <3>3. Cardinality(Passed(d)) < Cardinality(Passed(d)')
      BY <3>2, FS_Subset, FS_CardinalityType
    <3> QED BY <2>1, <3>3 DEF Progress
  <2>9. Before(Progress, Progress')
    BY <2>1, <2>7, <2>8 DEF Before
  <2>10. Cardinality(Below(Progress)) + 1 <= Cardinality(Below(Progress'))
    BY <1>0, <2>9, BelowAdvances
  <2>11. counted' <= counted + 1
    BY <1>02, <1>7, LockoutAssumption DEF Fail, AtMost
  <2> QED BY <1>02, <1>03, <1>04, <2>10, <2>11 DEF CountInv
<1>8. CASE UNCHANGED vars
  BY <1>8 DEF vars, CountInv, Below, Progress, Passed, Reach, Open
<1>9. ASSUME NEW q \in Slot, Fail(q), UNCHANGED stored PROVE CountInv'
  BY <1>4, <1>9 DEF Fail
<1>10. ASSUME NEW q \in Slot, Abort(q) PROVE CountInv'
  BY <1>4, <1>10 DEF Abort
<1> QED BY <1>3, <1>5, <1>6, <1>7, <1>8, <1>9, <1>10 DEF Next

\* However attempts interleave, for any number of them and any MAX_ATTEMPTS, the
\* failures stored between two resets of the counter are fewer than the binomial
\* coefficient.
THEOREM StoredFailuresBounded == Spec => []StoredFailuresAreBounded
<1>1. Init => CountInv
  <2> SUFFICES ASSUME Init PROVE CountInv
    OBVIOUS
  <2>1. TypeOK
    BY IdleIsAnAttempt, LockoutAssumption DEF Init, TypeOK
  <2> QED BY <2>1, ProgressIsAStaircase, BelowIsFinite DEF Init, CountInv
<1>2. TypeOK /\ TypeOK' /\ CountInv /\ [Next]_vars => CountInv'
  BY CountStep
<1>3. TypeOK /\ CountInv => StoredFailuresAreBounded
  <2> SUFFICES ASSUME TypeOK, CountInv PROVE StoredFailuresAreBounded
    OBVIOUS
  <2>1. /\ counted <= Cardinality(Below(Progress))
        /\ Cardinality(Below(Progress)) < Cardinality(Staircases)
        /\ counted \in Nat /\ Cardinality(Below(Progress)) \in Nat
    BY ProgressIsAStaircase, BelowIsFinite, LockoutAssumption DEF CountInv, TypeOK
  <2>2. Cardinality(Staircases) \in Nat
    BY StaircasesCounted, FS_CardinalityType
  <2>3. counted < Cardinality(Staircases)
    BY <2>1, <2>2
  <2> QED BY <2>3, StaircasesCounted DEF StoredFailuresAreBounded
<1> QED BY <1>1, <1>2, <1>3, TypeCorrect, PTL DEF Spec

-----------------------------------------------------------------------------
\* One attempt at a time.

\* The inductive invariant: what an attempt read is still what is stored, and
\* no lock runs under it.
SerialInv ==
  /\ TypeOK
  /\ \A p \in Slot : attempt[p].pc = "compare" =>
       attempt[p].seen = failed /\ lockLeft = 0

LEMMA SerialStep ==
  ASSUME Alone, SerialInv, [Next]_vars
  PROVE  SerialInv'
<1>0. TypeOK /\ TypeOK'
  BY TypeStep DEF SerialInv
<1>1. ASSUME NEW p \in Slot, NEW right \in BOOLEAN, Begin(p, right)
      PROVE  SerialInv'
  <2>1. attempt'[p] = [pc |-> "compare", seen |-> failed, right |-> right]
    BY <1>0, <1>1 DEF Begin, TypeOK
  <2>2. \A q \in Slot : attempt'[q].pc = "compare" => attempt'[q].seen = failed
    BY <1>0, <1>1, <2>1 DEF Begin, TypeOK, SerialInv
  <2> QED
    BY <1>0, <1>1, <2>2 DEF Begin, stored, SerialInv
<1>2. ASSUME NEW p \in Slot, Fail(p) \/ Succeed(p) \/ Abort(p)
      PROVE  SerialInv'
  <2>1. attempt' = [attempt EXCEPT ![p] = Idle] /\ attempt[p].pc = "compare"
    BY <1>2 DEF Fail, Succeed, Abort
  <2>2. \A q \in Slot : attempt'[q].pc # "compare"
    BY <1>0, <2>1, IdleIsAnAttempt DEF TypeOK, Alone
  <2> QED
    BY <1>0, <2>2 DEF SerialInv
<1>3. CASE Tick
  BY <1>0, <1>3 DEF Tick, SerialInv, TypeOK
<1>4. CASE UNCHANGED vars
  BY <1>0, <1>4 DEF vars, SerialInv
<1> QED
  BY <1>1, <1>2, <1>3, <1>4 DEF Next

\* Until attempts overlap.
WatchedInv == overlap \/ (SerialInv /\ Alone)

LEMMA WatchedInvariance == WatchedSpec => []WatchedInv
<1>1. WatchedInit => WatchedInv
  <2> SUFFICES ASSUME WatchedInit PROVE SerialInv /\ Alone
    BY DEF WatchedInv
  <2> QED
    BY IdleIsAnAttempt, LockoutAssumption
       DEF WatchedInit, Init, Alone, Idle, SerialInv, TypeOK
<1>2. WatchedInv /\ [WatchedNext]_all => WatchedInv'
  <2> SUFFICES ASSUME WatchedInv, [WatchedNext]_all PROVE WatchedInv'
    OBVIOUS
  <2>1. CASE UNCHANGED all
    BY <2>1 DEF all, WatchedInv, Alone, SerialInv, TypeOK
  <2>2. CASE WatchedNext
    <3>1. overlap' \/ (~overlap /\ Alone')
      BY <2>2, Zenon DEF WatchedNext
    <3>2. ~overlap => SerialInv'
      BY <2>2, SerialStep DEF WatchedNext, WatchedInv
    <3> QED
      BY <3>1, <3>2 DEF WatchedInv
  <2> QED
    BY <2>1, <2>2
<1> QED
  BY <1>1, <1>2, PTL DEF WatchedSpec

\* One at a time, each attempt is one step of the policy, or changes nothing
\* (it died or was rolled back), for any MAX_ATTEMPTS and duration of a lock.
THEOREM PolicyKept == WatchedSpec => SerialImplementsPolicy
<1>1. WatchedInit => Policy!Init
  BY LockoutAssumption DEF WatchedInit, Init, Policy!Init, AtMost
<1>2. ASSUME SerialInv, NEW p \in Slot, Fail(p), ~UNCHANGED <<failed, lockLeft>>
      PROVE  Policy!Wrong
  <2>1. attempt[p].seen = failed /\ lockLeft = 0 /\ failed \in Nat
    BY <1>2 DEF SerialInv, Fail, TypeOK
  <2>2. /\ failed' = AtMost(failed + 1, CounterCap)
        /\ lockLeft' = IF failed' >= MaxAttempts THEN LockFor ELSE 0
    BY <1>2, <2>1 DEF Fail, stored, NextLock, NextAttempts
  <2>3. AtMost(failed, MaxAttempts)'
          = IF AtMost(failed, MaxAttempts) < MaxAttempts
            THEN AtMost(failed, MaxAttempts) + 1 ELSE MaxAttempts
    BY <2>1, <2>2, LockoutAssumption DEF AtMost
  <2>4. failed' >= MaxAttempts <=> AtMost(failed, MaxAttempts)' = MaxAttempts
    BY <2>1, <2>2, LockoutAssumption DEF AtMost
  <2> QED
    BY <2>1, <2>2, <2>3, <2>4 DEF Policy!Wrong
<1>3. ASSUME SerialInv, NEW p \in Slot, Succeed(p), ~UNCHANGED <<failed, lockLeft>>
      PROVE  Policy!Right
  BY <1>3, LockoutAssumption DEF SerialInv, Succeed, stored, Policy!Right, AtMost
<1>4. ASSUME SerialInv, Tick
      PROVE  Policy!Tick
  BY <1>4 DEF SerialInv, TypeOK, Tick, Policy!Tick
<1>5. WatchedInv /\ [WatchedNext]_all =>
        [overlap' \/ /\ Policy!Next
                     /\ \A p \in Slot : Fail(p) => Policy!Wrong
         ]_<<failed, lockLeft>>
  <2> SUFFICES ASSUME WatchedInv, WatchedNext, ~overlap',
                      ~UNCHANGED <<failed, lockLeft>>
               PROVE  Policy!Next /\ \A p \in Slot : Fail(p) => Policy!Wrong
    BY DEF all
  <2>1. SerialInv /\ Next
    BY DEF WatchedInv, WatchedNext
  <2>2. Policy!Next
    BY <2>1, <1>2, <1>3, <1>4 DEF Next, Begin, Abort, stored, Policy!Next
  <2> QED
    BY <2>1, <2>2, <1>2
<1> QED
  BY <1>1, <1>5, WatchedInvariance, PTL DEF WatchedSpec, SerialImplementsPolicy
=============================================================================
