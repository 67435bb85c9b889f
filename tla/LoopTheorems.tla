----------------------------- MODULE LoopTheorems -----------------------------
(***************************************************************************)
(* What the proofs about loops over slices rest on: a loop whose body      *)
(* stays inside a set has a value after every round, and an invariant of   *)
(* its rounds holds after each of them.  The body is a function st of the  *)
(* round, so that no lemma has an operator as its parameter.               *)
(***************************************************************************)
EXTENDS Loops, WellFoundedInduction, TLAPS

\* The bodies of n rounds over values in S.
Bodies(n, S) == [1..n -> [S -> S]]

\* The values after each round of a loop that starts at b.
Rounds(n, S, b, st) ==
    {f \in [0..n -> S] : f[0] = b /\ \A i \in 1..n : f[i] = st[i][f[i - 1]]}

\* A set of naturals that is not empty has a least element.
LEMMA LeastElement ==
  ASSUME NEW T \in SUBSET Nat, T # {}
  PROVE  \E n \in T : \A m \in T : n <= m
  <1> DEFINE R == OpToRel(<, Nat)
  <1>1. IsWellFoundedOn(R, Nat)
    BY NatLessThanWellFounded
  <1>2. \E n \in T : \A m \in T : ~(<<m, n>> \in R)
    <2> HIDE DEF R
    <2> QED BY <1>1, WFMin
  <1>3. \A m, n \in Nat : m < n => <<m, n>> \in R
    BY DEF OpToRel
  <1>4. QED 
    <2> HIDE DEF R
    <2>1. PICK n \in T : \A m \in T : ~(<<m, n>> \in R)
      BY <1>2
    <2>2. ASSUME NEW m \in T PROVE n <= m
      <3>1. ~(m < n)
        BY <2>1, <1>3
      <3> QED BY <3>1
    <2> QED BY <2>2

\* A loop whose body stays inside S runs to its end: the recursive function Loop
\* chooses exists.
LEMMA LoopExists ==
  ASSUME NEW n \in Nat, NEW S, NEW b \in S, NEW st \in Bodies(n, S)
  PROVE  \E f : f \in Rounds(n, S, b, st)
  <1> DEFINE Good(k) == \E f \in [0..k -> S] : f[0] = b /\ \A i \in 1..k : f[i] = st[i][f[i - 1]]
             T == {k \in 0..n : ~Good(k)}
  <1>1. Good(0)
    <2> DEFINE f == [i \in 0..0 |-> b]
    <2>1. f \in [0..0 -> S] /\ f[0] = b
      OBVIOUS
    <2>2. \A i \in 1..0 : FALSE
      OBVIOUS
    <2> HIDE DEF f
    <2> QED BY <2>1, <2>2
  <1>2. ASSUME NEW k \in 0..n, k # 0, Good(k - 1) PROVE Good(k)
    <2>1. PICK g \in [0..(k-1) -> S] : g[0] = b /\ \A i \in 1..(k-1) : g[i] = st[i][g[i - 1]]
      BY <1>2
    <2> DEFINE f == [i \in 0..k |-> IF i < k THEN g[i] ELSE st[k][g[k - 1]]]
    <2>2. k \in 1..n /\ k - 1 \in 0..(k-1) /\ 0 < k
      BY <1>2
    <2>2a. st[k][g[k - 1]] \in S
      BY <2>1, <2>2 DEF Bodies
    <2>3. f \in [0..k -> S]
      BY <2>2, <2>2a
    <2>4. f[0] = b
      BY <2>1, <2>2
    <2>5. ASSUME NEW i \in 1..k PROVE f[i] = st[i][f[i - 1]]
      <3>1. CASE i < k
        BY <2>1, <2>2, <3>1
      <3>2. CASE i = k
        BY <2>2, <3>2
      <3> QED BY <3>1, <3>2
    <2> HIDE DEF f
    <2> QED BY <2>3, <2>4, <2>5
  <1> HIDE DEF Good
  <1>3. T = {}
    <2> SUFFICES ASSUME T # {} PROVE FALSE
      OBVIOUS
    <2>0. T \in SUBSET Nat
      OBVIOUS
    <2>1. PICK k \in T : \A m \in T : k <= m
      BY <2>0, LeastElement
    <2>2. k # 0 /\ k - 1 \in 0..n /\ k - 1 \notin T
      BY <1>1, <2>1
    <2>3. Good(k - 1)
      BY <2>2
    <2> QED BY <1>2, <2>1, <2>2, <2>3
  <1>4. Good(n)
    BY <1>3
  <1> QED BY <1>4 DEF Good, Rounds

\* Induction over the rounds of a loop, with the rounds at which the invariant holds as
\* a set.
LEMMA LoopInduction ==
  ASSUME NEW n \in Nat, NEW T, 0 \in T, \A i \in 1..n : i - 1 \in T => i \in T
  PROVE  \A i \in 0..n : i \in T
  <1> DEFINE U == {i \in 0..n : i \notin T}
  <1> SUFFICES ASSUME U # {} PROVE FALSE
    OBVIOUS
  <1>1. U \in SUBSET Nat
    OBVIOUS
  <1>2. PICK k \in U : \A m \in U : k <= m
    BY <1>1, LeastElement
  <1>3. k \in 1..n /\ k - 1 \in 0..n /\ k - 1 \notin U
    BY <1>2
  <1> QED BY <1>2, <1>3

-----------------------------------------------------------------------------
(***************************************************************************)
(* The remainder, for a divisor that is not a literal: the slots of a ring *)
(* and the packets of a chunk.                                             *)
(***************************************************************************)
LEMMA ModOf ==
  ASSUME NEW n \in Nat \ {0}, NEW q \in Int, NEW r \in 0..(n - 1)
  PROVE  (q * n + r) % n = r
  OBVIOUS

LEMMA ModIs ==
  ASSUME NEW n \in Nat \ {0}, NEW a \in Int
  PROVE  \E q \in Int : \E r \in 0..(n - 1) : a = q * n + r /\ a % n = r
  <1>1. a % n \in 0..(n - 1) /\ a \div n \in Int /\ a = (a \div n) * n + (a % n)
    OBVIOUS
  <1> QED BY <1>1

LEMMA ModSmall ==
  ASSUME NEW n \in Nat \ {0}, NEW r \in 0..(n - 1)
  PROVE  r % n = r
  <1>1. (0 * n + r) % n = r /\ 0 * n + r = r
    BY ModOf
  <1> QED BY <1>1

\* A remainder may be taken before or after an addition.
LEMMA ModSum ==
  ASSUME NEW n \in Nat \ {0}, NEW a \in Int, NEW k \in Int
  PROVE  ((a % n) + k) % n = (a + k) % n
  <1>1. PICK q \in Int, r \in 0..(n - 1) : a = q * n + r /\ a % n = r
    BY ModIs
  <1>2. PICK p \in Int, s \in 0..(n - 1) : r + k = p * n + s /\ (r + k) % n = s
    BY ModIs
  <1>3. a + k = (q + p) * n + s /\ q + p \in Int
    BY <1>1, <1>2
  <1>4. ((q + p) * n + s) % n = s
    BY <1>3, ModOf
  <1> QED BY <1>1, <1>2, <1>3, <1>4

\* Once round.
LEMMA ModRound ==
  ASSUME NEW n \in Nat \ {0}, NEW a \in Int
  PROVE  (a + n) % n = a % n
  <1>1. PICK q \in Int, r \in 0..(n - 1) : a = q * n + r /\ a % n = r
    BY ModIs
  <1>2. a + n = (q + 1) * n + r /\ q + 1 \in Int
    BY <1>1
  <1>3. ((q + 1) * n + r) % n = r
    BY <1>2, ModOf
  <1> QED BY <1>1, <1>2, <1>3

\* Less than once round, no slot is met again.
LEMMA ModApart ==
  ASSUME NEW n \in Nat \ {0}, NEW a \in Int, NEW b \in Int, a < b, b < a + n
  PROVE  a % n # b % n
  <1>1. PICK q \in Int, r \in 0..(n - 1) : a = q * n + r /\ a % n = r
    BY ModIs
  <1>2. PICK p \in Int, s \in 0..(n - 1) : b = p * n + s /\ b % n = s
    BY ModIs
  <1> SUFFICES ASSUME r = s PROVE FALSE
    BY <1>1, <1>2
  <1>3. b - a = (p - q) * n
    BY <1>1, <1>2
  <1>4. CASE p - q <= 0
    <2>1. (p - q) * n <= 0
      BY <1>4
    <2> QED BY <1>3, <2>1
  <1>5. CASE p - q >= 1
    <2>1. (p - q) * n >= n
      BY <1>5
    <2> QED BY <1>3, <2>1
  <1> QED BY <1>4, <1>5
=============================================================================
