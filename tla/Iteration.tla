------------------------------ MODULE Iteration ------------------------------
(***************************************************************************)
(* Induction over the naturals, the iterates of a function and division,   *)
(* for the proofs about loops.  The library states induction for an        *)
(* operator; here it is stated for a set, and derived from the             *)
(* well-foundedness of the naturals.                                       *)
(***************************************************************************)
EXTENDS Integers, WellFoundedInduction, TLAPS

\* A nonempty set of naturals has a least element.
LEMMA LeastNat ==
    ASSUME NEW T, T \subseteq Nat, T # {}
    PROVE  \E m \in T : \A k \in T : m <= k
<1> DEFINE R == OpToRel(<, Nat)
<1>1. IsWellFoundedOn(R, Nat)
  BY NatLessThanWellFounded
<1>2. PICK m \in T : \A k \in T : ~(<<k, m>> \in R)
  <2> HIDE DEF R
  <2> QED BY <1>1, WFMin
<1>3. ASSUME NEW k \in T PROVE m <= k
  <2>1. ~(<<k, m>> \in R) BY <1>2
  <2>2. k \in Nat /\ m \in Nat OBVIOUS
  <2>3. ~(k < m)
    BY <2>1, <2>2 DEF OpToRel
  <2> QED BY <2>2, <2>3
<1> QED BY <1>3

\* A set that holds 0 and the successor of each of its naturals holds every natural.
LEMMA Induction ==
    ASSUME NEW P, 0 \in P, \A n \in Nat : n \in P => n + 1 \in P
    PROVE  \A n \in Nat : n \in P
<1> SUFFICES ASSUME Nat \ P # {} PROVE FALSE
  OBVIOUS
<1>1. PICK m \in Nat \ P : \A k \in Nat \ P : m <= k
  BY LeastNat
<1>2. m # 0 /\ m \in Nat BY <1>1
<1>3. m - 1 \in Nat /\ ~(m <= m - 1) BY <1>2
<1>4. m - 1 \in P BY <1>1, <1>3
<1>5. (m - 1) + 1 \in P BY <1>4, <1>3
<1> QED BY <1>5, <1>2

\* f lists the iterates of g from x, up to the n-th.
IteratesTo(f, g, x, n) ==
    /\ f[0] = x
    /\ \A k \in 0..(n - 1) : f[k + 1] = g[f[k]]

\* f lists every iterate of g from x.
IteratesOf(f, g, x) ==
    /\ f[0] = x
    /\ \A n \in Nat : f[n + 1] = g[f[n]]

\* Two lists of iterates agree as far as both go.
LEMMA IteratesAgree ==
    ASSUME NEW g, NEW x, NEW n \in Nat, NEW m \in Nat, n <= m, NEW e, NEW f,
           IteratesTo(e, g, x, n), IteratesTo(f, g, x, m)
    PROVE  \A k \in 0..n : e[k] = f[k]
<1> DEFINE P == {k \in Nat : k <= n => e[k] = f[k]}
<1>1. 0 \in P
  BY DEF IteratesTo
<1>2. ASSUME NEW k \in Nat, k \in P PROVE k + 1 \in P
  <2>1. ASSUME k + 1 <= n PROVE e[k + 1] = f[k + 1]
    <3>1. k \in 0..(n - 1) /\ k \in 0..(m - 1) /\ k <= n BY <2>1
    <3>2. e[k] = f[k] BY <1>2, <3>1
    <3> QED BY <3>1, <3>2 DEF IteratesTo
  <2> QED BY <2>1
<1>3. \A k \in Nat : k \in P
  <2> HIDE DEF P
  <2> QED BY <1>1, <1>2, Induction
<1> QED BY <1>3

\* There is a list of iterates of every length.
LEMMA FiniteIterates ==
    ASSUME NEW S, NEW g \in [S -> S], NEW x \in S, NEW n \in Nat
    PROVE  \E f \in [0..n -> S] : IteratesTo(f, g, x, n)
<1> DEFINE P == {k \in Nat : \E f \in [0..k -> S] : IteratesTo(f, g, x, k)}
<1>1. 0 \in P
  <2> DEFINE f == [i \in 0..0 |-> x]
  <2>1. f \in [0..0 -> S] /\ IteratesTo(f, g, x, 0) BY DEF IteratesTo
  <2> QED BY <2>1
<1>2. ASSUME NEW k \in Nat, k \in P PROVE k + 1 \in P
  <2>1. PICK f \in [0..k -> S] : IteratesTo(f, g, x, k) BY <1>2
  <2> DEFINE h == [i \in 0..(k + 1) |-> IF i = k + 1 THEN g[f[k]] ELSE f[i]]
  <2>2. h \in [0..(k + 1) -> S]
    <3>1. g[f[k]] \in S OBVIOUS
    <3>2. \A i \in 0..(k + 1) : i # k + 1 => i \in 0..k OBVIOUS
    <3> QED BY <3>1, <3>2
  <2>3. \A i \in 0..k : h[i] = f[i] OBVIOUS
  <2>4. h[k + 1] = g[f[k]] OBVIOUS
  <2>5. ASSUME NEW i \in 0..((k + 1) - 1) PROVE h[i + 1] = g[h[i]]
    <3>1. CASE i = k BY <3>1, <2>3, <2>4
    <3>2. CASE i # k
      <4>1. i \in 0..(k - 1) /\ i + 1 \in 0..k /\ i \in 0..k BY <3>2
      <4> QED BY <4>1, <2>1, <2>3 DEF IteratesTo
    <3> QED BY <3>1, <3>2
  <2>6. h[0] = x BY <2>1, <2>3 DEF IteratesTo
  <2>7. IteratesTo(h, g, x, k + 1)
    <3> HIDE DEF h
    <3> QED BY <2>5, <2>6 DEF IteratesTo
  <2> QED BY <2>2, <2>7
<1>3. \A k \in Nat : k \in P
  <2> HIDE DEF P
  <2> QED BY <1>1, <1>2, Induction
<1> QED BY <1>3

\* The iterates of a function exist: what makes a recursive function over Nat well defined.
LEMMA Iterates ==
    ASSUME NEW S, NEW g \in [S -> S], NEW x \in S
    PROVE  \E f \in [Nat -> S] : IteratesOf(f, g, x)
<1> DEFINE H(n) == CHOOSE f \in [0..n -> S] : IteratesTo(f, g, x, n)
           F == [n \in Nat |-> H(n)[n]]
<1>1. \A n \in Nat : H(n) \in [0..n -> S] /\ IteratesTo(H(n), g, x, n)
  BY FiniteIterates
<1>2. F \in [Nat -> S]
  <2>1. ASSUME NEW n \in Nat PROVE H(n)[n] \in S
    <3> HIDE DEF H
    <3> QED BY <1>1
  <2> HIDE DEF H
  <2> QED BY <2>1
<1>3. F[0] = x
  <2> HIDE DEF H
  <2> QED BY <1>1 DEF IteratesTo
<1>4. ASSUME NEW n \in Nat PROVE F[n + 1] = g[F[n]]
  <2> HIDE DEF H
  <2>1. n + 1 \in Nat /\ n <= n + 1 /\ n \in 0..n /\ n \in 0..((n + 1) - 1) OBVIOUS
  <2>2. IteratesTo(H(n), g, x, n) /\ IteratesTo(H(n + 1), g, x, n + 1) BY <1>1, <2>1
  <2>3. H(n)[n] = H(n + 1)[n] BY <2>1, <2>2, IteratesAgree
  <2>4. H(n + 1)[n + 1] = g[H(n + 1)[n]] BY <2>1, <2>2 DEF IteratesTo
  <2> QED BY <2>1, <2>3, <2>4
<1>5. IteratesOf(F, g, x)
  <2> HIDE DEF F
  <2> QED BY <1>3, <1>4 DEF IteratesOf
<1> QED BY <1>2, <1>5

-----------------------------------------------------------------------------
(* Division by a number that is not a literal.                             *)

\* Quotient and remainder are what the division says they are.
LEMMA Division ==
    ASSUME NEW d \in Nat \ {0}, NEW n \in Nat
    PROVE  /\ n \div d \in Nat /\ n % d \in 0..(d - 1)
           /\ n = (n \div d) * d + (n % d)
  OBVIOUS

LEMMA TimesMonotone ==
    ASSUME NEW d \in Nat \ {0}, NEW a \in Nat, NEW b \in Nat, a < b
    PROVE  a * d + d <= b * d
<1>1. b = a + 1 + (b - a - 1) /\ b - a - 1 \in Nat OBVIOUS
<1> DEFINE c == b - a - 1
<1>2. c * d >= 0 BY <1>1
<1>3. (a + 1 + c) * d = a * d + d + c * d BY <1>1
<1> QED BY <1>1, <1>2, <1>3

LEMMA DivisionUnique ==
    ASSUME NEW d \in Nat \ {0}, NEW q \in Nat, NEW r \in 0..(d - 1)
    PROVE  (q * d + r) \div d = q /\ (q * d + r) % d = r
<1> DEFINE n == q * d + r
           p == n \div d
           s == n % d
<1>1. n \in Nat OBVIOUS
<1>2. p \in Nat /\ s \in 0..(d - 1) /\ n = p * d + s BY <1>1, Division
<1> HIDE DEF p, s
<1>3. p * d \in Nat /\ q * d \in Nat BY <1>2
<1>4. p = q
  <2>1. CASE p < q
    <3>1. p * d + d <= q * d BY <1>2, <2>1, TimesMonotone
    <3> QED BY <1>2, <1>3, <3>1
  <2>2. CASE q < p
    <3>1. q * d + d <= p * d BY <1>2, <2>2, TimesMonotone
    <3> QED BY <1>2, <1>3, <3>1
  <2> QED BY <1>2, <2>1, <2>2
<1>5. s = r BY <1>2, <1>3, <1>4
<1> QED BY <1>4, <1>5 DEF p, s

\* Two divisions with the remainder carried are one.
LEMMA CarriedDivision ==
    ASSUME NEW d \in Nat \ {0}, NEW a \in Nat, NEW b \in Nat
    PROVE  /\ ((a % d) + b) % d = (a + b) % d
           /\ a \div d + ((a % d) + b) \div d = (a + b) \div d
<1> DEFINE q == a \div d
           r == a % d
           p == (r + b) \div d
           s == (r + b) % d
<1>1. q \in Nat /\ r \in 0..(d - 1) /\ a = q * d + r BY Division
<1>2. r + b \in Nat BY <1>1
<1> HIDE DEF q, r
<1>3. p \in Nat /\ s \in 0..(d - 1) /\ r + b = p * d + s BY <1>2, Division
<1> HIDE DEF p, s
<1>4. q * d \in Nat /\ p * d \in Nat BY <1>1, <1>3
<1>5. (q + p) * d = q * d + p * d BY <1>1, <1>3
<1>6. a + b = (q + p) * d + s BY <1>1, <1>3, <1>4, <1>5
<1>7. q + p \in Nat BY <1>1, <1>3
<1>8. (a + b) \div d = q + p /\ (a + b) % d = s BY <1>3, <1>6, <1>7, DivisionUnique
<1> QED BY <1>8 DEF q, r, p, s

=============================================================================
