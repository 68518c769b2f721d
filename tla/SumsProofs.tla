----------------------------- MODULE SumsProofs -----------------------------
(***************************************************************************)
(* The laws of SumTo.  The library states induction over the naturals for  *)
(* an operator P(_), which no prover here can instantiate; SetInduction    *)
(* states it for a set, from the well-foundedness of strict inclusion      *)
(* between the intervals 1..m, and is used with S = {n \in Nat : P(n)}.    *)
(***************************************************************************)
EXTENDS Sums, FiniteSetTheorems, TLAPS

\* Induction on the naturals: a set that holds 0 and is closed under
\* successor holds every natural.
LEMMA SetInduction ==
  ASSUME NEW S, 0 \in S, \A n \in Nat : n \in S => n + 1 \in S
  PROVE  Nat \subseteq S
<1> DEFINE T == Nat \ S
           R == StrictSubsetOrdering(Nat)
           U == {1 .. m : m \in T}
<1> SUFFICES ASSUME T # {} PROVE FALSE
  OBVIOUS
<1>1. IsWellFoundedOn(R, FiniteSubsetsOf(Nat))
  BY FS_StrictSubsetOrderingWellFounded
<1>2. U \subseteq FiniteSubsetsOf(Nat)
  <2>1. \A m \in T : 1 .. m \subseteq Nat /\ IsFiniteSet(1 .. m)
    BY FS_Interval
  <2> QED BY <2>1 DEF FiniteSubsetsOf
<1>3. U # {}
  OBVIOUS
<1> HIDE DEF R, U
<1>4. PICK x \in U : \A y \in U : ~ (<<y, x>> \in R)
  BY <1>1, <1>2, <1>3, WFMin, Zenon
<1> USE DEF U
<1>5. PICK m \in T : x = 1 .. m
  OBVIOUS
<1>6. m \in Nat /\ m # 0
  OBVIOUS
<1>7. m - 1 \in Nat /\ m - 1 \notin S
  BY <1>6
<1>8. 1 .. (m - 1) \in U
  BY <1>7
<1>9. <<1 .. (m - 1), 1 .. m>> \in R
  <2>1. 1 .. (m - 1) \subseteq 1 .. m /\ 1 .. m \subseteq Nat
    BY <1>6
  <2>2. m \in 1 .. m /\ m \notin 1 .. (m - 1)
    BY <1>6
  <2> QED BY <2>1, <2>2 DEF R, StrictSubsetOrdering
<1> QED BY <1>4, <1>5, <1>8, <1>9

-----------------------------------------------------------------------------
(* The recursive function inside SumTo exists.                             *)

\* h is that function as far as n.
Prefix(f, n, h) == h = [i \in 0 .. n |-> IF i = 0 THEN 0 ELSE h[i - 1] + f[i]]

\* Two prefixes agree where both are defined.
LEMMA PrefixUnique ==
  ASSUME NEW f, NEW n \in Nat, NEW m \in Nat, n <= m,
         NEW g, Prefix(f, n, g), NEW h, Prefix(f, m, h)
  PROVE  \A i \in 0 .. n : g[i] = h[i]
<1> DEFINE S == {i \in Nat : i \in 0 .. n => g[i] = h[i]}
<1>1. 0 \in S
  BY DEF Prefix
<1>2. ASSUME NEW i \in Nat, i \in S PROVE i + 1 \in S
  <2>1. SUFFICES ASSUME i + 1 \in 0 .. n PROVE g[i + 1] = h[i + 1]
    OBVIOUS
  <2>2. i \in 0 .. n /\ i + 1 # 0 /\ (i + 1) - 1 = i /\ i + 1 \in 0 .. m
    BY <2>1
  <2>3. g[i + 1] = g[i] + f[i + 1]
    BY <2>1, <2>2 DEF Prefix
  <2>4. h[i + 1] = h[i] + f[i + 1]
    BY <2>2 DEF Prefix
  <2> QED BY <1>2, <2>2, <2>3, <2>4
<1>3. Nat \subseteq S
  <2> HIDE DEF S
  <2> QED BY <1>1, <1>2, SetInduction
<1> QED BY <1>3

\* Every prefix exists.
LEMMA PrefixExists ==
  ASSUME NEW f
  PROVE  \A n \in Nat : \E h : Prefix(f, n, h)
<1> DEFINE S == {n \in Nat : \E h : Prefix(f, n, h)}
<1>1. 0 \in S
  <2>1. Prefix(f, 0, [i \in 0 .. 0 |-> 0])
    BY DEF Prefix
  <2> QED BY <2>1
<1>2. ASSUME NEW n \in Nat, n \in S PROVE n + 1 \in S
  <2>1. PICK h : Prefix(f, n, h)
    BY <1>2
  <2> DEFINE g == [i \in 0 .. (n + 1) |-> IF i = n + 1 THEN h[n] + f[n + 1] ELSE h[i]]
  <2>2. ASSUME NEW i \in 0 .. (n + 1)
        PROVE  g[i] = IF i = 0 THEN 0 ELSE g[i - 1] + f[i]
    <3>1. CASE i = 0
      <4>1. 0 \in 0 .. n /\ 0 # n + 1
        OBVIOUS
      <4> QED BY <2>1, <3>1, <4>1 DEF Prefix
    <3>2. CASE i \in 1 .. n
      <4>1. i \in 0 .. n /\ i # n + 1 /\ i # 0 /\ i - 1 \in 0 .. (n + 1) /\ i - 1 # n + 1
        BY <3>2
      <4>2. h[i] = h[i - 1] + f[i]
        BY <2>1, <4>1 DEF Prefix
      <4> QED BY <4>1, <4>2
    <3>3. CASE i = n + 1
      <4>1. i # 0 /\ i - 1 = n /\ n \in 0 .. (n + 1) /\ n # n + 1
        BY <3>3
      <4> QED BY <3>3, <4>1
    <3> QED BY <3>1, <3>2, <3>3
  <2>3. Prefix(f, n + 1, g)
    <3>1. g = [i \in 0 .. (n + 1) |-> g[i]]
      OBVIOUS
    <3> HIDE DEF g
    <3> QED BY <2>2, <3>1 DEF Prefix
  <2> QED BY <2>3
<1>3. Nat \subseteq S
  <2> HIDE DEF S
  <2> QED BY <1>1, <1>2, SetInduction
<1> QED BY <1>3

\* The equation that defines the running total of f.
IsRunning(f, s) == s = [i \in Nat |-> IF i = 0 THEN 0 ELSE s[i - 1] + f[i]]

LEMMA RunningExists ==
  ASSUME NEW f
  PROVE  \E s : IsRunning(f, s)
<1> DEFINE P(n) == CHOOSE h : Prefix(f, n, h)
           s == [i \in Nat |-> P(i)[i]]
<1>1. ASSUME NEW n \in Nat PROVE Prefix(f, n, P(n))
  BY PrefixExists
<1>2. ASSUME NEW i \in Nat
      PROVE  s[i] = IF i = 0 THEN 0 ELSE s[i - 1] + f[i]
  <2> HIDE DEF P
  <2>1. CASE i = 0
    <3>1. 0 \in 0 .. 0
      OBVIOUS
    <3> QED BY <1>1, <2>1, <3>1 DEF Prefix
  <2>2. CASE i # 0
    <3>1. i - 1 \in Nat /\ i - 1 <= i /\ i - 1 \in 0 .. (i - 1) /\ i \in 0 .. i
      BY <2>2
    <3>2. P(i)[i] = P(i)[i - 1] + f[i]
      BY <1>1, <2>2, <3>1 DEF Prefix
    <3>3. P(i - 1)[i - 1] = P(i)[i - 1]
      BY <1>1, <3>1, PrefixUnique
    <3> QED BY <2>2, <3>1, <3>2, <3>3
  <2> QED BY <2>1, <2>2
<1>3. s = [i \in Nat |-> s[i]]
  OBVIOUS
<1>4. IsRunning(f, s)
  <2> HIDE DEF s
  <2> QED BY <1>2, <1>3 DEF IsRunning
<1> QED BY <1>4

\* The recursion equations of SumTo.
LEMMA SumToEquations ==
  ASSUME NEW f
  PROVE  /\ SumTo(f, 0) = 0
         /\ \A n \in Nat : SumTo(f, n + 1) = SumTo(f, n) + f[n + 1]
<1> DEFINE s == CHOOSE t : t = [i \in Nat |-> IF i = 0 THEN 0 ELSE t[i - 1] + f[i]]
<1>1. s = [i \in Nat |-> IF i = 0 THEN 0 ELSE s[i - 1] + f[i]]
  BY RunningExists, Zenon DEF IsRunning
<1>2. \A n : SumTo(f, n) = s[n]
  BY Zenon DEF SumTo
<1> HIDE DEF s
<1>3. s[0] = 0
  BY <1>1
<1>4. ASSUME NEW n \in Nat PROVE s[n + 1] = s[n] + f[n + 1]
  <2>1. n + 1 \in Nat /\ n + 1 # 0 /\ (n + 1) - 1 = n
    OBVIOUS
  <2> QED BY <1>1, <2>1
<1> QED BY <1>2, <1>3, <1>4

-----------------------------------------------------------------------------
(* Laws. *)

\* A total of integers is an integer.
LEMMA SumToInt ==
  ASSUME NEW n \in Nat, NEW f, \A i \in 1 .. n : f[i] \in Int
  PROVE  SumTo(f, n) \in Int
<1> DEFINE S == {k \in Nat : k <= n => SumTo(f, k) \in Int}
<1>1. 0 \in S
  BY SumToEquations
<1>2. ASSUME NEW k \in Nat, k \in S PROVE k + 1 \in S
  <2>1. SumTo(f, k + 1) = SumTo(f, k) + f[k + 1]
    BY SumToEquations
  <2>2. k + 1 <= n => k <= n /\ k + 1 \in 1 .. n
    OBVIOUS
  <2> QED BY <1>2, <2>1, <2>2
<1>3. Nat \subseteq S
  <2> HIDE DEF S
  <2> QED BY <1>1, <1>2, SetInduction
<1> QED BY <1>3

\* Totals compare as their terms do, up to integer factors.
LEMMA SumToScaled ==
  ASSUME NEW n \in Nat, NEW f, NEW g, NEW a \in Int, NEW b \in Int,
         \A i \in 1 .. n : f[i] \in Int /\ g[i] \in Int /\ a * f[i] <= b * g[i]
  PROVE  a * SumTo(f, n) <= b * SumTo(g, n)
<1> DEFINE S == {k \in Nat : k <= n => a * SumTo(f, k) <= b * SumTo(g, k)}
<1>1. 0 \in S
  <2>1. SumTo(f, 0) = 0 /\ SumTo(g, 0) = 0
    BY SumToEquations
  <2> QED BY <2>1
<1>2. ASSUME NEW k \in Nat, k \in S PROVE k + 1 \in S
  <2>1. SUFFICES ASSUME k + 1 <= n
                 PROVE  a * SumTo(f, k + 1) <= b * SumTo(g, k + 1)
    OBVIOUS
  <2>2. /\ SumTo(f, k + 1) = SumTo(f, k) + f[k + 1]
        /\ SumTo(g, k + 1) = SumTo(g, k) + g[k + 1]
    BY SumToEquations
  <2>3. k + 1 \in 1 .. n /\ \A i \in 1 .. k : i \in 1 .. n
    BY <2>1
  <2>4. SumTo(f, k) \in Int /\ SumTo(g, k) \in Int
    BY <2>3, SumToInt
  <2>5. a * SumTo(f, k) <= b * SumTo(g, k)
    BY <1>2, <2>1
  <2>6. f[k + 1] \in Int /\ g[k + 1] \in Int /\ a * f[k + 1] <= b * g[k + 1]
    BY <2>3
  <2>7. /\ a * (SumTo(f, k) + f[k + 1]) = a * SumTo(f, k) + a * f[k + 1]
        /\ b * (SumTo(g, k) + g[k + 1]) = b * SumTo(g, k) + b * g[k + 1]
    BY <2>4, <2>6
  <2>8. /\ a * SumTo(f, k) \in Int /\ a * f[k + 1] \in Int
        /\ b * SumTo(g, k) \in Int /\ b * g[k + 1] \in Int
    BY <2>4, <2>6
  <2> QED BY <2>2, <2>5, <2>6, <2>7, <2>8
<1>3. Nat \subseteq S
  <2> HIDE DEF S
  <2> QED BY <1>1, <1>2, SetInduction
<1> QED BY <1>3

\* Totals of equal terms are equal.
LEMMA SumToSame ==
  ASSUME NEW n \in Nat, NEW f, NEW g, \A i \in 1 .. n : f[i] = g[i]
  PROVE  SumTo(f, n) = SumTo(g, n)
<1> DEFINE S == {k \in Nat : k <= n => SumTo(f, k) = SumTo(g, k)}
<1>1. 0 \in S
  BY SumToEquations
<1>2. ASSUME NEW k \in Nat, k \in S PROVE k + 1 \in S
  <2>1. /\ SumTo(f, k + 1) = SumTo(f, k) + f[k + 1]
        /\ SumTo(g, k + 1) = SumTo(g, k) + g[k + 1]
    BY SumToEquations
  <2>2. k + 1 <= n => k <= n /\ k + 1 \in 1 .. n
    OBVIOUS
  <2> QED BY <1>2, <2>1, <2>2
<1>3. Nat \subseteq S
  <2> HIDE DEF S
  <2> QED BY <1>1, <1>2, SetInduction
<1> QED BY <1>3

\* The total of termwise sums is the sum of the totals.
LEMMA SumToAdd ==
  ASSUME NEW n \in Nat, NEW f, NEW g, NEW h,
         \A i \in 1 .. n : f[i] \in Int /\ g[i] \in Int /\ h[i] = f[i] + g[i]
  PROVE  SumTo(h, n) = SumTo(f, n) + SumTo(g, n)
<1> DEFINE S == {k \in Nat : k <= n => SumTo(h, k) = SumTo(f, k) + SumTo(g, k)}
<1>1. 0 \in S
  <2>1. SumTo(f, 0) = 0 /\ SumTo(g, 0) = 0 /\ SumTo(h, 0) = 0
    BY SumToEquations
  <2> QED BY <2>1
<1>2. ASSUME NEW k \in Nat, k \in S PROVE k + 1 \in S
  <2>1. SUFFICES ASSUME k + 1 <= n
                 PROVE  SumTo(h, k + 1) = SumTo(f, k + 1) + SumTo(g, k + 1)
    OBVIOUS
  <2>2. /\ SumTo(f, k + 1) = SumTo(f, k) + f[k + 1]
        /\ SumTo(g, k + 1) = SumTo(g, k) + g[k + 1]
        /\ SumTo(h, k + 1) = SumTo(h, k) + h[k + 1]
    BY SumToEquations
  <2>3. k + 1 \in 1 .. n /\ \A i \in 1 .. k : i \in 1 .. n
    BY <2>1
  <2>4. SumTo(f, k) \in Int /\ SumTo(g, k) \in Int
    BY <2>3, SumToInt
  <2>5. SumTo(h, k) = SumTo(f, k) + SumTo(g, k)
    BY <1>2, <2>1
  <2>6. f[k + 1] \in Int /\ g[k + 1] \in Int /\ h[k + 1] = f[k + 1] + g[k + 1]
    BY <2>3
  <2> QED BY <2>2, <2>4, <2>5, <2>6
<1>3. Nat \subseteq S
  <2> HIDE DEF S
  <2> QED BY <1>1, <1>2, SetInduction
<1> QED BY <1>3

\* A total of zeroes is zero.
LEMMA SumToZero ==
  ASSUME NEW n \in Nat, NEW f, \A i \in 1 .. n : f[i] = 0
  PROVE  SumTo(f, n) = 0
<1>1. \A i \in 1 .. n : f[i] \in Int /\ f[i] = f[i] + f[i]
  OBVIOUS
<1>2. SumTo(f, n) = SumTo(f, n) + SumTo(f, n)
  BY <1>1, SumToAdd
<1>3. SumTo(f, n) \in Int
  BY SumToInt
<1>4. \A x \in Int : x = x + x => x = 0
  OBVIOUS
<1> QED BY <1>2, <1>3, <1>4, Zenon

\* A total of naturals is a natural.
LEMMA SumToNat ==
  ASSUME NEW n \in Nat, NEW f, \A i \in 1 .. n : f[i] \in Nat
  PROVE  SumTo(f, n) \in Nat
<1> DEFINE z == [i \in 1 .. n |-> 0]
<1>1. SumTo(z, n) = 0
  BY SumToZero
<1>2. \A i \in 1 .. n : z[i] \in Int /\ f[i] \in Int /\ 1 * z[i] <= 1 * f[i]
  OBVIOUS
<1> HIDE DEF z
<1>3. 1 * SumTo(z, n) <= 1 * SumTo(f, n)
  BY <1>2, SumToScaled
<1>4. SumTo(f, n) \in Int
  BY SumToInt
<1> QED BY <1>1, <1>3, <1>4

\* The total of a function that is zero outside k is its value at k.
LEMMA SumToSingle ==
  ASSUME NEW n \in Nat, NEW f, NEW k \in 1 .. n, f[k] \in Int,
         \A i \in 1 .. n : i # k => f[i] = 0
  PROVE  SumTo(f, n) = f[k]
<1> DEFINE S == {j \in Nat : j <= n => SumTo(f, j) = IF k <= j THEN f[k] ELSE 0}
<1>1. 0 \in S
  BY SumToEquations
<1>2. ASSUME NEW j \in Nat, j \in S PROVE j + 1 \in S
  <2>1. SUFFICES ASSUME j + 1 <= n
                 PROVE  SumTo(f, j + 1) = IF k <= j + 1 THEN f[k] ELSE 0
    OBVIOUS
  <2>2. SumTo(f, j + 1) = SumTo(f, j) + f[j + 1]
    BY SumToEquations
  <2>3. SumTo(f, j) = IF k <= j THEN f[k] ELSE 0
    BY <1>2, <2>1
  <2>4. j + 1 \in 1 .. n
    BY <2>1
  <2>5. CASE k = j + 1
    BY <2>2, <2>3, <2>5
  <2>6. CASE k # j + 1
    <3>1. f[j + 1] = 0
      BY <2>4, <2>6
    <3>2. (k <= j + 1) <=> (k <= j)
      BY <2>6
    <3> QED BY <2>2, <2>3, <3>1, <3>2
  <2> QED BY <2>5, <2>6
<1>3. Nat \subseteq S
  <2> HIDE DEF S
  <2> QED BY <1>1, <1>2, SetInduction
<1> QED BY <1>3

\* Changing one term changes the total by as much.
LEMMA SumToUpdate ==
  ASSUME NEW n \in Nat, NEW f, NEW g, NEW k \in 1 .. n,
         \A i \in 1 .. n : f[i] \in Int,
         g[k] \in Int,
         \A i \in 1 .. n : i # k => g[i] = f[i]
  PROVE  SumTo(g, n) = SumTo(f, n) + (g[k] - f[k])
<1> DEFINE d == [i \in 1 .. n |-> IF i = k THEN g[k] - f[k] ELSE 0]
<1>1. SumTo(d, n) = g[k] - f[k]
  <2>1. d[k] = g[k] - f[k] /\ d[k] \in Int /\ \A i \in 1 .. n : i # k => d[i] = 0
    OBVIOUS
  <2> HIDE DEF d
  <2> QED BY <2>1, SumToSingle
<1>2. \A i \in 1 .. n : f[i] \in Int /\ d[i] \in Int /\ g[i] = f[i] + d[i]
  OBVIOUS
<1> HIDE DEF d
<1>3. SumTo(g, n) = SumTo(f, n) + SumTo(d, n)
  BY <1>2, SumToAdd
<1> QED BY <1>1, <1>3

\* No term of a total of natural numbers exceeds the total.
LEMMA SumToTerm ==
  ASSUME NEW n \in Nat, NEW f, \A i \in 1 .. n : f[i] \in Nat, NEW k \in 1 .. n
  PROVE  f[k] <= SumTo(f, n)
<1> DEFINE g == [i \in 1 .. n |-> IF i = k THEN 0 ELSE f[i]]
<1>1. /\ \A i \in 1 .. n : g[i] \in Nat
      /\ g[k] = 0
      /\ \A i \in 1 .. n : i # k => g[i] = f[i]
  OBVIOUS
<1> HIDE DEF g
<1>2. SumTo(g, n) = SumTo(f, n) + (g[k] - f[k])
  <2>1. (\A i \in 1 .. n : f[i] \in Int) /\ g[k] \in Int
    BY <1>1
  <2> QED BY <1>1, <2>1, SumToUpdate, SMTT(30)
<1>3. SumTo(g, n) \in Nat /\ SumTo(f, n) \in Nat
  BY <1>1, SumToNat
<1> QED BY <1>1, <1>2, <1>3

\* A pot divided in proportion to shares, each part rounded down, is enough
\* for all parts.
LEMMA SumToParts ==
  ASSUME NEW n \in Nat, NEW share, NEW part, NEW pot \in Nat,
         \A i \in 1 .. n : share[i] \in Nat /\ part[i] \in Nat,
         \A i \in 1 .. n : SumTo(share, n) * part[i] <= pot * share[i],
         \A i \in 1 .. n : share[i] = 0 => part[i] = 0
  PROVE  SumTo(part, n) <= pot
<1> DEFINE whole == SumTo(share, n)
           paid  == SumTo(part, n)
<1>1. whole \in Nat /\ paid \in Nat
  BY SumToNat
<1>2. CASE whole = 0
  <2>1. \A i \in 1 .. n : part[i] = 0
    BY <1>2, SumToTerm
  <2> QED BY <2>1, SumToZero
<1>3. CASE whole # 0
  <2>1. whole * paid <= pot * whole
    <3> HIDE DEF whole
    <3>1. /\ whole \in Int /\ pot \in Int
          /\ \A i \in 1 .. n : /\ part[i] \in Int /\ share[i] \in Int
                               /\ whole * part[i] <= pot * share[i]
      BY <1>1 DEF whole
    <3>2. whole * SumTo(part, n) <= pot * SumTo(share, n)
      BY ONLY n \in Nat, <3>1, SumToScaled, SMTT(30)
    <3> QED BY <3>2 DEF whole
  <2> HIDE DEF whole, paid
  <2>2. whole * paid <= whole * pot
    BY <1>1, <2>1
  <2>3. \A x, y \in Nat : x > y => whole * x > whole * y
    BY <1>1, <1>3
  <2>4. paid <= pot
    BY <1>1, <2>2, <2>3
  <2> QED BY <2>4 DEF paid
<1> QED BY <1>2, <1>3

\* n times the same term.
LEMMA SumToConstant ==
  ASSUME NEW n \in Nat, NEW f, NEW c \in Int, \A i \in 1 .. n : f[i] = c
  PROVE  SumTo(f, n) = n * c
<1> DEFINE S == {k \in Nat : k <= n => SumTo(f, k) = k * c}
<1>1. 0 \in S
  BY SumToEquations
<1>2. ASSUME NEW k \in Nat, k \in S PROVE k + 1 \in S
  <2>1. SUFFICES ASSUME k + 1 <= n PROVE SumTo(f, k + 1) = (k + 1) * c
    OBVIOUS
  <2>2. SumTo(f, k + 1) = SumTo(f, k) + f[k + 1]
    BY SumToEquations
  <2>3. SumTo(f, k) = k * c /\ f[k + 1] = c
    BY <1>2, <2>1
  <2>4. (k + 1) * c = k * c + c
    OBVIOUS
  <2> QED BY <2>2, <2>3, <2>4
<1> HIDE DEF S
<1>3. Nat \subseteq S
  BY <1>1, <1>2, SetInduction
<1> QED BY <1>3 DEF S

=============================================================================
