------------------------- MODULE MarketEventsProofs -------------------------
(* Proofs about MarketEvents for any users, outcomes and events: sums over   *)
(* finite sets; what a handler has in hand wherever it is; how far rows and  *)
(* copies may lag behind the trades; and, when handlers run one after the    *)
(* other, that rows are exactly those of the trades.                         *)
(* Then, about EventListener, for any events, names and retries: a record    *)
(* says what became of an event that has its key for itself, and statistics  *)
(* of records are covered by events; and a server that serves has contracts. *)
EXTENDS MarketEvents, EventListener, FiniteSetTheorems, TLAPS
-----------------------------------------------------------------------------
(* Sums over finite sets.                                                    *)

LEMMA SmallestOutside ==
  ASSUME NEW S, IsFiniteSet(S), NEW P, ~ (SUBSET S \subseteq P)
  PROVE  \E s \in SUBSET S : s \notin P /\ \A t \in SUBSET s : t # s => t \in P
<1> DEFINE R == StrictSubsetOrdering(S)
           U == (SUBSET S) \ P
<1>1. IsWellFoundedOn(R, FiniteSubsetsOf(S))
  BY FS_StrictSubsetOrderingWellFounded
<1>2. U \subseteq FiniteSubsetsOf(S) /\ U # {}
  <2>1. \A s \in U : s \subseteq S /\ IsFiniteSet(s)
    BY FS_Subset
  <2> QED BY <2>1 DEF FiniteSubsetsOf
<1>3. PICK s \in U : \A t \in U : ~ (<<t, s>> \in R)
  <2> HIDE DEF R, U
  <2> QED BY <1>1, <1>2, WFMin, Zenon
<1>4. ASSUME NEW t \in SUBSET s, t # s PROVE t \in P
  <2>1. t \subseteq S /\ s \subseteq S
    BY <1>3
  <2>2. <<t, s>> \in R
    BY <1>4, <2>1 DEF StrictSubsetOrdering
  <2> QED BY <1>3, <2>1, <2>2
<1> QED BY <1>3, <1>4

\* P holds every subset of S whose strict subsets it holds.
Grows(S, P) == \A s \in SUBSET S : (\A t \in SUBSET s : t # s => t \in P) => s \in P

\* Induction on the subsets of a finite set.
LEMMA SubsetInduction ==
  ASSUME NEW S, IsFiniteSet(S), NEW P, Grows(S, P)
  PROVE  SUBSET S \subseteq P
<1> SUFFICES ASSUME ~ (SUBSET S \subseteq P) PROVE FALSE
  OBVIOUS
<1>1. PICK s \in SUBSET S : s \notin P /\ \A t \in SUBSET s : t # s => t \in P
  BY SmallestOutside
<1> QED BY <1>1 DEF Grows

\* The element that a sum over s takes first, and the function inside
\* MapThenSumSet, as far as the subsets of S.
Pick(s) == CHOOSE x \in s : TRUE

Fold(f, S, h) ==
    h = [s \in SUBSET S |-> IF s = {} THEN 0 ELSE f[Pick(s)] + h[s \ {Pick(s)}]]

LEMMA FoldUnique ==
  ASSUME NEW f, NEW T, NEW S \in SUBSET T, IsFiniteSet(S),
         NEW g, Fold(f, S, g), NEW h, Fold(f, T, h)
  PROVE  \A s \in SUBSET S : g[s] = h[s]
<1> DEFINE P == {s \in SUBSET S : g[s] = h[s]}
<1>1. ASSUME NEW s \in SUBSET S, \A t \in SUBSET s : t # s => t \in P
      PROVE  s \in P
  <2>1. CASE s = {}
    BY <2>1 DEF Fold
  <2>2. CASE s # {}
    <3>1. Pick(s) \in s
      BY <2>2 DEF Pick
    <3>2. g[s \ {Pick(s)}] = h[s \ {Pick(s)}]
      BY <1>1, <3>1
    <3>3. g[s] = f[Pick(s)] + g[s \ {Pick(s)}] /\ h[s] = f[Pick(s)] + h[s \ {Pick(s)}]
      BY <2>2 DEF Fold
    <3> QED BY <3>2, <3>3
  <2> QED BY <2>1, <2>2
<1>2. SUBSET S \subseteq P
  <2> HIDE DEF P
  <2> QED BY <1>1, SubsetInduction DEF Grows
<1> QED BY <1>2

LEMMA FoldExists ==
  ASSUME NEW f, NEW S, IsFiniteSet(S)
  PROVE  \E h : Fold(f, S, h)
<1> DEFINE P == {s \in SUBSET S : \E h : Fold(f, s, h)}
           F(s) == CHOOSE h : Fold(f, s, h)
<1>1. ASSUME NEW s \in SUBSET S, \A t \in SUBSET s : t # s => t \in P
      PROVE  s \in P
  <2>1. ASSUME NEW t \in SUBSET s, t # s PROVE Fold(f, t, F(t))
    BY <1>1, <2>1
  <2> DEFINE h == [t \in SUBSET s |-> IF t = s /\ s # {} THEN f[Pick(s)] + F(s \ {Pick(s)})[s \ {Pick(s)}]
                                      ELSE IF t = {} THEN 0 ELSE F(t)[t]]
  <2> HIDE DEF F
  <2>2. ASSUME NEW t \in SUBSET s, t # s PROVE h[t] = F(t)[t]
    <3>1. t = {} => F(t)[t] = 0
      BY <2>1, <2>2 DEF Fold
    <3> QED BY <2>2, <3>1
  <2>3. ASSUME NEW t \in SUBSET s
        PROVE  h[t] = IF t = {} THEN 0 ELSE f[Pick(t)] + h[t \ {Pick(t)}]
    <3>1. CASE t = {}
      BY <3>1
    <3>2. CASE t # {}
      <4> DEFINE u == t \ {Pick(t)}
      <4>1. u \in SUBSET t /\ u # t /\ u \in SUBSET s /\ u # s
        BY <3>2 DEF Pick
      <4>2. h[u] = F(u)[u]
        BY <2>2, <4>1
      <4>3. CASE t = s
        BY <3>2, <4>2, <4>3
      <4>4. CASE t # s
        <5>1. F(t)[t] = f[Pick(t)] + F(t)[u]
          BY <2>1, <3>2, <4>4 DEF Fold
        <5>2. Fold(f, u, F(u)) /\ Fold(f, t, F(t)) /\ IsFiniteSet(u)
          BY <2>1, <4>1, <4>4, FS_Subset
        <5>3. F(u)[u] = F(t)[u]
          <6> HIDE DEF u, h
          <6> QED BY <4>1, <5>2, FoldUnique
        <5> QED BY <2>2, <3>2, <4>2, <4>4, <5>1, <5>3
      <4> QED BY <4>3, <4>4
    <3> QED BY <3>1, <3>2
  <2>4. Fold(f, s, h)
    <3>1. h = [t \in SUBSET s |-> h[t]]
      OBVIOUS
    <3> HIDE DEF h
    <3> QED BY <2>3, <3>1 DEF Fold
  <2> QED BY <2>4
<1>2. SUBSET S \subseteq P
  <2> HIDE DEF P
  <2> QED BY <1>1, SubsetInduction DEF Grows
<1> QED BY <1>2

Sum(f, S) == MapThenSumSet(LAMBDA x : f[x], S)

LEMMA SumFold ==
  ASSUME NEW f, NEW T, IsFiniteSet(T), NEW S \in SUBSET T, NEW h, Fold(f, T, h)
  PROVE  Sum(f, S) = h[S]
<1> DEFINE g == CHOOSE it : Fold(f, S, it)
<1>1. Sum(f, S) = g[S]
  BY DEF Sum, MapThenSumSet, MapThenFoldSet, Fold, Pick
<1>2. IsFiniteSet(S)
  BY FS_Subset
<1>3. Fold(f, S, g)
  BY <1>2, FoldExists
<1> HIDE DEF g
<1>4. g[S] = h[S]
  BY <1>2, <1>3, FoldUnique
<1> QED BY <1>1, <1>4

LEMMA SumEmpty ==
  ASSUME NEW f
  PROVE  Sum(f, {}) = 0
<1>1. IsFiniteSet({})
  BY FS_EmptySet
<1>2. PICK h : Fold(f, {}, h)
  BY <1>1, FoldExists
<1>3. Sum(f, {}) = h[{}]
  BY <1>1, <1>2, SumFold
<1> QED BY <1>2, <1>3 DEF Fold

LEMMA SumPick ==
  ASSUME NEW f, NEW S, IsFiniteSet(S), S # {}
  PROVE  Pick(S) \in S /\ Sum(f, S) = f[Pick(S)] + Sum(f, S \ {Pick(S)})
<1>1. PICK h : Fold(f, S, h)
  BY FoldExists
<1>2. Sum(f, S) = h[S]
  BY <1>1, SumFold
<1>3. Sum(f, S \ {Pick(S)}) = h[S \ {Pick(S)}]
  BY <1>1, SumFold
<1>4. Pick(S) \in S
  BY DEF Pick
<1>5. h[S] = f[Pick(S)] + h[S \ {Pick(S)}]
  BY <1>1 DEF Fold
<1> QED BY <1>2, <1>3, <1>4, <1>5

LEMMA SumNat ==
  ASSUME NEW f, NEW S, IsFiniteSet(S), \A x \in S : f[x] \in Nat
  PROVE  Sum(f, S) \in Nat
<1> DEFINE P == {s \in SUBSET S : Sum(f, s) \in Nat}
<1>1. ASSUME NEW s \in SUBSET S, \A t \in SUBSET s : t # s => t \in P
      PROVE  s \in P
  <2>1. CASE s = {}
    BY <2>1, SumEmpty
  <2>2. CASE s # {}
    <3>1. Pick(s) \in s /\ Sum(f, s) = f[Pick(s)] + Sum(f, s \ {Pick(s)})
      BY <2>2, FS_Subset, SumPick
    <3>2. Sum(f, s \ {Pick(s)}) \in Nat
      BY <1>1, <3>1
    <3> QED BY <3>1, <3>2
  <2> QED BY <2>1, <2>2
<1>2. SUBSET S \subseteq P
  <2> HIDE DEF P
  <2> QED BY <1>1, SubsetInduction DEF Grows
<1> QED BY <1>2

\* Any element may be taken first.
LEMMA SumRemove ==
  ASSUME NEW f, NEW S, IsFiniteSet(S), \A x \in S : f[x] \in Nat, NEW y \in S
  PROVE  Sum(f, S) = f[y] + Sum(f, S \ {y})
<1> DEFINE P == {s \in SUBSET S : \A x \in s : Sum(f, s) = f[x] + Sum(f, s \ {x})}
<1>1. ASSUME NEW s \in SUBSET S, \A t \in SUBSET s : t # s => t \in P
      PROVE  s \in P
  <2> SUFFICES ASSUME NEW x \in s PROVE Sum(f, s) = f[x] + Sum(f, s \ {x})
    OBVIOUS
  <2> DEFINE p == Pick(s)
  <2>1. p \in s /\ Sum(f, s) = f[p] + Sum(f, s \ {p})
    BY FS_Subset, SumPick
  <2>2. CASE x = p
    BY <2>1, <2>2
  <2>3. CASE x # p
    <3> DEFINE r == s \ {x, p}
    <3>1. s \ {p} \in P /\ x \in s \ {p} /\ (s \ {p}) \ {x} = r
      BY <1>1, <2>1, <2>3
    <3>2. s \ {x} \in P /\ p \in s \ {x} /\ (s \ {x}) \ {p} = r
      BY <1>1, <2>1, <2>3
    <3>3. Sum(f, s \ {p}) = f[x] + Sum(f, r)
      BY <3>1
    <3>4. Sum(f, s \ {x}) = f[p] + Sum(f, r)
      BY <3>2
    <3>5. IsFiniteSet(r) /\ \A z \in r : f[z] \in Nat
      BY FS_Subset
    <3>6. Sum(f, r) \in Nat /\ f[x] \in Nat /\ f[p] \in Nat
      <4> HIDE DEF r
      <4> QED BY <2>1, <3>5, SumNat
    <3> HIDE DEF r, p, P
    <3> QED BY <2>1, <3>3, <3>4, <3>6
  <2> QED BY <2>2, <2>3
<1>2. SUBSET S \subseteq P
  <2> HIDE DEF P
  <2> QED BY <1>1, SubsetInduction DEF Grows
<1> QED BY <1>2

LEMMA SumAdd ==
  ASSUME NEW f, NEW S, IsFiniteSet(S), NEW y, y \notin S, f[y] \in Nat,
         \A x \in S : f[x] \in Nat
  PROVE  Sum(f, S \union {y}) = Sum(f, S) + f[y]
<1> DEFINE T == S \union {y}
<1>1. IsFiniteSet(T)
  BY FS_AddElement
<1>2. T \ {y} = S /\ y \in T /\ \A x \in T : f[x] \in Nat
  OBVIOUS
<1>3. Sum(f, T) = f[y] + Sum(f, S)
  <2> HIDE DEF T
  <2> QED BY <1>1, <1>2, SumRemove
<1> QED BY <1>3, SumNat

\* Sums of functions that agree on the set are equal.
LEMMA SumAgree ==
  ASSUME NEW f, NEW g, NEW S, IsFiniteSet(S), \A x \in S : f[x] = g[x]
  PROVE  Sum(f, S) = Sum(g, S)
<1> DEFINE P == {s \in SUBSET S : Sum(f, s) = Sum(g, s)}
<1>1. ASSUME NEW s \in SUBSET S, \A t \in SUBSET s : t # s => t \in P
      PROVE  s \in P
  <2>1. CASE s = {}
    BY <2>1, SumEmpty
  <2>2. CASE s # {}
    <3>0. IsFiniteSet(s)
      BY FS_Subset
    <3>1. Pick(s) \in s /\ Sum(f, s) = f[Pick(s)] + Sum(f, s \ {Pick(s)})
      BY <2>2, <3>0, SumPick
    <3>2. Sum(g, s) = g[Pick(s)] + Sum(g, s \ {Pick(s)})
      BY <2>2, <3>0, SumPick
    <3>3. Sum(f, s \ {Pick(s)}) = Sum(g, s \ {Pick(s)})
      BY <1>1, <3>1
    <3> QED BY <3>1, <3>2, <3>3
  <2> QED BY <2>1, <2>2
<1>2. SUBSET S \subseteq P
  <2> HIDE DEF P
  <2> QED BY <1>1, SubsetInduction DEF Grows
<1> QED BY <1>2

LEMMA SumZero ==
  ASSUME NEW f, NEW S, IsFiniteSet(S), \A x \in S : f[x] = 0
  PROVE  Sum(f, S) = 0
<1> DEFINE P == {s \in SUBSET S : Sum(f, s) = 0}
<1>1. ASSUME NEW s \in SUBSET S, \A t \in SUBSET s : t # s => t \in P
      PROVE  s \in P
  <2>1. CASE s = {}
    BY <2>1, SumEmpty
  <2>2. CASE s # {}
    <3>1. Pick(s) \in s /\ Sum(f, s) = f[Pick(s)] + Sum(f, s \ {Pick(s)})
      BY <2>2, FS_Subset, SumPick
    <3>2. Sum(f, s \ {Pick(s)}) = 0
      BY <1>1, <3>1
    <3> QED BY <3>1, <3>2
  <2> QED BY <2>1, <2>2
<1>2. SUBSET S \subseteq P
  <2> HIDE DEF P
  <2> QED BY <1>1, SubsetInduction DEF Grows
<1> QED BY <1>2

\* A part of a set has no greater sum.
LEMMA SumMonotone ==
  ASSUME NEW f, NEW S, IsFiniteSet(S), \A x \in S : f[x] \in Nat, NEW T \in SUBSET S
  PROVE  Sum(f, T) <= Sum(f, S)
<1> DEFINE P == {s \in SUBSET S : \A t \in SUBSET s : Sum(f, t) <= Sum(f, s)}
<1>0. \A s \in SUBSET S : IsFiniteSet(s) /\ Sum(f, s) \in Nat
  BY FS_Subset, SumNat
<1>1. ASSUME NEW s \in SUBSET S, \A t \in SUBSET s : t # s => t \in P
      PROVE  s \in P
  <2> SUFFICES ASSUME NEW t \in SUBSET s PROVE Sum(f, t) <= Sum(f, s)
    OBVIOUS
  <2>1. CASE t = s
    BY <2>1, <1>0
  <2>2. CASE t # s
    <3>1. PICK x \in s : x \notin t
      BY <2>2
    <3>2. Sum(f, s) = f[x] + Sum(f, s \ {x})
      <4>1. \A z \in s : f[z] \in Nat
        OBVIOUS
      <4> QED BY <1>0, <4>1, SumRemove
    <3>3. Sum(f, t) <= Sum(f, s \ {x})
      BY <1>1, <3>1
    <3>4. Sum(f, t) \in Nat /\ Sum(f, s \ {x}) \in Nat /\ f[x] \in Nat
      BY <1>0
    <3> HIDE DEF P
    <3> QED BY <3>2, <3>3, <3>4
  <2> QED BY <2>1, <2>2
<1>2. SUBSET S \subseteq P
  <2> HIDE DEF P
  <2> QED BY <1>1, SubsetInduction DEF Grows
<1> QED BY <1>2

\* The sums over the classes of a set add up to the sum over the set.
LEMMA SumParts ==
  ASSUME NEW f, NEW S, IsFiniteSet(S), \A x \in S : f[x] \in Nat,
         NEW C, IsFiniteSet(C), NEW c, \A x \in S : c[x] \in C
  PROVE  Sum([o \in C |-> Sum(f, {x \in S : c[x] = o})], C) = Sum(f, S)
<1> DEFINE part(s) == [o \in C |-> Sum(f, {x \in s : c[x] = o})]
           P == {s \in SUBSET S : Sum(part(s), C) = Sum(f, s)}
<1>0. ASSUME NEW s \in SUBSET S, NEW o \in C
      PROVE  /\ IsFiniteSet(s) /\ IsFiniteSet({x \in s : c[x] = o})
             /\ part(s)[o] \in Nat
  <2>1. IsFiniteSet(s)
    BY FS_Subset
  <2>2. IsFiniteSet({x \in s : c[x] = o})
    BY <2>1, FS_Subset
  <2>3. \A x \in {z \in s : c[z] = o} : f[x] \in Nat
    OBVIOUS
  <2>4. Sum(f, {x \in s : c[x] = o}) \in Nat
    BY <2>2, <2>3, SumNat
  <2> QED BY <2>1, <2>2, <2>4
<1>1. ASSUME NEW s \in SUBSET S, \A t \in SUBSET s : t # s => t \in P
      PROVE  s \in P
  <2>1. CASE s = {}
    <3>1. \A o \in C : {x \in s : c[x] = o} = {}
      BY <2>1
    <3>2. \A o \in C : part(s)[o] = 0
      BY <3>1, SumEmpty
    <3>3. Sum(part(s), C) = 0
      <4> HIDE DEF part
      <4> QED BY <3>2, SumZero
    <3> QED BY <2>1, <3>3, SumEmpty
  <2>2. CASE s # {}
    <3>1. PICK p \in s : TRUE
      BY <2>2
    <3> DEFINE r == s \ {p}
               q == c[p]
    <3>2. r \in SUBSET S /\ r \in P /\ q \in C /\ f[p] \in Nat /\ p \notin r
      BY <1>1, <3>1
    <3>3. Sum(f, s) = f[p] + Sum(f, r)
      <4>1. IsFiniteSet(s) /\ \A z \in s : f[z] \in Nat
        BY FS_Subset
      <4> QED BY <3>1, <4>1, SumRemove
    <3>4. part(s)[q] = part(r)[q] + f[p]
      <4> DEFINE old == {x \in r : c[x] = q}
      <4>1. {x \in s : c[x] = q} = old \union {p} /\ p \notin old /\ \A x \in old : f[x] \in Nat
        BY <3>1
      <4>2. IsFiniteSet(old)
        BY <1>0, <3>2
      <4>3. Sum(f, old \union {p}) = Sum(f, old) + f[p]
        <5> HIDE DEF old, r
        <5> QED BY <3>2, <4>1, <4>2, SumAdd
      <4>4. part(s)[q] = Sum(f, {x \in s : c[x] = q}) /\ part(r)[q] = Sum(f, old)
        BY <3>2
      <4> QED BY <4>1, <4>3, <4>4
    <3>5. \A o \in C \ {q} : part(s)[o] = part(r)[o]
      <4>1. \A o \in C \ {q} : {x \in s : c[x] = o} = {x \in r : c[x] = o}
        OBVIOUS
      <4> QED BY <4>1
    <3>6. \A o \in C : part(s)[o] \in Nat /\ part(r)[o] \in Nat
      BY <1>0, <3>2
    <3>7. IsFiniteSet(C \ {q})
      BY FS_Subset
    <3> HIDE DEF part, r, q
    <3>8. Sum(part(s), C) = part(s)[q] + Sum(part(s), C \ {q})
      BY <3>2, <3>6, SumRemove
    <3>9. Sum(part(r), C) = part(r)[q] + Sum(part(r), C \ {q})
      BY <3>2, <3>6, SumRemove
    <3>10. Sum(part(s), C \ {q}) = Sum(part(r), C \ {q})
      BY <3>5, <3>7, SumAgree
    <3>11. Sum(part(r), C \ {q}) \in Nat
      BY <3>6, <3>7, SumNat
    <3>12. Sum(part(r), C) = Sum(f, r)
      BY <3>2
    <3>13. part(r)[q] \in Nat
      BY <3>2, <3>6
    <3>14. Sum(part(s), C) = Sum(f, s)
      <4> HIDE DEF P
      <4> QED BY <3>2, <3>3, <3>4, <3>8, <3>9, <3>10, <3>11, <3>12, <3>13
    <3> QED BY <3>14
  <2> QED BY <2>1, <2>2
<1>2. SUBSET S \subseteq P
  <2> HIDE DEF P
  <2> QED BY <1>1, SubsetInduction DEF Grows
<1> QED BY <1>2

-----------------------------------------------------------------------------
(* Saves.                                                                    *)

\* The columns of rows, markets and copies.
LEMMA PositionColumns ==
  ASSUME NEW p \in Position
  PROVE  /\ DOMAIN p = {"costBasis", "claimed", "claimedAmount"}
         /\ p.costBasis \in Nat /\ p.claimed \in BOOLEAN /\ p.claimedAmount \in Nat
  BY DEF Position

LEMMA MarketColumns ==
  ASSUME NEW m \in Market
  PROVE  /\ DOMAIN m = {"status", "winningOutcomeIndex", "totalVolume", "tradeCount", "participantCount"}
         /\ m.status \in {"ACTIVE", "RESOLVED", "DISPUTED", "CANCELLED"} /\ m.winningOutcomeIndex \in Outcomes \union {NoOutcome}
         /\ m.totalVolume \in Nat /\ m.tradeCount \in Nat /\ m.participantCount \in Nat
  BY DEF Market

\* A save of a copy leaves each column as it is or sets it to that of the copy.
LEMMA UpdatedPosition ==
  ASSUME NEW p \in Position, NEW s \in Position, NEW c \in Position
  PROVE  Updated(p, s, c) \in Position
<1>1. DOMAIN p = {"costBasis", "claimed", "claimedAmount"}
  BY PositionColumns
<1>2. \A x \in {"costBasis", "claimed", "claimedAmount"} :
        Updated(p, s, c)[x] = p[x] \/ Updated(p, s, c)[x] = c[x]
  BY <1>1 DEF Updated, Column
<1>3. Updated(p, s, c) = [x \in {"costBasis", "claimed", "claimedAmount"} |-> Updated(p, s, c)[x]]
  BY <1>1 DEF Updated
<1> QED BY <1>1, <1>2, <1>3 DEF Position

LEMMA UpdatedMarket ==
  ASSUME NEW p \in Market, NEW s \in Market, NEW c \in Market
  PROVE  /\ Updated(p, s, c) \in Market
         /\ Updated(p, s, c).totalVolume \in {p.totalVolume, c.totalVolume}
         /\ Updated(p, s, c).tradeCount \in {p.tradeCount, c.tradeCount}
         /\ Updated(p, s, c).winningOutcomeIndex \in {p.winningOutcomeIndex, c.winningOutcomeIndex}
<1> DEFINE D == {"status", "winningOutcomeIndex", "totalVolume", "tradeCount", "participantCount"}
<1>1. DOMAIN p = D
  BY MarketColumns
<1>2. \A x \in D : Updated(p, s, c)[x] = p[x] \/ Updated(p, s, c)[x] = c[x]
  BY <1>1 DEF Updated, Column
<1>3. Updated(p, s, c) = [x \in D |-> Updated(p, s, c)[x]]
  BY <1>1 DEF Updated
<1>4. /\ Updated(p, s, c).totalVolume \in {p.totalVolume, c.totalVolume}
      /\ Updated(p, s, c).tradeCount \in {p.tradeCount, c.tradeCount}
      /\ Updated(p, s, c).participantCount \in {p.participantCount, c.participantCount}
      /\ Updated(p, s, c).status \in {p.status, c.status}
      /\ Updated(p, s, c).winningOutcomeIndex \in {p.winningOutcomeIndex, c.winningOutcomeIndex}
  BY <1>2
<1>5. Updated(p, s, c) \in Market
  <2> PICK u : u = Updated(p, s, c)
    OBVIOUS
  <2>1. u = [x \in D |-> u[x]]
    BY <1>3
  <2>2. /\ u["status"] \in {"ACTIVE", "RESOLVED", "DISPUTED", "CANCELLED"}
        /\ u["winningOutcomeIndex"] \in Outcomes \union {NoOutcome}
        /\ u["totalVolume"] \in Nat /\ u["tradeCount"] \in Nat /\ u["participantCount"] \in Nat
    BY <1>4, MarketColumns
  <2>3. u \in Market
    BY <2>1, <2>2 DEF Market
  <2> QED BY <2>3
<1> QED BY <1>4, <1>5

LEMMA TradeAdded ==
  ASSUME NEW m \in Market, NEW a \in Nat, NEW p
  PROVE  /\ WithTrade(m, a, p) \in Market
         /\ WithTrade(m, a, p).totalVolume = m.totalVolume + a
         /\ WithTrade(m, a, p).tradeCount = m.tradeCount + 1
         /\ WithTrade(m, a, p).status = m.status
         /\ WithTrade(m, a, p).winningOutcomeIndex = m.winningOutcomeIndex
<1>1. PICK v \in Nat, n \in Nat : v = m.totalVolume + a /\ n = m.tradeCount + 1
  <2>1. m.totalVolume \in Nat /\ m.tradeCount \in Nat
    BY MarketColumns
  <2> QED BY <2>1
<1>2. WithTrade(m, a, p) = [m EXCEPT !.totalVolume = v, !.tradeCount = n]
  BY <1>1 DEF WithTrade
<1>3. [m EXCEPT !.totalVolume = v, !.tradeCount = n] \in Market
  BY DEF Market
<1>4. /\ [m EXCEPT !.totalVolume = v, !.tradeCount = n].totalVolume = v
      /\ [m EXCEPT !.totalVolume = v, !.tradeCount = n].tradeCount = n
      /\ [m EXCEPT !.totalVolume = v, !.tradeCount = n].status = m.status
      /\ [m EXCEPT !.totalVolume = v, !.tradeCount = n].winningOutcomeIndex = m.winningOutcomeIndex
  BY DEF Market
<1> QED BY <1>1, <1>2, <1>3, <1>4

LEMMA UpdatedStakes ==
  ASSUME NEW p \in [Outcomes -> Nat], NEW s \in [Outcomes -> Nat], NEW c \in [Outcomes -> Nat]
  PROVE  /\ Updated(p, s, c) \in [Outcomes -> Nat]
         /\ \A o \in Outcomes : Updated(p, s, c)[o] \in {p[o], c[o]}
  BY DEF Updated, Column

\* What nobody changed since it was read becomes the copy.
LEMMA PositionSaved ==
  ASSUME NEW p \in Position, NEW c \in Position
  PROVE  Updated(p, p, c) = c
<1>1. DOMAIN p = {"costBasis", "claimed", "claimedAmount"} /\ DOMAIN c = DOMAIN p
  BY PositionColumns
<1>2. c = [x \in {"costBasis", "claimed", "claimedAmount"} |-> c[x]]
  BY <1>1 DEF Position
<1> QED BY <1>1, <1>2 DEF Updated, Column

LEMMA MarketSaved ==
  ASSUME NEW p \in Market, NEW c \in Market
  PROVE  Updated(p, p, c) = c
<1> DEFINE D == {"status", "winningOutcomeIndex", "totalVolume", "tradeCount", "participantCount"}
<1>1. DOMAIN p = D /\ DOMAIN c = D
  BY MarketColumns
<1>2. c = [x \in D |-> c[x]]
  BY <1>1 DEF Market
<1> QED BY <1>1, <1>2 DEF Updated, Column

LEMMA StakesSaved ==
  ASSUME NEW p \in [Outcomes -> Nat], NEW c \in [Outcomes -> Nat]
  PROVE  Updated(p, p, c) = c
  BY DEF Updated, Column

-----------------------------------------------------------------------------
(* What each handler has in hand.                                            *)

BeforeTrade == {"findPosition", "insertPosition", "loadPosition", "updatePosition", "insertTrade"}

AfterTrade == {"loadMarket", "updateMarket", "loadOutcome", "updateOutcome"}

Claiming == {"findPositions", "claim", "updateClaim"}

\* Where a handler is says what it has read and which event it is about, and
\* whether the trade of its event is recorded.
Fits(h, rows, trade) ==
    /\ h.pc \in BeforeTrade \union {"loadOutcome", "updateOutcome"} =>
         h.event.name = "BetPlaced" /\ IsKnown(h.event)
    /\ h.pc \in {"loadMarket", "updateMarket"} =>
         \/ h.event.name = "BetPlaced" /\ IsKnown(h.event)
         \/ h.event.name \in {"MarketResolved", "AdminRequest"}
    /\ h.pc \in Claiming => h.event.name = "WinningsClaimed"
    /\ h.pc \in {"loadPosition", "updatePosition"} => rows[h.event.user][h.event.outcome] # NoRow
    /\ h.pc \in {"claim", "updateClaim"} =>
         (\A o \in Outcomes : h.rows[o] # NoRow => rows[h.event.user][o] # NoRow)
    /\ h.pc = "updateClaim" => h.rows[h.outcome] # NoRow
    /\ trade # NoRow =>
         /\ h.pc \in AfterTrade \union {"done", "failed"}
         /\ h.event.name = "BetPlaced" /\ IsKnown(h.event)
         /\ trade = [user |-> h.event.user, outcome |-> h.event.outcome, amount |-> h.event.amount]
    /\ h.pc \in AfterTrade \union {"done"} /\ h.event.name = "BetPlaced" /\ IsKnown(h.event) =>
         trade # NoRow

HandlersOK == \A e \in Events : Fits(handler[e], positions, trades[e])

LEMMA HandlerTypes ==
  ASSUME NEW h \in Handler
  PROVE  /\ h.pc \in {"waiting", "done", "failed", "find"} \union BeforeTrade \union AfterTrade \union Claiming
         /\ h.pc # "waiting" => h.event \in Event
         /\ h.pc \in BeforeTrade \union AfterTrade =>
              h.copy \in Read /\ h.copy.market \in Market /\ h.copy.staked \in [Outcomes -> Nat]
         /\ h.pc \in {"insertPosition", "loadPosition", "updatePosition", "insertTrade"} => h.position \in Position
         /\ h.pc = "updatePosition" => h.seen \in Position
         /\ h.pc \in {"updateMarket", "updateOutcome"} =>
              h.seen \in Read /\ h.seen.market \in Market /\ h.seen.staked \in [Outcomes -> Nat]
         /\ h.pc \in {"claim", "updateClaim"} => h.rows \in [Outcomes -> Position \union {NoRow}]
         /\ h.pc = "updateClaim" => h.outcome \in Outcomes /\ h.seen \in Position
<1>1. /\ h.pc \in {"waiting", "done", "failed", "find"} \union BeforeTrade \union AfterTrade \union Claiming
      /\ h.pc # "waiting" => h.event \in Event
  BY DEF Handler, BeforeTrade, AfterTrade, Claiming
<1>2. h.pc \in BeforeTrade \union AfterTrade => h.copy \in Read
  BY DEF Handler, BeforeTrade, AfterTrade
<1>3. /\ h.pc \in {"insertPosition", "loadPosition", "updatePosition", "insertTrade"} => h.position \in Position
      /\ h.pc = "updatePosition" => h.seen \in Position
  BY DEF Handler
<1>4. h.pc \in {"updateMarket", "updateOutcome"} => h.seen \in Read
  BY DEF Handler
<1>5. /\ h.pc \in {"claim", "updateClaim"} => h.rows \in [Outcomes -> Position \union {NoRow}]
      /\ h.pc = "updateClaim" => h.outcome \in Outcomes /\ h.seen \in Position
  BY DEF Handler
<1>6. \A c \in Read : c.market \in Market /\ c.staked \in [Outcomes -> Nat]
  BY DEF Read
<1> QED BY <1>1, <1>2, <1>3, <1>4, <1>5, <1>6

LEMMA EventTypes ==
  ASSUME NEW event \in Event
  PROVE  /\ event.name \in {"BetPlaced", "MarketResolved", "WinningsClaimed", "AdminRequest"}
         /\ event.name # "AdminRequest" => event.market \in Markets
         /\ event.name = "AdminRequest" => event.status \in {"ACTIVE", "DISPUTED", "CANCELLED"}
         /\ event.name = "BetPlaced" => event.user \in Users /\ event.outcome \in Outcomes /\ event.amount \in Amounts
         /\ event.name = "MarketResolved" => event.outcome \in Outcomes
         /\ event.name = "WinningsClaimed" => event.user \in Users /\ event.amount \in Amounts
         /\ event.name \in {"BetPlaced", "WinningsClaimed"} => event.amount \in Nat
  BY MarketEventsAssumption DEF Event

Inv1 == TypeOK /\ HandlersOK

\* A step of one handler disturbs nothing of the others, because rows and
\* trades never go.
LEMMA OneMoves ==
  ASSUME Inv1, NEW e \in Events, NEW next \in Handler,
         handler' = [handler EXCEPT ![e] = next],
         market' \in Market, staked' \in [Outcomes -> Nat],
         positions' \in [Users -> [Outcomes -> Position \union {NoRow}]],
         \A u \in Users, o \in Outcomes : positions[u][o] # NoRow => positions'[u][o] # NoRow,
         trades' \in [Events -> Trade \union {NoRow}],
         \A i \in Events : i # e => trades'[i] = trades[i],
         overlaps' \in SUBSET SUBSET Events,
         Fits(next, positions', trades'[e])
  PROVE  Inv1'
<1>1. handler' \in [Events -> Handler]
  BY DEF Inv1, TypeOK
<1>2. ASSUME NEW i \in Events, i # e PROVE Fits(handler'[i], positions', trades'[i])
  <2>1. PICK h : h = handler[i]
    OBVIOUS
  <2>2. PICK t : t = trades[i]
    OBVIOUS
  <2>3. PICK rows : rows = positions
    OBVIOUS
  <2>4. PICK new : new = positions'
    OBVIOUS
  <2>5. handler'[i] = h /\ trades'[i] = t
    BY <1>2, <2>1, <2>2 DEF Inv1, TypeOK
  <2>6. Fits(h, rows, t) /\ h \in Handler
    BY <2>1, <2>2, <2>3 DEF Inv1, HandlersOK, TypeOK
  <2>7. h.pc # "waiting" => h.event \in Event
    BY <2>6, HandlerTypes
  <2>8. h.pc \in {"loadPosition", "updatePosition"} => new[h.event.user][h.event.outcome] # NoRow
    <3>1. SUFFICES ASSUME h.pc \in {"loadPosition", "updatePosition"}
                   PROVE  new[h.event.user][h.event.outcome] # NoRow
      OBVIOUS
    <3>2. h.event.name = "BetPlaced" /\ rows[h.event.user][h.event.outcome] # NoRow
      BY <2>6, <3>1 DEF Fits, BeforeTrade
    <3>3. h.event.user \in Users /\ h.event.outcome \in Outcomes
      BY <2>7, <3>1, <3>2, EventTypes
    <3> QED BY <2>3, <2>4, <3>2, <3>3
  <2>9. h.pc \in {"claim", "updateClaim"} =>
          (\A o \in Outcomes : h.rows[o] # NoRow => new[h.event.user][o] # NoRow)
    <3>1. SUFFICES ASSUME h.pc \in {"claim", "updateClaim"}, NEW o \in Outcomes, h.rows[o] # NoRow
                   PROVE  new[h.event.user][o] # NoRow
      OBVIOUS
    <3>2. h.event.name = "WinningsClaimed" /\ rows[h.event.user][o] # NoRow
      BY <2>6, <3>1 DEF Fits, Claiming
    <3>3. h.event.user \in Users
      BY <2>7, <3>1, <3>2, EventTypes
    <3> QED BY <2>3, <2>4, <3>2, <3>3
  <2>10. Fits(h, new, t)
    BY <2>6, <2>8, <2>9 DEF Fits
  <2> QED BY <2>4, <2>5, <2>10
<1>3. Fits(handler'[e], positions', trades'[e])
  BY DEF Inv1, TypeOK
<1>4. HandlersOK'
  BY <1>2, <1>3 DEF HandlersOK
<1>5. TypeOK'
  BY <1>1 DEF TypeOK
<1> QED BY <1>4, <1>5 DEF Inv1

\* Most steps change no table.
LEMMA OneReads ==
  ASSUME Inv1, NEW e \in Events, NEW next \in Handler,
         handler' = [handler EXCEPT ![e] = next],
         UNCHANGED <<market, staked, positions, trades>>,
         overlaps' \in SUBSET SUBSET Events,
         Fits(next, positions, trades[e])
  PROVE  Inv1'
<1>1. /\ market' \in Market /\ staked' \in [Outcomes -> Nat]
      /\ positions' \in [Users -> [Outcomes -> Position \union {NoRow}]]
      /\ trades' \in [Events -> Trade \union {NoRow}]
  BY DEF Inv1, TypeOK
<1> QED BY <1>1, OneMoves

LEMMA InitKept == Init => Inv1
<1> SUFFICES ASSUME Init PROVE Inv1
  OBVIOUS
<1>1. handler \in [Events -> Handler] /\ \A e \in Events : handler[e].pc = "waiting"
  BY DEF Init, Handler
<1>2. market \in Market
  BY DEF Init, Market
<1>3. TypeOK
  BY <1>1, <1>2 DEF Init, TypeOK
<1>4. \A e \in Events : Fits(handler[e], positions, trades[e])
  BY <1>1 DEF Init, Fits, BeforeTrade, AfterTrade, Claiming
<1> QED BY <1>3, <1>4 DEF Inv1, HandlersOK

\* The handler of an event that runs, as a constant.
LEMMA HandlerAt ==
  ASSUME Inv1, NEW e \in Events
  PROVE  \E h \in Handler, t \in Trade \union {NoRow} :
            h = handler[e] /\ t = trades[e] /\ Fits(h, positions, t)
  BY DEF Inv1, TypeOK, HandlersOK

LEMMA EmitKept ==
  ASSUME Inv1, NEW e \in Events, NEW event \in Event, Emit(e, event)
  PROVE  Inv1'
<1> DEFINE next == [pc |-> "find", event |-> event]
<1>1. PICK h \in Handler, t \in Trade \union {NoRow} :
        h = handler[e] /\ t = trades[e] /\ Fits(h, positions, t)
  BY HandlerAt
<1>2. h.pc = "waiting"
  BY <1>1 DEF Emit
<1>3. t = NoRow
  BY <1>1, <1>2 DEF Fits, AfterTrade
<1>4. next \in Handler
  BY DEF Handler
<1>5. Fits(next, positions, t)
  BY <1>3 DEF Fits, BeforeTrade, AfterTrade, Claiming
<1>6. overlaps' \in SUBSET SUBSET Events
  BY DEF Emit, Inv1, TypeOK
<1>7. handler' = [handler EXCEPT ![e] = next] /\ UNCHANGED <<market, staked, positions, trades>>
  BY DEF Emit, Continue
<1> HIDE DEF next
<1> QED BY <1>1, <1>4, <1>5, <1>6, <1>7, OneReads

\* A handler that ends keeps what was known of its event, if it has its trade
\* or fails or needs none.
LEMMA EndKept ==
  ASSUME Inv1, NEW e \in Events, NEW pc \in {"done", "failed"}, handler[e].pc # "waiting",
         handler' = [handler EXCEPT ![e] = [pc |-> pc, event |-> handler[e].event]],
         UNCHANGED <<market, positions, trades, overlaps>>, staked' \in [Outcomes -> Nat],
         \/ pc = "failed"
         \/ trades[e] # NoRow
         \/ handler[e].event.name # "BetPlaced"
         \/ ~IsKnown(handler[e].event)
  PROVE  Inv1'
<1>1. PICK h \in Handler, t \in Trade \union {NoRow} :
        h = handler[e] /\ t = trades[e] /\ Fits(h, positions, t)
  BY HandlerAt
<1> DEFINE next == [pc |-> pc, event |-> h.event]
<1>2. h.event \in Event
  BY <1>1, HandlerTypes
<1>3. next \in Handler
  BY <1>2 DEF Handler
<1>4. Fits(next, positions, t)
  BY <1>1 DEF Fits, BeforeTrade, AfterTrade, Claiming
<1>5. /\ market' \in Market /\ positions' \in [Users -> [Outcomes -> Position \union {NoRow}]]
      /\ trades' \in [Events -> Trade \union {NoRow}] /\ overlaps' \in SUBSET SUBSET Events
  BY DEF Inv1, TypeOK
<1>6. handler' = [handler EXCEPT ![e] = next]
  BY <1>1
<1> HIDE DEF next
<1> QED BY <1>1, <1>3, <1>4, <1>5, <1>6, OneMoves

LEMMA FailKept ==
  ASSUME Inv1, NEW e \in Events, Fail(e)
  PROVE  Inv1'
<1>1. staked' \in [Outcomes -> Nat] /\ handler[e].pc # "waiting"
  BY DEF Fail, Inv1, TypeOK, Runs, Ended
<1> QED BY <1>1, EndKept DEF Fail, Continue

LEMMA BetPlacedKept ==
  ASSUME Inv1, NEW e \in Events, handleBetPlaced(e)
  PROVE  Inv1'
<1>1. PICK h \in Handler, t \in Trade \union {NoRow} :
        h = handler[e] /\ t = trades[e] /\ Fits(h, positions, t)
  BY HandlerAt
<1>2. h.pc = "find" /\ h.event.name = "BetPlaced" /\ h.event \in Event
  BY <1>1, HandlerTypes DEF handleBetPlaced
<1>3. PICK c : c = Tables
  OBVIOUS
<1>4. c \in Read
  BY <1>3 DEF Tables, Read, Inv1, TypeOK
<1>5. CASE ~IsKnown(h.event)
  <2>1. staked' \in [Outcomes -> Nat]
    BY DEF handleBetPlaced, Inv1, TypeOK
  <2> QED BY <1>1, <1>2, <1>5, <2>1, EndKept DEF handleBetPlaced, Done, Continue
<1>6. CASE IsKnown(h.event)
  <2> DEFINE next == [pc |-> "findPosition", event |-> h.event, copy |-> c]
  <2>1. next \in Handler
    BY <1>2, <1>4 DEF Handler
  <2>2. t = NoRow
    BY <1>1, <1>2 DEF Fits, AfterTrade
  <2>3. Fits(next, positions, t)
    BY <1>2, <1>6, <2>2 DEF Fits, BeforeTrade, AfterTrade, Claiming
  <2>4. handler' = [handler EXCEPT ![e] = next] /\ UNCHANGED <<market, staked, positions, trades, overlaps>>
    BY <1>1, <1>3, <1>6 DEF handleBetPlaced, Continue
  <2>5. overlaps' \in SUBSET SUBSET Events
    BY <2>4 DEF Inv1, TypeOK
  <2> HIDE DEF next
  <2> QED BY <1>1, <2>1, <2>3, <2>4, <2>5, OneReads
<1> QED BY <1>5, <1>6

\* Until the trade is inserted a handler passes on what it has.
LEMMA FindPositionKept ==
  ASSUME Inv1, NEW e \in Events, FindPosition(e)
  PROVE  Inv1'
<1>1. PICK h \in Handler, t \in Trade \union {NoRow} :
        h = handler[e] /\ t = trades[e] /\ Fits(h, positions, t)
  BY HandlerAt
<1>2. h.pc = "findPosition" /\ h.event \in Event /\ h.copy \in Read
  BY <1>1, HandlerTypes DEF FindPosition, BeforeTrade
<1>3. h.event.name = "BetPlaced" /\ IsKnown(h.event) /\ t = NoRow
  BY <1>1, <1>2 DEF Fits, BeforeTrade, AfterTrade
<1>4. h.event.user \in Users /\ h.event.outcome \in Outcomes /\ h.event.amount \in Nat
  BY <1>2, <1>3, EventTypes
<1>5. PICK row : row = positions[h.event.user][h.event.outcome]
  OBVIOUS
<1>6. row \in Position \union {NoRow}
  BY <1>4, <1>5 DEF Inv1, TypeOK
<1>7. overlaps' \in SUBSET SUBSET Events
  BY DEF FindPosition, Inv1, TypeOK
<1>8. CASE row = NoRow
  <2> DEFINE next == [pc |-> "insertPosition", event |-> h.event, copy |-> h.copy,
                      position |-> [costBasis |-> h.event.amount, claimed |-> FALSE, claimedAmount |-> 0]]
  <2>1. [costBasis |-> h.event.amount, claimed |-> FALSE, claimedAmount |-> 0] \in Position
    BY <1>4 DEF Position
  <2>2. next \in Handler
    BY <1>2, <2>1 DEF Handler
  <2>3. Fits(next, positions, t)
    BY <1>3 DEF Fits, BeforeTrade, AfterTrade, Claiming
  <2>4. handler' = [handler EXCEPT ![e] = next] /\ UNCHANGED <<market, staked, positions, trades>>
    BY <1>1, <1>5, <1>8 DEF FindPosition, Continue
  <2> HIDE DEF next
  <2> QED BY <1>1, <1>7, <2>2, <2>3, <2>4, OneReads
<1>9. CASE row # NoRow
  <2> DEFINE next == [pc |-> "loadPosition", event |-> h.event, copy |-> h.copy,
                      position |-> WithBet(row, h.event.amount)]
  <2>1. WithBet(row, h.event.amount) \in Position
    BY <1>4, <1>6, <1>9 DEF Position, WithBet
  <2>2. next \in Handler
    BY <1>2, <2>1 DEF Handler
  <2>3. Fits(next, positions, t)
    BY <1>3, <1>5, <1>9 DEF Fits, BeforeTrade, AfterTrade, Claiming
  <2>4. handler' = [handler EXCEPT ![e] = next] /\ UNCHANGED <<market, staked, positions, trades>>
    BY <1>1, <1>5, <1>9 DEF FindPosition, Continue
  <2> HIDE DEF next
  <2> QED BY <1>1, <1>7, <2>2, <2>3, <2>4, OneReads
<1> QED BY <1>8, <1>9

LEMMA LoadPositionKept ==
  ASSUME Inv1, NEW e \in Events, LoadPosition(e)
  PROVE  Inv1'
<1>1. PICK h \in Handler, t \in Trade \union {NoRow} :
        h = handler[e] /\ t = trades[e] /\ Fits(h, positions, t)
  BY HandlerAt
<1>2. h.pc = "loadPosition" /\ h.event \in Event /\ h.copy \in Read /\ h.position \in Position
  BY <1>1, HandlerTypes DEF LoadPosition, BeforeTrade
<1>3. h.event.name = "BetPlaced" /\ IsKnown(h.event) /\ t = NoRow
  BY <1>1, <1>2 DEF Fits, BeforeTrade, AfterTrade
<1>4. h.event.user \in Users /\ h.event.outcome \in Outcomes
  BY <1>2, <1>3, EventTypes
<1>5. PICK row : row = positions[h.event.user][h.event.outcome]
  OBVIOUS
<1>6. row # NoRow
  BY <1>1, <1>2, <1>5 DEF Fits
<1>7. row \in Position
  BY <1>4, <1>5, <1>6 DEF Inv1, TypeOK
<1> DEFINE next == [pc |-> "updatePosition", event |-> h.event, copy |-> h.copy,
                    position |-> h.position, seen |-> row]
<1>8. next \in Handler
  BY <1>2, <1>7 DEF Handler
<1>9. Fits(next, positions, t)
  BY <1>3, <1>5, <1>6 DEF Fits, BeforeTrade, AfterTrade, Claiming
<1>10. /\ handler' = [handler EXCEPT ![e] = next]
       /\ UNCHANGED <<market, staked, positions, trades, overlaps>>
  BY <1>1, <1>5 DEF LoadPosition, Continue
<1>11. overlaps' \in SUBSET SUBSET Events
  BY <1>10 DEF Inv1, TypeOK
<1> HIDE DEF next
<1> QED BY <1>1, <1>8, <1>9, <1>10, <1>11, OneReads

\* A position that is set is a row.
LEMMA PositionSet ==
  ASSUME Inv1, NEW u \in Users, NEW o \in Outcomes, NEW row \in Position, SetPosition(u, o, row)
  PROVE  /\ positions' \in [Users -> [Outcomes -> Position \union {NoRow}]]
         /\ \A v \in Users, p \in Outcomes :
              positions'[v][p] = IF v = u /\ p = o THEN row ELSE positions[v][p]
         /\ \A v \in Users, p \in Outcomes : positions[v][p] # NoRow => positions'[v][p] # NoRow
<1>1. positions \in [Users -> [Outcomes -> Position \union {NoRow}]]
  BY DEF Inv1, TypeOK
<1>2. row # NoRow
  BY MarketEventsAssumption
<1>3. positions[u] \in [Outcomes -> Position \union {NoRow}]
  BY <1>1
<1>4. PICK rows : rows = [positions[u] EXCEPT ![o] = row]
  OBVIOUS
<1>5. rows \in [Outcomes -> Position \union {NoRow}]
      /\ \A p \in Outcomes : rows[p] = IF p = o THEN row ELSE positions[u][p]
  BY <1>3, <1>4
<1>6. positions' = [positions EXCEPT ![u] = rows]
  BY <1>4 DEF SetPosition
<1>7. positions' \in [Users -> [Outcomes -> Position \union {NoRow}]]
  BY <1>1, <1>5, <1>6
<1>8. \A v \in Users, p \in Outcomes :
        positions'[v][p] = IF v = u /\ p = o THEN row ELSE positions[v][p]
  BY <1>1, <1>5, <1>6
<1> QED BY <1>2, <1>7, <1>8

LEMMA InsertPositionKept ==
  ASSUME Inv1, NEW e \in Events, InsertPosition(e)
  PROVE  Inv1'
<1>1. PICK h \in Handler, t \in Trade \union {NoRow} :
        h = handler[e] /\ t = trades[e] /\ Fits(h, positions, t)
  BY HandlerAt
<1>2. h.pc = "insertPosition" /\ h.event \in Event /\ h.copy \in Read /\ h.position \in Position
  BY <1>1, HandlerTypes DEF InsertPosition, BeforeTrade
<1>3. h.event.name = "BetPlaced" /\ IsKnown(h.event) /\ t = NoRow
  BY <1>1, <1>2 DEF Fits, BeforeTrade, AfterTrade
<1>4. h.event.user \in Users /\ h.event.outcome \in Outcomes
  BY <1>2, <1>3, EventTypes
<1>5. CASE positions[h.event.user][h.event.outcome] # NoRow
  <2>1. staked' \in [Outcomes -> Nat]
    BY DEF InsertPosition, Inv1, TypeOK
  <2> QED BY <1>1, <1>2, <1>5, <2>1, EndKept DEF InsertPosition, Continue
<1>6. CASE positions[h.event.user][h.event.outcome] = NoRow
  <2>1. PICK next : next = [h EXCEPT !.pc = "insertTrade"]
    OBVIOUS
  <2>2. h \in [pc : {"insertPosition", "loadPosition", "insertTrade"}, event : Event,
               copy : Read, position : Position]
    BY <1>2 DEF Handler
  <2>3. next \in Handler /\ next.pc = "insertTrade" /\ next.event = h.event
    BY <2>1, <2>2 DEF Handler
  <2>4. Fits(next, positions', t)
    BY <1>3, <2>3 DEF Fits, BeforeTrade, AfterTrade, Claiming
  <2>5. /\ handler' = [handler EXCEPT ![e] = next] /\ UNCHANGED <<market, staked, trades, overlaps>>
        /\ SetPosition(h.event.user, h.event.outcome, h.position)
    BY <1>1, <1>6, <2>1 DEF InsertPosition, Continue
  <2>6. /\ market' \in Market /\ staked' \in [Outcomes -> Nat]
        /\ trades' \in [Events -> Trade \union {NoRow}] /\ overlaps' \in SUBSET SUBSET Events
    BY <2>5 DEF Inv1, TypeOK
  <2>7. /\ positions' \in [Users -> [Outcomes -> Position \union {NoRow}]]
        /\ \A v \in Users, p \in Outcomes : positions[v][p] # NoRow => positions'[v][p] # NoRow
    BY <1>2, <1>4, <2>5, PositionSet
  <2> QED BY <1>1, <2>3, <2>4, <2>5, <2>6, <2>7, OneMoves
<1> QED BY <1>5, <1>6

LEMMA UpdatePositionKept ==
  ASSUME Inv1, NEW e \in Events, UpdatePosition(e)
  PROVE  Inv1'
<1>1. PICK h \in Handler, t \in Trade \union {NoRow} :
        h = handler[e] /\ t = trades[e] /\ Fits(h, positions, t)
  BY HandlerAt
<1>2. /\ h.pc = "updatePosition" /\ h.event \in Event /\ h.copy \in Read
      /\ h.position \in Position /\ h.seen \in Position
  BY <1>1, HandlerTypes DEF UpdatePosition, BeforeTrade
<1>3. h.event.name = "BetPlaced" /\ IsKnown(h.event) /\ t = NoRow
  BY <1>1, <1>2 DEF Fits, BeforeTrade, AfterTrade
<1>4. h.event.user \in Users /\ h.event.outcome \in Outcomes
  BY <1>2, <1>3, EventTypes
<1>5. PICK row : row = positions[h.event.user][h.event.outcome]
  OBVIOUS
<1>6. row # NoRow
  BY <1>1, <1>2, <1>5 DEF Fits
<1>7. row \in Position
  BY <1>4, <1>5, <1>6 DEF Inv1, TypeOK
<1>8. Updated(row, h.seen, h.position) \in Position
  BY <1>2, <1>7, UpdatedPosition
<1> DEFINE next == [pc |-> "insertTrade", event |-> h.event, copy |-> h.copy, position |-> h.position]
<1>9. next \in Handler
  BY <1>2 DEF Handler
<1>10. Fits(next, positions', t)
  BY <1>3 DEF Fits, BeforeTrade, AfterTrade, Claiming
<1>11. /\ handler' = [handler EXCEPT ![e] = next] /\ UNCHANGED <<market, staked, trades, overlaps>>
       /\ SetPosition(h.event.user, h.event.outcome, Updated(row, h.seen, h.position))
  BY <1>1, <1>5 DEF UpdatePosition, Continue
<1>12. /\ market' \in Market /\ staked' \in [Outcomes -> Nat]
       /\ trades' \in [Events -> Trade \union {NoRow}] /\ overlaps' \in SUBSET SUBSET Events
  BY <1>11 DEF Inv1, TypeOK
<1>13. /\ positions' \in [Users -> [Outcomes -> Position \union {NoRow}]]
       /\ \A v \in Users, p \in Outcomes : positions[v][p] # NoRow => positions'[v][p] # NoRow
  BY <1>4, <1>8, <1>11, PositionSet
<1> HIDE DEF next
<1> QED BY <1>1, <1>9, <1>10, <1>11, <1>12, <1>13, OneMoves DEF next

LEMMA InsertTradeKept ==
  ASSUME Inv1, NEW e \in Events, InsertTrade(e)
  PROVE  Inv1'
<1>1. PICK h \in Handler, t \in Trade \union {NoRow} :
        h = handler[e] /\ t = trades[e] /\ Fits(h, positions, t)
  BY HandlerAt
<1>2. h.pc = "insertTrade" /\ h.event \in Event
      /\ h.copy \in Read /\ h.copy.market \in Market /\ h.position \in Position
  BY <1>1, HandlerTypes DEF InsertTrade, BeforeTrade
<1>3. h.event.name = "BetPlaced" /\ IsKnown(h.event)
  BY <1>1, <1>2 DEF Fits, BeforeTrade
<1>4. h.event.user \in Users /\ h.event.outcome \in Outcomes /\ h.event.amount \in Amounts /\ h.event.amount \in Nat
  BY <1>2, <1>3, EventTypes
<1>5. PICK m : m = WithTrade(h.copy.market, h.event.amount, h.position)
  OBVIOUS
<1>6. m \in Market
  BY <1>2, <1>4, <1>5, TradeAdded
<1>7. PICK c : c = [h.copy EXCEPT !.market = m]
  OBVIOUS
<1>8. c \in Read
  BY <1>2, <1>6, <1>7 DEF Read
<1> DEFINE next == [pc |-> "loadMarket", event |-> h.event, copy |-> c]
           trade == [user |-> h.event.user, outcome |-> h.event.outcome, amount |-> h.event.amount]
<1>9. next \in Handler
  BY <1>2, <1>8 DEF Handler
<1>10. trade \in Trade /\ trade # NoRow
  <2>1. trade \in Trade
    BY <1>3, <1>4 DEF Trade, IsKnown
  <2> QED BY <2>1, MarketEventsAssumption
<1>11. Fits(next, positions, trade)
  BY <1>3, <1>10 DEF Fits, BeforeTrade, AfterTrade, Claiming
<1>12. /\ handler' = [handler EXCEPT ![e] = next] /\ trades' = [trades EXCEPT ![e] = trade]
       /\ UNCHANGED <<market, staked, positions, overlaps>>
  BY <1>1, <1>5, <1>7 DEF InsertTrade, Continue
<1>13. /\ market' \in Market /\ staked' \in [Outcomes -> Nat]
       /\ positions' \in [Users -> [Outcomes -> Position \union {NoRow}]] /\ overlaps' \in SUBSET SUBSET Events
  BY <1>12 DEF Inv1, TypeOK
<1>14. /\ trades' \in [Events -> Trade \union {NoRow}] /\ trades'[e] = trade
       /\ \A i \in Events : i # e => trades'[i] = trades[i]
  BY <1>10, <1>12 DEF Inv1, TypeOK
<1> HIDE DEF next, trade
<1> QED BY <1>9, <1>11, <1>12, <1>13, <1>14, OneMoves

LEMMA MarketResolvedKept ==
  ASSUME Inv1, NEW e \in Events, handleMarketResolved(e)
  PROVE  Inv1'
<1>1. PICK h \in Handler, t \in Trade \union {NoRow} :
        h = handler[e] /\ t = trades[e] /\ Fits(h, positions, t)
  BY HandlerAt
<1>2. h.pc = "find" /\ h.event.name = "MarketResolved" /\ h.event \in Event
  BY <1>1, HandlerTypes DEF handleMarketResolved
<1>3. h.event.outcome \in Outcomes
  BY <1>2, EventTypes
<1>4. PICK c : c = [Tables EXCEPT !.market.status = "RESOLVED", !.market.winningOutcomeIndex = h.event.outcome]
  OBVIOUS
<1>5. c \in Read
  <2>1. PICK m : m = [market EXCEPT !.status = "RESOLVED", !.winningOutcomeIndex = h.event.outcome]
    OBVIOUS
  <2>2. m \in Market
    BY <1>3, <2>1 DEF Market, Inv1, TypeOK
  <2>3. c = [market |-> m, staked |-> staked]
    BY <1>4, <2>1 DEF Tables
  <2> QED BY <2>2, <2>3 DEF Read, Inv1, TypeOK
<1> DEFINE next == [pc |-> "loadMarket", event |-> h.event, copy |-> c]
<1>6. next \in Handler
  BY <1>2, <1>5 DEF Handler
<1>7. t = NoRow
  BY <1>1, <1>2 DEF Fits, AfterTrade
<1>8. Fits(next, positions, t)
  BY <1>2, <1>7 DEF Fits, BeforeTrade, AfterTrade, Claiming
<1>9. handler' = [handler EXCEPT ![e] = next] /\ UNCHANGED <<market, staked, positions, trades, overlaps>>
  BY <1>1, <1>4 DEF handleMarketResolved, Continue
<1>10. overlaps' \in SUBSET SUBSET Events
  BY <1>9 DEF Inv1, TypeOK
<1> HIDE DEF next
<1> QED BY <1>1, <1>6, <1>8, <1>9, <1>10, OneReads

LEMMA AdminRequestKept ==
  ASSUME Inv1, NEW e \in Events, adminRequest(e)
  PROVE  Inv1'
<1>1. PICK h \in Handler, t \in Trade \union {NoRow} :
        h = handler[e] /\ t = trades[e] /\ Fits(h, positions, t)
  BY HandlerAt
<1>2. h.pc = "find" /\ h.event.name = "AdminRequest" /\ h.event \in Event
  BY <1>1, HandlerTypes DEF adminRequest
<1>3. CASE ~CanChange(h.event.status)
  <2>1. staked' \in [Outcomes -> Nat]
    BY DEF adminRequest, Inv1, TypeOK
  <2> QED BY <1>1, <1>2, <1>3, <2>1, EndKept DEF adminRequest, Done, Continue
<1>4. CASE CanChange(h.event.status)
  <2>1. h.event.status \in {"ACTIVE", "DISPUTED", "CANCELLED"}
    BY <1>2, EventTypes
  <2>2. PICK c : c = [Tables EXCEPT !.market.status = h.event.status]
    OBVIOUS
  <2>3. c \in Read
    <3>1. PICK m : m = [market EXCEPT !.status = h.event.status]
      OBVIOUS
    <3>2. m \in Market
      BY <2>1, <3>1 DEF Market, Inv1, TypeOK
    <3>3. c = [market |-> m, staked |-> staked]
      BY <2>2, <3>1 DEF Tables
    <3> QED BY <3>2, <3>3 DEF Read, Inv1, TypeOK
  <2> DEFINE next == [pc |-> "loadMarket", event |-> h.event, copy |-> c]
  <2>4. next \in Handler
    BY <1>2, <2>3 DEF Handler
  <2>5. t = NoRow
    BY <1>1, <1>2 DEF Fits, AfterTrade
  <2>6. Fits(next, positions, t)
    BY <1>2, <2>5 DEF Fits, BeforeTrade, AfterTrade, Claiming
  <2>7. handler' = [handler EXCEPT ![e] = next] /\ UNCHANGED <<market, staked, positions, trades, overlaps>>
    BY <1>1, <1>4, <2>2 DEF adminRequest, Continue
  <2>8. overlaps' \in SUBSET SUBSET Events
    BY <2>7 DEF Inv1, TypeOK
  <2> HIDE DEF next
  <2> QED BY <1>1, <2>4, <2>6, <2>7, <2>8, OneReads
<1> QED BY <1>3, <1>4

LEMMA LoadMarketKept ==
  ASSUME Inv1, NEW e \in Events, LoadMarket(e)
  PROVE  Inv1'
<1>1. PICK h \in Handler, t \in Trade \union {NoRow} :
        h = handler[e] /\ t = trades[e] /\ Fits(h, positions, t)
  BY HandlerAt
<1>2. h.pc = "loadMarket" /\ h.event \in Event /\ h.copy \in Read
  BY <1>1, HandlerTypes DEF LoadMarket, AfterTrade
<1>3. PICK c : c = Tables
  OBVIOUS
<1>4. c \in Read
  BY <1>3 DEF Tables, Read, Inv1, TypeOK
<1> DEFINE next == [pc |-> "updateMarket", event |-> h.event, copy |-> h.copy, seen |-> c]
<1>5. next \in Handler
  BY <1>2, <1>4 DEF Handler
<1>6. Fits(next, positions, t)
  BY <1>1, <1>2 DEF Fits, BeforeTrade, AfterTrade, Claiming
<1>7. handler' = [handler EXCEPT ![e] = next] /\ UNCHANGED <<market, staked, positions, trades, overlaps>>
  BY <1>1, <1>3 DEF LoadMarket, Continue
<1>8. overlaps' \in SUBSET SUBSET Events
  BY <1>7 DEF Inv1, TypeOK
<1> HIDE DEF next
<1> QED BY <1>1, <1>5, <1>6, <1>7, <1>8, OneReads

LEMMA UpdateMarketKept ==
  ASSUME Inv1, NEW e \in Events, UpdateMarket(e)
  PROVE  Inv1'
<1>1. PICK h \in Handler, t \in Trade \union {NoRow} :
        h = handler[e] /\ t = trades[e] /\ Fits(h, positions, t)
  BY HandlerAt
<1>2. /\ h.pc = "updateMarket" /\ h.event \in Event
      /\ h.copy \in Read /\ h.copy.market \in Market /\ h.copy.staked \in [Outcomes -> Nat]
      /\ h.seen.market \in Market /\ h.seen.staked \in [Outcomes -> Nat]
  BY <1>1, HandlerTypes DEF UpdateMarket, AfterTrade
<1>3. market' \in Market
  <2>1. market \in Market
    BY DEF Inv1, TypeOK
  <2>2. market' = Updated(market, h.seen.market, h.copy.market)
    BY <1>1 DEF UpdateMarket
  <2> QED BY <1>2, <2>1, <2>2, UpdatedMarket
<1>4. staked' \in [Outcomes -> Nat]
  <2>1. staked \in [Outcomes -> Nat]
    BY DEF Inv1, TypeOK
  <2>2. staked' = Updated(staked, h.seen.staked, h.copy.staked) \/ staked' = staked
    BY <1>1 DEF UpdateMarket
  <2> QED BY <1>2, <2>1, <2>2, UpdatedStakes
<1>5. /\ positions' \in [Users -> [Outcomes -> Position \union {NoRow}]]
      /\ trades' \in [Events -> Trade \union {NoRow}] /\ overlaps' \in SUBSET SUBSET Events
      /\ UNCHANGED <<positions, trades>>
  BY DEF Inv1, TypeOK, UpdateMarket
<1>6. CASE h.event.name = "BetPlaced"
  <2>1. h.event.outcome \in Outcomes /\ h.event.amount \in Nat
    BY <1>2, <1>6, EventTypes
  <2>2. PICK c : c = [h.copy EXCEPT !.staked[h.event.outcome] = @ + h.event.amount]
    OBVIOUS
  <2>3. c \in Read
    <3>1. PICK s : s = [h.copy.staked EXCEPT ![h.event.outcome] = @ + h.event.amount]
      OBVIOUS
    <3>2. s \in [Outcomes -> Nat]
      BY <1>2, <2>1, <3>1
    <3>3. c = [h.copy EXCEPT !.staked = s]
      BY <2>2, <3>1
    <3> QED BY <1>2, <3>2, <3>3 DEF Read
  <2> DEFINE next == [pc |-> "loadOutcome", event |-> h.event, copy |-> c]
  <2>4. next \in Handler
    BY <1>2, <2>3 DEF Handler
  <2>5. Fits(next, positions, t)
    BY <1>1, <1>2, <1>6 DEF Fits, BeforeTrade, AfterTrade, Claiming
  <2>6. handler' = [handler EXCEPT ![e] = next]
    BY <1>1, <1>6, <2>2 DEF UpdateMarket, Continue
  <2> HIDE DEF next
  <2> QED BY <1>1, <1>3, <1>4, <1>5, <2>4, <2>5, <2>6, OneMoves
<1>7. CASE h.event.name # "BetPlaced"
  <2> DEFINE next == [pc |-> "done", event |-> h.event]
  <2>1. next \in Handler
    BY <1>2 DEF Handler
  <2>2. Fits(next, positions, t)
    BY <1>1, <1>2, <1>7 DEF Fits, BeforeTrade, AfterTrade, Claiming
  <2>3. handler' = [handler EXCEPT ![e] = next]
    BY <1>1, <1>7 DEF UpdateMarket, Done, Continue
  <2> HIDE DEF next
  <2> QED BY <1>1, <1>3, <1>4, <1>5, <2>1, <2>2, <2>3, OneMoves
<1> QED BY <1>6, <1>7

LEMMA LoadOutcomeKept ==
  ASSUME Inv1, NEW e \in Events, LoadOutcome(e)
  PROVE  Inv1'
<1>1. PICK h \in Handler, t \in Trade \union {NoRow} :
        h = handler[e] /\ t = trades[e] /\ Fits(h, positions, t)
  BY HandlerAt
<1>2. h.pc = "loadOutcome" /\ h.event \in Event /\ h.copy \in Read
  BY <1>1, HandlerTypes DEF LoadOutcome, AfterTrade
<1>3. PICK c : c = Tables
  OBVIOUS
<1>4. c \in Read
  BY <1>3 DEF Tables, Read, Inv1, TypeOK
<1> DEFINE next == [pc |-> "updateOutcome", event |-> h.event, copy |-> h.copy, seen |-> c]
<1>5. next \in Handler
  BY <1>2, <1>4 DEF Handler
<1>6. Fits(next, positions, t)
  BY <1>1, <1>2 DEF Fits, BeforeTrade, AfterTrade, Claiming
<1>7. handler' = [handler EXCEPT ![e] = next] /\ UNCHANGED <<market, staked, positions, trades, overlaps>>
  BY <1>1, <1>3 DEF LoadOutcome, Continue
<1>8. overlaps' \in SUBSET SUBSET Events
  BY <1>7 DEF Inv1, TypeOK
<1> HIDE DEF next
<1> QED BY <1>1, <1>5, <1>6, <1>7, <1>8, OneReads

LEMMA UpdateOutcomeKept ==
  ASSUME Inv1, NEW e \in Events, UpdateOutcome(e)
  PROVE  Inv1'
<1>1. PICK h \in Handler, t \in Trade \union {NoRow} :
        h = handler[e] /\ t = trades[e] /\ Fits(h, positions, t)
  BY HandlerAt
<1>2. /\ h.pc = "updateOutcome" /\ h.event \in Event
      /\ h.copy.staked \in [Outcomes -> Nat] /\ h.seen.staked \in [Outcomes -> Nat]
  BY <1>1, HandlerTypes DEF UpdateOutcome, AfterTrade
<1>3. h.event.name = "BetPlaced" /\ IsKnown(h.event)
  BY <1>1, <1>2 DEF Fits
<1>4. h.event.outcome \in Outcomes
  BY <1>2, <1>3, EventTypes
<1>5. t # NoRow
  BY <1>1, <1>2, <1>3 DEF Fits, AfterTrade
<1>6. staked' \in [Outcomes -> Nat]
  <2>1. staked \in [Outcomes -> Nat]
    BY DEF Inv1, TypeOK
  <2>2. PICK n : n = Column(staked[h.event.outcome], h.seen.staked[h.event.outcome], h.copy.staked[h.event.outcome])
    OBVIOUS
  <2>3. n \in Nat
    BY <1>2, <1>4, <2>1, <2>2 DEF Column
  <2>4. staked' = [staked EXCEPT ![h.event.outcome] = n]
    BY <1>1, <2>2 DEF UpdateOutcome
  <2> QED BY <2>1, <2>3, <2>4
<1>7. /\ handler[e].pc # "waiting" /\ trades[e] # NoRow
      /\ handler' = [handler EXCEPT ![e] = [pc |-> "done", event |-> handler[e].event]]
      /\ UNCHANGED <<market, positions, trades, overlaps>>
  BY <1>1, <1>2, <1>5 DEF UpdateOutcome, Done, Continue
<1> QED BY <1>6, <1>7, EndKept

LEMMA WinningsClaimedKept ==
  ASSUME Inv1, NEW e \in Events, handleWinningsClaimed(e)
  PROVE  Inv1'
<1>1. PICK h \in Handler, t \in Trade \union {NoRow} :
        h = handler[e] /\ t = trades[e] /\ Fits(h, positions, t)
  BY HandlerAt
<1>2. h.pc = "find" /\ h.event.name = "WinningsClaimed" /\ h.event \in Event
  BY <1>1, HandlerTypes DEF handleWinningsClaimed
<1>3. CASE h.event.user \notin Registered
  <2>1. staked' \in [Outcomes -> Nat]
    BY DEF handleWinningsClaimed, Inv1, TypeOK
  <2> QED BY <1>1, <1>2, <1>3, <2>1, EndKept DEF handleWinningsClaimed, Done, Continue
<1>4. CASE h.event.user \in Registered
  <2> DEFINE next == [pc |-> "findPositions", event |-> h.event]
  <2>1. next \in Handler
    BY <1>2 DEF Handler
  <2>2. t = NoRow
    BY <1>1, <1>2 DEF Fits, AfterTrade
  <2>3. Fits(next, positions, t)
    BY <1>2, <2>2 DEF Fits, BeforeTrade, AfterTrade, Claiming
  <2>4. handler' = [handler EXCEPT ![e] = next] /\ UNCHANGED <<market, staked, positions, trades, overlaps>>
    BY <1>1, <1>4 DEF handleWinningsClaimed, Continue
  <2>5. overlaps' \in SUBSET SUBSET Events
    BY <2>4 DEF Inv1, TypeOK
  <2> HIDE DEF next
  <2> QED BY <1>1, <2>1, <2>3, <2>4, <2>5, OneReads
<1> QED BY <1>3, <1>4

\* The row of a position that was paid, as handleWinningsClaimed saves it.
Paid(row, amount) == [row EXCEPT !.claimed = TRUE, !.claimedAmount = amount]

LEMMA FindPositionsKept ==
  ASSUME Inv1, NEW e \in Events, FindPositions(e)
  PROVE  Inv1'
<1>1. PICK h \in Handler, t \in Trade \union {NoRow} :
        h = handler[e] /\ t = trades[e] /\ Fits(h, positions, t)
  BY HandlerAt
<1>2. h.pc = "findPositions" /\ h.event \in Event
  BY <1>1, HandlerTypes DEF FindPositions, Claiming
<1>3. h.event.name = "WinningsClaimed" /\ t = NoRow
  BY <1>1, <1>2 DEF Fits, Claiming, AfterTrade
<1>4. h.event.user \in Users /\ h.event.amount \in Nat
  BY <1>2, <1>3, EventTypes
<1>5. PICK found : found = positions[h.event.user]
  OBVIOUS
<1>6. found \in [Outcomes -> Position \union {NoRow}]
  BY <1>4, <1>5 DEF Inv1, TypeOK
<1>7. PICK rows : rows = [o \in Outcomes |-> IF IsUnclaimed(found[o]) THEN Paid(found[o], h.event.amount) ELSE NoRow]
  OBVIOUS
<1>8. /\ rows \in [Outcomes -> Position \union {NoRow}]
      /\ \A o \in Outcomes : rows[o] # NoRow => found[o] # NoRow
  <2>1. ASSUME NEW o \in Outcomes, IsUnclaimed(found[o]) PROVE Paid(found[o], h.event.amount) \in Position
    BY <1>4, <1>6, <2>1 DEF IsUnclaimed, Paid, Position
  <2> QED BY <1>6, <1>7, <2>1 DEF IsUnclaimed
<1> DEFINE next == [pc |-> "claim", event |-> h.event, rows |-> rows]
<1>9. next \in Handler
  BY <1>2, <1>8 DEF Handler
<1>10. Fits(next, positions, t)
  BY <1>3, <1>5, <1>8 DEF Fits, BeforeTrade, AfterTrade, Claiming
<1>11. handler' = [handler EXCEPT ![e] = next] /\ UNCHANGED <<market, staked, positions, trades, overlaps>>
  BY <1>1, <1>5, <1>7 DEF FindPositions, Continue, Paid
<1>12. overlaps' \in SUBSET SUBSET Events
  BY <1>11 DEF Inv1, TypeOK
<1> HIDE DEF next
<1> QED BY <1>1, <1>9, <1>10, <1>11, <1>12, OneReads

LEMMA LoadClaimKept ==
  ASSUME Inv1, NEW e \in Events, NEW o \in Outcomes, LoadClaim(e, o)
  PROVE  Inv1'
<1>1. PICK h \in Handler, t \in Trade \union {NoRow} :
        h = handler[e] /\ t = trades[e] /\ Fits(h, positions, t)
  BY HandlerAt
<1>2. /\ h.pc = "claim" /\ h.event \in Event /\ h.rows \in [Outcomes -> Position \union {NoRow}]
      /\ h.rows[o] # NoRow
  BY <1>1, HandlerTypes DEF LoadClaim, Claiming
<1>3. h.event.name = "WinningsClaimed" /\ t = NoRow
  BY <1>1, <1>2 DEF Fits, Claiming, AfterTrade
<1>4. h.event.user \in Users
  BY <1>2, <1>3, EventTypes
<1>5. PICK row : row = positions[h.event.user][o]
  OBVIOUS
<1>6. row # NoRow
  BY <1>1, <1>2, <1>5 DEF Fits
<1>7. row \in Position
  BY <1>4, <1>5, <1>6 DEF Inv1, TypeOK
<1> DEFINE next == [pc |-> "updateClaim", event |-> h.event, rows |-> h.rows, outcome |-> o, seen |-> row]
<1>8. next \in Handler
  BY <1>2, <1>7 DEF Handler
<1>9. Fits(next, positions, t)
  BY <1>1, <1>2, <1>3 DEF Fits, BeforeTrade, AfterTrade, Claiming
<1>10. handler' = [handler EXCEPT ![e] = next] /\ UNCHANGED <<market, staked, positions, trades, overlaps>>
  BY <1>1, <1>5 DEF LoadClaim, Continue
<1>11. overlaps' \in SUBSET SUBSET Events
  BY <1>10 DEF Inv1, TypeOK
<1> HIDE DEF next
<1> QED BY <1>1, <1>8, <1>9, <1>10, <1>11, OneReads

LEMMA UpdateClaimKept ==
  ASSUME Inv1, NEW e \in Events, UpdateClaim(e)
  PROVE  Inv1'
<1>1. PICK h \in Handler, t \in Trade \union {NoRow} :
        h = handler[e] /\ t = trades[e] /\ Fits(h, positions, t)
  BY HandlerAt
<1>2. /\ h.pc = "updateClaim" /\ h.event \in Event /\ h.rows \in [Outcomes -> Position \union {NoRow}]
      /\ h.outcome \in Outcomes /\ h.seen \in Position
  BY <1>1, HandlerTypes DEF UpdateClaim, Claiming
<1>3. h.event.name = "WinningsClaimed" /\ t = NoRow /\ h.rows[h.outcome] # NoRow
  BY <1>1, <1>2 DEF Fits, Claiming, AfterTrade
<1>4. h.event.user \in Users
  BY <1>2, <1>3, EventTypes
<1>5. PICK row : row = positions[h.event.user][h.outcome]
  OBVIOUS
<1>6. row # NoRow
  BY <1>1, <1>2, <1>3, <1>5 DEF Fits
<1>7. row \in Position /\ h.rows[h.outcome] \in Position
  BY <1>2, <1>3, <1>4, <1>5, <1>6 DEF Inv1, TypeOK
<1>8. Updated(row, h.seen, h.rows[h.outcome]) \in Position
  BY <1>2, <1>7, UpdatedPosition
<1>9. /\ handler' = [handler EXCEPT ![e] = [pc |-> "claim", event |-> h.event,
                rows |-> [h.rows EXCEPT ![h.outcome] = NoRow]]]
      /\ SetPosition(h.event.user, h.outcome, Updated(row, h.seen, h.rows[h.outcome]))
      /\ UNCHANGED <<market, staked, trades, overlaps>>
  BY <1>1, <1>5 DEF UpdateClaim, Continue
<1>10. /\ positions' \in [Users -> [Outcomes -> Position \union {NoRow}]]
       /\ \A v \in Users, p \in Outcomes : positions[v][p] # NoRow => positions'[v][p] # NoRow
  BY <1>2, <1>4, <1>8, <1>9, PositionSet
<1>11. PICK rows : rows = [h.rows EXCEPT ![h.outcome] = NoRow]
  OBVIOUS
<1>12. /\ rows \in [Outcomes -> Position \union {NoRow}]
       /\ \A o \in Outcomes : rows[o] # NoRow => h.rows[o] # NoRow
  BY <1>2, <1>11
<1> DEFINE next == [pc |-> "claim", event |-> h.event, rows |-> rows]
<1>13. next \in Handler
  BY <1>2, <1>12 DEF Handler
<1>14. Fits(next, positions', t)
  <2>1. \A o \in Outcomes : rows[o] # NoRow => positions'[h.event.user][o] # NoRow
    BY <1>1, <1>2, <1>4, <1>10, <1>12 DEF Fits
  <2> QED BY <1>3, <2>1 DEF Fits, BeforeTrade, AfterTrade, Claiming
<1>15. /\ market' \in Market /\ staked' \in [Outcomes -> Nat]
       /\ trades' \in [Events -> Trade \union {NoRow}] /\ overlaps' \in SUBSET SUBSET Events
  BY <1>9 DEF Inv1, TypeOK
<1>16. handler' = [handler EXCEPT ![e] = next] /\ trades' = trades
  BY <1>9, <1>11
<1> HIDE DEF next
<1> QED BY <1>1, <1>10, <1>13, <1>14, <1>15, <1>16, OneMoves

LEMMA EndClaimKept ==
  ASSUME Inv1, NEW e \in Events, EndClaim(e)
  PROVE  Inv1'
<1>1. PICK h \in Handler, t \in Trade \union {NoRow} :
        h = handler[e] /\ t = trades[e] /\ Fits(h, positions, t)
  BY HandlerAt
<1>2. h.pc = "claim" /\ h.event.name = "WinningsClaimed"
  BY <1>1 DEF EndClaim, Fits, Claiming
<1>3. staked' \in [Outcomes -> Nat]
  BY DEF EndClaim, Inv1, TypeOK
<1>4. /\ handler[e].pc # "waiting" /\ handler[e].event.name # "BetPlaced"
      /\ handler' = [handler EXCEPT ![e] = [pc |-> "done", event |-> handler[e].event]]
      /\ UNCHANGED <<market, positions, trades, overlaps>>
  BY <1>1, <1>2 DEF EndClaim, Done, Continue
<1> QED BY <1>3, <1>4, EndKept

LEMMA HandlersKept == Inv1 /\ [Next]_vars => Inv1'
<1> SUFFICES ASSUME Inv1, [Next]_vars PROVE Inv1'
  OBVIOUS
<1>1. CASE UNCHANGED vars
  BY <1>1 DEF vars, Inv1, TypeOK, HandlersOK
<1>2. ASSUME NEW e \in Events, NEW event \in Event, Emit(e, event) PROVE Inv1'
  BY <1>2, EmitKept
<1>3. ASSUME NEW e \in Events, Fail(e) PROVE Inv1'
  BY <1>3, FailKept
<1>4. ASSUME NEW e \in Events, Handle(e) PROVE Inv1'
  BY <1>4, BetPlacedKept, FindPositionKept, InsertPositionKept, LoadPositionKept, UpdatePositionKept,
     InsertTradeKept, MarketResolvedKept, AdminRequestKept, LoadMarketKept, UpdateMarketKept, LoadOutcomeKept, UpdateOutcomeKept,
     WinningsClaimedKept, FindPositionsKept, LoadClaimKept, UpdateClaimKept, EndClaimKept, Zenon DEF Handle
<1> QED BY <1>1, <1>2, <1>3, <1>4 DEF Next

(* Rows and copies have their types, although a handler saves what it read   *)
(* long ago: a row that was found is still there when it is read again       *)
(* (save in handleBetPlaced and handleWinningsClaimed).                      *)
THEOREM TypeCorrect == Spec => []TypeOK
<1>1. Inv1 => TypeOK
  BY DEF Inv1
<1> QED BY <1>1, InitKept, HandlersKept, PTL DEF Spec

-----------------------------------------------------------------------------
(* Which events the contract emits, and which of their handlers overlap.     *)

Named(name) == {e \in Emitted : handler[e].event.name = name}

SameMarket(e, other) == handler[e].event.market = handler[other].event.market

\* A market is resolved once, two handlers that run have been noted, and so
\* has every bet on a market still handled when a payment of the market came.
EmissionOK ==
    /\ \A r, q \in Named("MarketResolved") : SameMarket(r, q) => r = q
    /\ \A e, other \in Events : Runs(e) /\ Runs(other) /\ e # other => {e, other} \in overlaps
    /\ \A c \in Named("WinningsClaimed"), e \in Named("BetPlaced") :
         SameMarket(c, e) /\ Runs(e) => {c, e} \in overlaps

Moves(e) ==
    /\ Runs(e)
    /\ handler'[e].pc # "waiting" /\ handler'[e].event = handler[e].event
    /\ \A i \in Events : i # e => handler'[i] = handler[i]
    /\ overlaps' = overlaps

\* A command of a handler, or its failure, moves it alone and about one event.
LEMMA HandlerMoves ==
  ASSUME Inv1, NEW e \in Events, Handle(e) \/ Fail(e)
  PROVE  Moves(e)
<1>1. PICK h \in Handler : h = handler[e]
  BY HandlerAt
<1>2. handler \in [Events -> Handler]
  BY DEF Inv1, TypeOK
<1> USE DEF Moves
<1>5. CASE Fail(e)
  BY <1>1, <1>2, <1>5 DEF Fail, Continue
<1>6. CASE handleBetPlaced(e)
  BY <1>1, <1>2, <1>6 DEF handleBetPlaced, Done, Continue, Runs, Ended
<1>7. CASE FindPosition(e)
  BY <1>1, <1>2, <1>7 DEF FindPosition, Continue, Runs, Ended
<1>8. CASE InsertPosition(e)
  <2>1. h.pc = "insertPosition" /\ overlaps' = overlaps
    BY <1>1, <1>8 DEF InsertPosition
  <2>2. PICK next : next = [h EXCEPT !.pc = "insertTrade"]
    OBVIOUS
  <2>3. h \in [pc : {"insertPosition", "loadPosition", "insertTrade"}, event : Event,
               copy : Read, position : Position]
    BY <2>1 DEF Handler
  <2>4. next.pc = "insertTrade" /\ next.event = h.event
    BY <2>2, <2>3
  <2>5. Continue(e, next) \/ Continue(e, [pc |-> "failed", event |-> h.event])
    BY <1>1, <1>8, <2>2 DEF InsertPosition
  <2>6. CASE Continue(e, next)
    BY <1>1, <1>2, <2>1, <2>4, <2>6 DEF Continue, Runs, Ended
  <2>7. CASE Continue(e, [pc |-> "failed", event |-> h.event])
    BY <1>1, <1>2, <2>1, <2>7 DEF Continue, Runs, Ended
  <2> QED BY <2>5, <2>6, <2>7
<1>9. CASE LoadPosition(e)
  BY <1>1, <1>2, <1>9 DEF LoadPosition, Continue, Runs, Ended
<1>10. CASE UpdatePosition(e)
  BY <1>1, <1>2, <1>10 DEF UpdatePosition, Continue, Runs, Ended
<1>11. CASE InsertTrade(e)
  BY <1>1, <1>2, <1>11 DEF InsertTrade, Continue, Runs, Ended
<1>12. CASE handleMarketResolved(e)
  BY <1>1, <1>2, <1>12 DEF handleMarketResolved, Continue, Runs, Ended
<1>13. CASE LoadMarket(e)
  BY <1>1, <1>2, <1>13 DEF LoadMarket, Continue, Runs, Ended
<1>22. CASE adminRequest(e)
  BY <1>1, <1>2, <1>22 DEF adminRequest, Done, Continue, Runs, Ended
<1>14. CASE UpdateMarket(e)
  BY <1>1, <1>2, <1>14 DEF UpdateMarket, Done, Continue, Runs, Ended
<1>15. CASE LoadOutcome(e)
  BY <1>1, <1>2, <1>15 DEF LoadOutcome, Continue, Runs, Ended
<1>16. CASE UpdateOutcome(e)
  BY <1>1, <1>2, <1>16 DEF UpdateOutcome, Done, Continue, Runs, Ended
<1>17. CASE handleWinningsClaimed(e)
  BY <1>1, <1>2, <1>17 DEF handleWinningsClaimed, Done, Continue, Runs, Ended
<1>18. CASE FindPositions(e)
  BY <1>1, <1>2, <1>18 DEF FindPositions, Continue, Runs, Ended
<1>19. ASSUME NEW o \in Outcomes, LoadClaim(e, o) PROVE Moves(e)
  BY <1>1, <1>2, <1>19 DEF LoadClaim, Continue, Runs, Ended
<1>20. CASE UpdateClaim(e)
  BY <1>1, <1>2, <1>20 DEF UpdateClaim, Continue, Runs, Ended
<1>21. CASE EndClaim(e)
  BY <1>1, <1>2, <1>21 DEF EndClaim, Done, Continue, Runs, Ended
<1> HIDE DEF Moves
<1> QED BY <1>5, <1>6, <1>7, <1>8, <1>9, <1>10, <1>11, <1>12, <1>13, <1>14, <1>15, <1>16, <1>17, <1>18,
           <1>19, <1>20, <1>21, <1>22, Zenon DEF Handle

\* The events emitted stay, and what runs ran before.
LEMMA SameEvents ==
  ASSUME Inv1, NEW e \in Events, Handle(e) \/ Fail(e)
  PROVE  /\ Emitted' = Emitted
         /\ \A i \in Events : (handler'[i].event = handler[i].event \/ i \notin Emitted) /\ (Runs(i)' => Runs(i))
         /\ \A name : Named(name)' = Named(name)
<1>1. /\ Runs(e)
      /\ handler'[e].pc # "waiting" /\ handler'[e].event = handler[e].event
      /\ \A i \in Events : i # e => handler'[i] = handler[i]
  BY HandlerMoves DEF Moves
<1>2. Emitted' = Emitted
  BY <1>1 DEF Emitted, Runs, Ended
<1>3. \A i \in Events : handler'[i].event = handler[i].event /\ (Runs(i)' => Runs(i))
  BY <1>1 DEF Runs
<1>4. \A name : Named(name)' = Named(name)
  BY <1>2, <1>3 DEF Named, Emitted
<1> QED BY <1>2, <1>3, <1>4

LEMMA EmitAdds ==
  ASSUME Inv1, NEW e \in Events, NEW event \in Event, Emit(e, event)
  PROVE  /\ e \notin Emitted /\ ~Runs(e)
         /\ handler'[e] = [pc |-> "find", event |-> event]
         /\ \A i \in Events : i # e => handler'[i] = handler[i]
         /\ Emitted' = Emitted \union {e}
         /\ \A name : Named(name)' = IF event.name = name THEN Named(name) \union {e} ELSE Named(name)
<1>1. handler \in [Events -> Handler]
  BY DEF Inv1, TypeOK
<1>2. /\ handler[e].pc = "waiting" /\ handler'[e] = [pc |-> "find", event |-> event]
      /\ \A i \in Events : i # e => handler'[i] = handler[i]
  BY <1>1 DEF Emit, Continue
<1>3. e \notin Emitted /\ ~Runs(e) /\ Emitted' = Emitted \union {e}
  BY <1>2 DEF Emitted, Runs, Ended
<1>4. ASSUME NEW name
      PROVE  Named(name)' = IF event.name = name THEN Named(name) \union {e} ELSE Named(name)
  BY <1>2, <1>3 DEF Named, Emitted
<1> QED BY <1>2, <1>3, <1>4

LEMMA EmissionKept == Inv1 /\ EmissionOK /\ [Next]_vars => EmissionOK'
<1> SUFFICES ASSUME Inv1, EmissionOK, [Next]_vars PROVE EmissionOK'
  OBVIOUS
<1>1. CASE UNCHANGED vars
  BY <1>1 DEF vars, EmissionOK, Named, Emitted, Runs, SameMarket
<1>2. ASSUME NEW e \in Events, Handle(e) \/ Fail(e) PROVE EmissionOK'
  <2>1. overlaps' = overlaps
    BY <1>2, HandlerMoves DEF Moves
  <2>2. (\A i \in Events : Runs(i)' => Runs(i)) /\ \A name : Named(name)' = Named(name)
    BY <1>2, SameEvents
  <2>3. \A name : Named(name) \subseteq Events
    BY DEF Named, Emitted
  <2>4. \A i \in Events : handler'[i].event = handler[i].event
    BY <1>2, HandlerMoves DEF Moves
  <2>5. \A i, other \in Events : SameMarket(i, other)' <=> SameMarket(i, other)
    BY <2>4 DEF SameMarket
  <2> QED BY <2>1, <2>2, <2>3, <2>5 DEF EmissionOK
<1>3. ASSUME NEW e \in Events, NEW event \in Event, Emit(e, event) PROVE EmissionOK'
  <2>1. /\ e \notin Emitted /\ ~Runs(e)
        /\ \A i \in Events : i # e => handler'[i] = handler[i]
        /\ \A name : Named(name)' = IF event.name = name THEN Named(name) \union {e} ELSE Named(name)
    BY <1>3, EmitAdds
  <2>0. handler'[e].event = event
    <3>1. handler'[e] = [pc |-> "find", event |-> event]
      BY <1>3, EmitAdds
    <3> QED BY <3>1
  <2>2. overlaps' = overlaps \union {{e, other} : other \in {i \in Events : Runs(i)}}
    BY <1>3 DEF Emit
  <2>3. \A i \in Events : i # e => (Runs(i)' <=> Runs(i))
    BY <2>1 DEF Runs
  <2>4. \A name : Named(name) \subseteq Events /\ e \notin Named(name)
    BY <2>1 DEF Named, Emitted
  <2>5. ASSUME event.name \in {"BetPlaced", "MarketResolved"},
               NEW i \in Named("MarketResolved") \union Named("WinningsClaimed")
        PROVE  handler[i].event.market # event.market
    BY <1>3, <2>5 DEF Emit, CanEmit, Named
  <2>6. ASSUME NEW r \in Named("MarketResolved")', NEW q \in Named("MarketResolved")', SameMarket(r, q)'
        PROVE  r = q
    <3>1. handler'[r].event.market = handler'[q].event.market
      BY <2>6 DEF SameMarket
    <3>2. CASE r # e /\ q # e
      <4>1. r \in Named("MarketResolved") /\ q \in Named("MarketResolved")
        BY <2>1, <2>6, <3>2
      <4>2. handler[r].event.market = handler[q].event.market
        BY <2>1, <2>4, <3>1, <3>2, <4>1
      <4> QED BY <4>1, <4>2 DEF EmissionOK, SameMarket
    <3>3. ASSUME NEW i \in Named("MarketResolved")', i # e, e \in Named("MarketResolved")'
          PROVE  handler'[i].event.market # handler'[e].event.market
      <4>1. event.name = "MarketResolved" /\ i \in Named("MarketResolved")
        BY <2>1, <2>4, <3>3
      <4>2. handler[i].event.market # event.market
        BY <2>5, <4>1
      <4> QED BY <2>0, <2>1, <2>4, <3>3, <4>1, <4>2
    <3> QED BY <2>6, <3>1, <3>2, <3>3
  <2>8. \A i, other \in Events : Runs(i)' /\ Runs(other)' /\ i # other => {i, other} \in overlaps'
    BY <2>2, <2>3 DEF EmissionOK
  <2>9. ASSUME NEW c \in Named("WinningsClaimed")', NEW b \in Named("BetPlaced")', SameMarket(c, b)', Runs(b)'
        PROVE  {c, b} \in overlaps'
    <3>0. handler'[c].event.market = handler'[b].event.market
      BY <2>9 DEF SameMarket
    <3>1. CASE b = e
      <4>1. event.name = "BetPlaced"
        BY <2>1, <2>4, <2>9, <3>1
      <4>2. c \in Named("WinningsClaimed") /\ c # e
        BY <2>1, <2>4, <2>9, <4>1
      <4>3. handler[c].event.market = event.market
        BY <2>0, <2>1, <2>4, <3>0, <3>1, <4>2
      <4> QED BY <2>5, <4>1, <4>2, <4>3
    <3>2. CASE b # e /\ c = e
      <4>1. b \in Events /\ Runs(b)
        BY <2>1, <2>3, <2>4, <2>9, <3>2
      <4> QED BY <2>2, <3>2, <4>1
    <3>3. CASE b # e /\ c # e
      <4>1. b \in Named("BetPlaced") /\ c \in Named("WinningsClaimed") /\ Runs(b)
        BY <2>1, <2>3, <2>4, <2>9, <3>3
      <4>2. SameMarket(c, b)
        BY <2>1, <2>4, <3>0, <3>3, <4>1 DEF SameMarket
      <4> QED BY <2>2, <4>1, <4>2 DEF EmissionOK
    <3> QED BY <3>1, <3>2, <3>3
  <2> QED BY <2>6, <2>8, <2>9 DEF EmissionOK
<1> QED BY <1>1, <1>2, <1>3 DEF Next

LEMMA EmissionStarts == Init => EmissionOK
<1> SUFFICES ASSUME Init PROVE EmissionOK
  OBVIOUS
<1>1. Emitted = {} /\ \A e \in Events : ~Runs(e)
  BY DEF Init, Emitted, Runs, Ended
<1>2. \A name : Named(name) = {}
  BY <1>1 DEF Named
<1> QED BY <1>1, <1>2 DEF EmissionOK

-----------------------------------------------------------------------------
(* The volume of trades.                                                     *)

VolumeOf(t, events) == MapThenSumSet(LAMBDA e : t[e].amount, events)

Rec(t) == {e \in Events : t[e] # NoRow}

On(t, o) == {e \in Rec(t) : t[e].outcome = o}

Of(t, u, o) == {e \in On(t, o) : t[e].user = u}

LEMMA VolumeIsSum ==
  ASSUME NEW t, NEW S \in SUBSET Events
  PROVE  VolumeOf(t, S) = Sum([e \in Events |-> t[e].amount], S)
<1> DEFINE f == [e \in Events |-> t[e].amount]
           Eq(it) == it = [s \in SUBSET S |-> IF s = {} THEN 0 ELSE t[Pick(s)].amount + it[s \ {Pick(s)}]]
           g == CHOOSE it : Eq(it)
<1>1. VolumeOf(t, S) = g[S]
  BY DEF VolumeOf, MapThenSumSet, MapThenFoldSet, Pick
<1>2. IsFiniteSet(S)
  BY MarketEventsAssumption, FS_Subset
<1>3. ASSUME NEW s \in SUBSET S, s # {} PROVE f[Pick(s)] = t[Pick(s)].amount
  <2>1. Pick(s) \in Events
    BY <1>3 DEF Pick
  <2> QED BY <2>1
<1>4. ASSUME NEW h, Fold(f, S, h) PROVE Eq(h)
  <2> HIDE DEF f
  <2> QED BY <1>3, <1>4 DEF Fold
<1>5. ASSUME NEW h, Eq(h) PROVE Fold(f, S, h)
  <2> HIDE DEF f
  <2> QED BY <1>3, <1>5 DEF Fold
<1>6. Eq(g)
  <2>1. PICK h : Fold(f, S, h)
    BY <1>2, FoldExists
  <2>2. Eq(h)
    <3> HIDE DEF f, Eq
    <3> QED BY <1>4, <2>1
  <2> HIDE DEF Eq
  <2> QED BY <2>2
<1>7. Fold(f, S, g)
  <2> HIDE DEF f, Eq, g
  <2> QED BY <1>5, <1>6
<1>8. Sum(f, S) = g[S]
  <2> HIDE DEF f, Eq, g
  <2> QED BY <1>2, <1>7, SumFold
<1> QED BY <1>1, <1>8

LEMMA Volumes ==
  ASSUME NEW t \in [Events -> Trade \union {NoRow}], NEW S \in SUBSET Rec(t)
  PROVE  /\ IsFiniteSet(S)
         /\ \A e \in S : t[e].amount \in Nat
         /\ VolumeOf(t, S) \in Nat
         /\ \A T \in SUBSET S : VolumeOf(t, T) <= VolumeOf(t, S)
         /\ \A e \in S : VolumeOf(t, S) = VolumeOf(t, S \ {e}) + t[e].amount
<1> DEFINE f == [e \in Events |-> t[e].amount]
<1>1. S \subseteq Events /\ \A e \in S : t[e] \in Trade
  BY DEF Rec
<1>2. IsFiniteSet(S)
  BY <1>1, MarketEventsAssumption, FS_Subset
<1>3. \A e \in S : f[e] = t[e].amount /\ f[e] \in Nat
  <2>1. \A trade \in Trade : trade.amount \in Nat
    BY MarketEventsAssumption DEF Trade
  <2> QED BY <1>1, <2>1
<1>4. \A T \in SUBSET S : VolumeOf(t, T) = Sum(f, T)
  BY <1>1, VolumeIsSum
<1> HIDE DEF f
<1>5. \A T \in SUBSET S : Sum(f, T) \in Nat
  BY <1>2, <1>3, SumNat, FS_Subset
<1>6. \A T \in SUBSET S : Sum(f, T) <= Sum(f, S)
  BY <1>2, <1>3, SumMonotone
<1>7. \A e \in S : Sum(f, S) = f[e] + Sum(f, S \ {e})
  BY <1>2, <1>3, SumRemove
<1>8. ASSUME NEW e \in S PROVE VolumeOf(t, S) = VolumeOf(t, S \ {e}) + t[e].amount
  <2>1. S \ {e} \in SUBSET S
    OBVIOUS
  <2> QED BY <1>3, <1>4, <1>5, <1>7, <2>1
<1> QED BY <1>2, <1>3, <1>4, <1>5, <1>6, <1>8

LEMMA VolumesAgree ==
  ASSUME NEW t, NEW q, NEW S \in SUBSET Events, \A e \in S : t[e] = q[e]
  PROVE  VolumeOf(t, S) = VolumeOf(q, S)
<1> DEFINE f == [e \in Events |-> t[e].amount]
           g == [e \in Events |-> q[e].amount]
<1>1. \A e \in S : f[e] = g[e]
  OBVIOUS
<1>2. VolumeOf(t, S) = Sum(f, S) /\ VolumeOf(q, S) = Sum(g, S) /\ IsFiniteSet(S)
  BY VolumeIsSum, MarketEventsAssumption, FS_Subset
<1> HIDE DEF f, g
<1> QED BY <1>1, <1>2, SumAgree

LEMMA NoVolume ==
  ASSUME NEW t
  PROVE  VolumeOf(t, {}) = 0
  BY VolumeIsSum, SumEmpty

\* What one trade more adds to the trades of the market, of an outcome and of
\* a user on an outcome.
OneMore(t, e, trade, q) ==
    /\ t \in [Events -> Trade \union {NoRow}] /\ e \in Events /\ t[e] = NoRow
    /\ trade \in Trade /\ q = [t EXCEPT ![e] = trade]

LEMMA TradeCounted ==
  ASSUME NEW t, NEW e, NEW trade, NEW q, OneMore(t, e, trade, q)
  PROVE  /\ q \in [Events -> Trade \union {NoRow}] /\ q[e] = trade
         /\ Rec(q) = Rec(t) \union {e} /\ e \notin Rec(t)
         /\ \A i \in Rec(t) : q[i] = t[i]
         /\ Cardinality(Rec(q)) = Cardinality(Rec(t)) + 1
         /\ Cardinality(Rec(t)) \in Nat
         /\ trade.amount \in Nat
         /\ \A S \in SUBSET Rec(t) :
              /\ VolumeOf(q, S) = VolumeOf(t, S)
              /\ VolumeOf(q, S \union {e}) = VolumeOf(t, S) + trade.amount
              /\ VolumeOf(t, S) \in Nat
         /\ VolumeOf(q, Rec(q)) = VolumeOf(t, Rec(t)) + trade.amount
<1> USE DEF OneMore
<1>0. trade # NoRow /\ trade.amount \in Nat
  BY MarketEventsAssumption DEF Trade
<1>1. q \in [Events -> Trade \union {NoRow}] /\ q[e] = trade /\ \A i \in Events : i # e => q[i] = t[i]
  OBVIOUS
<1>2. Rec(q) = Rec(t) \union {e} /\ e \notin Rec(t) /\ \A i \in Rec(t) : q[i] = t[i]
  BY <1>0, <1>1 DEF Rec
<1>3. IsFiniteSet(Rec(t)) /\ Cardinality(Rec(t)) \in Nat
  <2>1. Rec(t) \subseteq Events
    BY DEF Rec
  <2>2. IsFiniteSet(Rec(t))
    BY <2>1, MarketEventsAssumption, FS_Subset
  <2> QED BY <2>2, FS_CardinalityType
<1>4. Cardinality(Rec(q)) = Cardinality(Rec(t)) + 1
  BY <1>2, <1>3, FS_AddElement
<1>5. ASSUME NEW S \in SUBSET Rec(t)
      PROVE  /\ VolumeOf(q, S) = VolumeOf(t, S)
             /\ VolumeOf(q, S \union {e}) = VolumeOf(t, S) + trade.amount
             /\ VolumeOf(t, S) \in Nat
  <2>1. S \in SUBSET Events
    BY DEF Rec
  <2>2. VolumeOf(q, S) = VolumeOf(t, S)
    BY <1>2, <2>1, VolumesAgree
  <2>3. S \union {e} \in SUBSET Rec(q) /\ (S \union {e}) \ {e} = S
    BY <1>2
  <2>4. PICK T : T = S \union {e}
    OBVIOUS
  <2>5. VolumeOf(q, T) = VolumeOf(q, T \ {e}) + q[e].amount
    BY <1>1, <2>3, <2>4, Volumes
  <2>6. VolumeOf(t, S) \in Nat
    BY Volumes
  <2> QED BY <1>1, <2>2, <2>3, <2>4, <2>5, <2>6
<1>6. VolumeOf(q, Rec(q)) = VolumeOf(t, Rec(t)) + trade.amount
  BY <1>2, <1>5
<1> QED BY <1>0, <1>1, <1>2, <1>3, <1>4, <1>5, <1>6

LEMMA TradeElsewhere ==
  ASSUME NEW t, NEW e, NEW trade, NEW q, OneMore(t, e, trade, q), NEW S \in SUBSET Rec(t)
  PROVE  VolumeOf(q, S) = VolumeOf(t, S) /\ VolumeOf(t, S) \in Nat
<1>1. \A R \in SUBSET Rec(t) :
        /\ VolumeOf(q, R) = VolumeOf(t, R)
        /\ VolumeOf(q, R \union {e}) = VolumeOf(t, R) + trade.amount
        /\ VolumeOf(t, R) \in Nat
  BY TradeCounted
<1> QED BY <1>1

LEMMA TradeOn ==
  ASSUME NEW t, NEW e, NEW trade, NEW q, OneMore(t, e, trade, q),
         NEW o \in Outcomes
  PROVE  /\ On(t, o) \in SUBSET Rec(t) /\ On(q, o) \in SUBSET Rec(q)
         /\ On(t, o) \subseteq On(q, o) /\ On(q, o) \ {e} = On(t, o) /\ e \notin On(t, o)
         /\ o = trade.outcome => On(q, o) = On(t, o) \union {e}
                                 /\ VolumeOf(q, On(q, o)) = VolumeOf(t, On(t, o)) + trade.amount
         /\ o # trade.outcome => On(q, o) = On(t, o) /\ VolumeOf(q, On(q, o)) = VolumeOf(t, On(t, o))
<1>1. /\ q[e] = trade /\ Rec(q) = Rec(t) \union {e} /\ e \notin Rec(t)
      /\ \A i \in Rec(t) : q[i] = t[i]
  BY TradeCounted
<1>2. /\ On(t, o) \in SUBSET Rec(t) /\ On(q, o) \in SUBSET Rec(q) /\ e \notin On(t, o)
      /\ o = trade.outcome => On(q, o) = On(t, o) \union {e}
      /\ o # trade.outcome => On(q, o) = On(t, o)
  BY <1>1 DEF On
<1>3. /\ VolumeOf(q, On(t, o)) = VolumeOf(t, On(t, o))
      /\ VolumeOf(q, On(t, o) \union {e}) = VolumeOf(t, On(t, o)) + trade.amount
  BY <1>2, TradeCounted
<1> QED BY <1>2, <1>3

LEMMA TradeOf ==
  ASSUME NEW t, NEW e, NEW trade, NEW q, OneMore(t, e, trade, q),
         NEW u \in Users, NEW o \in Outcomes
  PROVE  /\ Of(t, u, o) \in SUBSET Rec(t) /\ Of(q, u, o) \in SUBSET Rec(q) /\ e \notin Of(t, u, o)
         /\ u = trade.user /\ o = trade.outcome =>
              /\ Of(q, u, o) = Of(t, u, o) \union {e}
              /\ VolumeOf(q, Of(q, u, o)) = VolumeOf(t, Of(t, u, o)) + trade.amount
         /\ ~ (u = trade.user /\ o = trade.outcome) =>
              Of(q, u, o) = Of(t, u, o) /\ VolumeOf(q, Of(q, u, o)) = VolumeOf(t, Of(t, u, o))
<1>1. /\ q[e] = trade /\ Rec(q) = Rec(t) \union {e} /\ e \notin Rec(t)
      /\ \A i \in Rec(t) : q[i] = t[i]
  BY TradeCounted
<1>2. /\ On(t, o) \in SUBSET Rec(t) /\ On(q, o) \in SUBSET Rec(q) /\ e \notin On(t, o)
      /\ o = trade.outcome => On(q, o) = On(t, o) \union {e}
      /\ o # trade.outcome => On(q, o) = On(t, o)
  BY TradeOn
<1>3. \A i \in On(t, o) : i # e /\ q[i] = t[i]
  BY <1>1, <1>2
<1>4. CASE u = trade.user /\ o = trade.outcome
  <2>1. Of(q, u, o) = Of(t, u, o) \union {e}
    BY <1>1, <1>2, <1>3, <1>4 DEF Of
  <2>2. Of(t, u, o) \in SUBSET Rec(t) /\ Of(q, u, o) \in SUBSET Rec(q) /\ e \notin Of(t, u, o)
    BY <1>2 DEF Of
  <2>3. VolumeOf(q, Of(t, u, o) \union {e}) = VolumeOf(t, Of(t, u, o)) + trade.amount
    BY <2>2, TradeCounted
  <2> QED BY <1>4, <2>1, <2>2, <2>3
<1>5. CASE ~ (u = trade.user /\ o = trade.outcome)
  <2>1. Of(q, u, o) = Of(t, u, o)
    BY <1>1, <1>2, <1>3, <1>5 DEF Of
  <2>2. Of(t, u, o) \in SUBSET Rec(t) /\ Of(q, u, o) \in SUBSET Rec(q) /\ e \notin Of(t, u, o)
    BY <1>2 DEF Of
  <2>3. VolumeOf(q, Of(t, u, o)) = VolumeOf(t, Of(t, u, o))
    BY <2>2, TradeElsewhere
  <2> QED BY <1>5, <2>1, <2>2, <2>3
<1> QED BY <1>4, <1>5

LEMMA RecordedIsRec ==
  /\ Recorded = Rec(trades)
  /\ \A o : TradesOn(o) = On(trades, o)
  /\ \A u, o : TradesOf(u, o) = Of(trades, u, o)
  /\ \A S : Volume(S) = VolumeOf(trades, S)
  BY DEF Recorded, Rec, TradesOn, On, TradesOf, Of, Volume, VolumeOf

-----------------------------------------------------------------------------
(* The market and its outcomes never show more than was traded.              *)

\* A copy shows no more than was traded; it counts the bet of its own handler
\* among the stakes only once the outcome is about to be saved.
Within(h, e, t) ==
    h.pc \in BeforeTrade \union AfterTrade =>
      /\ h.copy.market.totalVolume <= VolumeOf(t, Rec(t))
      /\ h.copy.market.tradeCount <= Cardinality(Rec(t))
      /\ \A o \in Outcomes : h.copy.staked[o] <=
           VolumeOf(t, IF h.pc \in {"loadOutcome", "updateOutcome"} THEN On(t, o) ELSE On(t, o) \ {e})

Bounded ==
    /\ market.totalVolume <= VolumeOf(trades, Rec(trades))
    /\ market.tradeCount <= Cardinality(Rec(trades))
    /\ \A o \in Outcomes : staked[o] <= VolumeOf(trades, On(trades, o))
    /\ \A e \in Events : Within(handler[e], e, trades)

LEMMA BoundedSteps ==
  ASSUME Inv1, Bounded, NEW e \in Events, UNCHANGED <<market, staked, trades>>,
         \A i \in Events : i # e => handler'[i] = handler[i],
         Within(handler'[e], e, trades)
  PROVE  Bounded'
<1>1. \A i \in Events : Within(handler'[i], i, trades)
  BY DEF Bounded
<1>2. PICK t : t = trades
  OBVIOUS
<1>3. trades' = t
  BY <1>2
<1> QED BY <1>1, <1>2, <1>3 DEF Bounded

\* Steps after which the handler has no copy of the market.
LEMMA NoCopy ==
  ASSUME Inv1, Bounded, NEW e \in Events, UNCHANGED <<market, staked, trades>>,
         \A i \in Events : i # e => handler'[i] = handler[i],
         handler'[e].pc \notin BeforeTrade \union AfterTrade
  PROVE  Bounded'
<1>1. Within(handler'[e], e, trades)
  BY DEF Within
<1> QED BY <1>1, BoundedSteps

\* Steps that pass it on.
LEMMA SameCopy ==
  ASSUME Inv1, Bounded, NEW e \in Events, UNCHANGED <<market, staked, trades>>,
         \A i \in Events : i # e => handler'[i] = handler[i],
         handler'[e].copy = handler[e].copy,
         handler[e].pc \in BeforeTrade \union AfterTrade,
         handler'[e].pc \in {"loadOutcome", "updateOutcome"} <=> handler[e].pc \in {"loadOutcome", "updateOutcome"}
  PROVE  Bounded'
<1>1. Within(handler'[e], e, trades)
  BY DEF Within, Bounded
<1> QED BY <1>1, BoundedSteps

\* A handler that starts reads what is there.
LEMMA FirstCopy ==
  ASSUME Inv1, Bounded, NEW e \in Events, UNCHANGED <<market, staked, trades>>,
         \A i \in Events : i # e => handler'[i] = handler[i],
         handler[e].pc = "find", handler'[e].pc \in {"findPosition", "loadMarket"},
         handler'[e].copy.market.totalVolume = market.totalVolume,
         handler'[e].copy.market.tradeCount = market.tradeCount,
         handler'[e].copy.staked = staked
  PROVE  Bounded'
<1>1. trades[e] = NoRow
  BY DEF Inv1, HandlersOK, Fits, AfterTrade
<1>2. \A o \in Outcomes : On(trades, o) \ {e} = On(trades, o)
  BY <1>1 DEF On, Rec
<1>3. Within(handler'[e], e, trades)
  BY <1>2 DEF Within, Bounded
<1> QED BY <1>3, BoundedSteps

\* One trade more leaves every copy within what was traded.
LEMMA WithinGrows ==
  ASSUME NEW t, NEW e, NEW trade, NEW q, OneMore(t, e, trade, q),
         NEW i \in Events, i # e, NEW h \in Handler, Within(h, i, t)
  PROVE  Within(h, i, q)
<1> SUFFICES ASSUME h.pc \in BeforeTrade \union AfterTrade PROVE Within(h, i, q)
  BY DEF Within
<1>1. h.copy.market \in Market /\ h.copy.staked \in [Outcomes -> Nat]
  BY HandlerTypes
<1>2. h.copy.market.totalVolume \in Nat /\ h.copy.market.tradeCount \in Nat
  BY <1>1, MarketColumns
<1>3. trade.amount \in Nat
  BY TradeCounted
<1>4. /\ q \in [Events -> Trade \union {NoRow}]
      /\ Rec(q) = Rec(t) \union {e} /\ e \notin Rec(t)
      /\ Cardinality(Rec(q)) = Cardinality(Rec(t)) + 1 /\ Cardinality(Rec(t)) \in Nat
      /\ VolumeOf(q, Rec(q)) = VolumeOf(t, Rec(t)) + trade.amount
      /\ \A S \in SUBSET Rec(t) : VolumeOf(q, S) = VolumeOf(t, S) /\ VolumeOf(t, S) \in Nat
      /\ \A o \in Outcomes : On(t, o) \subseteq On(q, o)
  <2>1. /\ q \in [Events -> Trade \union {NoRow}]
        /\ Rec(q) = Rec(t) \union {e} /\ e \notin Rec(t)
        /\ Cardinality(Rec(q)) = Cardinality(Rec(t)) + 1 /\ Cardinality(Rec(t)) \in Nat
        /\ VolumeOf(q, Rec(q)) = VolumeOf(t, Rec(t)) + trade.amount
    BY TradeCounted
  <2>2. ASSUME NEW S \in SUBSET Rec(t) PROVE VolumeOf(q, S) = VolumeOf(t, S) /\ VolumeOf(t, S) \in Nat
    BY TradeElsewhere
  <2>3. ASSUME NEW o \in Outcomes PROVE On(t, o) \subseteq On(q, o)
    BY TradeOn
  <2> QED BY <2>1, <2>2, <2>3
<1>5. h.copy.market.totalVolume <= VolumeOf(q, Rec(q)) /\ h.copy.market.tradeCount <= Cardinality(Rec(q))
  BY <1>2, <1>3, <1>4 DEF Within
<1>6. ASSUME NEW o \in Outcomes, NEW S, NEW R, S \subseteq R, S \subseteq Rec(t), R \subseteq Rec(q),
             h.copy.staked[o] <= VolumeOf(t, S)
      PROVE  h.copy.staked[o] <= VolumeOf(q, R)
  <2>1. VolumeOf(q, S) <= VolumeOf(q, R) /\ VolumeOf(q, R) \in Nat
    BY <1>4, <1>6, Volumes
  <2>2. VolumeOf(q, S) = VolumeOf(t, S) /\ VolumeOf(t, S) \in Nat
    BY <1>4, <1>6
  <2>3. h.copy.staked[o] \in Nat
    BY <1>1
  <2> QED BY <1>6, <2>1, <2>2, <2>3
<1>7. \A o \in Outcomes : On(t, o) \subseteq Rec(t) /\ On(q, o) \subseteq Rec(q)
  BY DEF On
<1>8. \A o \in Outcomes : h.copy.staked[o] <=
        VolumeOf(q, IF h.pc \in {"loadOutcome", "updateOutcome"} THEN On(q, o) ELSE On(q, o) \ {i})
  <2> SUFFICES ASSUME NEW o \in Outcomes
               PROVE  h.copy.staked[o] <=
                  VolumeOf(q, IF h.pc \in {"loadOutcome", "updateOutcome"} THEN On(q, o) ELSE On(q, o) \ {i})
    OBVIOUS
  <2>1. CASE h.pc \in {"loadOutcome", "updateOutcome"}
    <3>1. h.copy.staked[o] <= VolumeOf(t, On(t, o))
      BY <2>1 DEF Within
    <3> QED BY <1>4, <1>6, <1>7, <2>1, <3>1
  <2>2. CASE h.pc \notin {"loadOutcome", "updateOutcome"}
    <3>1. h.copy.staked[o] <= VolumeOf(t, On(t, o) \ {i})
      BY <2>2 DEF Within
    <3>2. On(t, o) \ {i} \subseteq On(q, o) \ {i} /\ On(t, o) \ {i} \subseteq Rec(t)
        /\ On(q, o) \ {i} \subseteq Rec(q)
      BY <1>4, <1>7
    <3> QED BY <1>6, <2>2, <3>1, <3>2
  <2> QED BY <2>1, <2>2
<1> QED BY <1>5, <1>8 DEF Within

LEMMA InsertTradeBounded ==
  ASSUME Inv1, Bounded, NEW e \in Events, InsertTrade(e)
  PROVE  Bounded'
<1>1. PICK h \in Handler, t \in Trade \union {NoRow} :
        h = handler[e] /\ t = trades[e] /\ Fits(h, positions, t)
  BY HandlerAt
<1>2. /\ h.pc = "insertTrade" /\ h.event \in Event /\ h.copy \in Read
      /\ h.copy.market \in Market /\ h.copy.staked \in [Outcomes -> Nat]
  BY <1>1, HandlerTypes DEF InsertTrade, BeforeTrade
<1>3. h.event.name = "BetPlaced" /\ IsKnown(h.event) /\ t = NoRow
  BY <1>1, <1>2 DEF Fits, BeforeTrade, AfterTrade
<1>4. h.event.user \in Users /\ h.event.outcome \in Outcomes /\ h.event.amount \in Amounts /\ h.event.amount \in Nat
  BY <1>2, <1>3, EventTypes
<1>5. PICK trade : trade = [user |-> h.event.user, outcome |-> h.event.outcome, amount |-> h.event.amount]
  OBVIOUS
<1>6. trade \in Trade /\ trade.amount = h.event.amount
  BY <1>3, <1>4, <1>5 DEF Trade, IsKnown
<1>7. PICK old \in [Events -> Trade \union {NoRow}] : old = trades
  BY DEF Inv1, TypeOK
<1>8. PICK q : q = [old EXCEPT ![e] = trade]
  OBVIOUS
<1>9. trades' = q /\ UNCHANGED <<market, staked>>
  BY <1>1, <1>5, <1>7, <1>8 DEF InsertTrade
<1>10. OneMore(old, e, trade, q)
  BY <1>1, <1>3, <1>6, <1>7, <1>8 DEF OneMore
<1>11. /\ q \in [Events -> Trade \union {NoRow}]
       /\ Rec(q) = Rec(old) \union {e} /\ e \notin Rec(old)
       /\ Cardinality(Rec(q)) = Cardinality(Rec(old)) + 1 /\ Cardinality(Rec(old)) \in Nat
       /\ VolumeOf(q, Rec(q)) = VolumeOf(old, Rec(old)) + trade.amount
       /\ \A S \in SUBSET Rec(old) : VolumeOf(q, S) = VolumeOf(old, S) /\ VolumeOf(old, S) \in Nat
       /\ \A o \in Outcomes : On(q, o) \ {e} = On(old, o) \ {e} /\ On(old, o) \subseteq Rec(old)
                              /\ On(old, o) \subseteq On(q, o) /\ On(q, o) \subseteq Rec(q)
  <2>1. ASSUME NEW o \in Outcomes
        PROVE  /\ On(q, o) \ {e} = On(old, o) \ {e} /\ On(old, o) \subseteq Rec(old)
               /\ On(old, o) \subseteq On(q, o) /\ On(q, o) \subseteq Rec(q)
    BY <1>10, TradeOn
  <2>2. /\ q \in [Events -> Trade \union {NoRow}]
        /\ Rec(q) = Rec(old) \union {e} /\ e \notin Rec(old)
        /\ Cardinality(Rec(q)) = Cardinality(Rec(old)) + 1 /\ Cardinality(Rec(old)) \in Nat
        /\ VolumeOf(q, Rec(q)) = VolumeOf(old, Rec(old)) + trade.amount
    BY <1>10, TradeCounted
  <2>3. ASSUME NEW S \in SUBSET Rec(old) PROVE VolumeOf(q, S) = VolumeOf(old, S) /\ VolumeOf(old, S) \in Nat
    BY <1>10, TradeElsewhere
  <2> QED BY <2>1, <2>2, <2>3
<1>12. PICK m : m = WithTrade(h.copy.market, h.event.amount, h.position)
  OBVIOUS
<1>13. m.totalVolume = h.copy.market.totalVolume + trade.amount /\ m.tradeCount = h.copy.market.tradeCount + 1
  BY <1>2, <1>4, <1>6, <1>12, TradeAdded
<1>14. PICK next : next = handler'[e]
  OBVIOUS
<1>15. next.pc = "loadMarket" /\ next.copy.market = m /\ next.copy.staked = h.copy.staked
  <2>1. PICK c : c = [h.copy EXCEPT !.market = m]
    OBVIOUS
  <2>2. c.market = m /\ c.staked = h.copy.staked
    BY <1>2, <2>1 DEF Read
  <2>3. next = [pc |-> "loadMarket", event |-> h.event, copy |-> c]
    BY <1>1, <1>12, <1>14, <2>1 DEF InsertTrade, Continue, Inv1, TypeOK
  <2> QED BY <2>2, <2>3
<1>16. Within(h, e, old)
  BY <1>1, <1>7 DEF Bounded
<1>17. Within(next, e, q)
  <2>1. /\ h.copy.market.totalVolume <= VolumeOf(old, Rec(old))
        /\ h.copy.market.tradeCount <= Cardinality(Rec(old))
        /\ \A o \in Outcomes : h.copy.staked[o] <= VolumeOf(old, On(old, o) \ {e})
    BY <1>2, <1>16 DEF Within, BeforeTrade
  <2>2. h.copy.market.totalVolume \in Nat /\ h.copy.market.tradeCount \in Nat
    BY <1>2, MarketColumns
  <2>3. next.copy.market.totalVolume <= VolumeOf(q, Rec(q)) /\ next.copy.market.tradeCount <= Cardinality(Rec(q))
    BY <1>4, <1>6, <1>11, <1>13, <1>15, <2>1, <2>2
  <2>4. ASSUME NEW o \in Outcomes PROVE next.copy.staked[o] <= VolumeOf(q, On(q, o) \ {e})
    <3>1. On(old, o) \ {e} \in SUBSET Rec(old) /\ On(q, o) \ {e} = On(old, o) \ {e}
      BY <1>11
    <3> QED BY <1>11, <1>15, <2>1, <3>1
  <2> QED BY <1>15, <2>3, <2>4 DEF Within
<1>18. ASSUME NEW i \in Events PROVE Within(handler'[i], i, q)
  <2>1. CASE i = e
    BY <1>14, <1>17, <2>1
  <2>2. CASE i # e
    <3>1. PICK g \in Handler : g = handler[i]
      BY DEF Inv1, TypeOK
    <3>2. handler'[i] = g
      BY <2>2, <3>1 DEF InsertTrade, Continue, Inv1, TypeOK
    <3>3. Within(g, i, old)
      BY <1>7, <3>1 DEF Bounded
    <3>4. Within(g, i, q)
      BY <1>10, <2>2, <3>3, WithinGrows
    <3> QED BY <3>2, <3>4
  <2> QED BY <2>1, <2>2
<1>19. market.totalVolume <= VolumeOf(q, Rec(q)) /\ market.tradeCount <= Cardinality(Rec(q))
  <2>1. market.totalVolume \in Nat /\ market.tradeCount \in Nat
    BY MarketColumns DEF Inv1, TypeOK
  <2>2. market.totalVolume <= VolumeOf(old, Rec(old)) /\ market.tradeCount <= Cardinality(Rec(old))
    BY <1>7 DEF Bounded
  <2> QED BY <1>4, <1>6, <1>11, <2>1, <2>2
<1>20. ASSUME NEW o \in Outcomes PROVE staked[o] <= VolumeOf(q, On(q, o))
  <2>1. staked[o] \in Nat /\ staked[o] <= VolumeOf(old, On(old, o))
    BY <1>7 DEF Bounded, Inv1, TypeOK
  <2>2. VolumeOf(q, On(old, o)) <= VolumeOf(q, On(q, o)) /\ VolumeOf(q, On(q, o)) \in Nat
    BY <1>11, Volumes
  <2>3. VolumeOf(q, On(old, o)) = VolumeOf(old, On(old, o)) /\ VolumeOf(old, On(old, o)) \in Nat
    BY <1>11
  <2> QED BY <2>1, <2>2, <2>3
<1> QED BY <1>9, <1>18, <1>19, <1>20 DEF Bounded

LEMMA UpdateMarketBounded ==
  ASSUME Inv1, Bounded, NEW e \in Events, UpdateMarket(e)
  PROVE  Bounded'
<1>1. PICK h \in Handler, t \in Trade \union {NoRow} :
        h = handler[e] /\ t = trades[e] /\ Fits(h, positions, t)
  BY HandlerAt
<1>2. /\ h.pc = "updateMarket" /\ h.event \in Event
      /\ h.copy \in Read /\ h.copy.market \in Market /\ h.copy.staked \in [Outcomes -> Nat]
      /\ h.seen.market \in Market /\ h.seen.staked \in [Outcomes -> Nat]
  BY <1>1, HandlerTypes DEF UpdateMarket, AfterTrade
<1>3. market \in Market /\ staked \in [Outcomes -> Nat] /\ trades \in [Events -> Trade \union {NoRow}]
  BY DEF Inv1, TypeOK
<1>4. PICK q \in [Events -> Trade \union {NoRow}] : q = trades
  BY <1>3
<1>5. trades' = q
  BY <1>4 DEF UpdateMarket
<1>6. /\ h.copy.market.totalVolume <= VolumeOf(q, Rec(q))
      /\ h.copy.market.tradeCount <= Cardinality(Rec(q))
      /\ \A o \in Outcomes : h.copy.staked[o] <= VolumeOf(q, On(q, o) \ {e})
  <2>1. Within(h, e, q)
    BY <1>1, <1>4 DEF Bounded
  <2> QED BY <1>2, <2>1 DEF Within, AfterTrade
<1>7. \A o \in Outcomes : VolumeOf(q, On(q, o) \ {e}) <= VolumeOf(q, On(q, o))
                          /\ VolumeOf(q, On(q, o) \ {e}) \in Nat /\ VolumeOf(q, On(q, o)) \in Nat
  <2>1. \A o \in Outcomes : On(q, o) \in SUBSET Rec(q) /\ On(q, o) \ {e} \in SUBSET Rec(q)
    BY DEF On
  <2> QED BY <2>1, Volumes
<1>8. market'.totalVolume <= VolumeOf(q, Rec(q)) /\ market'.tradeCount <= Cardinality(Rec(q))
  <2>1. market' = Updated(market, h.seen.market, h.copy.market)
    BY <1>1 DEF UpdateMarket
  <2>2. /\ market'.totalVolume \in {market.totalVolume, h.copy.market.totalVolume}
        /\ market'.tradeCount \in {market.tradeCount, h.copy.market.tradeCount}
    BY <1>2, <1>3, <2>1, UpdatedMarket
  <2>3. market.totalVolume <= VolumeOf(q, Rec(q)) /\ market.tradeCount <= Cardinality(Rec(q))
    BY <1>4 DEF Bounded
  <2> QED BY <1>6, <2>2, <2>3
<1>9. ASSUME NEW o \in Outcomes PROVE staked'[o] <= VolumeOf(q, On(q, o))
  <2>1. staked' = Updated(staked, h.seen.staked, h.copy.staked) \/ staked' = staked
    BY <1>1 DEF UpdateMarket
  <2>2. staked'[o] \in {staked[o], h.copy.staked[o]}
    BY <1>2, <1>3, <2>1, UpdatedStakes
  <2>3. staked[o] <= VolumeOf(q, On(q, o))
    BY <1>4 DEF Bounded
  <2>4. /\ h.copy.staked[o] \in Nat /\ h.copy.staked[o] <= VolumeOf(q, On(q, o) \ {e})
        /\ VolumeOf(q, On(q, o) \ {e}) <= VolumeOf(q, On(q, o))
        /\ VolumeOf(q, On(q, o) \ {e}) \in Nat /\ VolumeOf(q, On(q, o)) \in Nat
    BY <1>2, <1>6, <1>7
  <2>5. h.copy.staked[o] <= VolumeOf(q, On(q, o))
    BY <2>4
  <2> QED BY <2>2, <2>3, <2>5
<1>10. PICK next : next = handler'[e]
  OBVIOUS
<1>11. Within(next, e, q)
  <2>1. CASE h.event.name # "BetPlaced"
    <3>1. next.pc = "done"
      BY <1>1, <1>10, <2>1 DEF UpdateMarket, Done, Continue, Inv1, TypeOK
    <3> QED BY <3>1 DEF Within, BeforeTrade, AfterTrade
  <2>2. CASE h.event.name = "BetPlaced"
    <3>1. h.event.outcome \in Outcomes /\ h.event.amount \in Nat /\ IsKnown(h.event)
      BY <1>1, <1>2, <2>2, EventTypes DEF Fits
    <3>2. /\ t # NoRow /\ t.outcome = h.event.outcome /\ t.amount = h.event.amount
      BY <1>1, <1>2, <2>2, <3>1 DEF Fits, AfterTrade
    <3>3. e \in On(q, h.event.outcome) /\ q[e].amount = h.event.amount
      BY <1>1, <1>4, <3>2 DEF On, Rec
    <3>4. VolumeOf(q, On(q, h.event.outcome)) = VolumeOf(q, On(q, h.event.outcome) \ {e}) + h.event.amount
      <4>1. On(q, h.event.outcome) \in SUBSET Rec(q)
        BY DEF On
      <4> QED BY <3>3, <4>1, Volumes
    <3>5. PICK s : s = [h.copy.staked EXCEPT ![h.event.outcome] = @ + h.event.amount]
      OBVIOUS
    <3>6. PICK c : c = [h.copy EXCEPT !.staked[h.event.outcome] = @ + h.event.amount]
      OBVIOUS
    <3>7. c.market = h.copy.market /\ c.staked = s
      <4>1. c = [h.copy EXCEPT !.staked = s]
        BY <3>5, <3>6
      <4> QED BY <1>2, <4>1 DEF Read
    <3>8. next = [pc |-> "loadOutcome", event |-> h.event, copy |-> c]
      BY <1>1, <1>10, <2>2, <3>6 DEF UpdateMarket, Continue, Inv1, TypeOK
    <3>9. ASSUME NEW o \in Outcomes PROVE s[o] <= VolumeOf(q, On(q, o))
      <4>1. h.copy.staked[o] \in Nat /\ h.copy.staked[h.event.outcome] \in Nat
        BY <1>2, <3>1
      <4>2. CASE o = h.event.outcome
        <5>1. s[o] = h.copy.staked[o] + h.event.amount
          BY <1>2, <3>5, <4>2
        <5> QED BY <1>6, <1>7, <3>1, <3>4, <4>1, <4>2, <5>1
      <4>3. CASE o # h.event.outcome
        <5>1. s[o] = h.copy.staked[o]
          BY <1>2, <3>5, <4>3
        <5>2. /\ h.copy.staked[o] <= VolumeOf(q, On(q, o) \ {e})
              /\ VolumeOf(q, On(q, o) \ {e}) <= VolumeOf(q, On(q, o))
              /\ VolumeOf(q, On(q, o) \ {e}) \in Nat /\ VolumeOf(q, On(q, o)) \in Nat
          BY <1>6, <1>7
        <5> QED BY <4>1, <5>1, <5>2
      <4> QED BY <4>2, <4>3
    <3> QED BY <1>6, <3>7, <3>8, <3>9 DEF Within
  <2> QED BY <2>1, <2>2
<1>12. ASSUME NEW i \in Events PROVE Within(handler'[i], i, q)
  <2>1. CASE i = e
    BY <1>10, <1>11, <2>1
  <2>2. CASE i # e
    <3>1. handler'[i] = handler[i]
      BY <2>2, HandlerMoves DEF Moves, Handle
    <3> QED BY <1>4, <3>1 DEF Bounded
  <2> QED BY <2>1, <2>2
<1> QED BY <1>5, <1>8, <1>9, <1>12 DEF Bounded

LEMMA UpdateOutcomeBounded ==
  ASSUME Inv1, Bounded, NEW e \in Events, UpdateOutcome(e)
  PROVE  Bounded'
<1>1. PICK h \in Handler, t \in Trade \union {NoRow} :
        h = handler[e] /\ t = trades[e] /\ Fits(h, positions, t)
  BY HandlerAt
<1>2. /\ h.pc = "updateOutcome" /\ h.event \in Event
      /\ h.copy.staked \in [Outcomes -> Nat] /\ h.seen.staked \in [Outcomes -> Nat]
  BY <1>1, HandlerTypes DEF UpdateOutcome, AfterTrade
<1>3. staked \in [Outcomes -> Nat]
  BY DEF Inv1, TypeOK
<1>4. PICK q : q = trades
  OBVIOUS
<1>5. trades' = q /\ market' = market
  BY <1>4 DEF UpdateOutcome
<1>6. \A o \in Outcomes : h.copy.staked[o] <= VolumeOf(q, On(q, o))
  <2>1. Within(h, e, q)
    BY <1>1, <1>4 DEF Bounded
  <2> QED BY <1>2, <2>1 DEF Within, AfterTrade
<1>7. ASSUME NEW o \in Outcomes PROVE staked'[o] <= VolumeOf(q, On(q, o))
  <2>1. staked'[o] \in {staked[o], h.copy.staked[o]}
    BY <1>1, <1>3 DEF UpdateOutcome, Column
  <2>2. staked[o] <= VolumeOf(q, On(q, o))
    BY <1>4 DEF Bounded
  <2> QED BY <1>6, <2>1, <2>2
<1>8. handler'[e].pc = "done"
  BY <1>1 DEF UpdateOutcome, Done, Continue, Inv1, TypeOK
<1>9. ASSUME NEW i \in Events PROVE Within(handler'[i], i, q)
  <2>1. CASE i = e
    BY <1>8, <2>1 DEF Within, BeforeTrade, AfterTrade
  <2>2. CASE i # e
    <3>1. handler'[i] = handler[i]
      BY <2>2, HandlerMoves DEF Moves, Handle
    <3> QED BY <1>4, <3>1 DEF Bounded
  <2> QED BY <2>1, <2>2
<1> QED BY <1>4, <1>5, <1>7, <1>9 DEF Bounded

LEMMA BoundedKept == Inv1 /\ Bounded /\ [Next]_vars => Bounded'
<1> SUFFICES ASSUME Inv1, Bounded, [Next]_vars PROVE Bounded'
  OBVIOUS
<1>1. CASE UNCHANGED vars
  <2>1. PICK t, h : t = trades /\ h = handler
    OBVIOUS
  <2>2. trades' = t /\ handler' = h /\ market' = market /\ staked' = staked
    BY <1>1, <2>1 DEF vars
  <2> QED BY <2>1, <2>2 DEF Bounded
<1>2. ASSUME NEW e \in Events, NEW event \in Event, Emit(e, event) PROVE Bounded'
  <2>0. handler'[e] = [pc |-> "find", event |-> event] /\ \A i \in Events : i # e => handler'[i] = handler[i]
    BY <1>2, EmitAdds
  <2>1. handler'[e].pc = "find" /\ \A i \in Events : i # e => handler'[i] = handler[i]
    BY <2>0
  <2>2. UNCHANGED <<market, staked, trades>>
    BY <1>2 DEF Emit
  <2> QED BY <2>1, <2>2, NoCopy DEF BeforeTrade, AfterTrade
<1>3. ASSUME NEW e \in Events, Handle(e) \/ Fail(e) PROVE Bounded'
  <2>1. \A i \in Events : i # e => handler'[i] = handler[i]
    BY <1>3, HandlerMoves DEF Moves
  <2>2. handler \in [Events -> Handler]
    BY DEF Inv1, TypeOK
  <2>3. PICK h \in Handler, next \in {handler'[e]} : h = handler[e] /\ next = handler'[e]
    BY <2>2
  <2>4. ASSUME UNCHANGED <<market, staked, trades>>, next.pc \notin BeforeTrade \union AfterTrade PROVE Bounded'
    BY <2>1, <2>3, <2>4, NoCopy
  <2>5. ASSUME UNCHANGED <<market, staked, trades>>, next.copy = h.copy, h.pc \in BeforeTrade \union AfterTrade,
               next.pc \in {"loadOutcome", "updateOutcome"} <=> h.pc \in {"loadOutcome", "updateOutcome"}
        PROVE  Bounded'
    BY <2>1, <2>3, <2>5, SameCopy
  <2>6. ASSUME UNCHANGED <<market, staked, trades>>, h.pc = "find", next.pc \in {"findPosition", "loadMarket"},
               next.copy.market.totalVolume = market.totalVolume, next.copy.market.tradeCount = market.tradeCount,
               next.copy.staked = staked
        PROVE  Bounded'
    BY <2>1, <2>3, <2>6, FirstCopy
  <2>7. CASE Fail(e)
    <3>1. next.pc = "failed" /\ UNCHANGED <<market, staked, trades>>
      BY <2>2, <2>3, <2>7 DEF Fail, Continue
    <3> QED BY <2>4, <3>1 DEF BeforeTrade, AfterTrade
  <2>8. CASE handleBetPlaced(e)
    <3>1. h.pc = "find" /\ UNCHANGED <<market, staked, trades>>
      BY <2>3, <2>8 DEF handleBetPlaced
    <3>2. \/ next = [pc |-> "findPosition", event |-> h.event, copy |-> Tables]
          \/ next = [pc |-> "done", event |-> h.event]
      BY <2>2, <2>3, <2>8 DEF handleBetPlaced, Done, Continue
    <3>3. CASE next = [pc |-> "findPosition", event |-> h.event, copy |-> Tables]
      BY <2>6, <3>1, <3>3 DEF Tables
    <3>4. CASE next = [pc |-> "done", event |-> h.event]
      BY <2>4, <3>1, <3>4 DEF BeforeTrade, AfterTrade
    <3> QED BY <3>2, <3>3, <3>4
  <2>9. CASE FindPosition(e)
    <3>1. /\ h.pc = "findPosition" /\ next.pc \in {"insertPosition", "loadPosition"} /\ next.copy = h.copy
          /\ UNCHANGED <<market, staked, trades>>
      BY <2>2, <2>3, <2>9 DEF FindPosition, Continue
    <3> QED BY <2>5, <3>1 DEF BeforeTrade
  <2>10. CASE InsertPosition(e)
    <3>1. h.pc = "insertPosition" /\ UNCHANGED <<market, staked, trades>>
      BY <2>3, <2>10 DEF InsertPosition
    <3>2. next = [h EXCEPT !.pc = "insertTrade"] \/ next = [pc |-> "failed", event |-> h.event]
      BY <2>2, <2>3, <2>10 DEF InsertPosition, Continue
    <3>3. CASE next = [pc |-> "failed", event |-> h.event]
      BY <2>4, <3>1, <3>3 DEF BeforeTrade, AfterTrade
    <3>4. CASE next = [h EXCEPT !.pc = "insertTrade"]
      <4>1. h \in [pc : {"insertPosition", "loadPosition", "insertTrade"}, event : Event,
                   copy : Read, position : Position]
        BY <3>1 DEF Handler
      <4>2. next.pc = "insertTrade" /\ next.copy = h.copy
        BY <3>4, <4>1
      <4> QED BY <2>5, <3>1, <4>2 DEF BeforeTrade
    <3> QED BY <3>2, <3>3, <3>4
  <2>11. CASE LoadPosition(e)
    <3>1. /\ h.pc = "loadPosition" /\ next.pc = "updatePosition" /\ next.copy = h.copy
          /\ UNCHANGED <<market, staked, trades>>
      BY <2>2, <2>3, <2>11 DEF LoadPosition, Continue
    <3> QED BY <2>5, <3>1 DEF BeforeTrade
  <2>12. CASE UpdatePosition(e)
    <3>1. /\ h.pc = "updatePosition" /\ next.pc = "insertTrade" /\ next.copy = h.copy
          /\ UNCHANGED <<market, staked, trades>>
      BY <2>2, <2>3, <2>12 DEF UpdatePosition, Continue
    <3> QED BY <2>5, <3>1 DEF BeforeTrade
  <2>13. CASE InsertTrade(e)
    BY <2>13, InsertTradeBounded
  <2>14. CASE handleMarketResolved(e)
    <3>1. h.pc = "find" /\ UNCHANGED <<market, staked, trades>>
      BY <2>3, <2>14 DEF handleMarketResolved
    <3>2. PICK c : c = [Tables EXCEPT !.market.status = "RESOLVED", !.market.winningOutcomeIndex = h.event.outcome]
      OBVIOUS
    <3>3. next = [pc |-> "loadMarket", event |-> h.event, copy |-> c]
      BY <2>2, <2>3, <2>14, <3>2 DEF handleMarketResolved, Continue
    <3>4. c.market.totalVolume = market.totalVolume /\ c.market.tradeCount = market.tradeCount /\ c.staked = staked
      <4>1. PICK m : m = [market EXCEPT !.status = "RESOLVED", !.winningOutcomeIndex = h.event.outcome]
        OBVIOUS
      <4>2. c = [market |-> m, staked |-> staked]
        BY <3>2, <4>1 DEF Tables
      <4>3. m.totalVolume = market.totalVolume /\ m.tradeCount = market.tradeCount
        BY <4>1 DEF Market, Inv1, TypeOK
      <4> QED BY <4>2, <4>3
    <3> QED BY <2>6, <3>1, <3>3, <3>4
  <2>24. CASE adminRequest(e)
    <3>1. h.pc = "find" /\ UNCHANGED <<market, staked, trades>>
      BY <2>3, <2>24 DEF adminRequest
    <3>2. PICK c : c = [Tables EXCEPT !.market.status = h.event.status]
      OBVIOUS
    <3>3. \/ next = [pc |-> "loadMarket", event |-> h.event, copy |-> c]
          \/ next = [pc |-> "done", event |-> h.event]
      BY <2>2, <2>3, <2>24, <3>2 DEF adminRequest, Done, Continue
    <3>4. c.market.totalVolume = market.totalVolume /\ c.market.tradeCount = market.tradeCount /\ c.staked = staked
      <4>1. PICK m : m = [market EXCEPT !.status = h.event.status]
        OBVIOUS
      <4>2. c = [market |-> m, staked |-> staked]
        BY <3>2, <4>1 DEF Tables
      <4>3. m.totalVolume = market.totalVolume /\ m.tradeCount = market.tradeCount
        BY <4>1 DEF Market, Inv1, TypeOK
      <4> QED BY <4>2, <4>3
    <3>5. CASE next = [pc |-> "loadMarket", event |-> h.event, copy |-> c]
      BY <2>6, <3>1, <3>4, <3>5
    <3>6. CASE next = [pc |-> "done", event |-> h.event]
      BY <2>4, <3>1, <3>6 DEF BeforeTrade, AfterTrade
    <3> QED BY <3>3, <3>5, <3>6
  <2>15. CASE LoadMarket(e)
    <3>1. /\ h.pc = "loadMarket" /\ next.pc = "updateMarket" /\ next.copy = h.copy
          /\ UNCHANGED <<market, staked, trades>>
      BY <2>2, <2>3, <2>15 DEF LoadMarket, Continue
    <3> QED BY <2>5, <3>1 DEF AfterTrade
  <2>16. CASE UpdateMarket(e)
    BY <2>16, UpdateMarketBounded
  <2>17. CASE LoadOutcome(e)
    <3>1. /\ h.pc = "loadOutcome" /\ next.pc = "updateOutcome" /\ next.copy = h.copy
          /\ UNCHANGED <<market, staked, trades>>
      BY <2>2, <2>3, <2>17 DEF LoadOutcome, Continue
    <3> QED BY <2>5, <3>1 DEF AfterTrade
  <2>18. CASE UpdateOutcome(e)
    BY <2>18, UpdateOutcomeBounded
  <2>19. CASE handleWinningsClaimed(e)
    <3>1. next.pc \in {"findPositions", "done"} /\ UNCHANGED <<market, staked, trades>>
      BY <2>2, <2>3, <2>19 DEF handleWinningsClaimed, Done, Continue
    <3> QED BY <2>4, <3>1 DEF BeforeTrade, AfterTrade
  <2>20. CASE FindPositions(e)
    <3>1. next.pc = "claim" /\ UNCHANGED <<market, staked, trades>>
      BY <2>2, <2>3, <2>20 DEF FindPositions, Continue
    <3> QED BY <2>4, <3>1 DEF BeforeTrade, AfterTrade
  <2>21. ASSUME NEW o \in Outcomes, LoadClaim(e, o) PROVE Bounded'
    <3>1. next.pc = "updateClaim" /\ UNCHANGED <<market, staked, trades>>
      BY <2>2, <2>3, <2>21 DEF LoadClaim, Continue
    <3> QED BY <2>4, <3>1 DEF BeforeTrade, AfterTrade
  <2>22. CASE UpdateClaim(e)
    <3>1. next.pc = "claim" /\ UNCHANGED <<market, staked, trades>>
      BY <2>2, <2>3, <2>22 DEF UpdateClaim, Continue
    <3> QED BY <2>4, <3>1 DEF BeforeTrade, AfterTrade
  <2>23. CASE EndClaim(e)
    <3>1. next.pc = "done" /\ UNCHANGED <<market, staked, trades>>
      BY <2>2, <2>3, <2>23 DEF EndClaim, Done, Continue
    <3> QED BY <2>4, <3>1 DEF BeforeTrade, AfterTrade
  <2> QED BY <1>3, <2>7, <2>8, <2>9, <2>10, <2>11, <2>12, <2>13, <2>14, <2>15, <2>16, <2>17, <2>18, <2>19,
             <2>20, <2>21, <2>22, <2>23, <2>24, Zenon DEF Handle
<1> QED BY <1>1, <1>2, <1>3 DEF Next

LEMMA BoundedStarts == Init => Bounded
<1> SUFFICES ASSUME Init PROVE Bounded
  OBVIOUS
<1>1. Rec(trades) = {} /\ \A o \in Outcomes : On(trades, o) = {}
  BY DEF Init, Rec, On
<1>2. VolumeOf(trades, {}) = 0 /\ Cardinality({}) = 0
  BY NoVolume, FS_EmptySet
<1>3. market.totalVolume = 0 /\ market.tradeCount = 0 /\ \A o \in Outcomes : staked[o] = 0
  BY DEF Init
<1>4. \A e \in Events : Within(handler[e], e, trades)
  BY DEF Init, Within, BeforeTrade, AfterTrade
<1> QED BY <1>1, <1>2, <1>3, <1>4 DEF Bounded

-----------------------------------------------------------------------------
(* Handlers that run one after the other and do not fail.                    *)

Apart(T, hs, pairs) ==
    /\ \A e \in T : hs[e].pc # "failed"
    /\ \A e, other \in T : e # other => {e, other} \notin pairs

\* Among events that are still apart after a step only its own handler ran.
LEMMA OnlyOneRuns ==
  ASSUME Inv1, EmissionOK, NEW e \in Events, Handle(e) \/ Fail(e),
         NEW T \in SUBSET Events, Apart(T, handler', overlaps')
  PROVE  /\ Apart(T, handler, overlaps)
         /\ e \in T => ~Fail(e) /\ \A i \in T : i # e => ~Runs(i)
<1>1. /\ Runs(e) /\ overlaps' = overlaps
      /\ \A i \in Events : i # e => handler'[i] = handler[i]
  BY HandlerMoves DEF Moves
<1>2. Apart(T, handler, overlaps)
  BY <1>1 DEF Apart, Runs, Ended
<1>3. e \in T => \A i \in T : i # e => ~Runs(i)
  BY <1>1, <1>2 DEF Apart, EmissionOK
<1>4. e \in T => ~Fail(e)
  <2>1. Fail(e) => handler'[e].pc = "failed"
    BY DEF Fail, Continue, Inv1, TypeOK
  <2> QED BY <2>1 DEF Apart
<1> QED BY <1>2, <1>3, <1>4

LEMMA NoneRunsYet ==
  ASSUME Inv1, NEW e \in Events, NEW event \in Event, Emit(e, event),
         NEW T \in SUBSET Events, Apart(T, handler', overlaps')
  PROVE  /\ Apart(T, handler, overlaps)
         /\ e \in T => \A i \in T : ~Runs(i)
<1>1. /\ ~Runs(e)
      /\ \A i \in Events : i # e => handler'[i] = handler[i]
  BY EmitAdds
<1>2. /\ handler[e].pc = "waiting"
      /\ overlaps' = overlaps \union {{e, other} : other \in {i \in Events : Runs(i)}}
  BY DEF Emit
<1>3. Apart(T, handler, overlaps)
  BY <1>1, <1>2 DEF Apart
<1>4. ASSUME e \in T, NEW i \in T, Runs(i) PROVE FALSE
  <2>1. i # e /\ {e, i} \in overlaps'
    BY <1>1, <1>2, <1>4
  <2> QED BY <1>4, <2>1 DEF Apart
<1> QED BY <1>3, <1>4

-----------------------------------------------------------------------------
(* The market and its outcomes when all handlers run apart.                  *)

BetAt(h, pcs) == h.pc \in pcs /\ h.event.name = "BetPlaced"

\* Between the trade of a bet and the save of the market, its totals lag by
\* the bet; until the save of the outcome its stakes do.
TotalsAgree(h, m, t) ==
    /\ BetAt(h, {"loadMarket", "updateMarket"}) =>
         /\ m.totalVolume + h.event.amount = VolumeOf(t, Rec(t))
         /\ m.tradeCount + 1 = Cardinality(Rec(t))
    /\ ~BetAt(h, {"loadMarket", "updateMarket"}) =>
         /\ m.totalVolume = VolumeOf(t, Rec(t))
         /\ m.tradeCount = Cardinality(Rec(t))

StakeAgrees(h, s, t, o) ==
    /\ BetAt(h, AfterTrade) /\ h.event.outcome = o => s[o] + h.event.amount = VolumeOf(t, On(t, o))
    /\ ~(BetAt(h, AfterTrade) /\ h.event.outcome = o) => s[o] = VolumeOf(t, On(t, o))

\* What the handler holds is what is stored, and its own change.
CopyAgrees(h, m, s) ==
    /\ h.pc \in BeforeTrade => h.copy.market = m /\ h.copy.staked = s
    /\ BetAt(h, {"loadMarket", "updateMarket"}) =>
         /\ h.copy.market.totalVolume = m.totalVolume + h.event.amount
         /\ h.copy.market.tradeCount = m.tradeCount + 1
         /\ h.copy.market.status = m.status
         /\ h.copy.market.winningOutcomeIndex = m.winningOutcomeIndex
         /\ h.copy.staked = s
    /\ h.pc \in {"loadMarket", "updateMarket"} /\ h.event.name # "BetPlaced" =>
         /\ h.copy.market.totalVolume = m.totalVolume
         /\ h.copy.market.tradeCount = m.tradeCount
    /\ h.pc \in {"loadMarket", "updateMarket"} /\ h.event.name = "AdminRequest" =>
         /\ m.status # "RESOLVED" /\ h.copy.market.status # "RESOLVED"
         /\ h.copy.market.winningOutcomeIndex = m.winningOutcomeIndex
    /\ h.pc \in {"loadMarket", "updateMarket"} /\ h.event.name = "MarketResolved" =>
         /\ h.copy.market.status = "RESOLVED"
         /\ h.copy.market.winningOutcomeIndex = h.event.outcome
    /\ h.pc \in {"loadOutcome", "updateOutcome"} =>
         h.copy.staked = [s EXCEPT ![h.event.outcome] = @ + h.event.amount]
    /\ h.pc = "updateMarket" => h.seen.market = m /\ h.seen.staked = s
    /\ h.pc = "updateOutcome" => h.seen.staked = s

Agrees(h, m, s, t) ==
    /\ TotalsAgree(h, m, t)
    /\ \A o \in Outcomes : StakeAgrees(h, s, t, o)
    /\ CopyAgrees(h, m, s)

\* Steps that change no table.
LEMMA AgreesOn ==
  ASSUME NEW h, NEW g, NEW m, NEW s, NEW t, Agrees(h, m, s, t), g.event = h.event,
         g.pc \in {"loadMarket", "updateMarket"} <=> h.pc \in {"loadMarket", "updateMarket"},
         g.pc \in AfterTrade <=> h.pc \in AfterTrade, CopyAgrees(g, m, s)
  PROVE  Agrees(g, m, s, t)
<1>1. TotalsAgree(g, m, t)
  BY DEF Agrees, TotalsAgree, BetAt
<1>2. ASSUME NEW o \in Outcomes PROVE StakeAgrees(g, s, t, o)
  BY DEF Agrees, StakeAgrees, BetAt
<1> QED BY <1>1, <1>2 DEF Agrees

\* Handlers that hold nothing.
LEMMA AgreesAtRest ==
  ASSUME NEW h, NEW g, NEW m, NEW s, NEW t, Agrees(h, m, s, t),
         h.pc \notin BeforeTrade \union AfterTrade, g.pc \notin BeforeTrade \union AfterTrade
  PROVE  Agrees(g, m, s, t)
<1>1. TotalsAgree(g, m, t)
  BY DEF Agrees, TotalsAgree, BetAt, AfterTrade
<1>2. ASSUME NEW o \in Outcomes PROVE StakeAgrees(g, s, t, o)
  BY DEF Agrees, StakeAgrees, BetAt
<1>3. CopyAgrees(g, m, s)
  BY DEF CopyAgrees, BetAt, BeforeTrade, AfterTrade
<1> QED BY <1>1, <1>2, <1>3 DEF Agrees

LEMMA InsertTradeAgrees ==
  ASSUME Inv1, NEW e \in Events, InsertTrade(e), Agrees(handler[e], market, staked, trades)
  PROVE  Agrees(handler'[e], market', staked', trades')
<1>1. PICK h \in Handler, t \in Trade \union {NoRow} :
        h = handler[e] /\ t = trades[e] /\ Fits(h, positions, t)
  BY HandlerAt
<1>2. /\ h.pc = "insertTrade" /\ h.event \in Event /\ h.copy \in Read
      /\ h.copy.market \in Market /\ h.copy.staked \in [Outcomes -> Nat]
  BY <1>1, HandlerTypes DEF InsertTrade, BeforeTrade
<1>3. h.event.name = "BetPlaced" /\ IsKnown(h.event) /\ t = NoRow
  BY <1>1, <1>2 DEF Fits, BeforeTrade, AfterTrade
<1>4. h.event.user \in Users /\ h.event.outcome \in Outcomes /\ h.event.amount \in Amounts /\ h.event.amount \in Nat
  BY <1>2, <1>3, EventTypes
<1>5. PICK trade : trade = [user |-> h.event.user, outcome |-> h.event.outcome, amount |-> h.event.amount]
  OBVIOUS
<1>6. trade \in Trade /\ trade.amount = h.event.amount /\ trade.outcome = h.event.outcome
  BY <1>3, <1>4, <1>5 DEF Trade, IsKnown
<1>7. PICK old \in [Events -> Trade \union {NoRow}], m \in Market, s \in [Outcomes -> Nat] :
        old = trades /\ m = market /\ s = staked
  BY DEF Inv1, TypeOK
<1>8. PICK q : q = [old EXCEPT ![e] = trade]
  OBVIOUS
<1>9. trades' = q /\ market' = m /\ staked' = s
  BY <1>1, <1>5, <1>7, <1>8 DEF InsertTrade
<1>10. OneMore(old, e, trade, q)
  BY <1>1, <1>3, <1>6, <1>7, <1>8 DEF OneMore
<1>11. PICK new : new = WithTrade(h.copy.market, h.event.amount, h.position)
  OBVIOUS
<1>12. PICK next : next = handler'[e]
  OBVIOUS
<1>13. /\ next.pc = "loadMarket" /\ next.event = h.event
       /\ next.copy.market = new /\ next.copy.staked = h.copy.staked
  <2>1. PICK c : c = [h.copy EXCEPT !.market = new]
    OBVIOUS
  <2>2. c.market = new /\ c.staked = h.copy.staked
    BY <1>2, <2>1 DEF Read
  <2>3. next = [pc |-> "loadMarket", event |-> h.event, copy |-> c]
    BY <1>1, <1>11, <1>12, <2>1 DEF InsertTrade, Continue, Inv1, TypeOK
  <2> QED BY <2>2, <2>3
<1>14. Agrees(h, m, s, old)
  BY <1>1, <1>7
<1>15. h.copy.market = m /\ h.copy.staked = s
  BY <1>2, <1>14 DEF Agrees, CopyAgrees, BeforeTrade
<1>16. CopyAgrees(next, m, s)
  <2>1. /\ new.totalVolume = m.totalVolume + h.event.amount /\ new.tradeCount = m.tradeCount + 1
        /\ new.status = m.status /\ new.winningOutcomeIndex = m.winningOutcomeIndex
    BY <1>4, <1>11, <1>15, TradeAdded
  <2> QED BY <1>3, <1>13, <1>15, <2>1 DEF CopyAgrees, BetAt, BeforeTrade
<1>17. TotalsAgree(next, m, q)
  <2>1. m.totalVolume = VolumeOf(old, Rec(old)) /\ m.tradeCount = Cardinality(Rec(old))
    BY <1>2, <1>14 DEF Agrees, TotalsAgree, BetAt
  <2>2. /\ Cardinality(Rec(q)) = Cardinality(Rec(old)) + 1
        /\ VolumeOf(q, Rec(q)) = VolumeOf(old, Rec(old)) + trade.amount
    BY <1>10, TradeCounted
  <2> QED BY <1>3, <1>6, <1>13, <2>1, <2>2 DEF TotalsAgree, BetAt
<1>18. ASSUME NEW o \in Outcomes PROVE StakeAgrees(next, s, q, o)
  <2>1. s[o] = VolumeOf(old, On(old, o))
    BY <1>2, <1>14 DEF Agrees, StakeAgrees, BetAt, AfterTrade
  <2>2. /\ o = trade.outcome => VolumeOf(q, On(q, o)) = VolumeOf(old, On(old, o)) + trade.amount
        /\ o # trade.outcome => VolumeOf(q, On(q, o)) = VolumeOf(old, On(old, o))
    BY <1>10, TradeOn
  <2> QED BY <1>3, <1>6, <1>13, <2>1, <2>2 DEF StakeAgrees, BetAt, AfterTrade
<1> QED BY <1>9, <1>12, <1>16, <1>17, <1>18 DEF Agrees

LEMMA UpdateMarketAgrees ==
  ASSUME Inv1, NEW e \in Events, UpdateMarket(e), Agrees(handler[e], market, staked, trades)
  PROVE  /\ Agrees(handler'[e], market', staked', trades')
         /\ market'.status = handler[e].copy.market.status
         /\ market'.winningOutcomeIndex = handler[e].copy.market.winningOutcomeIndex
<1>1. PICK h \in Handler, tr \in Trade \union {NoRow} :
        h = handler[e] /\ tr = trades[e] /\ Fits(h, positions, tr)
  BY HandlerAt
<1>2. /\ h.pc = "updateMarket" /\ h.event \in Event
      /\ h.copy \in Read /\ h.copy.market \in Market /\ h.copy.staked \in [Outcomes -> Nat]
  BY <1>1, HandlerTypes DEF UpdateMarket, AfterTrade
<1>3. PICK t \in [Events -> Trade \union {NoRow}], m \in Market, s \in [Outcomes -> Nat] :
        t = trades /\ m = market /\ s = staked
  BY DEF Inv1, TypeOK
<1>4. Agrees(h, m, s, t) /\ h.seen.market = m /\ h.seen.staked = s
  BY <1>1, <1>2, <1>3 DEF Agrees, CopyAgrees
<1>5. market' = h.copy.market
  <2>1. market' = Updated(m, m, h.copy.market)
    BY <1>1, <1>3, <1>4 DEF UpdateMarket
  <2> QED BY <1>2, <2>1, MarketSaved
<1>6. trades' = t
  BY <1>3 DEF UpdateMarket
<1>7. PICK next : next = handler'[e]
  OBVIOUS
<1>8. CASE h.event.name # "BetPlaced"
  <2>1. next = [pc |-> "done", event |-> h.event] /\ staked' = s
    BY <1>1, <1>3, <1>7, <1>8 DEF UpdateMarket, Done, Continue, Inv1, TypeOK
  <2>2. h.copy.market.totalVolume = m.totalVolume /\ h.copy.market.tradeCount = m.tradeCount
    BY <1>2, <1>4, <1>8 DEF Agrees, CopyAgrees
  <2>3. TotalsAgree(next, h.copy.market, t)
    BY <1>4, <1>8, <2>1, <2>2 DEF Agrees, TotalsAgree, BetAt
  <2>4. ASSUME NEW o \in Outcomes PROVE StakeAgrees(next, s, t, o)
    BY <1>4, <1>8, <2>1 DEF Agrees, StakeAgrees, BetAt, AfterTrade
  <2>5. CopyAgrees(next, h.copy.market, s)
    BY <2>1 DEF CopyAgrees, BetAt, BeforeTrade
  <2>6. Agrees(next, h.copy.market, s, t)
    BY <2>3, <2>4, <2>5 DEF Agrees
  <2> QED BY <1>1, <1>5, <1>6, <1>7, <2>1, <2>6
<1>9. CASE h.event.name = "BetPlaced"
  <2>1. h.event.outcome \in Outcomes /\ h.event.amount \in Nat
    BY <1>2, <1>9, EventTypes
  <2>2. /\ h.copy.market.totalVolume = m.totalVolume + h.event.amount
        /\ h.copy.market.tradeCount = m.tradeCount + 1 /\ h.copy.staked = s
    BY <1>2, <1>4, <1>9 DEF Agrees, CopyAgrees, BetAt
  <2>3. staked' = s
    <3>1. staked' = Updated(s, s, s)
      BY <1>1, <1>3, <1>4, <1>9, <2>2 DEF UpdateMarket
    <3> QED BY <3>1, StakesSaved
  <2>4. PICK new : new = [s EXCEPT ![h.event.outcome] = @ + h.event.amount]
    OBVIOUS
  <2>5. PICK c : c = [h.copy EXCEPT !.staked[h.event.outcome] = @ + h.event.amount]
    OBVIOUS
  <2>6. c.staked = new
    <3>1. c = [h.copy EXCEPT !.staked = new]
      BY <2>2, <2>4, <2>5
    <3> QED BY <1>2, <3>1 DEF Read
  <2>7. next = [pc |-> "loadOutcome", event |-> h.event, copy |-> c]
    BY <1>1, <1>7, <1>9, <2>5 DEF UpdateMarket, Continue, Inv1, TypeOK
  <2>8. TotalsAgree(next, h.copy.market, t)
    <3>1. m.totalVolume + h.event.amount = VolumeOf(t, Rec(t)) /\ m.tradeCount + 1 = Cardinality(Rec(t))
      BY <1>2, <1>4, <1>9 DEF Agrees, TotalsAgree, BetAt
    <3> QED BY <2>2, <2>7, <3>1 DEF TotalsAgree, BetAt
  <2>9. ASSUME NEW o \in Outcomes PROVE StakeAgrees(next, s, t, o)
    BY <1>2, <1>4, <1>9, <2>7 DEF Agrees, StakeAgrees, BetAt, AfterTrade
  <2>10. CopyAgrees(next, h.copy.market, s)
    BY <2>4, <2>6, <2>7 DEF CopyAgrees, BetAt, BeforeTrade
  <2>11. Agrees(next, h.copy.market, s, t)
    BY <2>8, <2>9, <2>10 DEF Agrees
  <2> QED BY <1>1, <1>5, <1>6, <1>7, <2>3, <2>11
<1> QED BY <1>8, <1>9

LEMMA UpdateOutcomeAgrees ==
  ASSUME Inv1, NEW e \in Events, UpdateOutcome(e), Agrees(handler[e], market, staked, trades)
  PROVE  Agrees(handler'[e], market', staked', trades')
<1>1. PICK h \in Handler, tr \in Trade \union {NoRow} :
        h = handler[e] /\ tr = trades[e] /\ Fits(h, positions, tr)
  BY HandlerAt
<1>2. /\ h.pc = "updateOutcome" /\ h.event \in Event
      /\ h.copy.staked \in [Outcomes -> Nat]
  BY <1>1, HandlerTypes DEF UpdateOutcome, AfterTrade
<1>3. h.event.name = "BetPlaced" /\ h.event.outcome \in Outcomes /\ h.event.amount \in Nat
  BY <1>1, <1>2, EventTypes DEF Fits
<1>4. PICK t \in [Events -> Trade \union {NoRow}], m \in Market, s \in [Outcomes -> Nat] :
        t = trades /\ m = market /\ s = staked
  BY DEF Inv1, TypeOK
<1>5. PICK new : new = [s EXCEPT ![h.event.outcome] = @ + h.event.amount]
  OBVIOUS
<1>6. Agrees(h, m, s, t) /\ h.seen.staked = s /\ h.copy.staked = new
  BY <1>1, <1>2, <1>4, <1>5 DEF Agrees, CopyAgrees
<1>7. trades' = t /\ market' = m
  BY <1>4 DEF UpdateOutcome
<1>8. staked' = new
  <2>1. staked' = [s EXCEPT ![h.event.outcome] = Column(s[h.event.outcome], s[h.event.outcome], new[h.event.outcome])]
    BY <1>1, <1>3, <1>4, <1>6 DEF UpdateOutcome
  <2>2. Column(s[h.event.outcome], s[h.event.outcome], new[h.event.outcome]) = s[h.event.outcome] + h.event.amount
    BY <1>3, <1>5 DEF Column
  <2> QED BY <1>5, <2>1, <2>2
<1>9. PICK next : next = handler'[e] /\ next = [pc |-> "done", event |-> h.event]
  BY <1>1 DEF UpdateOutcome, Done, Continue, Inv1, TypeOK
<1>10. TotalsAgree(next, m, t)
  BY <1>2, <1>6, <1>9 DEF Agrees, TotalsAgree, BetAt
<1>11. ASSUME NEW o \in Outcomes PROVE StakeAgrees(next, new, t, o)
  <2>1. StakeAgrees(h, s, t, o)
    BY <1>6 DEF Agrees
  <2>2. CASE o = h.event.outcome
    <3>1. s[o] + h.event.amount = VolumeOf(t, On(t, o))
      BY <1>2, <1>3, <2>1, <2>2 DEF StakeAgrees, BetAt, AfterTrade
    <3>2. new[o] = s[o] + h.event.amount
      BY <1>5, <2>2
    <3> QED BY <1>9, <3>1, <3>2 DEF StakeAgrees, BetAt, AfterTrade
  <2>3. CASE o # h.event.outcome
    <3>1. s[o] = VolumeOf(t, On(t, o)) /\ new[o] = s[o]
      BY <1>5, <2>1, <2>3 DEF StakeAgrees
    <3> QED BY <1>9, <3>1 DEF StakeAgrees, BetAt, AfterTrade
  <2> QED BY <2>2, <2>3
<1>12. CopyAgrees(next, m, new)
  BY <1>9 DEF CopyAgrees, BetAt, BeforeTrade
<1> QED BY <1>7, <1>8, <1>9, <1>10, <1>11, <1>12 DEF Agrees

\* Every command of the handler that runs keeps the agreement.
LEMMA AgreesKept ==
  ASSUME Inv1, NEW e \in Events, Handle(e), Agrees(handler[e], market, staked, trades)
  PROVE  Agrees(handler'[e], market', staked', trades')
<1>1. PICK h \in Handler, tr \in Trade \union {NoRow} :
        h = handler[e] /\ tr = trades[e] /\ Fits(h, positions, tr)
  BY HandlerAt
<1>2. handler \in [Events -> Handler]
  BY DEF Inv1, TypeOK
<1>3. PICK next : next = handler'[e]
  OBVIOUS
<1>4. PICK m, s, t : m = market /\ s = staked /\ t = trades
  OBVIOUS
<1>5. Agrees(h, m, s, t)
  BY <1>1, <1>4
<1>6. ASSUME UNCHANGED <<market, staked, trades>>, Agrees(next, m, s, t)
      PROVE  Agrees(handler'[e], market', staked', trades')
  BY <1>3, <1>4, <1>6
<1>7. ASSUME UNCHANGED <<market, staked, trades>>,
             h.pc \notin BeforeTrade \union AfterTrade, next.pc \notin BeforeTrade \union AfterTrade
      PROVE  Agrees(handler'[e], market', staked', trades')
  BY <1>5, <1>6, <1>7, AgreesAtRest
<1>8. ASSUME UNCHANGED <<market, staked, trades>>, h.pc \in BeforeTrade, next.pc \in BeforeTrade,
             next.event = h.event, next.copy = h.copy
      PROVE  Agrees(handler'[e], market', staked', trades')
  <2>1. h.copy.market = m /\ h.copy.staked = s
    BY <1>5, <1>8 DEF Agrees, CopyAgrees
  <2>2. CopyAgrees(next, m, s)
    BY <1>8, <2>1 DEF CopyAgrees, BetAt, BeforeTrade
  <2> QED BY <1>5, <1>6, <1>8, <2>2, AgreesOn DEF BeforeTrade, AfterTrade
<1>9. CASE handleBetPlaced(e)
  <2>1. h.pc = "find" /\ UNCHANGED <<market, staked, trades>>
    BY <1>1, <1>9 DEF handleBetPlaced
  <2>2. \/ next = [pc |-> "findPosition", event |-> h.event, copy |-> Tables]
        \/ next = [pc |-> "done", event |-> h.event]
    BY <1>1, <1>2, <1>3, <1>9 DEF handleBetPlaced, Done, Continue
  <2>3. CASE next = [pc |-> "findPosition", event |-> h.event, copy |-> Tables]
    <3>1. CopyAgrees(next, m, s)
      BY <1>4, <2>3 DEF CopyAgrees, BetAt, Tables
    <3>2. next.event = h.event /\ next.pc = "findPosition"
      BY <2>3
    <3> QED BY <1>5, <1>6, <2>1, <3>1, <3>2, AgreesOn DEF AfterTrade
  <2>4. CASE next = [pc |-> "done", event |-> h.event]
    BY <1>7, <2>1, <2>4 DEF BeforeTrade, AfterTrade
  <2> QED BY <2>2, <2>3, <2>4
<1>10. CASE FindPosition(e)
  <2>1. /\ h.pc = "findPosition" /\ next.pc \in {"insertPosition", "loadPosition"}
        /\ next.event = h.event /\ next.copy = h.copy /\ UNCHANGED <<market, staked, trades>>
    BY <1>1, <1>2, <1>3, <1>10 DEF FindPosition, Continue
  <2> QED BY <1>8, <2>1 DEF BeforeTrade
<1>11. CASE InsertPosition(e)
  <2>1. h.pc = "insertPosition" /\ UNCHANGED <<market, staked, trades>>
    BY <1>1, <1>11 DEF InsertPosition
  <2>2. next = [h EXCEPT !.pc = "insertTrade"] \/ next = [pc |-> "failed", event |-> h.event]
    BY <1>1, <1>2, <1>3, <1>11 DEF InsertPosition, Continue
  <2>3. CASE next = [pc |-> "failed", event |-> h.event]
    <3>1. TotalsAgree(h, m, t) /\ CopyAgrees(next, m, s)
      BY <1>5, <2>3 DEF Agrees, CopyAgrees, BetAt, BeforeTrade
    <3> QED BY <1>5, <1>6, <2>1, <2>3, <3>1, AgreesOn DEF AfterTrade
  <2>4. CASE next = [h EXCEPT !.pc = "insertTrade"]
    <3>1. h \in [pc : {"insertPosition", "loadPosition", "insertTrade"}, event : Event,
                 copy : Read, position : Position]
      BY <2>1 DEF Handler
    <3>2. next.pc = "insertTrade" /\ next.copy = h.copy /\ next.event = h.event
      BY <2>4, <3>1
    <3> QED BY <1>8, <2>1, <3>2 DEF BeforeTrade
  <2> QED BY <2>2, <2>3, <2>4
<1>12. CASE LoadPosition(e)
  <2>1. /\ h.pc = "loadPosition" /\ next.pc = "updatePosition"
        /\ next.event = h.event /\ next.copy = h.copy /\ UNCHANGED <<market, staked, trades>>
    BY <1>1, <1>2, <1>3, <1>12 DEF LoadPosition, Continue
  <2> QED BY <1>8, <2>1 DEF BeforeTrade
<1>13. CASE UpdatePosition(e)
  <2>1. /\ h.pc = "updatePosition" /\ next.pc = "insertTrade"
        /\ next.event = h.event /\ next.copy = h.copy /\ UNCHANGED <<market, staked, trades>>
    BY <1>1, <1>2, <1>3, <1>13 DEF UpdatePosition, Continue
  <2> QED BY <1>8, <2>1 DEF BeforeTrade
<1>14. CASE InsertTrade(e)
  BY <1>14, InsertTradeAgrees
<1>15. CASE handleMarketResolved(e)
  <2>1. h.pc = "find" /\ h.event.name = "MarketResolved" /\ UNCHANGED <<market, staked, trades>>
    BY <1>1, <1>15 DEF handleMarketResolved
  <2>2. PICK c : c = [Tables EXCEPT !.market.status = "RESOLVED", !.market.winningOutcomeIndex = h.event.outcome]
    OBVIOUS
  <2>3. next = [pc |-> "loadMarket", event |-> h.event, copy |-> c]
    BY <1>1, <1>2, <1>3, <1>15, <2>2 DEF handleMarketResolved, Continue
  <2>4. /\ c.market.totalVolume = m.totalVolume /\ c.market.tradeCount = m.tradeCount
        /\ c.market.status = "RESOLVED" /\ c.market.winningOutcomeIndex = h.event.outcome
    <3>1. PICK n : n = [m EXCEPT !.status = "RESOLVED", !.winningOutcomeIndex = h.event.outcome]
      OBVIOUS
    <3>2. c.market = n
      BY <1>4, <2>2, <3>1 DEF Tables
    <3>3. m \in Market
      BY <1>4 DEF Inv1, TypeOK
    <3>4. /\ n.totalVolume = m.totalVolume /\ n.tradeCount = m.tradeCount
          /\ n.status = "RESOLVED" /\ n.winningOutcomeIndex = h.event.outcome
      BY <3>1, <3>3 DEF Market
    <3> QED BY <3>2, <3>4
  <2>5. CopyAgrees(next, m, s)
    BY <2>1, <2>3, <2>4 DEF CopyAgrees, BetAt, BeforeTrade
  <2>6. TotalsAgree(next, m, t)
    BY <1>5, <2>1, <2>3 DEF Agrees, TotalsAgree, BetAt
  <2>7. ASSUME NEW o \in Outcomes PROVE StakeAgrees(next, s, t, o)
    BY <1>5, <2>1, <2>3 DEF Agrees, StakeAgrees, BetAt, AfterTrade
  <2> QED BY <1>6, <2>1, <2>5, <2>6, <2>7 DEF Agrees
<1>25. CASE adminRequest(e)
  <2>1. h.pc = "find" /\ h.event.name = "AdminRequest" /\ UNCHANGED <<market, staked, trades>>
    BY <1>1, <1>25 DEF adminRequest
  <2>2. PICK c : c = [Tables EXCEPT !.market.status = h.event.status]
    OBVIOUS
  <2>3. \/ next = [pc |-> "done", event |-> h.event]
        \/ CanChange(h.event.status) /\ next = [pc |-> "loadMarket", event |-> h.event, copy |-> c]
    BY <1>1, <1>2, <1>3, <1>25, <2>2 DEF adminRequest, Done, Continue
  <2>4. CASE next = [pc |-> "done", event |-> h.event]
    BY <1>7, <2>1, <2>4 DEF BeforeTrade, AfterTrade
  <2>5. CASE CanChange(h.event.status) /\ next = [pc |-> "loadMarket", event |-> h.event, copy |-> c]
    <3>1. h.event.status # "RESOLVED" /\ m.status # "RESOLVED"
      <4>1. h.event \in Event
        BY <1>1, <2>1, HandlerTypes
      <4>2. h.event.status \in {"ACTIVE", "DISPUTED", "CANCELLED"}
        BY <2>1, <4>1, EventTypes
      <4> QED BY <1>4, <2>5, <4>2 DEF CanChange
    <3>2. /\ c.market.totalVolume = m.totalVolume /\ c.market.tradeCount = m.tradeCount
          /\ c.market.status = h.event.status /\ c.market.winningOutcomeIndex = m.winningOutcomeIndex
      <4>1. PICK n : n = [m EXCEPT !.status = h.event.status]
        OBVIOUS
      <4>2. c.market = n
        BY <1>4, <2>2, <4>1 DEF Tables
      <4>3. m \in Market
        BY <1>4 DEF Inv1, TypeOK
      <4>4. /\ n.totalVolume = m.totalVolume /\ n.tradeCount = m.tradeCount
            /\ n.status = h.event.status /\ n.winningOutcomeIndex = m.winningOutcomeIndex
        BY <4>1, <4>3 DEF Market
      <4> QED BY <4>2, <4>4
    <3>3. CopyAgrees(next, m, s)
      BY <2>1, <2>5, <3>1, <3>2 DEF CopyAgrees, BetAt, BeforeTrade
    <3>4. TotalsAgree(next, m, t)
      BY <1>5, <2>1, <2>5 DEF Agrees, TotalsAgree, BetAt
    <3>5. ASSUME NEW o \in Outcomes PROVE StakeAgrees(next, s, t, o)
      BY <1>5, <2>1, <2>5 DEF Agrees, StakeAgrees, BetAt, AfterTrade
    <3> QED BY <1>6, <2>1, <3>3, <3>4, <3>5 DEF Agrees
  <2> QED BY <2>3, <2>4, <2>5
<1>16. CASE LoadMarket(e)
  <2>1. /\ h.pc = "loadMarket" /\ next.pc = "updateMarket" /\ next.event = h.event
        /\ next.copy = h.copy /\ next.seen = Tables /\ UNCHANGED <<market, staked, trades>>
    BY <1>1, <1>2, <1>3, <1>16 DEF LoadMarket, Continue
  <2>2. next.seen.market = m /\ next.seen.staked = s
    BY <1>4, <2>1 DEF Tables
  <2>3. CopyAgrees(next, m, s)
    BY <1>5, <2>1, <2>2 DEF Agrees, CopyAgrees, BetAt, BeforeTrade
  <2> QED BY <1>5, <1>6, <2>1, <2>3, AgreesOn DEF AfterTrade
<1>17. CASE UpdateMarket(e)
  BY <1>17, UpdateMarketAgrees
<1>18. CASE LoadOutcome(e)
  <2>1. /\ h.pc = "loadOutcome" /\ next.pc = "updateOutcome" /\ next.event = h.event
        /\ next.copy = h.copy /\ next.seen = Tables /\ UNCHANGED <<market, staked, trades>>
    BY <1>1, <1>2, <1>3, <1>18 DEF LoadOutcome, Continue
  <2>2. next.seen.staked = s
    BY <1>4, <2>1 DEF Tables
  <2>3. CopyAgrees(next, m, s)
    BY <1>5, <2>1, <2>2 DEF Agrees, CopyAgrees, BetAt, BeforeTrade
  <2> QED BY <1>5, <1>6, <2>1, <2>3, AgreesOn DEF AfterTrade
<1>19. CASE UpdateOutcome(e)
  BY <1>19, UpdateOutcomeAgrees
<1>20. CASE handleWinningsClaimed(e)
  <2>1. h.pc = "find" /\ next.pc \in {"findPositions", "done"} /\ UNCHANGED <<market, staked, trades>>
    BY <1>1, <1>2, <1>3, <1>20 DEF handleWinningsClaimed, Done, Continue
  <2> QED BY <1>7, <2>1 DEF BeforeTrade, AfterTrade
<1>21. CASE FindPositions(e)
  <2>1. h.pc = "findPositions" /\ next.pc = "claim" /\ UNCHANGED <<market, staked, trades>>
    BY <1>1, <1>2, <1>3, <1>21 DEF FindPositions, Continue
  <2> QED BY <1>7, <2>1 DEF BeforeTrade, AfterTrade
<1>22. ASSUME NEW o \in Outcomes, LoadClaim(e, o) PROVE Agrees(handler'[e], market', staked', trades')
  <2>1. h.pc = "claim" /\ next.pc = "updateClaim" /\ UNCHANGED <<market, staked, trades>>
    BY <1>1, <1>2, <1>3, <1>22 DEF LoadClaim, Continue
  <2> QED BY <1>7, <2>1 DEF BeforeTrade, AfterTrade
<1>23. CASE UpdateClaim(e)
  <2>1. h.pc = "updateClaim" /\ next.pc = "claim" /\ UNCHANGED <<market, staked, trades>>
    BY <1>1, <1>2, <1>3, <1>23 DEF UpdateClaim, Continue
  <2> QED BY <1>7, <2>1 DEF BeforeTrade, AfterTrade
<1>24. CASE EndClaim(e)
  <2>1. h.pc = "claim" /\ next.pc = "done" /\ UNCHANGED <<market, staked, trades>>
    BY <1>1, <1>2, <1>3, <1>24 DEF EndClaim, Done, Continue
  <2> QED BY <1>7, <2>1 DEF BeforeTrade, AfterTrade
<1> QED BY <1>9, <1>10, <1>11, <1>12, <1>13, <1>14, <1>15, <1>16, <1>17, <1>18, <1>19, <1>20, <1>21,
           <1>22, <1>23, <1>24, <1>25, Zenon DEF Handle

\* The market becomes resolved only when the handler of a resolution ends, and
\* stays resolved: handlers one after the other do not undo it, nor do admins.
StatusMoves(e) ==
    \/ /\ market'.status = "RESOLVED" <=> market.status = "RESOLVED"
       /\ market'.winningOutcomeIndex = market.winningOutcomeIndex
       /\ handler'[e].pc = "done" => handler[e].event.name # "MarketResolved"
    \/ /\ handler'[e].pc = "done" /\ handler[e].event.name = "MarketResolved"
       /\ market'.status = "RESOLVED" /\ market'.winningOutcomeIndex = handler[e].event.outcome

LEMMA StatusKept ==
  ASSUME Inv1, NEW e \in Events, Handle(e), Agrees(handler[e], market, staked, trades)
  PROVE  StatusMoves(e)
<1> USE DEF StatusMoves
<1>1. PICK h \in Handler, tr \in Trade \union {NoRow} :
        h = handler[e] /\ tr = trades[e] /\ Fits(h, positions, tr)
  BY HandlerAt
<1>2. handler \in [Events -> Handler]
  BY DEF Inv1, TypeOK
<1>3. CASE UpdateMarket(e)
  <2>1. /\ market'.status = h.copy.market.status
        /\ market'.winningOutcomeIndex = h.copy.market.winningOutcomeIndex
    BY <1>1, <1>3, UpdateMarketAgrees
  <2>2. h.pc = "updateMarket" /\ CopyAgrees(h, market, staked)
    BY <1>1, <1>3 DEF UpdateMarket, Agrees
  <2>3. CASE h.event.name = "BetPlaced"
    BY <1>1, <2>1, <2>2, <2>3 DEF CopyAgrees, BetAt
  <2>5. CASE h.event.name = "AdminRequest"
    BY <1>1, <2>1, <2>2, <2>5 DEF CopyAgrees
  <2>4. CASE h.event.name \notin {"BetPlaced", "AdminRequest"}
    <3>1. h.event.name = "MarketResolved"
      BY <1>1, <2>2, <2>4 DEF Fits
    <3>2. handler'[e].pc = "done"
      BY <1>1, <1>2, <1>3, <2>4 DEF UpdateMarket, Done, Continue
    <3> QED BY <1>1, <2>1, <2>2, <2>4, <3>1, <3>2 DEF CopyAgrees
  <2> QED BY <2>3, <2>4, <2>5
<1>4. CASE UpdateOutcome(e)
  <2>1. h.event.name = "BetPlaced"
    BY <1>1, <1>4 DEF UpdateOutcome, Fits
  <2>2. market' = market
    BY <1>4 DEF UpdateOutcome
  <2> QED BY <1>1, <2>1, <2>2
<1>5. CASE EndClaim(e)
  <2>1. h.event.name = "WinningsClaimed"
    BY <1>1, <1>5 DEF EndClaim, Fits, Claiming
  <2>2. market' = market
    BY <1>5 DEF EndClaim
  <2> QED BY <1>1, <2>1, <2>2
<1>6. CASE handleBetPlaced(e)
  BY <1>6 DEF handleBetPlaced
<1>7. CASE handleWinningsClaimed(e)
  BY <1>7 DEF handleWinningsClaimed
<1>8. ASSUME market' = market, handler'[e].pc # "done"
      PROVE  StatusMoves(e)
  BY <1>8
<1>9. CASE FindPosition(e)
  BY <1>2, <1>8, <1>9 DEF FindPosition, Continue
<1>10. CASE InsertPosition(e)
  <2>1. h.pc = "insertPosition" /\ market' = market
    BY <1>1, <1>10 DEF InsertPosition
  <2>0. PICK next : next = handler'[e]
    OBVIOUS
  <2>2. next = [h EXCEPT !.pc = "insertTrade"] \/ next = [pc |-> "failed", event |-> h.event]
    BY <1>1, <1>2, <1>10, <2>0 DEF InsertPosition, Continue
  <2>3. h \in [pc : {"insertPosition", "loadPosition", "insertTrade"}, event : Event,
               copy : Read, position : Position]
    BY <2>1 DEF Handler
  <2>4. CASE next = [h EXCEPT !.pc = "insertTrade"]
    <3>1. next.pc = "insertTrade"
      BY <2>3, <2>4
    <3> QED BY <1>8, <2>0, <2>1, <3>1
  <2>5. CASE next = [pc |-> "failed", event |-> h.event]
    BY <1>8, <2>0, <2>1, <2>5
  <2> QED BY <2>2, <2>4, <2>5
<1>11. CASE LoadPosition(e)
  BY <1>2, <1>8, <1>11 DEF LoadPosition, Continue
<1>12. CASE UpdatePosition(e)
  BY <1>2, <1>8, <1>12 DEF UpdatePosition, Continue
<1>13. CASE InsertTrade(e)
  BY <1>2, <1>8, <1>13 DEF InsertTrade, Continue
<1>14. CASE handleMarketResolved(e)
  BY <1>2, <1>8, <1>14 DEF handleMarketResolved, Continue
<1>15. CASE LoadMarket(e)
  BY <1>2, <1>8, <1>15 DEF LoadMarket, Continue
<1>20. CASE adminRequest(e)
  BY <1>1, <1>20 DEF adminRequest
<1>16. CASE LoadOutcome(e)
  BY <1>2, <1>8, <1>16 DEF LoadOutcome, Continue
<1>17. CASE FindPositions(e)
  BY <1>2, <1>8, <1>17 DEF FindPositions, Continue
<1>18. ASSUME NEW o \in Outcomes, LoadClaim(e, o) PROVE StatusMoves(e)
  BY <1>2, <1>8, <1>18 DEF LoadClaim, Continue
<1>19. CASE UpdateClaim(e)
  BY <1>2, <1>8, <1>19 DEF UpdateClaim, Continue
<1> HIDE DEF StatusMoves
<1> QED BY <1>3, <1>4, <1>5, <1>6, <1>7, <1>8, <1>9, <1>10, <1>11, <1>12, <1>13, <1>14, <1>15, <1>16, <1>17,
           <1>18, <1>19, <1>20, Zenon DEF Handle

Idle == \A i \in Events : ~Runs(i)

AtRest == [pc |-> "waiting"]

Settled ==
    Apart(Events, handler, overlaps) =>
      /\ Idle => Agrees(AtRest, market, staked, trades)
      /\ \A e \in Events : Runs(e) => Agrees(handler[e], market, staked, trades)

Resolved ==
    Apart(Events, handler, overlaps) =>
      /\ market.status = "RESOLVED" =>
           \E r \in Named("MarketResolved") :
              handler[r].pc = "done" /\ market.winningOutcomeIndex = handler[r].event.outcome
      /\ \A r \in Named("MarketResolved") : handler[r].pc = "done" => market.status = "RESOLVED"

LEMMA SettledKept ==
  Inv1 /\ EmissionOK /\ Settled /\ Resolved /\ [Next]_vars => Settled' /\ Resolved'
<1> SUFFICES ASSUME Inv1, EmissionOK, Settled, Resolved, [Next]_vars PROVE Settled' /\ Resolved'
  OBVIOUS
<1>1. CASE UNCHANGED vars
  <2>1. PICK h, m, s, t, p : h = handler /\ m = market /\ s = staked /\ t = trades /\ p = overlaps
    OBVIOUS
  <2>2. h = handler' /\ m = market' /\ s = staked' /\ t = trades' /\ p = overlaps'
    BY <1>1, <2>1 DEF vars
  <2>3. Settled'
    BY <2>1, <2>2 DEF Settled, Idle, Runs
  <2>4. Resolved'
    BY <2>1, <2>2 DEF Resolved, Named, Emitted
  <2> QED BY <2>3, <2>4
<1>2. ASSUME NEW e \in Events, NEW event \in Event, Emit(e, event) PROVE Settled' /\ Resolved'
  <2> SUFFICES ASSUME Apart(Events, handler', overlaps')
               PROVE  Settled' /\ Resolved'
    BY DEF Settled, Resolved
  <2>1. Apart(Events, handler, overlaps) /\ Idle
    BY <1>2, NoneRunsYet DEF Idle
  <2>2. PICK m, s, t : m = market /\ s = staked /\ t = trades
    OBVIOUS
  <2>3. market' = m /\ staked' = s /\ trades' = t
    BY <1>2, <2>2 DEF Emit
  <2>4. /\ handler'[e] = [pc |-> "find", event |-> event]
        /\ \A i \in Events : i # e => handler'[i] = handler[i]
    BY <1>2, EmitAdds
  <2>5. Agrees(AtRest, m, s, t)
    BY <2>1, <2>2 DEF Settled
  <2>6. Agrees(handler'[e], m, s, t)
    BY <2>4, <2>5, AgreesAtRest DEF AtRest, BeforeTrade, AfterTrade
  <2>7. ASSUME NEW i \in Events, Runs(i)' PROVE Agrees(handler'[i], m, s, t)
    <3>1. i = e
      BY <2>1, <2>4, <2>7 DEF Idle, Runs
    <3> QED BY <2>6, <3>1
  <2>8. Settled'
    BY <2>3, <2>5, <2>7 DEF Settled
  <2>9. e \notin Emitted /\ Named("MarketResolved")' =
           IF event.name = "MarketResolved" THEN Named("MarketResolved") \union {e} ELSE Named("MarketResolved")
    BY <1>2, EmitAdds
  <2>10. e \notin Named("MarketResolved") /\ Named("MarketResolved") \subseteq Events
    BY <2>9 DEF Named, Emitted
  <2>11. /\ \A r \in Named("MarketResolved") : handler'[r] = handler[r] /\ r \in Named("MarketResolved")'
         /\ \A r \in Named("MarketResolved")' : handler'[r].pc = "done" => r \in Named("MarketResolved")
    <3>1. handler'[e].pc # "done"
      BY <2>4
    <3> QED BY <2>4, <2>9, <2>10, <3>1
  <2>12. /\ m.status = "RESOLVED" =>
              \E r \in Named("MarketResolved")' :
                 handler'[r].pc = "done" /\ m.winningOutcomeIndex = handler'[r].event.outcome
         /\ \A r \in Named("MarketResolved")' : handler'[r].pc = "done" => m.status = "RESOLVED"
    BY <2>1, <2>2, <2>11 DEF Resolved
  <2>13. Resolved'
    BY <2>3, <2>12 DEF Resolved
  <2> QED BY <2>8, <2>13
<1>3. ASSUME NEW e \in Events, Handle(e) \/ Fail(e) PROVE Settled' /\ Resolved'
  <2> SUFFICES ASSUME Apart(Events, handler', overlaps')
               PROVE  Settled' /\ Resolved'
    BY DEF Settled, Resolved
  <2>1. /\ Apart(Events, handler, overlaps)
        /\ Handle(e) /\ \A i \in Events : i # e => ~Runs(i)
    BY <1>3, OnlyOneRuns
  <2>2. /\ Runs(e) /\ handler'[e].event = handler[e].event
        /\ \A i \in Events : i # e => handler'[i] = handler[i]
    BY <1>3, HandlerMoves DEF Moves
  <2>3. Agrees(handler[e], market, staked, trades)
    BY <2>1, <2>2 DEF Settled
  <2>4. Agrees(handler'[e], market', staked', trades')
    BY <2>1, <2>3, AgreesKept
  <2>5. PICK h, m, s, t : h = handler' /\ m = market' /\ s = staked' /\ t = trades'
    OBVIOUS
  <2>6. Agrees(h[e], m, s, t)
    BY <2>4, <2>5
  <2>7. Idle' => Agrees(AtRest, m, s, t)
    <3>1. SUFFICES ASSUME Idle' PROVE Agrees(AtRest, m, s, t)
      OBVIOUS
    <3>2. h[e].pc \in Ended
      BY <2>5, <3>1 DEF Idle, Runs
    <3> QED BY <2>6, <3>2, AgreesAtRest DEF AtRest, Ended, BeforeTrade, AfterTrade
  <2>8. ASSUME NEW i \in Events, Runs(i)' PROVE Agrees(h[i], m, s, t)
    <3>1. i = e
      BY <2>1, <2>2, <2>8 DEF Runs
    <3> QED BY <2>6, <3>1
  <2>9. Settled'
    BY <2>5, <2>7, <2>8 DEF Settled
  <2>10. Named("MarketResolved")' = Named("MarketResolved") /\ Named("MarketResolved") \subseteq Events
    BY <1>3, SameEvents DEF Named, Emitted
  <2>11. PICK R : R = Named("MarketResolved")
    OBVIOUS
  <2>12. /\ R = Named("MarketResolved")' /\ R \subseteq Events
         /\ \A r \in R : h[r].event = handler[r].event
         /\ \A r \in R : r # e => h[r] = handler[r]
         /\ handler[e].event.name = "MarketResolved" <=> e \in R
    <3>1. R = Named("MarketResolved")' /\ R \subseteq Events
      BY <2>10, <2>11
    <3>2. handler[e].event.name = "MarketResolved" <=> e \in R
      BY <2>2, <2>11 DEF Named, Emitted, Runs, Ended
    <3> QED BY <2>2, <2>5, <3>1, <3>2
  <2>13. /\ market.status = "RESOLVED" =>
              \E r \in R : handler[r].pc = "done" /\ market.winningOutcomeIndex = handler[r].event.outcome
         /\ \A r \in R : handler[r].pc = "done" => market.status = "RESOLVED"
    BY <2>1, <2>11 DEF Resolved
  <2>14. StatusMoves(e)
    BY <2>1, <2>3, StatusKept
  <2>15. handler[e].pc # "done"
    BY <2>2 DEF Runs, Ended
  <2>16. /\ m.status = "RESOLVED" =>
              \E r \in R : h[r].pc = "done" /\ m.winningOutcomeIndex = h[r].event.outcome
         /\ \A r \in R : h[r].pc = "done" => m.status = "RESOLVED"
    <3>1. CASE /\ m.status = "RESOLVED" <=> market.status = "RESOLVED"
               /\ m.winningOutcomeIndex = market.winningOutcomeIndex
               /\ h[e].pc = "done" => handler[e].event.name # "MarketResolved"
      <4>1. \A r \in R : h[r].pc = "done" <=> handler[r].pc = "done"
        BY <2>12, <2>15, <3>1
      <4> QED BY <2>12, <2>13, <3>1, <4>1
    <3>2. CASE /\ h[e].pc = "done" /\ handler[e].event.name = "MarketResolved"
               /\ m.status = "RESOLVED" /\ m.winningOutcomeIndex = handler[e].event.outcome
      <4>1. e \in R /\ h[e].event = handler[e].event
        BY <2>12, <3>2
      <4> QED BY <3>2, <4>1
    <3> QED BY <2>5, <2>14, <3>1, <3>2 DEF StatusMoves
  <2>17. Resolved'
    BY <2>5, <2>12, <2>16 DEF Resolved
  <2> QED BY <2>9, <2>17
<1> QED BY <1>1, <1>2, <1>3 DEF Next

LEMMA SettledStarts == Init => Settled /\ Resolved
<1> SUFFICES ASSUME Init PROVE Settled /\ Resolved
  OBVIOUS
<1>1. Rec(trades) = {} /\ \A o \in Outcomes : On(trades, o) = {}
  BY DEF Init, Rec, On
<1>2. VolumeOf(trades, {}) = 0 /\ Cardinality({}) = 0
  BY NoVolume, FS_EmptySet
<1>3. market.totalVolume = 0 /\ market.tradeCount = 0 /\ market.status = "ACTIVE" /\ \A o \in Outcomes : staked[o] = 0
  BY DEF Init
<1>4. \A e \in Events : ~Runs(e) /\ e \notin Emitted
  BY DEF Init, Runs, Ended, Emitted
<1>5. TotalsAgree(AtRest, market, trades)
  BY <1>1, <1>2, <1>3 DEF TotalsAgree, BetAt, AtRest
<1>6. ASSUME NEW o \in Outcomes PROVE StakeAgrees(AtRest, staked, trades, o)
  BY <1>1, <1>2, <1>3 DEF StakeAgrees, BetAt, AtRest, AfterTrade
<1>7. CopyAgrees(AtRest, market, staked)
  BY DEF CopyAgrees, BetAt, AtRest, BeforeTrade, AfterTrade
<1>8. Settled
  BY <1>4, <1>5, <1>6, <1>7 DEF Settled, Agrees
<1>9. Named("MarketResolved") = {}
  BY <1>4 DEF Named, Emitted
<1> QED BY <1>3, <1>8, <1>9 DEF Resolved

-----------------------------------------------------------------------------
(* A position when the handlers that change it run apart.                    *)

Costs(row) == IF row = NoRow THEN 0 ELSE row.costBasis

\* The position is that of its trades, but for the bet whose trade is next.
BetsAgree(h, u, o, row, t) ==
    /\ h.pc = "insertTrade" => row # NoRow /\ row.costBasis = VolumeOf(t, Of(t, u, o)) + h.event.amount
    /\ h.pc # "insertTrade" => Costs(row) = VolumeOf(t, Of(t, u, o)) /\ (row = NoRow <=> Of(t, u, o) = {})

\* What the handler holds is the row, and its own change.
HoldsRow(h, o, row) ==
    /\ h.pc = "insertPosition" =>
         row = NoRow /\ h.position.costBasis = h.event.amount /\ h.position.claimed = FALSE
    /\ h.pc \in {"loadPosition", "updatePosition"} =>
         /\ row # NoRow
         /\ h.position.costBasis = row.costBasis + h.event.amount /\ h.position.claimed = row.claimed
    /\ h.pc = "updatePosition" => h.seen = row
    /\ h.pc \in {"claim", "updateClaim"} /\ h.rows[o] # NoRow =>
         /\ row # NoRow /\ row.claimed = FALSE
         /\ h.rows[o].costBasis = row.costBasis /\ h.rows[o].claimed = TRUE
    /\ h.pc = "updateClaim" /\ h.outcome = o => h.seen = row

RowAgrees(h, u, o, row, t) == BetsAgree(h, u, o, row, t) /\ HoldsRow(h, o, row)

\* The handler of a claim has marked the position, or found nothing to mark.
IsMarked(h, o) ==
    /\ h.event.name = "WinningsClaimed"
    /\ h.pc = "done" \/ (h.pc \in {"claim", "updateClaim"} /\ h.rows[o] = NoRow)

\* A step marks no position but one whose claim it has then handled.
MarkMoves(h, next, o, row, new) ==
    \/ new = NoRow
    \/ row # NoRow /\ new.claimed = row.claimed /\ (IsMarked(next, o) <=> IsMarked(h, o))
    \/ new.claimed = TRUE /\ IsMarked(next, o)
    \/ new.claimed = FALSE /\ h.event.name = "BetPlaced"

Touches(h, u, o) ==
    /\ h.event.user = u
    /\ \/ h.event.name = "BetPlaced" /\ h.event.outcome = o
       \/ h.event.name = "WinningsClaimed"

RowMoves(e, u, o) ==
    /\ RowAgrees(handler'[e], u, o, positions'[u][o], trades')
    /\ MarkMoves(handler[e], handler'[e], o, positions[u][o], positions'[u][o])

LEMMA AtRow ==
  ASSUME Inv1, NEW e \in Events, NEW u \in Users, NEW o \in Outcomes, Runs(e), Touches(handler[e], u, o)
  PROVE  \E h \in Handler, row \in Position \union {NoRow}, t \in [Events -> Trade \union {NoRow}] :
            /\ h = handler[e] /\ row = positions[u][o] /\ t = trades /\ Fits(h, positions, t[e])
            /\ h.event \in Event /\ Touches(h, u, o) /\ h.event.amount \in Nat
<1>1. PICK h \in Handler, tr \in Trade \union {NoRow} :
        h = handler[e] /\ tr = trades[e] /\ Fits(h, positions, tr)
  BY HandlerAt
<1>2. h.event \in Event
  BY <1>1, HandlerTypes DEF Runs, Ended
<1>3. h.event.amount \in Nat
  BY <1>1, <1>2, EventTypes DEF Touches
<1>4. positions[u][o] \in Position \union {NoRow} /\ trades \in [Events -> Trade \union {NoRow}]
  BY DEF Inv1, TypeOK
<1> QED BY <1>1, <1>2, <1>3, <1>4

\* Steps that change neither position nor trades.
LEMMA RowRead ==
  ASSUME NEW e \in Events, NEW u \in Users, NEW o \in Outcomes, NEW h, NEW row, NEW next, NEW t,
         h = handler[e], row = positions[u][o], t = trades, next = handler'[e],
         RowAgrees(h, u, o, row, t), UNCHANGED <<positions, trades>>,
         h.pc # "insertTrade", next.pc # "insertTrade", HoldsRow(next, o, row),
         MarkMoves(h, next, o, row, row)
  PROVE  RowMoves(e, u, o)
<1>1. BetsAgree(next, u, o, row, t)
  BY DEF RowAgrees, BetsAgree
<1>2. positions'[u][o] = row /\ trades' = t
  OBVIOUS
<1> QED BY <1>1, <1>2 DEF RowMoves, RowAgrees

LEMMA FindPositionMoves ==
  ASSUME Inv1, NEW e \in Events, NEW u \in Users, NEW o \in Outcomes, Runs(e), Touches(handler[e], u, o),
         RowAgrees(handler[e], u, o, positions[u][o], trades), FindPosition(e)
  PROVE  RowMoves(e, u, o)
<1>1. PICK h \in Handler, row \in Position \union {NoRow}, t \in [Events -> Trade \union {NoRow}] :
        /\ h = handler[e] /\ row = positions[u][o] /\ t = trades /\ Fits(h, positions, t[e])
        /\ h.event \in Event /\ Touches(h, u, o) /\ h.event.amount \in Nat
  BY AtRow
<1>2. h.pc = "findPosition"
  BY <1>1 DEF FindPosition
<1>3. h.event.name = "BetPlaced" /\ h.event.user = u /\ h.event.outcome = o
  BY <1>1, <1>2 DEF Fits, BeforeTrade, Touches
<1>4. UNCHANGED <<positions, trades>>
  BY DEF FindPosition
<1>5. PICK next : next = handler'[e]
  OBVIOUS
<1>6. ~IsMarked(h, o)
  BY <1>3 DEF IsMarked
<1>7. CASE row = NoRow
  <2>1. next = [pc |-> "insertPosition", event |-> h.event, copy |-> h.copy,
                position |-> [costBasis |-> h.event.amount, claimed |-> FALSE, claimedAmount |-> 0]]
    BY <1>1, <1>3, <1>5, <1>7 DEF FindPosition, Continue, Inv1, TypeOK
  <2>2. HoldsRow(next, o, row)
    BY <1>7, <2>1 DEF HoldsRow
  <2>3. MarkMoves(h, next, o, row, row)
    BY <1>7 DEF MarkMoves
  <2>4. h.pc # "insertTrade" /\ next.pc # "insertTrade"
    BY <1>2, <2>1
  <2> QED BY <1>1, <1>4, <1>5, <2>2, <2>3, <2>4, RowRead
<1>8. CASE row # NoRow
  <2>1. PICK c \in Nat : c = row.costBasis + h.event.amount
    <3>1. row.costBasis \in Nat
      BY <1>8, PositionColumns
    <3> QED BY <1>1, <3>1
  <2>2. PICK p : p = [row EXCEPT !.costBasis = c]
    OBVIOUS
  <2>3. p = WithBet(row, h.event.amount)
    BY <2>1, <2>2 DEF WithBet
  <2>4. p.costBasis = c /\ p.claimed = row.claimed
    BY <1>8, <2>2 DEF Position
  <2>5. next = [pc |-> "loadPosition", event |-> h.event, copy |-> h.copy, position |-> p]
    BY <1>1, <1>3, <1>5, <1>8, <2>3 DEF FindPosition, Continue, Inv1, TypeOK
  <2>6. HoldsRow(next, o, row)
    BY <1>8, <2>1, <2>4, <2>5 DEF HoldsRow
  <2>7. ~IsMarked(next, o)
    BY <2>5 DEF IsMarked
  <2>8. MarkMoves(h, next, o, row, row)
    BY <1>6, <1>8, <2>7 DEF MarkMoves
  <2>9. h.pc # "insertTrade" /\ next.pc # "insertTrade"
    BY <1>2, <2>5
  <2> QED BY <1>1, <1>4, <1>5, <2>6, <2>8, <2>9, RowRead
<1> QED BY <1>7, <1>8

LEMMA InsertPositionMoves ==
  ASSUME Inv1, NEW e \in Events, NEW u \in Users, NEW o \in Outcomes, Runs(e), Touches(handler[e], u, o),
         RowAgrees(handler[e], u, o, positions[u][o], trades), InsertPosition(e)
  PROVE  RowMoves(e, u, o)
<1>1. PICK h \in Handler, row \in Position \union {NoRow}, t \in [Events -> Trade \union {NoRow}] :
        /\ h = handler[e] /\ row = positions[u][o] /\ t = trades /\ Fits(h, positions, t[e])
        /\ h.event \in Event /\ Touches(h, u, o) /\ h.event.amount \in Nat
  BY AtRow
<1>2. h.pc = "insertPosition" /\ h.position \in Position
  BY <1>1, HandlerTypes DEF InsertPosition
<1>3. h.event.name = "BetPlaced" /\ h.event.user = u /\ h.event.outcome = o
  BY <1>1, <1>2 DEF Fits, BeforeTrade, Touches
<1>4. /\ row = NoRow /\ h.position.costBasis = h.event.amount /\ h.position.claimed = FALSE
      /\ Costs(row) = VolumeOf(t, Of(t, u, o))
  BY <1>1, <1>2 DEF RowAgrees, HoldsRow, BetsAgree
<1>5. SetPosition(u, o, h.position) /\ trades' = t
  BY <1>1, <1>3, <1>4 DEF InsertPosition
<1>6. positions'[u][o] = h.position
  BY <1>2, <1>5, PositionSet
<1>7. PICK next : next = handler'[e]
  OBVIOUS
<1>8. next = [h EXCEPT !.pc = "insertTrade"]
  BY <1>1, <1>3, <1>4, <1>7 DEF InsertPosition, Continue, Inv1, TypeOK
<1>9. next.pc = "insertTrade" /\ next.event = h.event
  <2>1. h \in [pc : {"insertPosition", "loadPosition", "insertTrade"}, event : Event,
               copy : Read, position : Position]
    BY <1>2 DEF Handler
  <2> QED BY <1>8, <2>1
<1>10. h.position # NoRow
  BY <1>2, MarketEventsAssumption
<1>11. BetsAgree(next, u, o, h.position, t)
  <2>1. h.position.costBasis = VolumeOf(t, Of(t, u, o)) + h.event.amount
    BY <1>1, <1>4 DEF Costs
  <2> QED BY <1>9, <1>10, <2>1 DEF BetsAgree
<1>12. HoldsRow(next, o, h.position)
  BY <1>9 DEF HoldsRow
<1>13. MarkMoves(h, next, o, row, h.position)
  BY <1>3, <1>4 DEF MarkMoves
<1> QED BY <1>1, <1>5, <1>6, <1>7, <1>11, <1>12, <1>13 DEF RowMoves, RowAgrees

LEMMA UpdatePositionMoves ==
  ASSUME Inv1, NEW e \in Events, NEW u \in Users, NEW o \in Outcomes, Runs(e), Touches(handler[e], u, o),
         RowAgrees(handler[e], u, o, positions[u][o], trades), UpdatePosition(e)
  PROVE  RowMoves(e, u, o)
<1>1. PICK h \in Handler, row \in Position \union {NoRow}, t \in [Events -> Trade \union {NoRow}] :
        /\ h = handler[e] /\ row = positions[u][o] /\ t = trades /\ Fits(h, positions, t[e])
        /\ h.event \in Event /\ Touches(h, u, o) /\ h.event.amount \in Nat
  BY AtRow
<1>2. h.pc = "updatePosition" /\ h.position \in Position
  BY <1>1, HandlerTypes DEF UpdatePosition
<1>3. h.event.name = "BetPlaced" /\ h.event.user = u /\ h.event.outcome = o
  BY <1>1, <1>2 DEF Fits, BeforeTrade, Touches
<1>4. /\ row # NoRow /\ h.position.costBasis = row.costBasis + h.event.amount
      /\ h.position.claimed = row.claimed /\ h.seen = row
      /\ Costs(row) = VolumeOf(t, Of(t, u, o))
  BY <1>1, <1>2 DEF RowAgrees, HoldsRow, BetsAgree
<1>5. SetPosition(u, o, Updated(row, row, h.position)) /\ trades' = t
  BY <1>1, <1>3, <1>4 DEF UpdatePosition
<1>6. SetPosition(u, o, h.position)
  <2>1. row \in Position
    BY <1>4
  <2>2. Updated(row, row, h.position) = h.position
    BY <1>2, <2>1, PositionSaved
  <2> QED BY <1>5, <2>2
<1>7. positions'[u][o] = h.position
  BY <1>2, <1>6, PositionSet
<1>8. PICK next : next = handler'[e]
  OBVIOUS
<1>9. next.pc = "insertTrade" /\ next.event = h.event
  BY <1>1, <1>8 DEF UpdatePosition, Continue, Inv1, TypeOK
<1>10. h.position # NoRow
  BY <1>2, MarketEventsAssumption
<1>11. BetsAgree(next, u, o, h.position, t)
  <2>1. h.position.costBasis = VolumeOf(t, Of(t, u, o)) + h.event.amount
    BY <1>4 DEF Costs
  <2> QED BY <1>9, <1>10, <2>1 DEF BetsAgree
<1>12. HoldsRow(next, o, h.position)
  BY <1>9 DEF HoldsRow
<1>13. MarkMoves(h, next, o, row, h.position)
  <2>1. ~IsMarked(h, o) /\ ~IsMarked(next, o)
    BY <1>3, <1>9 DEF IsMarked
  <2> QED BY <1>4, <2>1 DEF MarkMoves
<1> QED BY <1>1, <1>5, <1>7, <1>8, <1>11, <1>12, <1>13 DEF RowMoves, RowAgrees

LEMMA InsertTradeMoves ==
  ASSUME Inv1, NEW e \in Events, NEW u \in Users, NEW o \in Outcomes, Runs(e), Touches(handler[e], u, o),
         RowAgrees(handler[e], u, o, positions[u][o], trades), InsertTrade(e)
  PROVE  RowMoves(e, u, o)
<1>1. PICK h \in Handler, row \in Position \union {NoRow}, t \in [Events -> Trade \union {NoRow}] :
        /\ h = handler[e] /\ row = positions[u][o] /\ t = trades /\ Fits(h, positions, t[e])
        /\ h.event \in Event /\ Touches(h, u, o) /\ h.event.amount \in Nat
  BY AtRow
<1>2. h.pc = "insertTrade"
  BY <1>1 DEF InsertTrade
<1>3. /\ h.event.name = "BetPlaced" /\ h.event.user = u /\ h.event.outcome = o
      /\ IsKnown(h.event) /\ t[e] = NoRow
  BY <1>1, <1>2 DEF Fits, BeforeTrade, AfterTrade, Touches
<1>4. row # NoRow /\ row.costBasis = VolumeOf(t, Of(t, u, o)) + h.event.amount
  BY <1>1, <1>2 DEF RowAgrees, BetsAgree
<1>5. PICK trade : trade = [user |-> h.event.user, outcome |-> h.event.outcome, amount |-> h.event.amount]
  OBVIOUS
<1>6. trade \in Trade /\ trade.amount = h.event.amount /\ trade.outcome = o /\ trade.user = u
  <2>1. h.event.amount \in Amounts
    BY <1>1, <1>3, EventTypes
  <2> QED BY <1>3, <1>5, <2>1 DEF Trade, IsKnown
<1>7. PICK q : q = [t EXCEPT ![e] = trade]
  OBVIOUS
<1>8. trades' = q /\ positions'[u][o] = row
  BY <1>1, <1>5, <1>7 DEF InsertTrade
<1>9. OneMore(t, e, trade, q)
  BY <1>3, <1>6, <1>7 DEF OneMore
<1>10. /\ Of(q, u, o) = Of(t, u, o) \union {e}
       /\ VolumeOf(q, Of(q, u, o)) = VolumeOf(t, Of(t, u, o)) + trade.amount
  BY <1>6, <1>9, TradeOf
<1>11. PICK next : next = handler'[e]
  OBVIOUS
<1>12. next.pc = "loadMarket" /\ next.event = h.event
  BY <1>1, <1>11 DEF InsertTrade, Continue, Inv1, TypeOK
<1>13. BetsAgree(next, u, o, row, q)
  BY <1>4, <1>6, <1>10, <1>12 DEF BetsAgree, Costs
<1>14. HoldsRow(next, o, row)
  BY <1>12 DEF HoldsRow
<1>15. MarkMoves(h, next, o, row, row)
  <2>1. ~IsMarked(h, o) /\ ~IsMarked(next, o)
    BY <1>3, <1>12 DEF IsMarked
  <2> QED BY <1>4, <2>1 DEF MarkMoves
<1> QED BY <1>1, <1>8, <1>11, <1>13, <1>14, <1>15 DEF RowMoves, RowAgrees

LEMMA FindPositionsMoves ==
  ASSUME Inv1, NEW e \in Events, NEW u \in Users, NEW o \in Outcomes, Runs(e), Touches(handler[e], u, o),
         RowAgrees(handler[e], u, o, positions[u][o], trades), FindPositions(e)
  PROVE  RowMoves(e, u, o)
<1>1. PICK h \in Handler, row \in Position \union {NoRow}, t \in [Events -> Trade \union {NoRow}] :
        /\ h = handler[e] /\ row = positions[u][o] /\ t = trades /\ Fits(h, positions, t[e])
        /\ h.event \in Event /\ Touches(h, u, o) /\ h.event.amount \in Nat
  BY AtRow
<1>2. h.pc = "findPositions"
  BY <1>1 DEF FindPositions
<1>3. h.event.name = "WinningsClaimed" /\ h.event.user = u
  BY <1>1, <1>2 DEF Fits, Claiming, Touches
<1>4. PICK found, rows :
        /\ found = positions[u]
        /\ rows = [p \in Outcomes |-> IF IsUnclaimed(found[p]) THEN Paid(found[p], h.event.amount) ELSE NoRow]
  OBVIOUS
<1>5. PICK next : next = handler'[e]
  OBVIOUS
<1>6. next = [pc |-> "claim", event |-> h.event, rows |-> rows] /\ UNCHANGED <<positions, trades>>
  BY <1>1, <1>3, <1>4, <1>5 DEF FindPositions, Continue, Paid, Inv1, TypeOK
<1>7. rows[o] = IF IsUnclaimed(row) THEN Paid(row, h.event.amount) ELSE NoRow
  BY <1>1, <1>4
<1>8. ~IsMarked(h, o)
  BY <1>2 DEF IsMarked
<1>9. CASE IsUnclaimed(row)
  <2>1. row \in Position /\ row.claimed = FALSE
    <3>1. row \in Position
      BY <1>9 DEF IsUnclaimed
    <3>2. row.claimed \in BOOLEAN
      BY <3>1, PositionColumns
    <3> QED BY <1>9, <3>1, <3>2 DEF IsUnclaimed
  <2>2. PICK p : p = Paid(row, h.event.amount)
    OBVIOUS
  <2>3. p.costBasis = row.costBasis /\ p.claimed = TRUE /\ p \in Position
    BY <1>1, <2>1, <2>2 DEF Position, Paid
  <2>4. next.rows[o] = p /\ p # NoRow /\ row # NoRow
    <3>1. p # NoRow /\ row # NoRow
      BY <2>1, <2>3, MarketEventsAssumption
    <3> QED BY <1>6, <1>7, <1>9, <2>2, <3>1
  <2>5. HoldsRow(next, o, row)
    BY <1>6, <2>1, <2>3, <2>4 DEF HoldsRow
  <2>6. ~IsMarked(next, o)
    BY <1>6, <2>4 DEF IsMarked
  <2>7. MarkMoves(h, next, o, row, row)
    BY <1>8, <2>4, <2>6 DEF MarkMoves
  <2>8. h.pc # "insertTrade" /\ next.pc # "insertTrade"
    BY <1>2, <1>6
  <2> QED BY <1>1, <1>5, <1>6, <2>5, <2>7, <2>8, RowRead
<1>10. CASE ~IsUnclaimed(row)
  <2>1. next.rows[o] = NoRow
    BY <1>6, <1>7, <1>10
  <2>2. HoldsRow(next, o, row)
    BY <1>6, <2>1 DEF HoldsRow
  <2>3. IsMarked(next, o)
    BY <1>3, <1>6, <2>1 DEF IsMarked
  <2>4. row = NoRow \/ row.claimed = TRUE
    <3>1. CASE row # NoRow
      <4>1. row.claimed \in BOOLEAN
        BY <3>1, PositionColumns
      <4> QED BY <1>10, <3>1, <4>1 DEF IsUnclaimed
    <3> QED BY <3>1
  <2>5. MarkMoves(h, next, o, row, row)
    BY <2>3, <2>4 DEF MarkMoves
  <2>6. h.pc # "insertTrade" /\ next.pc # "insertTrade"
    BY <1>2, <1>6
  <2> QED BY <1>1, <1>5, <1>6, <2>2, <2>5, <2>6, RowRead
<1> QED BY <1>9, <1>10

LEMMA UpdateClaimMoves ==
  ASSUME Inv1, NEW e \in Events, NEW u \in Users, NEW o \in Outcomes, Runs(e), Touches(handler[e], u, o),
         RowAgrees(handler[e], u, o, positions[u][o], trades), UpdateClaim(e)
  PROVE  RowMoves(e, u, o)
<1>1. PICK h \in Handler, row \in Position \union {NoRow}, t \in [Events -> Trade \union {NoRow}] :
        /\ h = handler[e] /\ row = positions[u][o] /\ t = trades /\ Fits(h, positions, t[e])
        /\ h.event \in Event /\ Touches(h, u, o) /\ h.event.amount \in Nat
  BY AtRow
<1>2. /\ h.pc = "updateClaim" /\ h.rows \in [Outcomes -> Position \union {NoRow}]
      /\ h.outcome \in Outcomes /\ h.seen \in Position
  BY <1>1, HandlerTypes DEF UpdateClaim, Claiming
<1>3. h.event.name = "WinningsClaimed" /\ h.event.user = u /\ h.rows[h.outcome] # NoRow
  BY <1>1, <1>2 DEF Fits, Claiming, Touches
<1>4. PICK rows : rows = [h.rows EXCEPT ![h.outcome] = NoRow]
  OBVIOUS
<1>5. PICK next : next = handler'[e]
  OBVIOUS
<1>6. next = [pc |-> "claim", event |-> h.event, rows |-> rows] /\ trades' = t
  BY <1>1, <1>4, <1>5 DEF UpdateClaim, Continue, Inv1, TypeOK
<1>7. PICK old, new :
        /\ old = positions[u][h.outcome]
        /\ new = Updated(old, h.seen, h.rows[h.outcome])
  OBVIOUS
<1>8. old \in Position /\ h.rows[h.outcome] \in Position
  <2>1. old # NoRow
    BY <1>1, <1>2, <1>3, <1>7 DEF Fits
  <2> QED BY <1>2, <1>3, <1>7, <2>1 DEF Inv1, TypeOK
<1>9. new \in Position
  BY <1>2, <1>7, <1>8, UpdatedPosition
<1>10. positions'[u][o] = IF o = h.outcome THEN new ELSE row
  <2>1. SetPosition(u, h.outcome, new)
    BY <1>1, <1>3, <1>7 DEF UpdateClaim
  <2> QED BY <1>1, <1>2, <1>9, <2>1, PositionSet
<1>11. BetsAgree(next, u, o, row, t)
  BY <1>1, <1>2, <1>6 DEF RowAgrees, BetsAgree
<1>12. CASE o = h.outcome
  <2>1. /\ row # NoRow /\ h.seen = row
        /\ h.rows[o].costBasis = row.costBasis /\ h.rows[o].claimed = TRUE
    BY <1>1, <1>2, <1>3, <1>12 DEF RowAgrees, HoldsRow
  <2>2. new = h.rows[o]
    BY <1>1, <1>7, <1>8, <1>12, <2>1, PositionSaved
  <2>3. next.rows[o] = NoRow
    BY <1>2, <1>4, <1>6, <1>12
  <2>4. new # NoRow
    BY <1>9, MarketEventsAssumption
  <2>5. BetsAgree(next, u, o, new, t)
    BY <1>6, <1>11, <2>1, <2>2, <2>4 DEF BetsAgree, Costs
  <2>6. HoldsRow(next, o, new)
    BY <1>6, <2>3 DEF HoldsRow
  <2>7. MarkMoves(h, next, o, row, new)
    <3>1. IsMarked(next, o)
      BY <1>3, <1>6, <2>3 DEF IsMarked
    <3> QED BY <2>1, <2>2, <3>1 DEF MarkMoves
  <2> QED BY <1>1, <1>5, <1>6, <1>10, <1>12, <2>5, <2>6, <2>7 DEF RowMoves, RowAgrees
<1>13. CASE o # h.outcome
  <2>1. next.rows[o] = h.rows[o]
    BY <1>2, <1>4, <1>6, <1>13
  <2>2. HoldsRow(next, o, row)
    BY <1>1, <1>2, <1>6, <2>1 DEF RowAgrees, HoldsRow
  <2>3. IsMarked(next, o) <=> IsMarked(h, o)
    BY <1>2, <1>6, <2>1 DEF IsMarked
  <2>4. MarkMoves(h, next, o, row, row)
    BY <2>3 DEF MarkMoves
  <2> QED BY <1>1, <1>5, <1>6, <1>10, <1>11, <1>13, <2>2, <2>4 DEF RowMoves, RowAgrees
<1> QED BY <1>12, <1>13

LEMMA RowKept ==
  ASSUME Inv1, NEW e \in Events, NEW u \in Users, NEW o \in Outcomes, Runs(e), Touches(handler[e], u, o),
         RowAgrees(handler[e], u, o, positions[u][o], trades), Handle(e)
  PROVE  RowMoves(e, u, o)
<1>1. PICK h \in Handler, row \in Position \union {NoRow}, t \in [Events -> Trade \union {NoRow}] :
        /\ h = handler[e] /\ row = positions[u][o] /\ t = trades /\ Fits(h, positions, t[e])
        /\ h.event \in Event /\ Touches(h, u, o) /\ h.event.amount \in Nat
  BY AtRow
<1>2. handler \in [Events -> Handler]
  BY DEF Inv1, TypeOK
<1>3. PICK next : next = handler'[e]
  OBVIOUS
<1>4. RowAgrees(h, u, o, row, t) /\ HoldsRow(h, o, row)
  BY <1>1 DEF RowAgrees
<1>5. ASSUME UNCHANGED <<positions, trades>>, h.event.name = "BetPlaced", next.event = h.event,
             h.pc # "insertTrade",
             next.pc \in {"findPosition", "done"} \union AfterTrade
      PROVE  RowMoves(e, u, o)
  <2>1. HoldsRow(next, o, row)
    BY <1>5 DEF HoldsRow, AfterTrade
  <2>2. MarkMoves(h, next, o, row, row)
    BY <1>5 DEF MarkMoves, IsMarked
  <2>3. next.pc # "insertTrade"
    BY <1>5 DEF AfterTrade
  <2> QED BY <1>1, <1>3, <1>4, <1>5, <2>1, <2>2, <2>3, RowRead
<1>6. CASE handleBetPlaced(e)
  <2>1. /\ h.pc = "find" /\ h.event.name = "BetPlaced" /\ UNCHANGED <<positions, trades>>
        /\ next.pc \in {"findPosition", "done"} /\ next.event = h.event
    BY <1>1, <1>2, <1>3, <1>6 DEF handleBetPlaced, Done, Continue
  <2> QED BY <1>5, <2>1
<1>7. CASE FindPosition(e)
  BY <1>7, FindPositionMoves
<1>8. CASE InsertPosition(e)
  BY <1>8, InsertPositionMoves
<1>9. CASE LoadPosition(e)
  <2>1. h.pc = "loadPosition" /\ UNCHANGED <<positions, trades>>
    BY <1>1, <1>9 DEF LoadPosition
  <2>2. h.event.name = "BetPlaced" /\ h.event.user = u /\ h.event.outcome = o
    BY <1>1, <2>1 DEF Fits, BeforeTrade, Touches
  <2>3. /\ next.pc = "updatePosition" /\ next.event = h.event
        /\ next.position = h.position /\ next.seen = row
    BY <1>1, <1>2, <1>3, <1>9, <2>2 DEF LoadPosition, Continue
  <2>4. HoldsRow(next, o, row)
    BY <1>4, <2>1, <2>3 DEF HoldsRow
  <2>5. MarkMoves(h, next, o, row, row)
    BY <2>2, <2>3 DEF MarkMoves, IsMarked
  <2>6. h.pc # "insertTrade" /\ next.pc # "insertTrade"
    BY <2>1, <2>3
  <2> QED BY <1>1, <1>3, <1>4, <2>1, <2>4, <2>5, <2>6, RowRead
<1>10. CASE UpdatePosition(e)
  BY <1>10, UpdatePositionMoves
<1>11. CASE InsertTrade(e)
  BY <1>11, InsertTradeMoves
<1>12. CASE handleMarketResolved(e)
  BY <1>1, <1>12 DEF handleMarketResolved, Touches
<1>23. CASE adminRequest(e)
  BY <1>1, <1>23 DEF adminRequest, Touches
<1>13. h.pc \in {"loadMarket", "updateMarket", "loadOutcome", "updateOutcome"} => h.event.name = "BetPlaced"
  BY <1>1 DEF Fits, Touches
<1>14. CASE LoadMarket(e)
  <2>1. /\ h.pc = "loadMarket" /\ UNCHANGED <<positions, trades>>
        /\ next.pc = "updateMarket" /\ next.event = h.event
    BY <1>1, <1>2, <1>3, <1>14 DEF LoadMarket, Continue
  <2> QED BY <1>5, <1>13, <2>1 DEF AfterTrade
<1>15. CASE UpdateMarket(e)
  <2>1. /\ h.pc = "updateMarket" /\ UNCHANGED <<positions, trades>>
        /\ next.pc \in {"loadOutcome", "done"} /\ next.event = h.event
    BY <1>1, <1>2, <1>3, <1>15 DEF UpdateMarket, Done, Continue
  <2> QED BY <1>5, <1>13, <2>1 DEF AfterTrade
<1>16. CASE LoadOutcome(e)
  <2>1. /\ h.pc = "loadOutcome" /\ UNCHANGED <<positions, trades>>
        /\ next.pc = "updateOutcome" /\ next.event = h.event
    BY <1>1, <1>2, <1>3, <1>16 DEF LoadOutcome, Continue
  <2> QED BY <1>5, <1>13, <2>1 DEF AfterTrade
<1>17. CASE UpdateOutcome(e)
  <2>1. /\ h.pc = "updateOutcome" /\ UNCHANGED <<positions, trades>>
        /\ next.pc = "done" /\ next.event = h.event
    BY <1>1, <1>2, <1>3, <1>17 DEF UpdateOutcome, Done, Continue
  <2> QED BY <1>5, <1>13, <2>1
<1>18. CASE handleWinningsClaimed(e)
  <2>1. /\ h.pc = "find" /\ h.event.name = "WinningsClaimed" /\ UNCHANGED <<positions, trades>>
    BY <1>1, <1>18 DEF handleWinningsClaimed
  <2>2. /\ next.pc = IF u \in Registered THEN "findPositions" ELSE "done"
        /\ next.event = h.event
    BY <1>1, <1>2, <1>3, <1>18 DEF handleWinningsClaimed, Done, Continue, Touches
  <2>3. HoldsRow(next, o, row)
    BY <2>2 DEF HoldsRow
  <2>4. MarkMoves(h, next, o, row, row)
    <3>1. CASE u \in Registered
      BY <2>1, <2>2, <3>1 DEF MarkMoves, IsMarked
    <3>2. CASE u \notin Registered
      <4>1. Of(t, u, o) = {}
        <5>1. \A i \in Rec(t) : t[i] \in Trade
          BY DEF Rec
        <5>2. \A trade \in Trade : trade.user \in Registered
          BY DEF Trade
        <5> QED BY <3>2, <5>1, <5>2 DEF Of, On
      <4>2. row = NoRow
        BY <1>4, <2>1, <4>1 DEF RowAgrees, BetsAgree
      <4> QED BY <4>2 DEF MarkMoves
    <3> QED BY <3>1, <3>2
  <2>5. h.pc # "insertTrade" /\ next.pc # "insertTrade"
    BY <2>1, <2>2
  <2> QED BY <1>1, <1>3, <1>4, <2>1, <2>3, <2>4, <2>5, RowRead
<1>19. CASE FindPositions(e)
  BY <1>19, FindPositionsMoves
<1>20. ASSUME NEW p \in Outcomes, LoadClaim(e, p) PROVE RowMoves(e, u, o)
  <2>1. h.pc = "claim" /\ UNCHANGED <<positions, trades>> /\ h.event.user = u
    BY <1>1, <1>20 DEF LoadClaim, Touches
  <2>2. /\ next.pc = "updateClaim" /\ next.event = h.event /\ next.rows = h.rows
        /\ next.outcome = p /\ next.seen = positions[u][p]
    BY <1>1, <1>2, <1>3, <1>20, <2>1 DEF LoadClaim, Continue
  <2>3. HoldsRow(next, o, row)
    BY <1>1, <1>4, <2>1, <2>2 DEF HoldsRow
  <2>4. MarkMoves(h, next, o, row, row)
    BY <2>1, <2>2 DEF MarkMoves, IsMarked
  <2>5. h.pc # "insertTrade" /\ next.pc # "insertTrade"
    BY <2>1, <2>2
  <2> QED BY <1>1, <1>3, <1>4, <2>1, <2>3, <2>4, <2>5, RowRead
<1>21. CASE UpdateClaim(e)
  BY <1>21, UpdateClaimMoves
<1>22. CASE EndClaim(e)
  <2>1. h.pc = "claim" /\ UNCHANGED <<positions, trades>> /\ h.rows[o] = NoRow
    BY <1>1, <1>22 DEF EndClaim
  <2>2. next.pc = "done" /\ next.event = h.event
    BY <1>1, <1>2, <1>3, <1>22 DEF EndClaim, Done, Continue
  <2>3. HoldsRow(next, o, row)
    BY <2>2 DEF HoldsRow
  <2>4. MarkMoves(h, next, o, row, row)
    BY <2>1, <2>2 DEF MarkMoves, IsMarked
  <2>5. h.pc # "insertTrade" /\ next.pc # "insertTrade"
    BY <2>1, <2>2
  <2> QED BY <1>1, <1>3, <1>4, <2>1, <2>3, <2>4, <2>5, RowRead
<1> QED BY <1>6, <1>7, <1>8, <1>9, <1>10, <1>11, <1>12, <1>14, <1>15, <1>16, <1>17, <1>18, <1>19, <1>20,
           <1>21, <1>22, <1>23, Zenon DEF Handle

\* The handler of an event about another user or outcome changes neither the
\* position nor its trades.
LEMMA RowElsewhere ==
  ASSUME Inv1, NEW e \in Events, NEW u \in Users, NEW o \in Outcomes, Handle(e) \/ Fail(e),
         ~Touches(handler[e], u, o)
  PROVE  /\ positions'[u][o] = positions[u][o]
         /\ Of(trades', u, o) = Of(trades, u, o)
         /\ VolumeOf(trades', Of(trades', u, o)) = VolumeOf(trades, Of(trades, u, o))
<1>1. PICK h \in Handler, tr \in Trade \union {NoRow} :
        h = handler[e] /\ tr = trades[e] /\ Fits(h, positions, tr)
  BY HandlerAt
<1> DEFINE Same == /\ positions'[u][o] = positions[u][o]
                   /\ Of(trades', u, o) = Of(trades, u, o)
                   /\ VolumeOf(trades', Of(trades', u, o)) = VolumeOf(trades, Of(trades, u, o))
<1>2. ASSUME positions'[u][o] = positions[u][o], trades' = trades PROVE Same
  <2>1. PICK t : t = trades
    OBVIOUS
  <2>2. trades' = t
    BY <1>2, <2>1
  <2> QED BY <1>2, <2>1, <2>2
<1> HIDE DEF Same
<1>3. CASE InsertPosition(e)
  <2>1. h.pc = "insertPosition" /\ h.position \in Position /\ h.event \in Event
    BY <1>1, <1>3, HandlerTypes DEF InsertPosition
  <2>2. h.event.name = "BetPlaced"
    BY <1>1, <2>1 DEF Fits, BeforeTrade
  <2>3. h.event.user \in Users /\ h.event.outcome \in Outcomes
    BY <2>1, <2>2, EventTypes
  <2>4. ~(h.event.user = u /\ h.event.outcome = o)
    BY <1>1, <2>2 DEF Touches
  <2>5. trades' = trades /\ (SetPosition(h.event.user, h.event.outcome, h.position) \/ positions' = positions)
    BY <1>1, <1>3 DEF InsertPosition
  <2>6. positions'[u][o] = positions[u][o]
    BY <2>1, <2>3, <2>4, <2>5, PositionSet
  <2> QED BY <1>2, <2>5, <2>6
<1>4. CASE UpdatePosition(e)
  <2>1. h.pc = "updatePosition" /\ h.position \in Position /\ h.seen \in Position /\ h.event \in Event
    BY <1>1, <1>4, HandlerTypes DEF UpdatePosition, BeforeTrade
  <2>2. h.event.name = "BetPlaced" /\ positions[h.event.user][h.event.outcome] # NoRow
    BY <1>1, <2>1 DEF Fits, BeforeTrade
  <2>3. h.event.user \in Users /\ h.event.outcome \in Outcomes
    BY <2>1, <2>2, EventTypes
  <2>4. ~(h.event.user = u /\ h.event.outcome = o)
    BY <1>1, <2>2 DEF Touches
  <2>5. PICK row : row = positions[h.event.user][h.event.outcome]
    OBVIOUS
  <2>6. row \in Position
    BY <2>2, <2>3, <2>5 DEF Inv1, TypeOK
  <2>7. Updated(row, h.seen, h.position) \in Position
    BY <2>1, <2>6, UpdatedPosition
  <2>8. trades' = trades /\ SetPosition(h.event.user, h.event.outcome, Updated(row, h.seen, h.position))
    BY <1>1, <1>4, <2>5 DEF UpdatePosition
  <2>9. positions'[u][o] = positions[u][o]
    BY <2>3, <2>4, <2>7, <2>8, PositionSet
  <2> QED BY <1>2, <2>8, <2>9
<1>5. CASE UpdateClaim(e)
  <2>1. /\ h.pc = "updateClaim" /\ h.rows \in [Outcomes -> Position \union {NoRow}]
        /\ h.outcome \in Outcomes /\ h.seen \in Position /\ h.event \in Event
    BY <1>1, <1>5, HandlerTypes DEF UpdateClaim, Claiming
  <2>2. /\ h.event.name = "WinningsClaimed" /\ h.rows[h.outcome] # NoRow
        /\ positions[h.event.user][h.outcome] # NoRow
    BY <1>1, <2>1 DEF Fits, Claiming
  <2>3. h.event.user \in Users
    BY <2>1, <2>2, EventTypes
  <2>4. h.event.user # u
    BY <1>1, <2>2 DEF Touches
  <2>5. PICK row : row = positions[h.event.user][h.outcome]
    OBVIOUS
  <2>6. row \in Position /\ h.rows[h.outcome] \in Position
    BY <2>1, <2>2, <2>3, <2>5 DEF Inv1, TypeOK
  <2>7. Updated(row, h.seen, h.rows[h.outcome]) \in Position
    BY <2>1, <2>6, UpdatedPosition
  <2>8. trades' = trades /\ SetPosition(h.event.user, h.outcome, Updated(row, h.seen, h.rows[h.outcome]))
    BY <1>1, <1>5, <2>5 DEF UpdateClaim
  <2>9. positions'[u][o] = positions[u][o]
    BY <2>1, <2>3, <2>4, <2>7, <2>8, PositionSet
  <2> QED BY <1>2, <2>8, <2>9
<1>6. CASE InsertTrade(e)
  <2>1. h.pc = "insertTrade" /\ h.event \in Event
    BY <1>1, <1>6, HandlerTypes DEF InsertTrade
  <2>2. h.event.name = "BetPlaced" /\ IsKnown(h.event) /\ tr = NoRow
    BY <1>1, <2>1 DEF Fits, BeforeTrade, AfterTrade
  <2>3. h.event.amount \in Amounts
    BY <2>1, <2>2, EventTypes
  <2>4. ~(h.event.user = u /\ h.event.outcome = o)
    BY <1>1, <2>2 DEF Touches
  <2>5. PICK trade : trade = [user |-> h.event.user, outcome |-> h.event.outcome, amount |-> h.event.amount]
    OBVIOUS
  <2>6. trade \in Trade /\ trade.outcome = h.event.outcome /\ trade.user = h.event.user
    BY <2>2, <2>3, <2>5 DEF Trade, IsKnown
  <2>7. PICK t \in [Events -> Trade \union {NoRow}] : t = trades
    BY DEF Inv1, TypeOK
  <2>8. PICK q : q = [t EXCEPT ![e] = trade]
    OBVIOUS
  <2>9. trades' = q /\ positions' = positions
    BY <1>1, <1>6, <2>5, <2>7, <2>8 DEF InsertTrade
  <2>10. OneMore(t, e, trade, q)
    BY <1>1, <2>2, <2>6, <2>7, <2>8 DEF OneMore
  <2>11. Of(q, u, o) = Of(t, u, o) /\ VolumeOf(q, Of(q, u, o)) = VolumeOf(t, Of(t, u, o))
    BY <2>4, <2>6, <2>10, TradeOf
  <2> QED BY <2>7, <2>9, <2>11 DEF Same
<1>7. ASSUME ~InsertPosition(e), ~UpdatePosition(e), ~UpdateClaim(e), ~InsertTrade(e) PROVE Same
  <2> DEFINE Still == UNCHANGED <<positions, trades>>
  <2>1. Fail(e) \/ handleBetPlaced(e) \/ FindPosition(e) \/ LoadPosition(e) => Still
    BY DEF Fail, handleBetPlaced, FindPosition, LoadPosition
  <2>2. \/ handleMarketResolved(e) \/ adminRequest(e) \/ LoadMarket(e) \/ UpdateMarket(e)
        \/ LoadOutcome(e) \/ UpdateOutcome(e)
        => Still
    BY DEF handleMarketResolved, adminRequest, LoadMarket, UpdateMarket, LoadOutcome, UpdateOutcome
  <2>3. handleWinningsClaimed(e) \/ FindPositions(e) \/ (\E p \in Outcomes : LoadClaim(e, p)) \/ EndClaim(e) => Still
    BY DEF handleWinningsClaimed, FindPositions, LoadClaim, EndClaim
  <2> HIDE DEF Still
  <2>4. Still
    BY <1>7, <2>1, <2>2, <2>3, Zenon DEF Handle
  <2> QED BY <1>2, <2>4 DEF Still
<1> QED BY <1>3, <1>4, <1>5, <1>6, <1>7, Zenon DEF Same

OneMarket(T, hs) == \E m \in Markets : \A e \in T : hs[e].event.market = m

\* A position while the handlers that change it ran one after the other.
RowState(T, hs, u, o, row, t) ==
    /\ (\A i \in T : hs[i].pc \in Ended) => RowAgrees(AtRest, u, o, row, t)
    /\ \A e \in T : hs[e].pc \notin Ended => RowAgrees(hs[e], u, o, row, t)
    /\ row # NoRow /\ row.claimed = TRUE => \E e \in T : IsMarked(hs[e], o)
    /\ row # NoRow /\ OneMarket(T, hs) /\ (\E e \in T : IsMarked(hs[e], o)) => row.claimed = TRUE

RowOK(u, o) ==
    Apart(Touching(u, o), handler, overlaps) =>
      RowState(Touching(u, o), handler, u, o, positions[u][o], trades)

\* Handlers that hold nothing of the position.
LEMMA RowAtRest ==
  ASSUME NEW h, NEW g, NEW u, NEW o, NEW row, NEW t, RowAgrees(h, u, o, row, t),
         h.pc \in Ended \union {"find"}, g.pc \in Ended \union {"find"}
  PROVE  RowAgrees(g, u, o, row, t)
<1>1. BetsAgree(g, u, o, row, t)
  BY DEF RowAgrees, BetsAgree, Ended
<1>2. HoldsRow(g, o, row)
  BY DEF HoldsRow, Ended
<1> QED BY <1>1, <1>2 DEF RowAgrees

LEMMA TouchingIs ==
  ASSUME NEW u, NEW o
  PROVE  Touching(u, o) = {e \in Emitted : Touches(handler[e], u, o)}
  BY DEF Touching, Touches

\* A step of another handler.
LEMMA RowOKElsewhere ==
  ASSUME NEW T, NEW hs, NEW new, NEW u, NEW o, NEW row, NEW t, NEW q,
         RowState(T, hs, u, o, row, t), \A i \in T : new[i] = hs[i],
         Of(q, u, o) = Of(t, u, o), VolumeOf(q, Of(q, u, o)) = VolumeOf(t, Of(t, u, o))
  PROVE  RowState(T, new, u, o, row, q)
<1>1. ASSUME NEW h, RowAgrees(h, u, o, row, t) PROVE RowAgrees(h, u, o, row, q)
  BY <1>1 DEF RowAgrees, BetsAgree
<1>2. (\A i \in T : new[i].pc \in Ended) => RowAgrees(AtRest, u, o, row, q)
  BY <1>1 DEF RowState
<1>3. \A e \in T : new[e].pc \notin Ended => RowAgrees(new[e], u, o, row, q)
  BY <1>1 DEF RowState
<1>4. row # NoRow /\ row.claimed = TRUE => \E e \in T : IsMarked(new[e], o)
  BY DEF RowState
<1>5. row # NoRow /\ OneMarket(T, new) /\ (\E e \in T : IsMarked(new[e], o)) => row.claimed = TRUE
  <2>1. OneMarket(T, new) => OneMarket(T, hs)
    BY DEF OneMarket
  <2> QED BY <2>1 DEF RowState
<1> QED BY <1>2, <1>3, <1>4, <1>5 DEF RowState

\* A step of a handler that touches it.
LEMMA RowOKMoves ==
  ASSUME NEW T, NEW hs, NEW new, NEW u, NEW o, NEW row, NEW present, NEW t, NEW q, NEW e \in T,
         RowState(T, hs, u, o, row, t), \A i \in T : i # e => new[i] = hs[i] /\ hs[i].pc \in Ended,
         RowAgrees(new[e], u, o, present, q), MarkMoves(hs[e], new[e], o, row, present),
         hs[e].pc \notin Ended, new[e].event = hs[e].event,
         OneMarket(T, hs) /\ hs[e].event.name = "BetPlaced" =>
           \A i \in T : hs[i].event.name # "WinningsClaimed"
  PROVE  RowState(T, new, u, o, present, q)
<1>1. (\A i \in T : new[i].pc \in Ended) => RowAgrees(AtRest, u, o, present, q)
  <2>1. AtRest.pc \in Ended \union {"find"}
    BY DEF AtRest, Ended
  <2> QED BY <2>1, RowAtRest
<1>2. \A i \in T : new[i].pc \notin Ended => RowAgrees(new[i], u, o, present, q)
  OBVIOUS
<1>3. ASSUME present # NoRow, present.claimed = TRUE PROVE \E i \in T : IsMarked(new[i], o)
  <2>1. CASE row # NoRow /\ present.claimed = row.claimed /\ (IsMarked(new[e], o) <=> IsMarked(hs[e], o))
    <3>1. \A i \in T : IsMarked(new[i], o) <=> IsMarked(hs[i], o)
      BY <2>1
    <3> QED BY <1>3, <2>1, <3>1 DEF RowState
  <2>2. CASE IsMarked(new[e], o)
    BY <2>2
  <2> QED BY <1>3, <2>1, <2>2 DEF MarkMoves
<1>4. ASSUME present # NoRow, OneMarket(T, new), NEW marked \in T, IsMarked(new[marked], o)
      PROVE  present.claimed = TRUE
  <2>0. OneMarket(T, hs)
    <3>1. \A i \in T : new[i].event = hs[i].event
      OBVIOUS
    <3> QED BY <1>4, <3>1 DEF OneMarket
  <2>1. CASE row # NoRow /\ present.claimed = row.claimed /\ (IsMarked(new[e], o) <=> IsMarked(hs[e], o))
    <3>1. IsMarked(hs[marked], o)
      BY <1>4, <2>1
    <3> QED BY <2>0, <2>1, <3>1 DEF RowState
  <2>2. CASE present.claimed = TRUE
    BY <2>2
  <2>3. CASE hs[e].event.name = "BetPlaced"
    <3>1. \A i \in T : new[i].event.name # "WinningsClaimed"
      BY <2>0, <2>3
    <3> QED BY <1>4, <3>1 DEF IsMarked
  <2> QED BY <1>4, <2>1, <2>2, <2>3 DEF MarkMoves
<1> QED BY <1>1, <1>2, <1>3, <1>4 DEF RowState

LEMMA RowOKKept ==
  ASSUME Inv1, EmissionOK, NEW u \in Users, NEW o \in Outcomes, RowOK(u, o), [Next]_vars
  PROVE  RowOK(u, o)'
<1>0. PICK T : T = Touching(u, o)
  OBVIOUS
<1>1. CASE UNCHANGED vars
  <2>1. PICK h, p, t, ov, em : h = handler /\ p = positions /\ t = trades /\ ov = overlaps /\ em = Emitted
    OBVIOUS
  <2>2. h = handler' /\ p = positions' /\ t = trades' /\ ov = overlaps'
    BY <1>1, <2>1 DEF vars
  <2>3. em = Emitted'
    BY <2>1, <2>2 DEF Emitted
  <2>4. Touching(u, o)' = T
    BY <1>0, <2>1, <2>2, <2>3 DEF Touching
  <2> QED BY <1>0, <2>1, <2>2, <2>4 DEF RowOK
<1>2. ASSUME NEW e \in Events, Handle(e) \/ Fail(e) PROVE RowOK(u, o)'
  <2>1. /\ Runs(e) /\ handler'[e].event = handler[e].event
        /\ \A i \in Events : i # e => handler'[i] = handler[i]
    BY <1>2, HandlerMoves DEF Moves
  <2>2. Emitted' = Emitted /\ Emitted \subseteq Events /\ e \in Emitted
    BY <1>2, <2>1, SameEvents DEF Emitted, Runs, Ended
  <2>3. T = Touching(u, o)' /\ T \subseteq Events
    <3>1. \A i \in Emitted : handler'[i].event = handler[i].event
      BY <2>1, <2>2
    <3> QED BY <1>0, <2>2, <3>1 DEF Touching
  <2>4. PICK hs, row, t : hs = handler /\ row = positions[u][o] /\ t = trades
    OBVIOUS
  <2>5. PICK new, present, q : new = handler' /\ present = positions'[u][o] /\ q = trades'
    OBVIOUS
  <2>6. SUFFICES ASSUME Apart(T, handler', overlaps')
                 PROVE  RowState(T, new, u, o, present, q)
    BY <2>3, <2>5 DEF RowOK
  <2>7. /\ Apart(T, handler, overlaps)
        /\ e \in T => ~Fail(e) /\ \A i \in T : i # e => ~Runs(i)
    BY <1>2, <2>3, <2>6, OnlyOneRuns
  <2>8. RowState(T, hs, u, o, row, t)
    BY <1>0, <2>4, <2>7 DEF RowOK
  <2>9. e \in T <=> Touches(hs[e], u, o)
    BY <1>0, <2>2, <2>4, TouchingIs
  <2>10. CASE e \notin T
    <3>1. ~Touches(handler[e], u, o)
      BY <2>4, <2>9, <2>10
    <3>2. present = row /\ Of(q, u, o) = Of(t, u, o) /\ VolumeOf(q, Of(q, u, o)) = VolumeOf(t, Of(t, u, o))
      BY <1>2, <2>4, <2>5, <3>1, RowElsewhere
    <3>3. \A i \in T : new[i] = hs[i]
      BY <2>1, <2>3, <2>4, <2>5, <2>10
    <3> QED BY <2>8, <3>2, <3>3, RowOKElsewhere
  <2>11. CASE e \in T
    <3>1. Touches(handler[e], u, o) /\ Handle(e)
      BY <1>2, <2>4, <2>7, <2>9, <2>11
    <3>2. RowAgrees(handler[e], u, o, positions[u][o], trades)
      BY <2>1, <2>4, <2>8, <2>11 DEF RowState, Runs
    <3>3. RowMoves(e, u, o)
      BY <2>1, <3>1, <3>2, RowKept
    <3>4. RowAgrees(new[e], u, o, present, q) /\ MarkMoves(hs[e], new[e], o, row, present)
      BY <2>4, <2>5, <3>3 DEF RowMoves
    <3>5. \A i \in T : i # e => new[i] = hs[i] /\ hs[i].pc \in Ended
      BY <2>1, <2>3, <2>4, <2>5, <2>7, <2>11 DEF Runs
    <3>6. hs[e].pc \notin Ended /\ new[e].event = hs[e].event
      BY <2>1, <2>4, <2>5 DEF Runs
    <3>7. OneMarket(T, hs) /\ hs[e].event.name = "BetPlaced" =>
            \A i \in T : hs[i].event.name # "WinningsClaimed"
      <4>1. SUFFICES ASSUME OneMarket(T, hs), handler[e].event.name = "BetPlaced", NEW i \in T,
                            handler[i].event.name = "WinningsClaimed"
                     PROVE  FALSE
        BY <2>4
      <4>2. i \in Emitted
        BY <1>0 DEF Touching
      <4>3. i \in Named("WinningsClaimed") /\ e \in Named("BetPlaced") /\ i # e
        BY <2>2, <4>1, <4>2 DEF Named
      <4>4. SameMarket(i, e)
        BY <2>4, <2>11, <4>1 DEF OneMarket, SameMarket
      <4>5. {i, e} \in overlaps
        BY <2>1, <4>3, <4>4 DEF EmissionOK
      <4> QED BY <2>7, <2>11, <4>3, <4>5 DEF Apart
    <3> QED BY <2>8, <2>11, <3>4, <3>5, <3>6, <3>7, RowOKMoves
  <2> QED BY <2>10, <2>11
<1>3. ASSUME NEW e \in Events, NEW event \in Event, Emit(e, event) PROVE RowOK(u, o)'
  <2>1. /\ e \notin Emitted /\ ~Runs(e)
        /\ handler'[e] = [pc |-> "find", event |-> event]
        /\ \A i \in Events : i # e => handler'[i] = handler[i]
        /\ Emitted' = Emitted \union {e}
    BY <1>3, EmitAdds
  <2>2. PICK hs, row, t : hs = handler /\ row = positions[u][o] /\ t = trades
    OBVIOUS
  <2>3. row = positions'[u][o] /\ t = trades'
    BY <1>3, <2>2 DEF Emit
  <2>4. PICK new, U : new = handler' /\ U = Touching(u, o)'
    OBVIOUS
  <2>5. T \subseteq Events /\ e \notin T /\ T \subseteq Emitted
    BY <1>0, <2>1 DEF Touching, Emitted
  <2>6. /\ \A i \in T : new[i] = hs[i]
        /\ new[e] = [pc |-> "find", event |-> event]
    BY <2>1, <2>2, <2>4, <2>5
  <2>7. U = T \/ U = T \union {e}
    <3>1. \A i \in Emitted : i # e /\ handler'[i] = handler[i]
      BY <2>1 DEF Emitted
    <3>2. \A i \in Emitted : i \in U <=> i \in T
      BY <1>0, <2>1, <2>4, <3>1 DEF Touching
    <3>3. U \subseteq Emitted \union {e}
      BY <2>1, <2>4 DEF Touching
    <3> QED BY <2>5, <3>2, <3>3
  <2>8. SUFFICES ASSUME Apart(U, handler', overlaps')
                 PROVE  RowState(U, new, u, o, row, t)
    BY <2>3, <2>4 DEF RowOK
  <2>9. Apart(U, handler, overlaps) /\ (e \in U => \A i \in U : ~Runs(i))
    BY <1>3, <2>5, <2>7, <2>8, NoneRunsYet
  <2>10. Apart(T, handler, overlaps)
    BY <2>7, <2>9 DEF Apart
  <2>11. RowState(T, hs, u, o, row, t)
    BY <1>0, <2>2, <2>10 DEF RowOK
  <2>12. CASE U = T
    BY <2>6, <2>11, <2>12, RowOKElsewhere
  <2>13. CASE U = T \union {e}
    <3>1. \A i \in T : hs[i].pc \in Ended
      BY <2>2, <2>9, <2>13 DEF Runs
    <3>2. RowAgrees(AtRest, u, o, row, t)
      BY <2>11, <3>1 DEF RowState
    <3>3. RowAgrees(new[e], u, o, row, t)
      <4>1. AtRest.pc \in Ended \union {"find"} /\ new[e].pc \in Ended \union {"find"}
        BY <2>6 DEF AtRest, Ended
      <4> QED BY <3>2, <4>1, RowAtRest
    <3>4. \A i \in U : new[i].pc \notin Ended => RowAgrees(new[i], u, o, row, t)
      BY <2>6, <2>13, <3>1, <3>3
    <3>5. ~IsMarked(new[e], o)
      BY <2>6 DEF IsMarked
    <3>6. (\E i \in U : IsMarked(new[i], o)) <=> \E i \in T : IsMarked(hs[i], o)
      BY <2>6, <2>13, <3>5
    <3>7. OneMarket(U, new) => OneMarket(T, hs)
      BY <2>6, <2>13 DEF OneMarket
    <3>8. /\ row # NoRow /\ row.claimed = TRUE => \E i \in U : IsMarked(new[i], o)
          /\ row # NoRow /\ OneMarket(U, new) /\ (\E i \in U : IsMarked(new[i], o)) => row.claimed = TRUE
      BY <2>11, <3>6, <3>7 DEF RowState
    <3> QED BY <3>2, <3>4, <3>8 DEF RowState
  <2> QED BY <2>7, <2>12, <2>13
<1> QED BY <1>1, <1>2, <1>3 DEF Next

LEMMA RowOKStarts ==
  ASSUME Init, NEW u \in Users, NEW o \in Outcomes
  PROVE  RowOK(u, o)
<1>1. positions[u][o] = NoRow /\ Rec(trades) = {} /\ Emitted = {}
  BY DEF Init, Rec, Emitted
<1>2. Of(trades, u, o) = {} /\ Touching(u, o) = {}
  BY <1>1 DEF Of, On, Touching
<1>3. BetsAgree(AtRest, u, o, positions[u][o], trades)
  BY <1>1, <1>2, NoVolume DEF BetsAgree, Costs, AtRest
<1>4. HoldsRow(AtRest, o, positions[u][o])
  BY DEF HoldsRow, AtRest
<1> QED BY <1>1, <1>2, <1>3, <1>4 DEF RowOK, RowState, RowAgrees

-----------------------------------------------------------------------------
(* Winners and positions come from events, however handlers overlap or fail. *)

\* An outcome that a resolution named, or none.
IsNamed(o) == o = NoOutcome \/ \E r \in Named("MarketResolved") : o = handler[r].event.outcome

HasCopy(h) == h.pc \in BeforeTrade \union AfterTrade

WinnersOK ==
    /\ IsNamed(market.winningOutcomeIndex)
    /\ \A e \in Events : HasCopy(handler[e]) => IsNamed(handler[e].copy.market.winningOutcomeIndex)
    /\ \A u \in Users, o \in Outcomes :
         positions[u][o] # NoRow =>
           \E e \in Named("BetPlaced") :
              /\ IsKnown(handler[e].event)
              /\ handler[e].event.user = u /\ handler[e].event.outcome = o

\* Where a handler has a winner from.
Source(h, o, m) ==
    \/ o = m.winningOutcomeIndex
    \/ HasCopy(h) /\ o = h.copy.market.winningOutcomeIndex
    \/ h.event.name = "MarketResolved" /\ o = h.event.outcome

WinnerMoves(h, next, m, new) ==
    /\ Source(h, new.winningOutcomeIndex, m)
    /\ HasCopy(next) => Source(h, next.copy.market.winningOutcomeIndex, m)

LEMMA WinnerKept ==
  ASSUME Inv1, NEW e \in Events, Handle(e) \/ Fail(e)
  PROVE  WinnerMoves(handler[e], handler'[e], market, market')
<1>1. PICK h \in Handler, tr \in Trade \union {NoRow} :
        h = handler[e] /\ tr = trades[e] /\ Fits(h, positions, tr)
  BY HandlerAt
<1>2. handler \in [Events -> Handler] /\ market \in Market
  BY DEF Inv1, TypeOK
<1>3. PICK next, m : next = handler'[e] /\ m = market
  OBVIOUS
<1> DEFINE Goal == WinnerMoves(handler[e], handler'[e], market, market')
<1>4. ASSUME market' = market, ~HasCopy(next) PROVE Goal
  <2>1. WinnerMoves(h, next, m, m)
    BY <1>4 DEF WinnerMoves, Source
  <2> QED BY <1>1, <1>3, <1>4, <2>1
<1>5. ASSUME market' = market, HasCopy(h), next.copy = h.copy PROVE Goal
  <2>1. WinnerMoves(h, next, m, m)
    BY <1>5 DEF WinnerMoves, Source
  <2> QED BY <1>1, <1>3, <1>5, <2>1
<1>6. ASSUME market' = market, Source(h, next.copy.market.winningOutcomeIndex, m) PROVE Goal
  <2>1. WinnerMoves(h, next, m, m)
    BY <1>6 DEF WinnerMoves, Source
  <2> QED BY <1>1, <1>3, <1>6, <2>1
<1> SUFFICES Goal
  OBVIOUS
<1> HIDE DEF Goal
<1>7. CASE Fail(e)
  <2>1. next.pc = "failed" /\ market' = market
    BY <1>2, <1>3, <1>7 DEF Fail, Continue
  <2> QED BY <1>4, <2>1 DEF HasCopy, BeforeTrade, AfterTrade
<1>8. CASE handleBetPlaced(e)
  <2>1. \/ next = [pc |-> "findPosition", event |-> h.event, copy |-> Tables]
        \/ next = [pc |-> "done", event |-> h.event]
    BY <1>1, <1>2, <1>3, <1>8 DEF handleBetPlaced, Done, Continue
  <2>2. market' = market
    BY <1>8 DEF handleBetPlaced
  <2>3. CASE next = [pc |-> "findPosition", event |-> h.event, copy |-> Tables]
    <3>1. next.copy.market = m
      BY <1>3, <2>3 DEF Tables
    <3>2. Source(h, next.copy.market.winningOutcomeIndex, m)
      BY <3>1 DEF Source
    <3> QED BY <1>6, <2>2, <3>2
  <2>4. CASE next = [pc |-> "done", event |-> h.event]
    BY <1>4, <2>2, <2>4 DEF HasCopy, BeforeTrade, AfterTrade
  <2> QED BY <2>1, <2>3, <2>4
<1>9. CASE FindPosition(e)
  <2>1. h.pc = "findPosition" /\ next.copy = h.copy /\ market' = market
    BY <1>1, <1>2, <1>3, <1>9 DEF FindPosition, Continue
  <2> QED BY <1>5, <2>1 DEF HasCopy, BeforeTrade
<1>10. CASE InsertPosition(e)
  <2>1. h.pc = "insertPosition" /\ market' = market
    BY <1>1, <1>10 DEF InsertPosition
  <2>2. next = [h EXCEPT !.pc = "insertTrade"] \/ next = [pc |-> "failed", event |-> h.event]
    BY <1>1, <1>2, <1>3, <1>10 DEF InsertPosition, Continue
  <2>3. CASE next = [pc |-> "failed", event |-> h.event]
    BY <1>4, <2>1, <2>3 DEF HasCopy, BeforeTrade, AfterTrade
  <2>4. CASE next = [h EXCEPT !.pc = "insertTrade"]
    <3>1. h \in [pc : {"insertPosition", "loadPosition", "insertTrade"}, event : Event,
                 copy : Read, position : Position]
      BY <2>1 DEF Handler
    <3>2. next.copy = h.copy
      BY <2>4, <3>1
    <3> QED BY <1>5, <2>1, <3>2 DEF HasCopy, BeforeTrade
  <2> QED BY <2>2, <2>3, <2>4
<1>11. CASE LoadPosition(e)
  <2>1. h.pc = "loadPosition" /\ next.copy = h.copy /\ market' = market
    BY <1>1, <1>2, <1>3, <1>11 DEF LoadPosition, Continue
  <2> QED BY <1>5, <2>1 DEF HasCopy, BeforeTrade
<1>12. CASE UpdatePosition(e)
  <2>1. h.pc = "updatePosition" /\ next.copy = h.copy /\ market' = market
    BY <1>1, <1>2, <1>3, <1>12 DEF UpdatePosition, Continue
  <2> QED BY <1>5, <2>1 DEF HasCopy, BeforeTrade
<1>13. CASE InsertTrade(e)
  <2>1. h.pc = "insertTrade" /\ h.copy \in Read /\ h.copy.market \in Market /\ market' = market
    BY <1>1, <1>13, HandlerTypes DEF InsertTrade, BeforeTrade
  <2>2. PICK w : w = WithTrade(h.copy.market, h.event.amount, h.position)
    OBVIOUS
  <2>3. PICK c : c = [h.copy EXCEPT !.market = w]
    OBVIOUS
  <2>4. next = [pc |-> "loadMarket", event |-> h.event, copy |-> c]
    BY <1>1, <1>2, <1>3, <1>13, <2>2, <2>3 DEF InsertTrade, Continue
  <2>5. c.market = w
    BY <2>1, <2>3 DEF Read
  <2>6. w.winningOutcomeIndex = h.copy.market.winningOutcomeIndex
    BY <2>1, <2>2 DEF WithTrade, Market
  <2>7. Source(h, next.copy.market.winningOutcomeIndex, m)
    BY <2>1, <2>4, <2>5, <2>6 DEF Source, HasCopy, BeforeTrade
  <2> QED BY <1>6, <2>1, <2>7
<1>14. CASE handleMarketResolved(e)
  <2>1. h.event.name = "MarketResolved" /\ market' = market
    BY <1>1, <1>14 DEF handleMarketResolved
  <2>2. PICK c : c = [Tables EXCEPT !.market.status = "RESOLVED", !.market.winningOutcomeIndex = h.event.outcome]
    OBVIOUS
  <2>3. next = [pc |-> "loadMarket", event |-> h.event, copy |-> c]
    BY <1>1, <1>2, <1>3, <1>14, <2>2 DEF handleMarketResolved, Continue
  <2>4. c.market.winningOutcomeIndex = h.event.outcome
    <3>1. PICK n : n = [market EXCEPT !.status = "RESOLVED", !.winningOutcomeIndex = h.event.outcome]
      OBVIOUS
    <3>2. c.market = n
      BY <2>2, <3>1 DEF Tables
    <3>3. n.winningOutcomeIndex = h.event.outcome
      BY <1>2, <3>1 DEF Market
    <3> QED BY <3>2, <3>3
  <2>5. Source(h, next.copy.market.winningOutcomeIndex, m)
    BY <2>1, <2>3, <2>4 DEF Source
  <2> QED BY <1>6, <2>1, <2>5
<1>15. CASE adminRequest(e)
  <2>1. market' = market
    BY <1>15 DEF adminRequest
  <2>2. PICK c : c = [Tables EXCEPT !.market.status = h.event.status]
    OBVIOUS
  <2>3. \/ next = [pc |-> "loadMarket", event |-> h.event, copy |-> c]
        \/ next = [pc |-> "done", event |-> h.event]
    BY <1>1, <1>2, <1>3, <1>15, <2>2 DEF adminRequest, Done, Continue
  <2>4. c.market.winningOutcomeIndex = m.winningOutcomeIndex
    <3>1. PICK n : n = [market EXCEPT !.status = h.event.status]
      OBVIOUS
    <3>2. c.market = n
      BY <2>2, <3>1 DEF Tables
    <3>3. n.winningOutcomeIndex = m.winningOutcomeIndex
      BY <1>2, <1>3, <3>1 DEF Market
    <3> QED BY <3>2, <3>3
  <2>5. CASE next = [pc |-> "loadMarket", event |-> h.event, copy |-> c]
    <3>1. Source(h, next.copy.market.winningOutcomeIndex, m)
      BY <2>4, <2>5 DEF Source
    <3> QED BY <1>6, <2>1, <3>1
  <2>6. CASE next = [pc |-> "done", event |-> h.event]
    BY <1>4, <2>1, <2>6 DEF HasCopy, BeforeTrade, AfterTrade
  <2> QED BY <2>3, <2>5, <2>6
<1>16. CASE LoadMarket(e)
  <2>1. h.pc = "loadMarket" /\ next.copy = h.copy /\ market' = market
    BY <1>1, <1>2, <1>3, <1>16 DEF LoadMarket, Continue
  <2> QED BY <1>5, <2>1 DEF HasCopy, AfterTrade
<1>17. CASE UpdateMarket(e)
  <2>1. /\ h.pc = "updateMarket" /\ h.copy \in Read /\ h.copy.market \in Market /\ h.seen.market \in Market
        /\ HasCopy(h)
    BY <1>1, <1>17, HandlerTypes DEF UpdateMarket, AfterTrade, HasCopy
  <2>2. PICK new : new = Updated(m, h.seen.market, h.copy.market)
    OBVIOUS
  <2>3. market' = new
    BY <1>1, <1>3, <1>17, <2>2 DEF UpdateMarket
  <2>4. new.winningOutcomeIndex \in {m.winningOutcomeIndex, h.copy.market.winningOutcomeIndex}
    BY <1>2, <1>3, <2>1, <2>2, UpdatedMarket
  <2>5. PICK c : c = [h.copy EXCEPT !.staked[h.event.outcome] = @ + h.event.amount]
    OBVIOUS
  <2>6. c.market = h.copy.market
    BY <2>1, <2>5 DEF Read
  <2>7. \/ next = [pc |-> "loadOutcome", event |-> h.event, copy |-> c]
        \/ next = [pc |-> "done", event |-> h.event]
    BY <1>1, <1>2, <1>3, <1>17, <2>5 DEF UpdateMarket, Done, Continue
  <2>8. HasCopy(next) => next.copy.market = h.copy.market
    BY <2>6, <2>7 DEF HasCopy, BeforeTrade, AfterTrade
  <2>9. WinnerMoves(h, next, m, new)
    BY <2>1, <2>4, <2>8 DEF WinnerMoves, Source
  <2> QED BY <1>1, <1>3, <2>3, <2>9 DEF Goal
<1>18. CASE LoadOutcome(e)
  <2>1. h.pc = "loadOutcome" /\ next.copy = h.copy /\ market' = market
    BY <1>1, <1>2, <1>3, <1>18 DEF LoadOutcome, Continue
  <2> QED BY <1>5, <2>1 DEF HasCopy, AfterTrade
<1>19. CASE UpdateOutcome(e)
  <2>1. next.pc = "done" /\ market' = market
    BY <1>1, <1>2, <1>3, <1>19 DEF UpdateOutcome, Done, Continue
  <2> QED BY <1>4, <2>1 DEF HasCopy, BeforeTrade, AfterTrade
<1>20. CASE handleWinningsClaimed(e)
  <2>1. next.pc \in {"findPositions", "done"} /\ market' = market
    BY <1>1, <1>2, <1>3, <1>20 DEF handleWinningsClaimed, Done, Continue
  <2> QED BY <1>4, <2>1 DEF HasCopy, BeforeTrade, AfterTrade
<1>21. CASE FindPositions(e)
  <2>1. next.pc = "claim" /\ market' = market
    BY <1>2, <1>3, <1>21 DEF FindPositions, Continue
  <2> QED BY <1>4, <2>1 DEF HasCopy, BeforeTrade, AfterTrade
<1>22. ASSUME NEW o \in Outcomes, LoadClaim(e, o) PROVE Goal
  <2>1. next.pc = "updateClaim" /\ market' = market
    BY <1>2, <1>3, <1>22 DEF LoadClaim, Continue
  <2> QED BY <1>4, <2>1 DEF HasCopy, BeforeTrade, AfterTrade
<1>23. CASE UpdateClaim(e)
  <2>1. next.pc = "claim" /\ market' = market
    BY <1>2, <1>3, <1>23 DEF UpdateClaim, Continue
  <2> QED BY <1>4, <2>1 DEF HasCopy, BeforeTrade, AfterTrade
<1>24. CASE EndClaim(e)
  <2>1. next.pc = "done" /\ market' = market
    BY <1>1, <1>2, <1>3, <1>24 DEF EndClaim, Done, Continue
  <2> QED BY <1>4, <2>1 DEF HasCopy, BeforeTrade, AfterTrade
<1> QED BY <1>7, <1>8, <1>9, <1>10, <1>11, <1>12, <1>13, <1>14, <1>15, <1>16, <1>17, <1>18, <1>19, <1>20,
           <1>21, <1>22, <1>23, <1>24, Zenon DEF Handle

\* A position comes only with a bet of a known user.
LEMMA RowComes ==
  ASSUME Inv1, NEW e \in Events, Handle(e) \/ Fail(e), NEW u \in Users, NEW o \in Outcomes,
         positions'[u][o] # NoRow, positions[u][o] = NoRow
  PROVE  /\ handler[e].event.name = "BetPlaced" /\ IsKnown(handler[e].event)
         /\ handler[e].event.user = u /\ handler[e].event.outcome = o
<1>1. PICK h \in Handler, tr \in Trade \union {NoRow} :
        h = handler[e] /\ tr = trades[e] /\ Fits(h, positions, tr)
  BY HandlerAt
<1>2. CASE InsertPosition(e)
  <2>1. h.pc = "insertPosition" /\ h.position \in Position /\ h.event \in Event
    BY <1>1, <1>2, HandlerTypes DEF InsertPosition
  <2>2. h.event.name = "BetPlaced" /\ IsKnown(h.event)
    BY <1>1, <2>1 DEF Fits, BeforeTrade
  <2>3. h.event.user \in Users /\ h.event.outcome \in Outcomes
    BY <2>1, <2>2, EventTypes
  <2>4. SetPosition(h.event.user, h.event.outcome, h.position) \/ positions' = positions
    BY <1>1, <1>2 DEF InsertPosition
  <2>5. h.event.user = u /\ h.event.outcome = o
    BY <2>1, <2>3, <2>4, PositionSet
  <2> QED BY <1>1, <2>2, <2>5
<1>3. CASE UpdatePosition(e)
  <2>1. h.pc = "updatePosition" /\ h.position \in Position /\ h.seen \in Position /\ h.event \in Event
    BY <1>1, <1>3, HandlerTypes DEF UpdatePosition, BeforeTrade
  <2>2. h.event.name = "BetPlaced" /\ positions[h.event.user][h.event.outcome] # NoRow
    BY <1>1, <2>1 DEF Fits, BeforeTrade
  <2>3. h.event.user \in Users /\ h.event.outcome \in Outcomes
    BY <2>1, <2>2, EventTypes
  <2>4. PICK row : row = positions[h.event.user][h.event.outcome]
    OBVIOUS
  <2>5. row \in Position
    BY <2>2, <2>3, <2>4 DEF Inv1, TypeOK
  <2>6. Updated(row, h.seen, h.position) \in Position
    BY <2>1, <2>5, UpdatedPosition
  <2>7. SetPosition(h.event.user, h.event.outcome, Updated(row, h.seen, h.position))
    BY <1>1, <1>3, <2>4 DEF UpdatePosition
  <2>8. positions'[u][o] = positions[u][o] \/ (u = h.event.user /\ o = h.event.outcome)
    BY <2>3, <2>6, <2>7, PositionSet
  <2> QED BY <2>2, <2>8
<1>4. CASE UpdateClaim(e)
  <2>1. /\ h.pc = "updateClaim" /\ h.rows \in [Outcomes -> Position \union {NoRow}]
        /\ h.outcome \in Outcomes /\ h.seen \in Position /\ h.event \in Event
    BY <1>1, <1>4, HandlerTypes DEF UpdateClaim, Claiming
  <2>2. /\ h.event.name = "WinningsClaimed" /\ h.rows[h.outcome] # NoRow
        /\ positions[h.event.user][h.outcome] # NoRow
    BY <1>1, <2>1 DEF Fits, Claiming
  <2>3. h.event.user \in Users
    BY <2>1, <2>2, EventTypes
  <2>4. PICK row : row = positions[h.event.user][h.outcome]
    OBVIOUS
  <2>5. row \in Position /\ h.rows[h.outcome] \in Position
    BY <2>1, <2>2, <2>3, <2>4 DEF Inv1, TypeOK
  <2>6. Updated(row, h.seen, h.rows[h.outcome]) \in Position
    BY <2>1, <2>5, UpdatedPosition
  <2>7. SetPosition(h.event.user, h.outcome, Updated(row, h.seen, h.rows[h.outcome]))
    BY <1>1, <1>4, <2>4 DEF UpdateClaim
  <2>8. positions'[u][o] = positions[u][o] \/ (u = h.event.user /\ o = h.outcome)
    BY <2>1, <2>3, <2>6, <2>7, PositionSet
  <2> QED BY <2>2, <2>8
<1>5. ASSUME ~InsertPosition(e), ~UpdatePosition(e), ~UpdateClaim(e) PROVE FALSE
  <2> DEFINE Still == UNCHANGED positions
  <2>1. Fail(e) \/ handleBetPlaced(e) \/ FindPosition(e) \/ LoadPosition(e) \/ InsertTrade(e) => Still
    BY DEF Fail, handleBetPlaced, FindPosition, LoadPosition, InsertTrade
  <2>2. \/ handleMarketResolved(e) \/ adminRequest(e) \/ LoadMarket(e) \/ UpdateMarket(e)
        \/ LoadOutcome(e) \/ UpdateOutcome(e)
        => Still
    BY DEF handleMarketResolved, adminRequest, LoadMarket, UpdateMarket, LoadOutcome, UpdateOutcome
  <2>3. handleWinningsClaimed(e) \/ FindPositions(e) \/ (\E p \in Outcomes : LoadClaim(e, p)) \/ EndClaim(e) => Still
    BY DEF handleWinningsClaimed, FindPositions, LoadClaim, EndClaim
  <2> HIDE DEF Still
  <2>4. Still
    BY <1>5, <2>1, <2>2, <2>3, Zenon DEF Handle
  <2> QED BY <2>4 DEF Still
<1> QED BY <1>2, <1>3, <1>4, <1>5

LEMMA WinnersKept == Inv1 /\ WinnersOK /\ [Next]_vars => WinnersOK'
<1> SUFFICES ASSUME Inv1, WinnersOK, [Next]_vars PROVE WinnersOK'
  OBVIOUS
<1>1. CASE UNCHANGED vars
  BY <1>1 DEF vars, WinnersOK, IsNamed, Named, Emitted
<1>2. ASSUME NEW e \in Events, Handle(e) \/ Fail(e) PROVE WinnersOK'
  <2>1. /\ Runs(e) /\ handler'[e].event = handler[e].event
        /\ \A i \in Events : i # e => handler'[i] = handler[i]
    BY <1>2, HandlerMoves DEF Moves
  <2>2. \A name : Named(name)' = Named(name)
    BY <1>2, SameEvents
  <2>3. \A i \in Events : handler'[i].event = handler[i].event
    BY <2>1
  <2>4. \A name : Named(name) \subseteq Events
    BY DEF Named, Emitted
  <2>5. \A o : IsNamed(o)' <=> IsNamed(o)
    BY <2>2, <2>3, <2>4 DEF IsNamed
  <2>6. ASSUME NEW o, Source(handler[e], o, market) PROVE IsNamed(o)
    <3>1. CASE handler[e].event.name = "MarketResolved" /\ o = handler[e].event.outcome
      <4>1. e \in Named("MarketResolved")
        BY <2>1, <3>1 DEF Named, Emitted, Runs, Ended
      <4> QED BY <3>1, <4>1 DEF IsNamed
    <3>2. CASE o = market.winningOutcomeIndex \/ (HasCopy(handler[e]) /\ o = handler[e].copy.market.winningOutcomeIndex)
      BY <3>2 DEF WinnersOK
    <3> QED BY <2>6, <3>1, <3>2 DEF Source
  <2>7. WinnerMoves(handler[e], handler'[e], market, market')
    BY <1>2, WinnerKept
  <2>8. /\ Source(handler[e], market'.winningOutcomeIndex, market)
        /\ HasCopy(handler'[e]) => Source(handler[e], handler'[e].copy.market.winningOutcomeIndex, market)
    BY <2>7 DEF WinnerMoves
  <2>9. /\ IsNamed(market'.winningOutcomeIndex)
        /\ HasCopy(handler'[e]) => IsNamed(handler'[e].copy.market.winningOutcomeIndex)
    BY <2>6, <2>8
  <2>10. \A i \in Events : HasCopy(handler'[i]) => IsNamed(handler'[i].copy.market.winningOutcomeIndex)
    BY <2>1, <2>9 DEF WinnersOK
  <2>11. ASSUME NEW u \in Users, NEW o \in Outcomes, positions'[u][o] # NoRow
         PROVE  \E i \in Named("BetPlaced") :
                   /\ IsKnown(handler[i].event)
                   /\ handler[i].event.user = u /\ handler[i].event.outcome = o
    <3>1. CASE positions[u][o] # NoRow
      BY <3>1 DEF WinnersOK
    <3>2. CASE positions[u][o] = NoRow
      <4>1. /\ handler[e].event.name = "BetPlaced" /\ IsKnown(handler[e].event)
            /\ handler[e].event.user = u /\ handler[e].event.outcome = o
        BY <1>2, <2>11, <3>2, RowComes
      <4>2. e \in Named("BetPlaced")
        BY <2>1, <4>1 DEF Named, Emitted, Runs, Ended
      <4> QED BY <4>1, <4>2
    <3> QED BY <3>1, <3>2
  <2>12. PICK hs, m, rows, B : hs = handler' /\ m = market' /\ rows = positions' /\ B = Named("BetPlaced")
    OBVIOUS
  <2>13. /\ IsNamed(m.winningOutcomeIndex)
         /\ \A i \in Events : HasCopy(hs[i]) => IsNamed(hs[i].copy.market.winningOutcomeIndex)
         /\ \A u \in Users, o \in Outcomes :
              rows[u][o] # NoRow =>
                \E i \in B : IsKnown(hs[i].event) /\ hs[i].event.user = u /\ hs[i].event.outcome = o
    BY <2>3, <2>4, <2>9, <2>10, <2>11, <2>12
  <2> QED BY <2>2, <2>5, <2>12, <2>13 DEF WinnersOK
<1>3. ASSUME NEW e \in Events, NEW event \in Event, Emit(e, event) PROVE WinnersOK'
  <2>1. /\ e \notin Emitted
        /\ handler'[e] = [pc |-> "find", event |-> event]
        /\ \A i \in Events : i # e => handler'[i] = handler[i]
        /\ \A name : Named(name)' = IF event.name = name THEN Named(name) \union {e} ELSE Named(name)
    BY <1>3, EmitAdds
  <2>2. \A name : Named(name) \subseteq Named(name)' /\ Named(name) \subseteq Events /\ e \notin Named(name)
    BY <2>1 DEF Named, Emitted
  <2>3. market' = market /\ positions' = positions
    BY <1>3 DEF Emit
  <2>4. \A o : IsNamed(o) => IsNamed(o)'
    BY <2>1, <2>2 DEF IsNamed
  <2>5. ~HasCopy(handler'[e])
    BY <2>1 DEF HasCopy, BeforeTrade, AfterTrade
  <2>6. PICK hs, m, rows, B : hs = handler' /\ m = market /\ rows = positions /\ B = Named("BetPlaced")'
    OBVIOUS
  <2>7. /\ IsNamed(m.winningOutcomeIndex)
        /\ \A i \in Events : HasCopy(hs[i]) => IsNamed(hs[i].copy.market.winningOutcomeIndex)
    BY <2>1, <2>5, <2>6 DEF WinnersOK
  <2>8. ASSUME NEW u \in Users, NEW o \in Outcomes, rows[u][o] # NoRow
        PROVE  \E i \in B : IsKnown(hs[i].event) /\ hs[i].event.user = u /\ hs[i].event.outcome = o
    <3>1. PICK i \in Named("BetPlaced") :
             /\ IsKnown(handler[i].event)
             /\ handler[i].event.user = u /\ handler[i].event.outcome = o
      BY <2>6, <2>8 DEF WinnersOK
    <3>2. i \in B /\ hs[i] = handler[i]
      BY <2>1, <2>2, <2>6, <3>1
    <3> QED BY <3>1, <3>2
  <2> QED BY <2>3, <2>4, <2>6, <2>7, <2>8 DEF WinnersOK
<1> QED BY <1>1, <1>2, <1>3 DEF Next

LEMMA WinnersStart == Init => WinnersOK
  BY DEF Init, WinnersOK, IsNamed, HasCopy, BeforeTrade, AfterTrade

-----------------------------------------------------------------------------
(* What the rows show.                                                       *)

Inv ==
    /\ Inv1
    /\ EmissionOK
    /\ Bounded
    /\ Settled
    /\ Resolved
    /\ WinnersOK
    /\ \A u \in Users, o \in Outcomes : RowOK(u, o)

LEMMA Invariant == Spec => []Inv
<1>1. Init => Inv
  BY InitKept, EmissionStarts, BoundedStarts, SettledStarts, WinnersStart, RowOKStarts DEF Inv
<1>2. Inv /\ [Next]_vars => Inv'
  <2> SUFFICES ASSUME Inv, [Next]_vars PROVE Inv'
    OBVIOUS
  <2>1. Inv1' /\ EmissionOK' /\ Bounded' /\ Settled' /\ Resolved' /\ WinnersOK'
    BY HandlersKept, EmissionKept, BoundedKept, SettledKept, WinnersKept DEF Inv
  <2>2. ASSUME NEW u \in Users, NEW o \in Outcomes PROVE RowOK(u, o)'
    BY RowOKKept DEF Inv
  <2> QED BY <2>1, <2>2 DEF Inv
<1> QED BY <1>1, <1>2, PTL DEF Spec

LEMMA WentWellIsApart ==
  ASSUME NEW T \in SUBSET Events, WentWell(T)
  PROVE  /\ Apart(T, handler, overlaps)
         /\ \A e \in T : handler[e].pc \in Ended /\ ~Runs(e) /\ (e \in Emitted => handler[e].pc = "done")
  BY DEF WentWell, Apart, Ended, Runs, Emitted

\* The row of a position whose handlers ran apart and to their end.
LEMMA RowWentWell ==
  ASSUME Inv, NEW u \in Users, NEW o \in Outcomes, WentWell(Touching(u, o))
  PROVE  /\ Costs(positions[u][o]) = VolumeOf(trades, Of(trades, u, o))
         /\ positions[u][o] = NoRow <=> Of(trades, u, o) = {}
         /\ positions[u][o] # NoRow /\ positions[u][o].claimed = TRUE =>
              Touching(u, o) \cap Payments # {}
         /\ positions[u][o] # NoRow /\ FromOneMarket(Touching(u, o)) /\ Touching(u, o) \cap Payments # {} =>
              positions[u][o].claimed = TRUE
<1>1. PICK T, row, hs : T = Touching(u, o) /\ row = positions[u][o] /\ hs = handler
  OBVIOUS
<1>2. T \in SUBSET Events /\ T \subseteq Emitted
  BY <1>1 DEF Touching, Emitted
<1>3. Apart(T, handler, overlaps) /\ \A e \in T : hs[e].pc = "done"
  BY <1>1, <1>2, WentWellIsApart
<1>4. RowState(T, hs, u, o, row, trades)
  BY <1>1, <1>3 DEF Inv, RowOK
<1>5. RowAgrees(AtRest, u, o, row, trades)
  BY <1>3, <1>4 DEF RowState, Ended
<1>6. Costs(row) = VolumeOf(trades, Of(trades, u, o)) /\ (row = NoRow <=> Of(trades, u, o) = {})
  BY <1>5 DEF RowAgrees, BetsAgree, AtRest
<1>7. \A e \in T : IsMarked(hs[e], o) <=> hs[e].event.name = "WinningsClaimed"
  BY <1>3 DEF IsMarked
<1>8. T \cap Payments # {} <=> \E e \in T : hs[e].event.name = "WinningsClaimed"
  BY <1>1, <1>2 DEF Payments
<1>9. FromOneMarket(T) => OneMarket(T, hs)
  <2>1. \A e \in T : hs[e].event.name # "AdminRequest"
    BY <1>1 DEF Touching
  <2> QED BY <1>1, <2>1 DEF FromOneMarket, OneMarket
<1>10. /\ row # NoRow /\ row.claimed = TRUE => T \cap Payments # {}
       /\ row # NoRow /\ FromOneMarket(T) /\ T \cap Payments # {} => row.claimed = TRUE
  BY <1>4, <1>7, <1>8, <1>9 DEF RowState
<1> QED BY <1>1, <1>6, <1>10

LEMMA CostIsCosts ==
  ASSUME NEW u, NEW o
  PROVE  CostBasis(u, o) = Costs(positions[u][o])
  BY DEF CostBasis, Costs

LEMMA CostsAreSum ==
  ASSUME NEW u
  PROVE  getUserPosition(u) = Sum([o \in Outcomes |-> CostBasis(u, o)], Outcomes)
<1> DEFINE f == [o \in Outcomes |-> CostBasis(u, o)]
           Eq(it) == it = [s \in SUBSET Outcomes |->
                             IF s = {} THEN 0 ELSE CostBasis(u, Pick(s)) + it[s \ {Pick(s)}]]
           g == CHOOSE it : Eq(it)
<1>1. getUserPosition(u) = g[Outcomes]
  BY DEF getUserPosition, MapThenSumSet, MapThenFoldSet, Pick
<1>2. IsFiniteSet(Outcomes)
  BY MarketEventsAssumption
<1>3. ASSUME NEW s \in SUBSET Outcomes, s # {} PROVE f[Pick(s)] = CostBasis(u, Pick(s))
  <2>1. Pick(s) \in Outcomes
    BY <1>3 DEF Pick
  <2> QED BY <2>1
<1>4. ASSUME NEW h, Fold(f, Outcomes, h) PROVE Eq(h)
  <2> HIDE DEF f
  <2> QED BY <1>3, <1>4 DEF Fold
<1>5. ASSUME NEW h, Eq(h) PROVE Fold(f, Outcomes, h)
  <2> HIDE DEF f
  <2> QED BY <1>3, <1>5 DEF Fold
<1>6. Eq(g)
  <2>1. PICK h : Fold(f, Outcomes, h)
    BY <1>2, FoldExists
  <2>2. Eq(h)
    <3> HIDE DEF f, Eq
    <3> QED BY <1>4, <2>1
  <2> HIDE DEF Eq
  <2> QED BY <2>2
<1>7. Fold(f, Outcomes, g)
  <2> HIDE DEF f, Eq, g
  <2> QED BY <1>5, <1>6
<1>8. Sum(f, Outcomes) = g[Outcomes]
  <2> HIDE DEF f, Eq, g
  <2> QED BY <1>2, <1>7, SumFold
<1> QED BY <1>1, <1>8

\* If the position on every outcome is that of its trades, the cost of all
\* is that of all trades.
LEMMA CostsAddUp ==
  ASSUME Inv, NEW u \in Users,
         \A o \in Outcomes : Costs(positions[u][o]) = VolumeOf(trades, Of(trades, u, o))
  PROVE  getUserPosition(u) = VolumeOf(trades, {e \in Rec(trades) : trades[e].user = u})
<1>1. PICK t \in [Events -> Trade \union {NoRow}] : t = trades
  BY DEF Inv, Inv1, TypeOK
<1> DEFINE S == {e \in Rec(t) : t[e].user = u}
           f == [e \in Events |-> t[e].amount]
           c == [e \in Events |-> t[e].outcome]
<1>2. S \in SUBSET Events /\ S \in SUBSET Rec(t)
  BY DEF Rec
<1>3. IsFiniteSet(S) /\ IsFiniteSet(Outcomes)
  BY <1>2, MarketEventsAssumption, FS_Subset
<1>4. \A e \in S : f[e] \in Nat
  <2>1. \A e \in S : t[e].amount \in Nat
    <3> HIDE DEF S
    <3> QED BY <1>2, Volumes
  <2> QED BY <1>2, <2>1
<1>5. \A e \in S : c[e] \in Outcomes
  <2>1. \A e \in S : t[e] \in Trade
    BY DEF Rec
  <2>2. \A trade \in Trade : trade.outcome \in Outcomes
    BY MarketEventsAssumption DEF Trade
  <2> QED BY <1>2, <2>1, <2>2
<1>6. \A o \in Outcomes : {e \in S : c[e] = o} = Of(t, u, o) /\ Of(t, u, o) \in SUBSET Events
  BY <1>2 DEF Of, On, Rec
<1>7. \A o \in Outcomes : VolumeOf(t, Of(t, u, o)) = Sum(f, Of(t, u, o))
  BY <1>6, VolumeIsSum
<1>8. VolumeOf(t, S) = Sum(f, S)
  <2> HIDE DEF S
  <2> QED BY <1>2, VolumeIsSum
<1>9. Sum([o \in Outcomes |-> Sum(f, {e \in S : c[e] = o})], Outcomes) = Sum(f, S)
  <2> HIDE DEF S, f, c
  <2> QED BY <1>3, <1>4, <1>5, SumParts
<1>10. [o \in Outcomes |-> Sum(f, {e \in S : c[e] = o})] = [o \in Outcomes |-> CostBasis(u, o)]
  <2>1. ASSUME NEW o \in Outcomes PROVE Sum(f, {e \in S : c[e] = o}) = CostBasis(u, o)
    <3>1. CostBasis(u, o) = VolumeOf(t, Of(t, u, o))
      BY <1>1, CostIsCosts
    <3> HIDE DEF S, f, c
    <3> QED BY <1>6, <1>7, <3>1
  <2> HIDE DEF S, f, c
  <2> QED BY <2>1
<1>11. getUserPosition(u) = VolumeOf(t, S)
  <2>1. getUserPosition(u) = Sum([o \in Outcomes |-> CostBasis(u, o)], Outcomes)
    BY CostsAreSum
  <2> HIDE DEF S, f, c
  <2> QED BY <1>8, <1>9, <1>10, <2>1
<1> QED BY <1>1, <1>11

(* However handlers overlap or fail, the market and its outcomes show no     *)
(* more than was traded; when all ran one after the other and to their end,  *)
(* totals, stakes, positions and what a user is told are those of the trades *)
(* (handleBetPlaced, handleMarketResolved and handleWinningsClaimed in       *)
(* market-events.service.ts, getUserPosition in markets.service.ts).         *)
THEOREM StatsAreTrades == Spec => []StatsAgree
<1>1. ASSUME Inv PROVE StatsAgree
  <2>1. PICK t \in [Events -> Trade \union {NoRow}] : t = trades
    BY <1>1 DEF Inv, Inv1, TypeOK
  <2>2. Recorded = Rec(t) /\ \A S : Volume(S) = VolumeOf(t, S)
    BY <2>1, RecordedIsRec
  <2>3. \A o : TradesOn(o) = On(t, o)
    BY <2>1, RecordedIsRec
  <2>4. /\ market.totalVolume <= Volume(Recorded) /\ market.tradeCount <= Cardinality(Recorded)
        /\ \A o \in Outcomes : staked[o] <= Volume(TradesOn(o))
    BY <1>1, <2>1, <2>2, <2>3 DEF Inv, Bounded
  <2>5. ASSUME WentWell(Events)
        PROVE  /\ \A e \in Emitted :
                    (handler[e].event.name = "BetPlaced" /\ IsKnown(handler[e].event)) <=> e \in Recorded
               /\ market.totalVolume = Volume(Recorded)
               /\ market.tradeCount = Cardinality(Recorded)
               /\ \A o \in Outcomes : staked[o] = Volume(TradesOn(o))
               /\ \A u \in Users : getUserPosition(u) = Volume({e \in Recorded : trades[e].user = u})
    <3>1. /\ Apart(Events, handler, overlaps)
          /\ \A e \in Events : ~Runs(e) /\ (e \in Emitted => handler[e].pc = "done")
      BY <2>5, WentWellIsApart
    <3>2. Agrees(AtRest, market, staked, t)
      BY <1>1, <2>1, <3>1 DEF Inv, Settled, Idle
    <3>3. market.totalVolume = VolumeOf(t, Rec(t)) /\ market.tradeCount = Cardinality(Rec(t))
      BY <3>2 DEF Agrees, TotalsAgree, BetAt, AtRest
    <3>4. ASSUME NEW o \in Outcomes PROVE staked[o] = VolumeOf(t, On(t, o))
      BY <3>2 DEF Agrees, StakeAgrees, BetAt, AtRest, AfterTrade
    <3>5. ASSUME NEW e \in Emitted
          PROVE  (handler[e].event.name = "BetPlaced" /\ IsKnown(handler[e].event)) <=> e \in Recorded
      <4>1. e \in Events /\ handler[e].pc = "done"
        BY <3>1 DEF Emitted
      <4>2. PICK h \in Handler, tr \in Trade \union {NoRow} :
              h = handler[e] /\ tr = trades[e] /\ Fits(h, positions, tr)
        BY <1>1, <4>1, HandlerAt DEF Inv
      <4>3. h.event.name = "BetPlaced" /\ IsKnown(h.event) <=> tr # NoRow
        BY <4>1, <4>2 DEF Fits
      <4> QED BY <4>1, <4>2, <4>3 DEF Recorded
    <3>6. ASSUME NEW u \in Users
          PROVE  getUserPosition(u) = Volume({e \in Recorded : trades[e].user = u})
      <4>1. ASSUME NEW o \in Outcomes PROVE Costs(positions[u][o]) = VolumeOf(trades, Of(trades, u, o))
        <5>1. WentWell(Touching(u, o))
          BY <2>5 DEF WentWell, Touching, Emitted
        <5> QED BY <1>1, <5>1, RowWentWell
      <4>2. getUserPosition(u) = VolumeOf(trades, {e \in Rec(trades) : trades[e].user = u})
        BY <1>1, <4>1, CostsAddUp
      <4> QED BY <2>1, <2>2, <4>2
    <3> QED BY <2>2, <2>3, <3>3, <3>4, <3>5, <3>6
  <2> QED BY <2>4, <2>5 DEF StatsAgree
<1> QED BY <1>1, Invariant, PTL

(* The row of a user on an outcome is that of the trades, and marked as paid *)
(* only if the user was, whatever the handlers of other users and outcomes   *)
(* do and of whatever market of the contract the events are; it is marked    *)
(* whenever the user was paid if they are of one market.                     *)
THEOREM PositionsAreTrades == Spec => []PositionsAgree
<1>1. ASSUME Inv PROVE PositionsAgree
  <2>1. ASSUME NEW u \in Users, NEW o \in Outcomes, WentWell(Touching(u, o))
        PROVE  /\ CostBasis(u, o) = Volume(TradesOf(u, o))
               /\ positions[u][o] # NoRow =>
                    /\ positions[u][o].claimed => Touching(u, o) \cap Payments # {}
                    /\ FromOneMarket(Touching(u, o)) /\ Touching(u, o) \cap Payments # {} =>
                         positions[u][o].claimed
    <3>1. PICK row \in Position \union {NoRow} : row = positions[u][o]
      BY <1>1 DEF Inv, Inv1, TypeOK
    <3>2. /\ Costs(row) = VolumeOf(trades, Of(trades, u, o))
          /\ row # NoRow /\ row.claimed = TRUE => Touching(u, o) \cap Payments # {}
          /\ row # NoRow /\ FromOneMarket(Touching(u, o)) /\ Touching(u, o) \cap Payments # {} =>
               row.claimed = TRUE
      BY <1>1, <2>1, <3>1, RowWentWell
    <3>3. CostBasis(u, o) = Volume(TradesOf(u, o))
      BY <3>1, <3>2, CostIsCosts, RecordedIsRec
    <3>4. row # NoRow => row.claimed \in BOOLEAN
      BY <3>1, PositionColumns
    <3> QED BY <3>1, <3>2, <3>3, <3>4
  <2> QED BY <2>1 DEF PositionsAgree
<1> QED BY <1>1, Invariant, PTL

(* However handlers overlap or fail, a claim is prepared (prepareClaim in     *)
(* markets.service.ts) only for a known user who bet on an outcome that won; *)
(* when all ran one after the other and to their end, and the events are of  *)
(* one market, for exactly those of them who were not paid yet.              *)
THEOREM ClaimsAreThoseOfEvents == Spec => []ClaimsFollowEvents
<1> DEFINE Bet(u) == \E e \in Named("BetPlaced"), r \in Named("MarketResolved") :
                       /\ handler[e].event.user = u
                       /\ handler[e].event.outcome \in Stored
                       /\ handler[e].event.outcome = handler[r].event.outcome
           Unpaid(u) == \A e \in Payments : handler[e].event.user # u
<1>1. ASSUME Inv, NEW u \in Users, prepareClaim(u) PROVE u \in Registered /\ Bet(u)
  <2>1. PICK o \in Outcomes : o = market.winningOutcomeIndex /\ positions[u][o] # NoRow
    BY <1>1 DEF prepareClaim, IsUnclaimed
  <2>2. PICK r \in Named("MarketResolved") : o = handler[r].event.outcome
    BY <1>1, <2>1, MarketEventsAssumption DEF Inv, WinnersOK, IsNamed
  <2>3. PICK e \in Named("BetPlaced") :
          /\ IsKnown(handler[e].event)
          /\ handler[e].event.user = u /\ handler[e].event.outcome = o
    BY <1>1, <2>1 DEF Inv, WinnersOK
  <2> QED BY <2>2, <2>3 DEF IsKnown
<1>2. ASSUME Inv, WentWell(Events), FromOneMarket(Emitted), NEW u \in Registered
      PROVE  prepareClaim(u) <=> Bet(u) /\ Unpaid(u)
  <2>2. u \in Users
    BY MarketEventsAssumption
  <2>3. /\ Apart(Events, handler, overlaps)
        /\ \A e \in Emitted : e \in Events /\ handler[e].pc = "done"
    BY <1>2, WentWellIsApart DEF Emitted
  <2>4. ASSUME NEW o \in Outcomes
        PROVE  /\ positions[u][o] = NoRow <=> Of(trades, u, o) = {}
               /\ positions[u][o] # NoRow =>
                    (~positions[u][o].claimed <=> Unpaid(u))
    <3>1. WentWell(Touching(u, o)) /\ FromOneMarket(Touching(u, o))
      BY <1>2 DEF WentWell, FromOneMarket, Touching, Emitted
    <3>2. PICK row \in Position \union {NoRow} : row = positions[u][o]
      BY <1>2, <2>2 DEF Inv, Inv1, TypeOK
    <3>3. /\ row = NoRow <=> Of(trades, u, o) = {}
          /\ row # NoRow => (row.claimed = TRUE <=> Touching(u, o) \cap Payments # {})
      BY <1>2, <2>2, <3>1, <3>2, RowWentWell
    <3>4. Touching(u, o) \cap Payments # {} <=> ~Unpaid(u)
      BY DEF Touching, Payments
    <3>5. row # NoRow => row.claimed \in BOOLEAN
      BY <3>2, PositionColumns
    <3> HIDE DEF Unpaid
    <3> QED BY <3>2, <3>3, <3>4, <3>5
  <2>5. /\ market.status = "RESOLVED" =>
             \E r \in Named("MarketResolved") : market.winningOutcomeIndex = handler[r].event.outcome
        /\ \A r \in Named("MarketResolved") :
             market.status = "RESOLVED" /\ market.winningOutcomeIndex = handler[r].event.outcome
    <3>1. \A r \in Named("MarketResolved") : handler[r].pc = "done"
      BY <2>3 DEF Named
    <3>2. \A r, q \in Named("MarketResolved") : r = q
      <4>1. \A r \in Named("MarketResolved") : r \in Emitted /\ handler[r].event.name # "AdminRequest"
        BY DEF Named
      <4>2. \A r, q \in Named("MarketResolved") : SameMarket(r, q)
        BY <1>2, <4>1 DEF FromOneMarket, SameMarket
      <4> QED BY <1>2, <4>2 DEF Inv, EmissionOK
    <3>3. /\ market.status = "RESOLVED" =>
               \E r \in Named("MarketResolved") : market.winningOutcomeIndex = handler[r].event.outcome
          /\ \A r \in Named("MarketResolved") : market.status = "RESOLVED"
      BY <1>2, <2>3, <3>1 DEF Inv, Resolved
    <3> QED BY <3>2, <3>3
  <2>6. ASSUME NEW e \in Emitted
        PROVE  /\ trades[e] # NoRow <=> handler[e].event.name = "BetPlaced" /\ IsKnown(handler[e].event)
               /\ trades[e] # NoRow =>
                    trades[e].user = handler[e].event.user /\ trades[e].outcome = handler[e].event.outcome
    <3>1. e \in Events /\ handler[e].pc = "done"
      BY <2>3
    <3>2. PICK h \in Handler, tr \in Trade \union {NoRow} :
            h = handler[e] /\ tr = trades[e] /\ Fits(h, positions, tr)
      BY <1>2, <3>1, HandlerAt DEF Inv
    <3> QED BY <3>1, <3>2 DEF Fits
  <2>7. ASSUME NEW o \in Outcomes
        PROVE  Of(trades, u, o) # {} <=>
                 \E e \in Named("BetPlaced") :
                    handler[e].event.user = u /\ handler[e].event.outcome = o /\ o \in Stored
    <3>1. ASSUME NEW e \in Of(trades, u, o)
          PROVE  /\ e \in Named("BetPlaced") /\ handler[e].event.user = u
                 /\ handler[e].event.outcome = o /\ o \in Stored
      <4>1. e \in Events /\ trades[e] # NoRow /\ trades[e].user = u /\ trades[e].outcome = o
        BY <3>1 DEF Of, On, Rec
      <4>2. e \in Emitted
        <5>1. Fits(handler[e], positions, trades[e])
          BY <1>2, <4>1 DEF Inv, Inv1, HandlersOK
        <5> QED BY <4>1, <5>1 DEF Fits, AfterTrade, Emitted
      <4> QED BY <2>6, <4>1, <4>2 DEF Named, IsKnown
    <3>2. ASSUME NEW e \in Named("BetPlaced"), handler[e].event.user = u,
                 handler[e].event.outcome = o, o \in Stored
          PROVE  e \in Of(trades, u, o)
      <4>1. e \in Emitted /\ e \in Events /\ handler[e].event.name = "BetPlaced"
        BY <3>2 DEF Named, Emitted
      <4>2. trades[e] # NoRow /\ trades[e].user = u /\ trades[e].outcome = o
        BY <2>6, <3>2, <4>1 DEF IsKnown
      <4> QED BY <4>1, <4>2 DEF Of, On, Rec
    <3> QED BY <3>1, <3>2
  <2>8. ASSUME prepareClaim(u) PROVE Bet(u) /\ Unpaid(u)
    <3>1. PICK o \in Outcomes : positions[u][o] # NoRow /\ ~positions[u][o].claimed
      BY <2>8 DEF prepareClaim, IsUnclaimed
    <3>2. Unpaid(u)
      <4> HIDE DEF Unpaid
      <4> QED BY <2>4, <3>1
    <3>3. Bet(u)
      <4> HIDE DEF Bet
      <4> QED BY <1>1, <1>2, <2>2, <2>8
    <3> QED BY <3>2, <3>3
  <2>9. ASSUME Bet(u), Unpaid(u) PROVE prepareClaim(u)
    <3>1. PICK e \in Named("BetPlaced"), r \in Named("MarketResolved") :
             /\ handler[e].event.user = u
             /\ handler[e].event.outcome \in Stored
             /\ handler[e].event.outcome = handler[r].event.outcome
      BY <2>9
    <3>2. PICK o \in Outcomes : o = handler[e].event.outcome
      BY <3>1, MarketEventsAssumption
    <3>3. market.status = "RESOLVED" /\ market.winningOutcomeIndex = o
      BY <2>5, <3>1, <3>2
    <3>4. Of(trades, u, o) # {}
      BY <2>7, <3>1, <3>2
    <3>5. positions[u][o] # NoRow /\ ~positions[u][o].claimed
      <4> HIDE DEF Unpaid
      <4> QED BY <2>4, <2>9, <3>4
    <3> QED BY <3>2, <3>3, <3>5 DEF prepareClaim, IsUnclaimed
  <2> HIDE DEF Bet, Unpaid
  <2> QED BY <2>8, <2>9
<1>3. ASSUME Inv PROVE ClaimsFollowEvents
  <2>1. \A u \in Users : prepareClaim(u) => u \in Registered /\ Bet(u)
    <3> HIDE DEF Bet
    <3> QED BY <1>1, <1>3
  <2>2. WentWell(Events) /\ FromOneMarket(Emitted) =>
          \A u \in Registered : prepareClaim(u) <=> Bet(u) /\ Unpaid(u)
    <3> HIDE DEF Bet, Unpaid
    <3> QED BY <1>2, <1>3
  <2> QED BY <2>1, <2>2 DEF ClaimsFollowEvents, Named
<1> HIDE DEF Bet, Unpaid
<1> QED BY <1>3, Invariant, PTL

-----------------------------------------------------------------------------
(* EventListener: records of the events that come in.                        *)

Active == {"running", "sleeping"}

Known == {"running", "sleeping", "processed", "failed"}

\* An event alone with its key has a record that says how often it was tried.
AloneOK(t) ==
  task[t].pc \in Active /\ IsAlone(t) =>
    /\ task[t].key \in DOMAIN records
    /\ records[task[t].key].processed = FALSE
    /\ records[task[t].key].retries =
         IF task[t].pc = "running" THEN task[t].attempt ELSE task[t].attempt + 1

\* A record was made for an event, is processed because one was, and has failed because one was tried
\* that often.
RecordOK(key) ==
  /\ \E t \in With(Known) : task[t].key = key
  /\ records[key].processed = TRUE => \E t \in With({"processed"}) : task[t].key = key
  /\ IsFailed(records[key]) =>
       \E t \in With({"running", "sleeping", "failed"}) :
         task[t].key = key /\ task[t].attempt + 1 >= MAX_RETRIES

\* The inductive invariant.
RecordsInv ==
  /\ ListenerTypeOK
  /\ IsFiniteSet({t \in Tasks : task[t] # Waiting})
  /\ \A t \in Tasks : task[t].pc = "sleeping" => CanRetry(task[t].attempt)
  /\ \A t \in Tasks : AloneOK(t)
  /\ \A key \in DOMAIN records : RecordOK(key)
\* A call of processEvent that has begun.
Called ==
  [pc : {"running", "sleeping", "processed", "failed", "lost"}, key : Keys,
   attempt : 0 .. MAX_RETRIES]

RecordType == [processed : BOOLEAN, retries : 0 .. MAX_RETRIES + 1]

LEMMA TaskKinds ==
  ASSUME NEW n \in Task
  PROVE  (n = Waiting /\ n.pc = "waiting") \/ (n \in Called /\ n # Waiting)
<1>1. CASE n = Waiting
  BY <1>1 DEF Waiting
<1>2. CASE n # Waiting
  BY <1>2 DEF Task, Called
<1> QED BY <1>1, <1>2

LEMMA CalledIsTask ==
  ASSUME NEW n \in Called
  PROVE  n \in Task /\ n # Waiting /\ n.pc # "waiting" /\ n.key \in Keys /\ n.attempt \in Nat
<1>1. MAX_RETRIES \in Nat
  BY EventListenerAssumption
<1> QED BY <1>1 DEF Called, Task, Waiting

LEMMA CallGoesOn ==
  ASSUME NEW old \in Called, NEW pc \in {"running", "sleeping", "processed", "failed", "lost"},
         NEW n, n = [old EXCEPT !.pc = pc]
  PROVE  n \in Called /\ n.pc = pc /\ n.key = old.key /\ n.attempt = old.attempt
BY DEF Called

LEMMA PutFacts ==
  ASSUME NEW key, NEW record, Put(key, record)
  PROVE  /\ DOMAIN records' = DOMAIN records \union {key}
         /\ records'[key] = record
         /\ \A k \in DOMAIN records : k # key => records'[k] = records[k]
BY DEF Put

LEMMA NoteFacts ==
  ASSUME NEW key, NEW record, Note(key, record)
  PROVE  /\ DOMAIN records' = DOMAIN records
         /\ key \in DOMAIN records => records'[key] = record
         /\ \A k \in DOMAIN records : k # key => records'[k] = records[k]
<1>1. CASE key \in DOMAIN records
  <2>1. Put(key, record)
    BY <1>1 DEF Note
  <2> QED BY <1>1, <2>1, PutFacts
<1>2. CASE key \notin DOMAIN records
  BY <1>2 DEF Note
<1> QED BY <1>1, <1>2

LEMMA RecordTypes ==
  ASSUME ListenerTypeOK, NEW key \in DOMAIN records
  PROVE  records[key] \in RecordType /\ key \in Keys
BY DEF ListenerTypeOK, RecordType

-----------------------------------------------------------------------------
(* One call of processEvent goes on. *)

LEMMA OneTaskMoves ==
  ASSUME RecordsInv, NEW t \in Tasks, NEW n \in Called, task' = [task EXCEPT ![t] = n],
         task[t] = Waiting \/ task[t].key = n.key,
         ListenerTypeOK',
         n.pc = "sleeping" => CanRetry(n.attempt),
         \A k : k # n.key => (k \in DOMAIN records' <=> k \in DOMAIN records),
         \A k \in DOMAIN records : k # n.key => records'[k] = records[k],
         AloneOK(t)',
         n.key \in DOMAIN records' => RecordOK(n.key)'
  PROVE  RecordsInv'
<1>1. /\ task'[t] = n
      /\ \A s \in Tasks : s # t => task'[s] = task[s]
      /\ \A s \in Tasks : task[s] = Waiting => task[s].pc = "waiting"
  BY TaskKinds DEF RecordsInv, ListenerTypeOK
<1>2. n # Waiting
  BY CalledIsTask
<1>3. IsFiniteSet({s \in Tasks : task'[s] # Waiting})
  <2>1. {s \in Tasks : task'[s] # Waiting} \subseteq {s \in Tasks : task[s] # Waiting} \union {t}
    BY <1>1
  <2>2. IsFiniteSet({s \in Tasks : task[s] # Waiting} \union {t})
    BY FS_AddElement DEF RecordsInv
  <2> QED BY <2>1, <2>2, FS_Subset
<1>4. \A s \in Tasks : task'[s].pc = "sleeping" => CanRetry(task'[s].attempt)
  BY <1>1 DEF RecordsInv
<1>5. ASSUME NEW s \in Tasks PROVE AloneOK(s)'
  <2>1. CASE s # t
    <3> SUFFICES ASSUME task'[s].pc \in Active, IsAlone(s)'
                 PROVE  (/\ task[s].key \in DOMAIN records
                         /\ records[task[s].key].processed = FALSE
                         /\ records[task[s].key].retries =
                              IF task[s].pc = "running" THEN task[s].attempt ELSE task[s].attempt + 1)'
      BY DEF AloneOK
    <3>1. n.key # task[s].key
      BY <1>1, <1>2, <2>1 DEF IsAlone
    <3>2. IsAlone(s)
      <4> SUFFICES ASSUME NEW other \in Tasks \ {s}
                   PROVE  task[other] = Waiting \/ task[other].key # task[s].key
        BY DEF IsAlone
      <4>1. CASE other = t
        BY <3>1, <4>1
      <4>2. CASE other # t
        BY <1>1, <2>1, <4>2 DEF IsAlone
      <4> QED BY <4>1, <4>2
    <3>3. AloneOK(s) /\ task[s].pc \in Active /\ task'[s] = task[s]
      BY <1>1, <2>1 DEF RecordsInv
    <3> QED BY <3>1, <3>2, <3>3 DEF AloneOK
  <2>2. CASE s = t
    BY <2>2
  <2> QED BY <2>1, <2>2
<1>6. ASSUME NEW key \in DOMAIN records' PROVE RecordOK(key)'
  <2>1. CASE key = n.key
    BY <2>1
  <2>2. CASE key # n.key
    <3>1. key \in DOMAIN records /\ records'[key] = records[key] /\ RecordOK(key)
      BY <1>6, <2>2 DEF RecordsInv
    <3>2. \A s \in Tasks : task[s].key = key /\ task[s].pc # "waiting" => task'[s] = task[s]
      BY <1>1, <2>2
    <3>3. \A S : "waiting" \notin S =>
            \A s \in With(S) : task[s].key = key => s \in With(S)' /\ task'[s] = task[s]
      BY <3>2 DEF With
    <3>4. \E s \in With(Known)' : task'[s].key = key
      <4>1. PICK s \in With(Known) : task[s].key = key
        BY <3>1 DEF RecordOK
      <4>2. "waiting" \notin Known
        BY DEF Known
      <4> QED BY <3>3, <4>1, <4>2
    <3>5. records'[key].processed = TRUE => \E s \in With({"processed"})' : task'[s].key = key
      <4> SUFFICES ASSUME records'[key].processed = TRUE
                   PROVE  \E s \in With({"processed"})' : task'[s].key = key
        OBVIOUS
      <4>1. PICK s \in With({"processed"}) : task[s].key = key
        BY <3>1 DEF RecordOK
      <4> QED BY <3>3, <4>1
    <3>6. IsFailed(records'[key]) =>
            \E s \in With({"running", "sleeping", "failed"})' :
              task'[s].key = key /\ task'[s].attempt + 1 >= MAX_RETRIES
      <4> SUFFICES ASSUME IsFailed(records'[key])
                   PROVE  \E s \in With({"running", "sleeping", "failed"})' :
                            task'[s].key = key /\ task'[s].attempt + 1 >= MAX_RETRIES
        OBVIOUS
      <4>1. PICK s \in With({"running", "sleeping", "failed"}) :
              task[s].key = key /\ task[s].attempt + 1 >= MAX_RETRIES
        BY <3>1 DEF RecordOK
      <4> QED BY <3>3, <4>1
    <3> QED BY <3>4, <3>5, <3>6 DEF RecordOK, IsFailed
  <2> QED BY <2>1, <2>2
<1> QED BY <1>3, <1>4, <1>5, <1>6 DEF RecordsInv
LEMMA CallTypes ==
  ASSUME ListenerTypeOK, NEW t \in Tasks, NEW n \in Called, task' = [task EXCEPT ![t] = n],
         UNCHANGED <<startup, now>>,
         \A k \in DOMAIN records' : k \in Keys /\ records'[k] \in RecordType
  PROVE  ListenerTypeOK'
<1>1. task' \in [Tasks -> Task]
  BY CalledIsTask DEF ListenerTypeOK
<1> QED BY <1>1 DEF ListenerTypeOK, RecordType, startup

LEMMA ProcessKeeps ==
  ASSUME RecordsInv, NEW t \in Tasks, NEW name \in Names, processEvent(t, name)
  PROVE  RecordsInv'
<1>1. PICK key : key = EventKey(name)
  OBVIOUS
<1>2. PICK n : n = [pc |-> "running", key |-> key, attempt |-> 0]
  OBVIOUS
<1>3. /\ task[t] = Waiting /\ task' = [task EXCEPT ![t] = n]
      /\ Put(key, NoRecord) /\ UNCHANGED <<startup, now>>
  BY <1>1, <1>2 DEF processEvent
<1>4. MAX_RETRIES \in Nat
  BY EventListenerAssumption
<1>5. key \in Keys
  BY <1>1 DEF Keys, EventKey, RecordsInv, ListenerTypeOK
<1>6. n \in Called /\ n.pc = "running" /\ n.key = key /\ n.attempt = 0
  BY <1>2, <1>4, <1>5 DEF Called
<1>7. /\ DOMAIN records' = DOMAIN records \union {key}
      /\ records'[key] = NoRecord
      /\ \A k \in DOMAIN records : k # key => records'[k] = records[k]
  BY <1>3, PutFacts
<1>8. NoRecord \in RecordType /\ NoRecord.processed = FALSE /\ NoRecord.retries = 0
  BY <1>4 DEF NoRecord, RecordType
<1>9. ListenerTypeOK'
  BY <1>3, <1>5, <1>6, <1>7, <1>8, CallTypes, RecordTypes DEF RecordsInv
<1>10. task'[t] = n
  BY <1>3 DEF RecordsInv, ListenerTypeOK
<1>11. AloneOK(t)'
  BY <1>6, <1>7, <1>8, <1>10 DEF AloneOK
<1>12. RecordOK(key)'
  <2>1. \A S : "running" \in S => t \in With(S)'
    BY <1>6, <1>10 DEF With
  <2>2. t \in With(Known)' /\ t \in With({"running", "sleeping", "failed"})'
    BY <2>1 DEF Known
  <2>3. 0 + 1 >= MAX_RETRIES \/ ~ IsFailed(NoRecord)
    BY <1>4, <1>8 DEF IsFailed
  <2> QED BY <1>6, <1>7, <1>8, <1>10, <2>2, <2>3 DEF RecordOK, IsFailed
<1> QED BY <1>3, <1>6, <1>7, <1>9, <1>11, <1>12, OneTaskMoves

LEMMA SucceedKeeps ==
  ASSUME RecordsInv, NEW t \in Tasks, Succeed(t)
  PROVE  RecordsInv'
<1>1. PICK key : key = task[t].key
  OBVIOUS
<1>2. PICK n : n = [task[t] EXCEPT !.pc = "processed"]
  OBVIOUS
<1>3. PICK record : record = [records[key] EXCEPT !.processed = TRUE]
  OBVIOUS
<1>4. /\ task[t].pc = "running" /\ task' = [task EXCEPT ![t] = n]
      /\ Note(key, record) /\ UNCHANGED <<startup, now>>
  BY <1>1, <1>2, <1>3 DEF Succeed
<1>5. task[t] \in Called
  BY <1>4, TaskKinds DEF RecordsInv, ListenerTypeOK
<1>6. n \in Called /\ n.pc = "processed" /\ n.key = key
  BY <1>1, <1>2, <1>5, CallGoesOn
<1>7. /\ DOMAIN records' = DOMAIN records
      /\ key \in DOMAIN records => records'[key] = record
      /\ \A k \in DOMAIN records : k # key => records'[k] = records[k]
  BY <1>4, NoteFacts
<1>8. key \in DOMAIN records => record \in RecordType /\ record.processed = TRUE
  BY <1>3, RecordTypes DEF RecordsInv, RecordType
<1>9. ListenerTypeOK'
  BY <1>4, <1>6, <1>7, <1>8, CallTypes, RecordTypes DEF RecordsInv
<1>10. task'[t] = n
  BY <1>4 DEF RecordsInv, ListenerTypeOK
<1>11. AloneOK(t)'
  BY <1>6, <1>10 DEF AloneOK, Active
<1>12. key \in DOMAIN records => RecordOK(key)'
  <2>1. t \in With(Known)' /\ t \in With({"processed"})'
    BY <1>6, <1>10 DEF With, Known
  <2> QED BY <1>6, <1>7, <1>8, <1>10, <2>1 DEF RecordOK, IsFailed
<1> QED BY <1>1, <1>4, <1>6, <1>7, <1>9, <1>11, <1>12, OneTaskMoves

\* A witness that another task is for what a record says stays one.
LEMMA OthersStay ==
  ASSUME RecordsInv, NEW t \in Tasks, NEW n \in Called, task' = [task EXCEPT ![t] = n],
         task[t].pc # "processed", NEW key \in DOMAIN records, records[key].processed = TRUE
  PROVE  \E s \in With({"processed"})' : task'[s].key = key
<1>1. PICK s \in With({"processed"}) : task[s].key = key
  BY DEF RecordsInv, RecordOK
<1>2. task'[s] = task[s]
  BY <1>1 DEF With, RecordsInv, ListenerTypeOK
<1> QED BY <1>1, <1>2 DEF With

LEMMA AloneBefore ==
  ASSUME RecordsInv, NEW t \in Tasks, NEW n \in Called, task' = [task EXCEPT ![t] = n],
         n.key = task[t].key, IsAlone(t)'
  PROVE  IsAlone(t)
BY DEF IsAlone, RecordsInv, ListenerTypeOK

LEMMA ThrowKeeps ==
  ASSUME RecordsInv, NEW t \in Tasks, Throw(t)
  PROVE  RecordsInv'
<1>1. PICK key, attempt : key = task[t].key /\ attempt = task[t].attempt
  OBVIOUS
<1>2. PICK pc : pc = IF CanRetry(attempt) THEN "sleeping" ELSE "failed"
  OBVIOUS
<1>3. PICK n : n = [task[t] EXCEPT !.pc = pc]
  OBVIOUS
<1>4. PICK record : record = [records[key] EXCEPT !.retries = attempt + 1]
  OBVIOUS
<1>5. /\ task[t].pc = "running" /\ task' = [task EXCEPT ![t] = n]
      /\ Note(key, record) /\ UNCHANGED <<startup, now>>
  BY <1>1, <1>2, <1>3, <1>4 DEF Throw
<1>6. task[t] \in Called
  BY <1>5, TaskKinds DEF RecordsInv, ListenerTypeOK
<1>7. pc \in {"sleeping", "failed"}
  BY <1>2
<1>8. n \in Called /\ n.pc = pc /\ n.key = key /\ n.attempt = attempt
  BY <1>1, <1>3, <1>6, <1>7, CallGoesOn
<1>9. MAX_RETRIES \in Nat /\ attempt \in 0 .. MAX_RETRIES /\ attempt + 1 \in 0 .. MAX_RETRIES + 1
  BY <1>1, <1>6, EventListenerAssumption DEF Called
<1>10. /\ DOMAIN records' = DOMAIN records
       /\ key \in DOMAIN records => records'[key] = record
       /\ \A k \in DOMAIN records : k # key => records'[k] = records[k]
  BY <1>5, NoteFacts
<1>11. key \in DOMAIN records =>
         /\ record \in RecordType /\ record.processed = records[key].processed
         /\ record.retries = attempt + 1
  BY <1>4, <1>9, RecordTypes DEF RecordsInv, RecordType
<1>12. ListenerTypeOK'
  BY <1>5, <1>8, <1>10, <1>11, CallTypes, RecordTypes DEF RecordsInv
<1>13. task'[t] = n
  BY <1>5 DEF RecordsInv, ListenerTypeOK
<1>14. AloneOK(t)'
  <2> SUFFICES ASSUME task'[t].pc \in Active, IsAlone(t)'
               PROVE  (/\ task[t].key \in DOMAIN records
                       /\ records[task[t].key].processed = FALSE
                       /\ records[task[t].key].retries =
                            IF task[t].pc = "running" THEN task[t].attempt ELSE task[t].attempt + 1)'
    BY DEF AloneOK
  <2>1. IsAlone(t)
    BY <1>1, <1>5, <1>8, AloneBefore
  <2>2. key \in DOMAIN records /\ records[key].processed = FALSE
    BY <1>1, <1>5, <2>1 DEF RecordsInv, AloneOK, Active
  <2>3. n.pc # "running"
    BY <1>7, <1>8
  <2> QED BY <1>8, <1>10, <1>11, <1>13, <2>2, <2>3
<1>15. key \in DOMAIN records => RecordOK(key)'
  <2> SUFFICES ASSUME key \in DOMAIN records PROVE RecordOK(key)'
    OBVIOUS
  <2>1. t \in With(Known)' /\ t \in With({"running", "sleeping", "failed"})'
    BY <1>7, <1>8, <1>13 DEF With, Known
  <2>2. records'[key].processed = TRUE => \E s \in With({"processed"})' : task'[s].key = key
    BY <1>5, <1>8, <1>10, <1>11, OthersStay
  <2>3. IsFailed(records'[key]) => n.attempt + 1 >= MAX_RETRIES
    BY <1>8, <1>10, <1>11 DEF IsFailed
  <2> QED BY <1>8, <1>13, <2>1, <2>2, <2>3 DEF RecordOK, IsFailed
<1>16. n.pc = "sleeping" => CanRetry(n.attempt)
  BY <1>2, <1>8
<1> QED BY <1>1, <1>5, <1>8, <1>10, <1>12, <1>14, <1>15, <1>16, OneTaskMoves

LEMMA WakeKeeps ==
  ASSUME RecordsInv, NEW t \in Tasks, Wake(t)
  PROVE  RecordsInv'
<1>1. PICK key, attempt : key = task[t].key /\ attempt = task[t].attempt
  OBVIOUS
<1>2. task[t].pc = "sleeping"
  BY DEF Wake
<1>3. task[t] \in Called
  BY <1>2, TaskKinds DEF RecordsInv, ListenerTypeOK
<1>4. MAX_RETRIES \in Nat /\ attempt \in 0 .. MAX_RETRIES /\ attempt < MAX_RETRIES
  BY <1>1, <1>2, <1>3, EventListenerAssumption DEF Called, RecordsInv, CanRetry
<1>5. PICK n : n = [task[t] EXCEPT !.pc = "running", !.attempt = attempt + 1]
  OBVIOUS
<1>6. n \in Called /\ n.pc = "running" /\ n.key = key /\ n.attempt = attempt + 1
  <2>1. PICK m : m = [task[t] EXCEPT !.pc = "running"]
    OBVIOUS
  <2>2. m \in Called /\ m.pc = "running" /\ m.key = key /\ m.attempt = attempt
    BY <1>1, <1>3, <2>1, CallGoesOn
  <2>3. n = [m EXCEPT !.attempt = attempt + 1]
    BY <1>5, <2>1
  <2>4. attempt + 1 \in 0 .. MAX_RETRIES
    BY <1>4
  <2> QED BY <2>2, <2>3, <2>4 DEF Called
<1>7. task' = [task EXCEPT ![t] = n] /\ UNCHANGED <<startup, records, now>>
  BY <1>1, <1>5 DEF Wake, NextAttempt
<1>8. ListenerTypeOK'
  BY <1>6, <1>7, CallTypes, RecordTypes DEF RecordsInv
<1>9. task'[t] = n
  BY <1>7 DEF RecordsInv, ListenerTypeOK
<1>10. AloneOK(t)'
  <2> SUFFICES ASSUME IsAlone(t)'
               PROVE  (/\ task[t].key \in DOMAIN records
                       /\ records[task[t].key].processed = FALSE
                       /\ records[task[t].key].retries =
                            IF task[t].pc = "running" THEN task[t].attempt ELSE task[t].attempt + 1)'
    BY DEF AloneOK
  <2>1. IsAlone(t)
    BY <1>1, <1>6, <1>7, AloneBefore
  <2>2. /\ key \in DOMAIN records /\ records[key].processed = FALSE
        /\ records[key].retries = attempt + 1
    BY <1>1, <1>2, <2>1 DEF RecordsInv, AloneOK, Active
  <2> QED BY <1>6, <1>7, <1>9, <2>2
<1>11. key \in DOMAIN records => RecordOK(key)'
  <2> SUFFICES ASSUME key \in DOMAIN records PROVE RecordOK(key)'
    OBVIOUS
  <2>1. t \in With(Known)' /\ t \in With({"running", "sleeping", "failed"})'
    BY <1>6, <1>9 DEF With, Known
  <2>2. records'[key].processed = TRUE => \E s \in With({"processed"})' : task'[s].key = key
    BY <1>2, <1>6, <1>7, OthersStay
  <2>3. IsFailed(records'[key]) =>
          \E s \in With({"running", "sleeping", "failed"})' :
            task'[s].key = key /\ task'[s].attempt + 1 >= MAX_RETRIES
    <3> SUFFICES ASSUME IsFailed(records[key])
                 PROVE  \E s \in With({"running", "sleeping", "failed"})' :
                          task'[s].key = key /\ task'[s].attempt + 1 >= MAX_RETRIES
      BY <1>7 DEF IsFailed
    <3>1. PICK s \in With({"running", "sleeping", "failed"}) :
            task[s].key = key /\ task[s].attempt + 1 >= MAX_RETRIES
      BY DEF RecordsInv, RecordOK
    <3>2. CASE s = t
      BY <1>1, <1>4, <1>6, <1>9, <2>1, <3>1, <3>2
    <3>3. CASE s # t
      <4>1. task'[s] = task[s]
        BY <1>7, <3>1, <3>3 DEF With, RecordsInv, ListenerTypeOK
      <4> QED BY <3>1, <4>1 DEF With
    <3> QED BY <3>2, <3>3
  <2> QED BY <1>6, <1>9, <2>1, <2>2, <2>3 DEF RecordOK, IsFailed
<1> QED BY <1>1, <1>6, <1>7, <1>8, <1>10, <1>11, OneTaskMoves
-----------------------------------------------------------------------------
(* The other steps. *)

LEMMA DownKeeps ==
  ASSUME RecordsInv, Down
  PROVE  RecordsInv'
<1>1. /\ process' = "down" /\ UNCHANGED <<contracts, listeners, rejected, subscribed, now>>
      /\ DOMAIN records' = {} /\ task' = Lost
  BY DEF Down
<1>2. ASSUME NEW t \in Tasks
      PROVE  /\ task'[t] \in Task /\ task'[t].pc \notin Active
             /\ task[t] = Waiting => task'[t] = Waiting
  <2>1. CASE task[t].pc \in Active
    <3>1. task[t] \in Called /\ task[t] # Waiting
      BY <2>1, TaskKinds DEF RecordsInv, ListenerTypeOK, Active
    <3>2. PICK n : n = [task[t] EXCEPT !.pc = "lost"]
      OBVIOUS
    <3>3. n \in Called /\ n.pc = "lost"
      BY <3>1, <3>2, CallGoesOn
    <3>4. task'[t] = n
      BY <1>1, <2>1, <3>2 DEF Lost, Active
    <3> QED BY <3>1, <3>3, <3>4, CalledIsTask DEF Active
  <2>2. CASE task[t].pc \notin Active
    <3>1. task'[t] = task[t]
      BY <1>1, <2>2 DEF Lost, Active
    <3> QED BY <2>2, <3>1 DEF RecordsInv, ListenerTypeOK
  <2> QED BY <2>1, <2>2
<1>3. task' \in [Tasks -> Task]
  BY <1>1, <1>2 DEF Lost
<1>4. ListenerTypeOK'
  BY <1>1, <1>3 DEF RecordsInv, ListenerTypeOK
<1>5. IsFiniteSet({t \in Tasks : task'[t] # Waiting})
  <2>1. {t \in Tasks : task'[t] # Waiting} \subseteq {t \in Tasks : task[t] # Waiting}
    BY <1>2
  <2> QED BY <2>1, FS_Subset DEF RecordsInv
<1>6. \A t \in Tasks : AloneOK(t)' /\ task'[t].pc # "sleeping"
  BY <1>2 DEF AloneOK, Active
<1> QED BY <1>1, <1>4, <1>5, <1>6 DEF RecordsInv

LEMMA ClearKeeps ==
  ASSUME RecordsInv, NEW cutoff, clearOldEvents(cutoff)
  PROVE  RecordsInv'
<1>1. /\ DOMAIN records' = {k \in DOMAIN records : ~IsOld(k, cutoff)}
      /\ \A k \in DOMAIN records' : records'[k] = records[k]
      /\ UNCHANGED <<startup, task, now>>
  BY DEF clearOldEvents
<1>2. ListenerTypeOK'
  BY <1>1 DEF RecordsInv, ListenerTypeOK, startup
<1>3. \A t \in Tasks : AloneOK(t)'
  BY <1>1 DEF RecordsInv, AloneOK, IsAlone, IsOld
<1>4. \A k \in DOMAIN records' : RecordOK(k)'
  BY <1>1 DEF RecordsInv, RecordOK, With, IsFailed
<1> QED BY <1>1, <1>2, <1>3, <1>4 DEF RecordsInv

LEMMA NothingOfEvents ==
  ASSUME RecordsInv, ListenerTypeOK', UNCHANGED <<records, task>>
  PROVE  RecordsInv'
<1>1. \A t \in Tasks : AloneOK(t)'
  BY DEF RecordsInv, AloneOK, IsAlone
<1>2. \A k \in DOMAIN records' : RecordOK(k)'
  BY DEF RecordsInv, RecordOK, With, IsFailed
<1> QED BY <1>1, <1>2 DEF RecordsInv

\* The steps of the start and the end of a process, and of time.
LifeStep ==
  \/ ContractsAnswer
  \/ ContractsFail
  \/ ListenersAnswer
  \/ ListenersFail
  \/ Listen
  \/ Restart
  \/ listenToSpecificShareEvents
  \/ stopListeners
  \/ Tick

LEMMA LifeTypes ==
  ASSUME ListenerTypeOK, LifeStep
  PROVE  ListenerTypeOK' /\ UNCHANGED <<records, task>>
<1>1. DOMAIN Listened = {"factory", "market", "collector", "share"}
  BY DEF Listened
<1>2. Deployed \subseteq DOMAIN Listened /\ {"share"} \subseteq DOMAIN Listened
  BY <1>1 DEF Deployed
<1>3. ASSUME ContractsAnswer \/ ContractsFail PROVE ListenerTypeOK' /\ UNCHANGED <<records, task>>
  BY <1>3 DEF ListenerTypeOK, ContractsAnswer, ContractsFail, ContractsError, Connecting,
              AfterBlockNumber
<1>4. ASSUME NEW some \in SUBSET DOMAIN Listened, Subscribe(some)
      PROVE  rejected' \in BOOLEAN /\ (subscribed \subseteq DOMAIN Listened => subscribed' \subseteq DOMAIN Listened)
  BY <1>4 DEF Subscribe
<1>5. ASSUME ListenersAnswer PROVE ListenerTypeOK' /\ UNCHANGED <<records, task>>
  <2>1. CASE Subscribe(Deployed)
    BY <1>2, <1>4, <1>5, <2>1 DEF ListenerTypeOK, ListenersAnswer
  <2>2. CASE UNCHANGED <<rejected, subscribed>>
    BY <1>5, <2>2 DEF ListenerTypeOK, ListenersAnswer
  <2> QED BY <1>5, <2>1, <2>2 DEF ListenersAnswer
<1>6. ASSUME listenToSpecificShareEvents PROVE ListenerTypeOK' /\ UNCHANGED <<records, task>>
  BY <1>2, <1>4, <1>6 DEF ListenerTypeOK, listenToSpecificShareEvents
<1>7. ASSUME ListenersFail \/ Listen \/ Restart \/ stopListeners
      PROVE  ListenerTypeOK' /\ UNCHANGED <<records, task>>
  BY <1>7 DEF ListenerTypeOK, ListenersFail, Listen, Restart, Starting, stopListeners
<1>8. ASSUME Tick PROVE ListenerTypeOK' /\ UNCHANGED <<records, task>>
  <2>1. MaxTime \in Nat
    BY EventListenerAssumption
  <2>2. now' \in 0 .. MaxTime
    BY <1>8, <2>1 DEF ListenerTypeOK, Tick
  <2> QED BY <1>8, <2>2 DEF ListenerTypeOK, Tick, startup
<1> QED BY <1>3, <1>5, <1>6, <1>7, <1>8 DEF LifeStep

LEMMA InitRecords ==
  ASSUME ListenerInit
  PROVE  RecordsInv
<1>1. MaxTime \in Nat
  BY EventListenerAssumption
<1>2. DOMAIN records = {} /\ (\A t \in Tasks : task[t] = Waiting) /\ Waiting.pc = "waiting"
  BY DEF ListenerInit, Waiting
<1>3. ListenerTypeOK
  <2>1. task \in [Tasks -> Task]
    BY DEF ListenerInit, Task
  <2>2. DOMAIN records \subseteq Keys /\ now \in 0 .. MaxTime
    BY <1>1, <1>2 DEF ListenerInit
  <2> QED BY <1>2, <2>1, <2>2 DEF ListenerInit, ListenerTypeOK
<1>4. {t \in Tasks : task[t] # Waiting} = {}
  BY <1>2
<1>5. IsFiniteSet({t \in Tasks : task[t] # Waiting})
  BY <1>4, FS_EmptySet
<1>6. \A t \in Tasks : AloneOK(t) /\ task[t].pc # "sleeping"
  BY <1>2 DEF AloneOK, Active
<1> QED BY <1>2, <1>3, <1>5, <1>6 DEF RecordsInv

LEMMA NextKeepsRecords ==
  ASSUME RecordsInv, [ListenerNext]_listenerVars
  PROVE  RecordsInv'
<1>1. ASSUME LifeStep PROVE RecordsInv'
  BY <1>1, LifeTypes, NothingOfEvents DEF RecordsInv
<1>2. ASSUME Crash \/ Stop PROVE RecordsInv'
  BY <1>2, DownKeeps DEF Crash, Stop
<1>3. CASE UNCHANGED listenerVars
  <2>1. ListenerTypeOK'
    BY <1>3 DEF listenerVars, RecordsInv, ListenerTypeOK
  <2> QED BY <1>3, <2>1, NothingOfEvents DEF listenerVars
<1> QED BY <1>1, <1>2, <1>3, ProcessKeeps, SucceedKeeps, ThrowKeeps, WakeKeeps, ClearKeeps
        DEF ListenerNext, LifeStep

-----------------------------------------------------------------------------
(* What the statistics count. *)

\* Keys that events have are no more than the events.
LEMMA NoMoreThanEvents ==
  ASSUME RecordsInv, NEW W \in SUBSET {t \in Tasks : task[t] # Waiting}, NEW K,
         \A key \in K : \E t \in W : task[t].key = key
  PROVE  Cardinality(K) <= Cardinality(W)
<1> DEFINE f == [t \in W |-> task[t].key]
           T == {task[t].key : t \in W}
<1>1. IsFiniteSet(W)
  BY FS_Subset DEF RecordsInv
<1>2. f \in Surjection(W, T)
  BY DEF Surjection
<1>3. IsFiniteSet(T) /\ Cardinality(T) <= Cardinality(W)
  BY <1>1, <1>2, FS_Surjection
<1>4. K \subseteq T
  OBVIOUS
<1>5. Cardinality(K) <= Cardinality(T) /\ IsFiniteSet(K)
  BY <1>3, <1>4, FS_Subset
<1>6. Cardinality(K) \in Nat /\ Cardinality(T) \in Nat /\ Cardinality(W) \in Nat
  BY <1>1, <1>3, <1>5, FS_CardinalityType
<1> HIDE DEF T
<1> QED BY <1>3, <1>5, <1>6

LEMMA RecordsAgree ==
  ASSUME RecordsInv
  PROVE  RecordsFollowEvents
<1>1. \A S : "waiting" \notin S => With(S) \in SUBSET {t \in Tasks : task[t] # Waiting}
  BY DEF With, Waiting
<1>2. TotalEvents <= Cardinality(With({"running", "sleeping", "processed", "failed"}))
  <2>1. \A key \in DOMAIN records :
          \E t \in With({"running", "sleeping", "processed", "failed"}) : task[t].key = key
    BY DEF RecordsInv, RecordOK, Known
  <2> QED BY <1>1, <2>1, NoMoreThanEvents DEF TotalEvents
<1>3. ProcessedEvents <= Cardinality(With({"processed"}))
  <2>1. \A key \in DOMAIN records : records[key].processed \in BOOLEAN
    BY RecordTypes DEF RecordsInv, RecordType
  <2>2. \A key \in {k \in DOMAIN records : records[k].processed} :
          \E t \in With({"processed"}) : task[t].key = key
    BY <2>1 DEF RecordsInv, RecordOK
  <2> QED BY <1>1, <2>2, NoMoreThanEvents DEF ProcessedEvents
<1>4. FailedEvents <=
        Cardinality({t \in With({"running", "sleeping", "failed"}) :
                       task[t].attempt + 1 >= MAX_RETRIES})
  <2> DEFINE W == {t \in With({"running", "sleeping", "failed"}) : task[t].attempt + 1 >= MAX_RETRIES}
  <2>1. W \in SUBSET {t \in Tasks : task[t] # Waiting}
    BY <1>1
  <2>2. \A key \in {k \in DOMAIN records : IsFailed(records[k])} : \E t \in W : task[t].key = key
    BY DEF RecordsInv, RecordOK
  <2> HIDE DEF W
  <2>3. FailedEvents <= Cardinality(W)
    BY <2>1, <2>2, NoMoreThanEvents DEF FailedEvents
  <2> QED BY <2>3 DEF W
<1>5. \A t \in With({"running", "sleeping"}) : IsAlone(t) =>
        /\ task[t].key \in DOMAIN records
        /\ ~records[task[t].key].processed
        /\ records[task[t].key].retries =
             IF task[t].pc = "running" THEN task[t].attempt ELSE task[t].attempt + 1
  BY DEF RecordsInv, AloneOK, Active, With
<1> QED BY <1>2, <1>3, <1>4, <1>5 DEF RecordsFollowEvents

\* The inductive invariant: every record has events with its key that account for it.
THEOREM RecordsInvariance == ListenerSpec => []RecordsInv
<1>1. ListenerInit => RecordsInv
  BY InitRecords
<1>2. RecordsInv /\ [ListenerNext]_listenerVars => RecordsInv'
  BY NextKeepsRecords
<1> QED BY <1>1, <1>2, PTL DEF ListenerSpec

\* The record of an event alone with its key says what became of it, and the statistics count
\* no event that did not come in, was not processed or was not tried that often.
THEOREM RecordsAlwaysFollow == ListenerSpec => []RecordsFollowEvents
<1>1. RecordsInv => RecordsFollowEvents
  BY RecordsAgree
<1> QED BY <1>1, RecordsInvariance, PTL

-----------------------------------------------------------------------------
(* The start.  A hook of the contracts that failed has left a rejection      *)
(* open, which keeps the process from serving; that is what makes "ready" of *)
(* the end of that hook.                                                     *)
StartInv ==
  /\ ServesWithContracts
  /\ contracts \in {"getNetwork", "getBlockNumber", "getBalance", "ready", "failed"}
  /\ contracts = "failed" => rejected

LEMMA StartKeeps ==
  ASSUME StartInv, [ListenerNext]_listenerVars
  PROVE  StartInv'
<1>1. ASSUME UNCHANGED startup PROVE StartInv'
  BY <1>1 DEF startup, StartInv, ServesWithContracts
<1>2. ASSUME \/ \E t \in Tasks : \/ \E name \in Names : processEvent(t, name)
                                \/ Succeed(t) \/ Throw(t) \/ Wake(t)
             \/ \E cutoff \in 0 .. now : clearOldEvents(cutoff)
             \/ Tick
             \/ UNCHANGED listenerVars
      PROVE  UNCHANGED startup
  BY <1>2 DEF processEvent, Succeed, Throw, Wake, clearOldEvents, Tick, listenerVars, startup
<1>3. ASSUME ContractsAnswer \/ ContractsFail PROVE StartInv'
  <2>1. contracts # "ready" /\ contracts # "failed"
    BY <1>3 DEF ContractsAnswer, ContractsFail, Connecting
  <2>2. CASE ContractsAnswer
    <3>1. contracts' \in {"getBlockNumber", "getBalance", "ready"}
      BY <2>2 DEF ContractsAnswer, Connecting, AfterBlockNumber
    <3> QED BY <2>1, <2>2, <3>1 DEF ContractsAnswer, StartInv, ServesWithContracts
  <2>3. CASE ContractsFail
    BY <2>1, <2>3 DEF ContractsFail, ContractsError, StartInv, ServesWithContracts
  <2> QED BY <1>3, <2>2, <2>3
<1>4. ASSUME ListenersAnswer PROVE StartInv'
  <2>1. CASE contracts = "ready" /\ Subscribe(Deployed)
    BY <1>4, <2>1 DEF ListenersAnswer, Subscribe, StartInv, ServesWithContracts
  <2>2. CASE listeners' = "failed" /\ UNCHANGED <<rejected, subscribed>>
    BY <1>4, <2>2 DEF ListenersAnswer, StartInv, ServesWithContracts
  <2> QED BY <1>4, <2>1, <2>2 DEF ListenersAnswer
<1>5. ASSUME Listen PROVE StartInv'
  <2>1. contracts = "ready"
    BY <1>5 DEF Listen, HooksEnded, Connecting, IsUp, StartInv
  <2> QED BY <1>5, <2>1 DEF Listen, StartInv, ServesWithContracts
<1>6. ASSUME ListenersFail \/ Crash \/ Stop \/ Restart \/ stopListeners PROVE StartInv'
  BY <1>6 DEF ListenersFail, Crash, Stop, Down, Restart, Starting, stopListeners, StartInv,
              ServesWithContracts
<1>7. ASSUME listenToSpecificShareEvents PROVE StartInv'
  BY <1>7 DEF listenToSpecificShareEvents, Subscribe, StartInv, ServesWithContracts
<1> QED BY <1>1, <1>2, <1>3, <1>4, <1>5, <1>6, <1>7 DEF ListenerNext

\* Whatever the provider answers to the two hooks, and however often the process starts again,
\* it serves and is subscribed only with its contracts.
THEOREM ServersHaveContracts == ListenerSpec => []ServesWithContracts
<1>1. ListenerInit => StartInv
  BY DEF ListenerInit, StartInv, ServesWithContracts
<1>2. StartInv /\ [ListenerNext]_listenerVars => StartInv'
  BY StartKeeps
<1>3. StartInv => ServesWithContracts
  BY DEF StartInv
<1> QED BY <1>1, <1>2, <1>3, PTL DEF ListenerSpec
=============================================================================
