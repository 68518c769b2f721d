---------------------------- MODULE ListingsProofs ----------------------------
(***************************************************************************)
(* What a client that asks for page after page is told, for every listing  *)
(* that counts what it shows, every size of the page, every number of rows *)
(* and any changes made between the queries.                               *)
(*                                                                         *)
(* A page is a range of ranks.  A row that comes, or goes, moves the rows  *)
(* behind it by one rank, so that at most one of them crosses the end of   *)
(* the pages already picked; this is counted at every step.                *)
(*                                                                         *)
(* Then, about Dividends, for any users, creators, tweets and requests:    *)
(* what a request has in hand of rows that others write, that claims are   *)
(* kept, and what the listing of claimable dividends shows.                *)
(***************************************************************************)
EXTENDS Listings, Dividends, FiniteSetTheorems, WellFoundedInduction, TLAPS

-----------------------------------------------------------------------------
(* Ranks. *)

\* Numbers at the head of a set in one of the two directions, and the rank of k.
Ahead(x, k, down) == IF down THEN x > k ELSE x < k

First(S, k, down) == {x \in S : Ahead(x, k, down)}

Rank(S, k, down) == Cardinality(First(S, k, down))

LEMMA FirstFinite ==
  ASSUME NEW S, IsFiniteSet(S), NEW k, NEW down
  PROVE  IsFiniteSet(First(S, k, down)) /\ Rank(S, k, down) \in Nat
<1>1. First(S, k, down) \in SUBSET S
  BY DEF First
<1>2. IsFiniteSet(First(S, k, down))
  BY <1>1, FS_Subset
<1> QED BY <1>2, FS_CardinalityType DEF Rank

LEMMA RankBelowSize ==
  ASSUME NEW S \in SUBSET Nat, IsFiniteSet(S), NEW k \in S, NEW down \in BOOLEAN
  PROVE  Rank(S, k, down) < Cardinality(S)
<1>1. First(S, k, down) \in SUBSET (S \ {k})
  BY DEF First, Ahead
<1>2. IsFiniteSet(S \ {k}) /\ Cardinality(S \ {k}) = Cardinality(S) - 1 /\ Cardinality(S) \in Nat
  BY FS_RemoveElement, FS_CardinalityType
<1>3. Rank(S, k, down) <= Cardinality(S \ {k})
  BY <1>1, <1>2, FS_Subset DEF Rank
<1> QED BY <1>2, <1>3, FirstFinite

LEMMA RankGrows ==
  ASSUME NEW S \in SUBSET Nat, IsFiniteSet(S), NEW k \in S, NEW l \in S, NEW down \in BOOLEAN,
         Ahead(k, l, down)
  PROVE  Rank(S, k, down) < Rank(S, l, down)
<1>0. k \in Nat /\ l \in Nat
  OBVIOUS
<1>1. First(S, k, down) \union {k} \in SUBSET First(S, l, down)
  <2>1. \A x \in Nat : Ahead(x, k, down) => Ahead(x, l, down)
    BY <1>0 DEF Ahead
  <2> QED BY <1>0, <2>1 DEF First
<1>2. k \notin First(S, k, down)
  BY DEF First, Ahead
<1>3. Cardinality(First(S, k, down) \union {k}) = Rank(S, k, down) + 1
  BY <1>2, FS_AddElement, FirstFinite DEF Rank
<1>4. Cardinality(First(S, k, down) \union {k}) <= Rank(S, l, down)
  BY <1>1, FirstFinite, FS_Subset DEF Rank
<1> QED BY <1>3, <1>4, FirstFinite

\* No two numbers have one rank.
LEMMA RankInjective ==
  ASSUME NEW S \in SUBSET Nat, IsFiniteSet(S), NEW k \in S, NEW l \in S, NEW down \in BOOLEAN,
         Rank(S, k, down) = Rank(S, l, down)
  PROVE  k = l
<1> SUFFICES ASSUME k # l PROVE FALSE
  OBVIOUS
<1>1. k \in Nat /\ l \in Nat
  OBVIOUS
<1>2. Ahead(k, l, down) \/ Ahead(l, k, down)
  BY <1>1 DEF Ahead
<1>3. Rank(S, k, down) \in Nat /\ Rank(S, l, down) \in Nat
  BY FirstFinite
<1>4. CASE Ahead(k, l, down)
  BY <1>3, <1>4, RankGrows
<1>5. CASE Ahead(l, k, down)
  BY <1>3, <1>5, RankGrows
<1> QED BY <1>2, <1>4, <1>5

\* A number more pushes back those that it comes ahead of.
LEMMA RankAdd ==
  ASSUME NEW S, IsFiniteSet(S), NEW x, x \notin S, NEW k, NEW down
  PROVE  Rank(S \union {x}, k, down) =
           IF Ahead(x, k, down) THEN Rank(S, k, down) + 1 ELSE Rank(S, k, down)
<1>1. CASE Ahead(x, k, down)
  <2>1. First(S \union {x}, k, down) = First(S, k, down) \union {x} /\ x \notin First(S, k, down)
    BY <1>1 DEF First
  <2> QED BY <1>1, <2>1, FirstFinite, FS_AddElement DEF Rank
<1>2. CASE ~ Ahead(x, k, down)
  <2>1. First(S \union {x}, k, down) = First(S, k, down)
    BY <1>2 DEF First
  <2> QED BY <1>2, <2>1 DEF Rank
<1> QED BY <1>1, <1>2

\* In an order in that direction the rank is the index.
LEMMA OrderIsSurjective ==
  ASSUME NEW S, IsFiniteSet(S), NEW order \in SetToSeqs(S)
  PROVE  /\ Cardinality(S) \in Nat
         /\ DOMAIN order = 1 .. Cardinality(S)
         /\ \A i \in 1 .. Cardinality(S) : order[i] \in S
         /\ \A i, j \in 1 .. Cardinality(S) : order[i] = order[j] => i = j
         /\ \A x \in S : \E i \in 1 .. Cardinality(S) : order[i] = x
<1> DEFINE n == Cardinality(S)
<1>1. n \in Nat
  BY FS_CardinalityType
<1>2. order \in [1 .. n -> S] /\ \A i, j \in 1 .. n : i # j => order[i] # order[j]
  BY DEF SetToSeqs
<1>3. IsFiniteSet(1 .. n) /\ Cardinality(1 .. n) = n
  BY <1>1, FS_Interval
<1>4. order \in Injection(1 .. n, S)
  BY <1>2 DEF Injection, IsInjective
<1>5. order \in Surjection(1 .. n, S)
  <2> HIDE DEF n
  <2> QED BY <1>3, <1>4, FS_Injection DEF n
<1> QED BY <1>1, <1>2, <1>5 DEF Surjection

LEMMA OrderRank ==
  ASSUME NEW S \in SUBSET Nat, IsFiniteSet(S), NEW order \in SetToSeqs(S), NEW down \in BOOLEAN,
         \A i, j \in DOMAIN order : i < j => Ahead(order[i], order[j], down),
         NEW i \in 1 .. Cardinality(S)
  PROVE  Rank(S, order[i], down) = i - 1
<1> DEFINE n == Cardinality(S)
           g == [j \in 1 .. (i - 1) |-> order[j]]
           F == First(S, order[i], down)
<1>1. /\ n \in Nat /\ DOMAIN order = 1 .. n
      /\ \A j \in 1 .. n : order[j] \in S /\ order[j] \in Nat
      /\ \A j, k \in 1 .. n : order[j] = order[k] => j = k
      /\ \A x \in S : \E j \in 1 .. n : order[j] = x
  <2>1. \A j \in 1 .. n : order[j] \in S
    BY OrderIsSurjective
  <2>2. \A j \in 1 .. n : order[j] \in Nat
    BY <2>1
  <2> QED BY <2>1, <2>2, OrderIsSurjective
<1> HIDE DEF n
<1>2. i \in 1 .. n
  BY DEF n
<1>3. \A j \in 1 .. n : Ahead(order[j], order[i], down) <=> j < i
  <2> TAKE j \in 1 .. n
  <2>1. j < i => Ahead(order[j], order[i], down)
    BY <1>1, <1>2
  <2>2. j > i => Ahead(order[i], order[j], down)
    BY <1>1, <1>2
  <2>3. Ahead(order[i], order[j], down) => ~ Ahead(order[j], order[i], down)
    BY <1>1, <1>2 DEF Ahead
  <2>4. j = i => ~ Ahead(order[j], order[i], down)
    BY <1>1, <1>2 DEF Ahead
  <2>5. j < i \/ j > i \/ j = i
    BY <1>1, <1>2
  <2> QED BY <2>1, <2>2, <2>3, <2>4, <2>5, <1>1, <1>2
<1>4. g \in Bijection(1 .. (i - 1), F)
  <2>1. \A j \in 1 .. (i - 1) : j \in 1 .. n /\ j < i
    BY <1>1, <1>2
  <2>2. \A j \in 1 .. (i - 1) : g[j] = order[j] /\ g[j] \in F
    BY <1>1, <1>3, <2>1 DEF First
  <2>3. \A x \in F : \E j \in 1 .. (i - 1) : g[j] = x
    <3> TAKE x \in F
    <3>1. x \in S /\ Ahead(x, order[i], down)
      BY DEF First
    <3>2. PICK j \in 1 .. n : order[j] = x
      BY <1>1, <3>1
    <3>3. j < i
      BY <1>3, <3>1, <3>2
    <3>4. j \in 1 .. (i - 1)
      BY <1>1, <1>2, <3>3
    <3> QED BY <2>2, <3>2, <3>4
  <2>4. \A j, k \in 1 .. (i - 1) : g[j] = g[k] => j = k
    BY <1>1, <2>1, <2>2
  <2>5. g \in [1 .. (i - 1) -> F]
    BY <2>2
  <2> HIDE DEF g, F
  <2>6. g \in Injection(1 .. (i - 1), F)
    BY <2>4, <2>5 DEF Injection, IsInjective
  <2>7. g \in Surjection(1 .. (i - 1), F)
    BY <2>3, <2>5 DEF Surjection
  <2> QED BY <2>6, <2>7 DEF Bijection
<1>5. IsFiniteSet(1 .. (i - 1)) /\ Cardinality(1 .. (i - 1)) = i - 1
  <2>1. 1 \in Int /\ i - 1 \in Int /\ i >= 1
    BY <1>1, <1>2
  <2>2. PICK m \in Int : m = i - 1 /\ m >= 0
    BY <2>1
  <2>3. IsFiniteSet(1 .. m) /\ Cardinality(1 .. m) = m
    BY <2>2, FS_Interval
  <2> QED BY <2>2, <2>3
<1>6. ExistsBijection(1 .. (i - 1), F)
  BY <1>4 DEF ExistsBijection
<1>7. Cardinality(F) = i - 1
  <2> HIDE DEF F
  <2> QED BY <1>5, <1>6, FS_Bijection
<1> QED BY <1>7 DEF Rank

AtMost(a, n) == IF a <= n THEN a ELSE n

LEMMA Skips ==
  ASSUME NEW page \in Nat \ {0}
  PROVE  /\ limit \in Nat \ {0}
         /\ Skip(page) \in Nat
         /\ page * limit \in Nat
         /\ page * limit = Skip(page) + limit
         /\ Skip(page + 1) = page * limit
<1>1. limit \in Nat \ {0}
  BY ListingsAssumption
<1>2. PICK n \in Nat : page = n + 1
  <2>1. page - 1 \in Nat /\ page = (page - 1) + 1
    OBVIOUS
  <2> QED BY <2>1
<1>3. n * limit \in Nat /\ (n + 1) * limit = n * limit + limit
  BY <1>1, <1>2
<1>4. (n + 1) - 1 = n /\ ((n + 1) + 1) - 1 = n + 1
  BY <1>2
<1>5. Skip(page) = n * limit /\ Skip(page + 1) = (n + 1) * limit
  BY <1>2, <1>4 DEF Skip
<1> QED BY <1>1, <1>2, <1>3, <1>5

LEMMA PageSize ==
  ASSUME NEW S, IsFiniteSet(S), NEW order \in SetToSeqs(S), NEW page \in Nat \ {0}
  PROVE  /\ PageOf(order, page) \in SUBSET S
         /\ Cardinality(PageOf(order, page))
              = AtMost(page * limit, Cardinality(S)) - AtMost(Skip(page), Cardinality(S))
<1> DEFINE n == Cardinality(S)
           a == Skip(page)
           b == AtMost(page * limit, n)
           P == PageOf(order, page)
           I == (a + 1) .. b
           g == [i \in I |-> order[i]]
<1>1. /\ n \in Nat /\ DOMAIN order = 1 .. n
      /\ \A j \in 1 .. n : order[j] \in S
      /\ \A j, k \in 1 .. n : order[j] = order[k] => j = k
  BY OrderIsSurjective
<1>2. a \in Nat /\ page * limit = a + limit /\ limit \in Nat /\ page * limit \in Nat
  BY Skips
<1> HIDE DEF n, a
<1>3. b \in Nat /\ b <= n /\ b <= a + limit
  BY <1>1, <1>2 DEF AtMost
<1>4. (a + 1 .. a + limit) \intersect (1 .. n) = I
  <2>1. ASSUME NEW i \in Int PROVE (i >= a + 1 /\ i <= a + limit /\ i >= 1 /\ i <= n) <=> (i >= a + 1 /\ i <= b)
    BY <1>1, <1>2, <1>3 DEF AtMost
  <2>2. \A i : i \in (a + 1 .. a + limit) \intersect (1 .. n) => i \in I
    BY <1>1, <1>2, <2>1
  <2>3. \A i : i \in I => i \in (a + 1 .. a + limit) \intersect (1 .. n)
    <3>1. ASSUME NEW i \in I PROVE i \in (a + 1 .. a + limit) \intersect (1 .. n)
      <4>1. i \in Int /\ i >= a + 1 /\ i <= b
        BY <1>2, <1>3
      <4> QED BY <1>1, <1>2, <2>1, <4>1
    <3> QED BY <3>1
  <2> HIDE DEF I
  <2> QED BY <2>2, <2>3
<1>5. P = {order[i] : i \in I}
  BY <1>1, <1>4 DEF PageOf, a
<1>6. I \in SUBSET (1 .. n)
  BY <1>4
<1> HIDE DEF I
<1>7. P \in SUBSET S
  BY <1>1, <1>5, <1>6
<1>8. ExistsBijection(I, P)
  <2> HIDE DEF P
  <2>1. g \in [I -> P] /\ \A i \in I : g[i] = order[i]
    BY <1>5
  <2>2. \A i, j \in I : g[i] = g[j] => i = j
    BY <1>1, <1>6, <2>1
  <2>3. \A x \in P : \E i \in I : g[i] = x
    BY <1>5, <2>1
  <2> HIDE DEF g
  <2>4. g \in Injection(I, P)
    BY <2>1, <2>2 DEF Injection, IsInjective
  <2>5. g \in Surjection(I, P)
    BY <2>1, <2>3 DEF Surjection
  <2>6. g \in Bijection(I, P)
    BY <2>4, <2>5 DEF Bijection
  <2> QED BY <2>6 DEF ExistsBijection
<1>9. IsFiniteSet(I) /\ Cardinality(I) = IF a + 1 > b THEN 0 ELSE b - (a + 1) + 1
  <2>1. a + 1 \in Int /\ b \in Int
    BY <1>2, <1>3
  <2> HIDE DEF b
  <2> QED BY <2>1, FS_Interval DEF I
<1>10. Cardinality(P) = Cardinality(I)
  <2> HIDE DEF P
  <2> QED BY <1>8, <1>9, FS_Bijection
<1>11. Cardinality(I) = b - AtMost(a, n)
  <2> HIDE DEF P
  <2> QED BY <1>1, <1>2, <1>3, <1>9 DEF AtMost
<1> QED BY <1>7, <1>10, <1>11 DEF n, a

\* The rows with ranks from a on and below b.
Between(S, a, b, down) == {k \in S : a <= Rank(S, k, down) /\ Rank(S, k, down) < b}

LEMMA PageRanks ==
  ASSUME NEW S \in SUBSET Nat, IsFiniteSet(S), NEW order \in SetToSeqs(S), NEW down \in BOOLEAN,
         \A i, j \in DOMAIN order : i < j => Ahead(order[i], order[j], down),
         NEW page \in Nat \ {0}
  PROVE  PageOf(order, page) = Between(S, Skip(page), page * limit, down)
<1> DEFINE n == Cardinality(S)
           a == Skip(page)
           b == page * limit
<1>1. /\ n \in Nat /\ DOMAIN order = 1 .. n
      /\ \A j \in 1 .. n : order[j] \in S
      /\ \A x \in S : \E j \in 1 .. n : order[j] = x
  BY OrderIsSurjective
<1>2. \A i \in 1 .. n : Rank(S, order[i], down) = i - 1
  BY OrderRank
<1>3. a \in Nat /\ b = a + limit /\ limit \in Nat
  BY Skips
<1>4. PageOf(order, page) = {order[i] : i \in (a + 1 .. a + limit) \intersect (1 .. n)}
  BY <1>1 DEF PageOf
<1> HIDE DEF n, a, b
<1>5. ASSUME NEW i \in 1 .. n
      PROVE  i \in (a + 1 .. a + limit) \intersect (1 .. n)
               <=> (a <= Rank(S, order[i], down) /\ Rank(S, order[i], down) < b)
  <2>1. Rank(S, order[i], down) = i - 1
    BY <1>2
  <2> QED BY <1>1, <1>3, <2>1
<1>6. ASSUME NEW x \in PageOf(order, page) PROVE x \in Between(S, a, b, down)
  <2>1. PICK i \in (a + 1 .. a + limit) \intersect (1 .. n) : x = order[i]
    BY <1>4
  <2>2. i \in 1 .. n /\ x \in S
    BY <1>1, <2>1
  <2> QED BY <1>5, <2>1, <2>2 DEF Between
<1>7. ASSUME NEW x \in Between(S, a, b, down) PROVE x \in PageOf(order, page)
  <2>1. x \in S /\ a <= Rank(S, x, down) /\ Rank(S, x, down) < b
    BY DEF Between
  <2>2. PICK i \in 1 .. n : x = order[i]
    BY <1>1, <2>1
  <2>3. i \in (a + 1 .. a + limit) \intersect (1 .. n)
    BY <1>5, <2>1, <2>2
  <2> QED BY <1>4, <2>2, <2>3
<1> QED BY <1>6, <1>7 DEF a, b

-----------------------------------------------------------------------------
(* The state. *)

\* The statuses of the rows of every listing.
Words ==
  AnyMarket \union
  {"PENDING", "APPROVED", "SUSPENDED", "open", "verified", "trade", "transaction", "user",
   "share", "position"}

Row == [status : Words, amount : Nat]

Walk ==
  [pc : {"idle", "pick", "load", "count", "answer", "ended"}, page : Nat, query : Nat,
   picked : SUBSET Nat, answer : SUBSET Nat, total : Nat,
   seen : SUBSET Nat, answers : Nat, repeats : Nat]

Since == [kept : SUBSET Nat, left : Nat, came : Nat]

\* A listing counts what it shows, of one table or of the two of a portfolio.
ListingOK ==
  /\ listing \in Listings
  /\ listing.counts = TRUE
  /\ \/ \E q : listing.queries = <<q>> /\ q.shows \subseteq Words
     \/ /\ listing.queries = <<Query({"share"}, TRUE), Query({"position"}, TRUE)>>
        /\ listing.name = "getUserPortfolio"
        /\ listing.by = "none"
  /\ listing.by = "created" => listing.descending \in BOOLEAN

Types ==
  /\ ListingOK
  /\ rows \in Seq(Row)
  /\ walk \in Walk
  /\ since \in Since
  /\ walk.picked \subseteq Known
  /\ walk.answer \subseteq Known
  /\ walk.seen \subseteq Known
  /\ since.kept \subseteq Known

\* A page of one query; the other pages have two.
Single == Len(listing.queries) = 1

\* What the q-th query shows: nothing when there is no such query.
ShownIn(q) == IF q <= Len(listing.queries) THEN Shown(listing.queries[q]) ELSE {}

LEMMA KnownIds ==
  ASSUME Types
  PROVE  Known = 1 .. Len(rows) /\ Len(rows) \in Nat /\ IsFiniteSet(Known) /\ Known \subseteq Nat
         /\ \A id \in Known : rows[id] \in Row
<1>1. rows \in Seq(Row)
  BY DEF Types
<1>2. Known = 1 .. Len(rows) /\ Len(rows) \in Nat /\ \A id \in Known : rows[id] \in Row
  BY <1>1 DEF Known
<1>3. IsFiniteSet(1 .. Len(rows))
  BY <1>2, FS_Interval
<1> QED BY <1>2, <1>3

LEMMA ListingShape ==
  ASSUME ListingOK
  PROVE  \/ /\ Single /\ Len(listing.queries) = 1
            /\ Statuses = listing.queries[1].shows /\ Statuses \subseteq Words
            /\ ShownIn(1) = Shown(listing.queries[1]) /\ ShownIn(2) = {}
         \/ /\ ~ Single /\ Len(listing.queries) = 2
            /\ Statuses = {"share", "position"}
            /\ listing.queries[1].shows = {"share"} /\ listing.queries[2].shows = {"position"}
            /\ ShownIn(1) = Shown(listing.queries[1]) /\ ShownIn(2) = Shown(listing.queries[2])
            /\ listing.name = "getUserPortfolio" /\ listing.by = "none"
<1>1. CASE \E q : listing.queries = <<q>> /\ q.shows \subseteq Words
  <2>1. PICK q : listing.queries = <<q>> /\ q.shows \subseteq Words
    BY <1>1
  <2>2. Len(listing.queries) = 1 /\ listing.queries[1] = q /\ DOMAIN listing.queries = {1}
    BY <2>1
  <2>3. Statuses = q.shows
    BY <2>2 DEF Statuses, Range
  <2> QED BY <2>1, <2>2, <2>3 DEF Single, ShownIn
<1>2. CASE /\ listing.queries = <<Query({"share"}, TRUE), Query({"position"}, TRUE)>>
           /\ listing.name = "getUserPortfolio"
           /\ listing.by = "none"
  <2>0. PICK q, r : /\ q = Query({"share"}, TRUE) /\ r = Query({"position"}, TRUE)
                    /\ listing.queries = <<q, r>>
    BY <1>2
  <2>1. Len(listing.queries) = 2 /\ DOMAIN listing.queries = {1, 2}
        /\ listing.queries[1] = q /\ listing.queries[2] = r
    BY <2>0
  <2>2. listing.queries[1].shows = {"share"} /\ listing.queries[2].shows = {"position"}
    BY <2>0, <2>1 DEF Query
  <2>3. Statuses = {"share", "position"}
    BY <2>1, <2>2 DEF Statuses, Range
  <2>4. ~ Single
    BY <2>1 DEF Single
  <2>5. ShownIn(1) = Shown(listing.queries[1]) /\ ShownIn(2) = Shown(listing.queries[2])
    BY <2>1 DEF ShownIn
  <2> QED BY <1>2, <2>1, <2>2, <2>3, <2>4, <2>5, Zenon
<1> QED BY <1>1, <1>2 DEF ListingOK

LEMMA ShownFacts ==
  ASSUME Types
  PROVE  /\ ShownIn(1) \subseteq Known /\ ShownIn(2) \subseteq Known
         /\ IsFiniteSet(ShownIn(1)) /\ IsFiniteSet(ShownIn(2))
         /\ Cardinality(ShownIn(1)) \in Nat /\ Cardinality(ShownIn(2)) \in Nat
         /\ Single => ShownIn(2) = {} /\ Cardinality(ShownIn(2)) = 0 /\ ShownIn(1) = AllShown
         /\ ShownIn(1) \subseteq AllShown
<1>0. ListingOK
  BY DEF Types
<1>1. ShownIn(1) \subseteq Known /\ ShownIn(2) \subseteq Known
  BY <1>0, ListingShape DEF Shown
<1>2. IsFiniteSet(ShownIn(1)) /\ IsFiniteSet(ShownIn(2))
  BY <1>1, KnownIds, FS_Subset
<1>3. Cardinality(ShownIn(1)) \in Nat /\ Cardinality(ShownIn(2)) \in Nat
  BY <1>2, FS_CardinalityType
<1>4. Single => ShownIn(2) = {} /\ ShownIn(1) = AllShown
  BY <1>0, ListingShape DEF Shown, AllShown
<1>5. ShownIn(1) \subseteq AllShown
  BY <1>0, ListingShape DEF Shown, AllShown
<1> QED BY <1>1, <1>2, <1>3, <1>4, <1>5, FS_EmptySet

-----------------------------------------------------------------------------
(* What other requests do to the rows shown. *)

\* The row id is written, or is the next to be inserted.
Puts(id, new) ==
  \/ id \in Known /\ rows' = [rows EXCEPT ![id] = new]
  \/ id = Len(rows) + 1 /\ rows' = Append(rows, new)

LEMMA PutRow ==
  ASSUME Types, NEW id \in Nat, NEW new \in Row, Puts(id, new)
  PROVE  /\ rows' \in Seq(Row)
         /\ Known' = Known \union {id}
         /\ \A k \in Known' : rows'[k] = IF k = id THEN new ELSE rows[k]
<1>1. Known = 1 .. Len(rows) /\ Len(rows) \in Nat /\ rows \in Seq(Row)
  BY KnownIds DEF Types
<1>2. CASE id \in Known /\ rows' = [rows EXCEPT ![id] = new]
  BY <1>1, <1>2 DEF Known
<1>3. CASE id = Len(rows) + 1 /\ rows' = Append(rows, new)
  BY <1>1, <1>3 DEF Known
<1> QED BY <1>2, <1>3 DEF Puts

LEMMA PutShown ==
  ASSUME Types, NEW id \in Nat, NEW new \in Row, Puts(id, new), NEW q
  PROVE  Shown(q)' = IF new.status \in q.shows THEN Shown(q) \union {id} ELSE Shown(q) \ {id}
<1>1. /\ Known' = Known \union {id}
      /\ \A k \in Known' : rows'[k] = IF k = id THEN new ELSE rows[k]
  BY PutRow
<1>2. Shown(q)' = {k \in Known \union {id} : rows'[k].status \in q.shows}
  BY <1>1 DEF Shown
<1>3. \A k \in Known \union {id} : rows'[k].status = IF k = id THEN new.status ELSE rows[k].status
  BY <1>1
<1>4. CASE new.status \in q.shows
  BY <1>2, <1>3, <1>4 DEF Shown
<1>5. CASE new.status \notin q.shows
  BY <1>2, <1>3, <1>5 DEF Shown
<1> QED BY <1>4, <1>5

\* No row comes or goes.
Stays ==
  /\ ShownIn(1)' = ShownIn(1) /\ ShownIn(2)' = ShownIn(2)
  /\ since'.kept \subseteq since.kept
  /\ since'.left >= since.left /\ since'.came >= since.came
  /\ ~ Walking => since' = since

\* A row comes, or goes, in the table of query q.
ComesTo(q, id) ==
  /\ id \notin ShownIn(q) /\ ShownIn(q)' = ShownIn(q) \union {id}
  /\ ShownIn(3 - q)' = ShownIn(3 - q)
  /\ since' = IF Walking THEN [kept |-> since.kept, left |-> since.left, came |-> since.came + 1] ELSE since

GoesFrom(q, id) ==
  /\ Single
  /\ id \in ShownIn(q) /\ ShownIn(q)' = ShownIn(q) \ {id}
  /\ ShownIn(3 - q)' = ShownIn(3 - q)
  /\ since' = IF Walking THEN [kept |-> since.kept \ {id}, left |-> since.left + 1, came |-> since.came] ELSE since

Moves ==
  /\ UNCHANGED <<listing, walk>>
  /\ Types'
  /\ \/ Stays
     \/ \E q \in {1, 2}, id \in Nat : ComesTo(q, id) \/ GoesFrom(q, id)

LEMMA NewShown ==
  ASSUME Types, NEW q \in {1, 2}, NEW id \in Nat, NEW new \in Row, Puts(id, new), UNCHANGED listing
  PROVE  ShownIn(q)' = IF q > Len(listing.queries) THEN {}
                       ELSE IF new.status \in listing.queries[q].shows THEN ShownIn(q) \union {id}
                       ELSE ShownIn(q) \ {id}
<1>1. Len(listing.queries) \in {1, 2}
  BY ListingShape DEF Types
<1>2. CASE q > Len(listing.queries)
  BY <1>1, <1>2 DEF ShownIn
<1>3. CASE q <= Len(listing.queries)
  <2>1. PICK t : t = listing.queries[q]
    OBVIOUS
  <2>2. ShownIn(q) = Shown(t)
    BY <1>3, <2>1 DEF ShownIn
  <2>4. ShownIn(q)' = Shown(t)'
    <3>1. listing' = listing /\ listing.queries[q] = t
      BY <2>1
    <3> QED BY <1>1, <1>3, <3>1 DEF ShownIn, Shown
  <2>5. Shown(t)' = IF new.status \in t.shows THEN Shown(t) \union {id} ELSE Shown(t) \ {id}
    BY PutShown
  <2> QED BY <1>1, <1>3, <2>1, <2>2, <2>4, <2>5
<1> QED BY <1>1, <1>2, <1>3

\* What Change notes while the client walks.
Noted(leaves, comes, id) ==
  since' = IF Walking
           THEN [kept |-> IF leaves THEN since.kept \ {id} ELSE since.kept,
                 left |-> since.left + (IF leaves THEN 1 ELSE 0),
                 came |-> since.came + (IF comes THEN 1 ELSE 0)]
           ELSE since

LEMMA NotedFacts ==
  ASSUME since \in Since, NEW leaves \in BOOLEAN, NEW comes \in BOOLEAN, NEW id \in Nat,
         Noted(leaves, comes, id)
  PROVE  /\ since' \in Since /\ since'.kept \subseteq since.kept
         /\ since'.left >= since.left /\ since'.came >= since.came
         /\ ~ Walking => since' = since
         /\ comes /\ ~ leaves => since' = IF Walking THEN [kept |-> since.kept, left |-> since.left, came |-> since.came + 1] ELSE since
         /\ leaves /\ ~ comes => since' = IF Walking
                                          THEN [kept |-> since.kept \ {id}, left |-> since.left + 1, came |-> since.came]
                                          ELSE since
<1>1. CASE ~ Walking
  BY <1>1 DEF Noted, Since
<1>2. CASE Walking
  <2>1. /\ since'.kept = (IF leaves THEN since.kept \ {id} ELSE since.kept)
        /\ since'.left = since.left + (IF leaves THEN 1 ELSE 0)
        /\ since'.came = since.came + (IF comes THEN 1 ELSE 0)
    BY <1>2 DEF Noted
  <2>2. since.left \in Nat /\ since.came \in Nat /\ since.kept \in SUBSET Nat
    BY DEF Since
  <2>3. since'.left \in Nat /\ since'.came \in Nat /\ since'.kept \in SUBSET Nat
    BY <2>1, <2>2
  <2>4. since' \in Since
    BY <1>2, <2>1, <2>3 DEF Noted, Since
  <2>5. since.came + 0 = since.came /\ since.left + 0 = since.left
    BY <2>2
  <2>6. ASSUME comes, ~ leaves
        PROVE  since' = [kept |-> since.kept, left |-> since.left, came |-> since.came + 1]
    <3>1. (IF leaves THEN 1 ELSE 0) = 0 /\ (IF comes THEN 1 ELSE 0) = 1
          /\ (IF leaves THEN since.kept \ {id} ELSE since.kept) = since.kept
      BY <2>6
    <3> QED BY <1>2, <2>5, <3>1, Zenon DEF Noted
  <2>7. ASSUME leaves, ~ comes
        PROVE  since' = [kept |-> since.kept \ {id}, left |-> since.left + 1, came |-> since.came]
    <3>1. (IF leaves THEN 1 ELSE 0) = 1 /\ (IF comes THEN 1 ELSE 0) = 0
          /\ (IF leaves THEN since.kept \ {id} ELSE since.kept) = since.kept \ {id}
      BY <2>7
    <3> QED BY <1>2, <2>5, <3>1, Zenon DEF Noted
  <2> QED BY <1>2, <2>1, <2>2, <2>4, <2>6, <2>7
<1> QED BY <1>1, <1>2

LEMMA ChangeMoves ==
  ASSUME Types, NEW id \in Nat, NEW old \in Row, NEW new \in Row, Puts(id, new),
         id \in Known => old = rows[id], Change(old, id, new), UNCHANGED <<listing, walk>>,
         \/ Single
         \/ id \notin Known
         \/ old.status \notin Statuses /\ new.status \notin Statuses
  PROVE  Moves
<1> DEFINE before == id \in Known /\ old.status \in Statuses
           after == new.status \in Statuses
           moved == before /\ after /\ old # new /\ listing.by = "amount"
           leaves == before /\ (~ after \/ moved)
           comes == after /\ (~ before \/ moved)
<1>1. since \in Since /\ Known' = Known \union {id} /\ rows' \in Seq(Row)
  BY PutRow DEF Types
<1>2. Noted(leaves, comes, id)
  BY DEF Change, Noted
<1>3. before \in BOOLEAN /\ after \in BOOLEAN /\ moved \in BOOLEAN
      /\ leaves \in BOOLEAN /\ comes \in BOOLEAN
  OBVIOUS
<1>4. /\ ~ before /\ after => comes /\ ~ leaves
      /\ before /\ ~ after => leaves /\ ~ comes
  OBVIOUS
<1>5. /\ since' \in Since /\ since'.kept \subseteq since.kept
      /\ since'.left >= since.left /\ since'.came >= since.came
      /\ ~ Walking => since' = since
      /\ ~ before /\ after => since' = IF Walking THEN [kept |-> since.kept, left |-> since.left, came |-> since.came + 1] ELSE since
      /\ before /\ ~ after => since' = IF Walking
                                       THEN [kept |-> since.kept \ {id}, left |-> since.left + 1, came |-> since.came]
                                       ELSE since
  <2> HIDE DEF before, after, leaves, comes
  <2> QED BY <1>1, <1>2, <1>3, <1>4, NotedFacts
<1>6. Types'
  <2>1. ListingOK'
    BY DEF Types, ListingOK
  <2>2. walk' \in Walk /\ walk'.picked \subseteq Known' /\ walk'.answer \subseteq Known'
        /\ walk'.seen \subseteq Known' /\ since'.kept \subseteq Known'
    BY <1>1, <1>5 DEF Types
  <2> QED BY <1>1, <1>5, <2>1, <2>2 DEF Types
<1>7. before <=> id \in Known /\ rows[id].status \in Statuses
  OBVIOUS
<1>8. Stays \/ \E q \in {1, 2} : ComesTo(q, id) \/ GoesFrom(q, id)
  <2>0. ListingOK
    BY DEF Types
  <2>1. CASE Single
    <3>1. Len(listing.queries) = 1 /\ Statuses = listing.queries[1].shows
          /\ ShownIn(1) = Shown(listing.queries[1]) /\ ShownIn(2) = {}
      BY <2>0, <2>1, ListingShape
    <3>2. ShownIn(1)' = IF after THEN ShownIn(1) \union {id} ELSE ShownIn(1) \ {id}
      <4>1. ShownIn(1)' = IF 1 > Len(listing.queries) THEN {}
                       ELSE IF new.status \in listing.queries[1].shows THEN ShownIn(1) \union {id}
                       ELSE ShownIn(1) \ {id}
        BY NewShown
      <4> QED BY <3>1, <4>1
    <3>3. ShownIn(2)' = ShownIn(2)
      <4>1. ShownIn(2)' = IF 2 > Len(listing.queries) THEN {}
                       ELSE IF new.status \in listing.queries[2].shows THEN ShownIn(2) \union {id}
                       ELSE ShownIn(2) \ {id}
        BY NewShown
      <4> QED BY <3>1, <4>1
    <3>4. id \in ShownIn(1) <=> before
      BY <1>7, <3>1 DEF Shown
    <3>5. 3 - 1 = 2
      OBVIOUS
    <3> HIDE DEF before, after
    <3>6. CASE before <=> after
      BY <1>3, <1>5, <3>2, <3>3, <3>4, <3>6 DEF Stays
    <3>7. CASE before /\ ~ after
      BY <1>5, <2>1, <3>2, <3>3, <3>4, <3>5, <3>7 DEF GoesFrom
    <3>8. CASE ~ before /\ after
      BY <1>5, <3>2, <3>3, <3>4, <3>5, <3>8 DEF ComesTo
    <3> QED BY <1>3, <3>6, <3>7, <3>8
  <2>2. CASE ~ Single
    <3>1. Len(listing.queries) = 2 /\ Statuses = {"share", "position"}
          /\ listing.queries[1].shows = {"share"} /\ listing.queries[2].shows = {"position"}
          /\ ShownIn(1) = Shown(listing.queries[1]) /\ ShownIn(2) = Shown(listing.queries[2])
      BY <2>0, <2>2, ListingShape
    <3>2. /\ ShownIn(1)' = IF new.status = "share" THEN ShownIn(1) \union {id} ELSE ShownIn(1) \ {id}
          /\ ShownIn(2)' = IF new.status = "position" THEN ShownIn(2) \union {id} ELSE ShownIn(2) \ {id}
      <4>1. ShownIn(1)' = IF 1 > Len(listing.queries) THEN {}
                       ELSE IF new.status \in listing.queries[1].shows THEN ShownIn(1) \union {id}
                       ELSE ShownIn(1) \ {id}
        BY NewShown
      <4>2. ShownIn(2)' = IF 2 > Len(listing.queries) THEN {}
                       ELSE IF new.status \in listing.queries[2].shows THEN ShownIn(2) \union {id}
                       ELSE ShownIn(2) \ {id}
        BY NewShown
      <4> QED BY <3>1, <4>1, <4>2
    <3>3. (id \in ShownIn(1) \/ id \in ShownIn(2)) <=> before
      BY <1>7, <3>1 DEF Shown
    <3>4. 3 - 1 = 2 /\ 3 - 2 = 1
      OBVIOUS
    <3>5. after <=> new.status \in {"share", "position"}
      BY <3>1
    <3>6. ~ before
      BY <2>2, <1>7
    <3> HIDE DEF before, after
    <3>7. CASE ~ after
      BY <1>5, <3>2, <3>3, <3>5, <3>6, <3>7 DEF Stays
    <3>8. CASE new.status = "share"
      BY <1>5, <3>2, <3>3, <3>4, <3>5, <3>6, <3>8 DEF ComesTo
    <3>9. CASE new.status = "position"
      BY <1>5, <3>2, <3>3, <3>4, <3>5, <3>6, <3>9 DEF ComesTo
    <3> QED BY <1>3, <3>5, <3>7, <3>8, <3>9
  <2> QED BY <2>1, <2>2
<1> QED BY <1>6, <1>8 DEF Moves

LEMMA InsertMoves ==
  ASSUME Types, NEW status \in FirstStatus(listing.name), NEW amount \in 0 .. MaxAmount,
         Insert(status, amount)
  PROVE  Moves
<1> DEFINE id == Len(rows) + 1
           row == [status |-> status, amount |-> amount]
<1>1. status \in Words
  <2>1. Statuses \subseteq Words
    <3>1. {"share", "position"} \subseteq Words
      BY DEF Words
    <3> QED BY <3>1, ListingShape DEF Types
  <2>2. {"ACTIVE"} \subseteq Words /\ {"PENDING"} \subseteq Words /\ {"open"} \subseteq Words
    BY DEF Words, AnyMarket
  <2> QED BY <2>1, <2>2 DEF FirstStatus
<1>2. amount \in Nat /\ MaxAmount \in Nat
  BY ListingsAssumption
<1>3. row \in Row
  BY <1>1, <1>2 DEF Row
<1>4. id \in Nat /\ id \notin Known
  BY KnownIds
<1>5. rows' = Append(rows, row) /\ Change(row, id, row) /\ UNCHANGED <<listing, walk>>
  BY DEF Insert
<1>6. Puts(id, row)
  BY <1>5 DEF Puts
<1> HIDE DEF id, row
<1> QED BY <1>3, <1>4, <1>5, <1>6, ChangeMoves

LEMMA StepMoves ==
  ASSUME Types, NEW id \in Known, NEW status, Step(id, status)
  PROVE  Moves
<1> DEFINE row == [rows[id] EXCEPT !.status = status]
<1>1. rows[id] \in Row /\ id \in Nat
  BY KnownIds
<1>2. <<rows[id].status, status>> \in Steps
  BY DEF Step
<1>3. status \in Words /\ rows[id].status \notin {"share", "position"}
      /\ status \notin {"share", "position"}
  <2>1. PICK s \in Steps : s = <<rows[id].status, status>>
    BY <1>2
  <2>2. s[1] = rows[id].status /\ s[2] = status
    BY <2>1
  <2>3. \A t \in Steps : t[2] \in Words /\ t[1] \notin {"share", "position"}
                         /\ t[2] \notin {"share", "position"}
    <3> SUFFICES ASSUME NEW t \in Steps
                 PROVE  /\ t[2] \in Words /\ t[1] \notin {"share", "position"}
                        /\ t[2] \notin {"share", "position"}
      OBVIOUS
    <3> QED BY DEF Steps, Words, AnyMarket
  <2> QED BY <2>2, <2>3
<1>4. row \in Row /\ row.status = status
  BY <1>1, <1>3 DEF Row
<1>5. rows' = [rows EXCEPT ![id] = row] /\ Change(rows[id], id, row) /\ UNCHANGED <<listing, walk>>
  BY DEF Step
<1>6. Puts(id, row)
  BY <1>5 DEF Puts
<1>7. Single \/ Statuses = {"share", "position"}
  BY ListingShape DEF Types
<1>8. PICK old \in Row : old = rows[id]
  BY <1>1
<1> HIDE DEF row
<1>9. Single \/ (old.status \notin Statuses /\ row.status \notin Statuses)
  <2>1. CASE Statuses = {"share", "position"}
    BY <1>3, <1>4, <1>8, <2>1
  <2> QED BY <1>7, <2>1
<1> QED BY <1>1, <1>4, <1>5, <1>6, <1>8, <1>9, ChangeMoves

LEMMA RecountMoves ==
  ASSUME Types, NEW id \in Known, NEW amount \in 0 .. MaxAmount, Recount(id, amount)
  PROVE  Moves
<1> DEFINE row == [rows[id] EXCEPT !.amount = amount]
<1>1. rows[id] \in Row /\ id \in Nat
  BY KnownIds
<1>2. amount \in Nat
  BY ListingsAssumption
<1>4. row \in Row
  BY <1>1, <1>2 DEF Row
<1>5. rows' = [rows EXCEPT ![id] = row] /\ Change(rows[id], id, row) /\ UNCHANGED <<listing, walk>>
      /\ listing.by = "amount"
  BY DEF Recount
<1>6. Puts(id, row)
  BY <1>5 DEF Puts
<1>7. Single
  BY <1>5, ListingShape DEF Types
<1>8. PICK old \in Row : old = rows[id]
  BY <1>1
<1> HIDE DEF row
<1> QED BY <1>1, <1>4, <1>5, <1>6, <1>7, <1>8, ChangeMoves

\* Every step moves rows while the client does not end, or is one of the client.
ClientStep == Begin \/ Pick \/ Load \/ Count \/ Answer

LEMMA NextCases ==
  ASSUME Types, [Next]_vars
  PROVE  (Moves /\ ~ Ended) \/ ClientStep \/ UNCHANGED vars
<1>1. ASSUME NEW status \in FirstStatus(listing.name), NEW amount \in 0 .. MaxAmount,
             Insert(status, amount)
      PROVE  Moves /\ ~ Ended
  <2>1. ~ Ended
    BY <1>1 DEF Insert, CanChange
  <2> QED BY <1>1, <2>1, InsertMoves
<1>2. ASSUME NEW id \in Known, NEW step \in Steps, Step(id, step[2]) PROVE Moves /\ ~ Ended
  <2>1. ~ Ended
    BY <1>2 DEF Step, CanChange
  <2>2. PICK status : status = step[2]
    OBVIOUS
  <2> QED BY <1>2, <2>1, <2>2, StepMoves
<1>3. ASSUME NEW id \in Known, NEW amount \in 0 .. MaxAmount, Recount(id, amount)
      PROVE  Moves /\ ~ Ended
  <2>1. ~ Ended
    BY <1>3 DEF Recount, CanChange
  <2> QED BY <1>3, <2>1, RecountMoves
<1> QED BY <1>1, <1>2, <1>3, Zenon DEF Next, ClientStep

-----------------------------------------------------------------------------
(* The client. *)

Reading == {"pick", "load", "count"}

\* What the client holds at each step of a request.
Shape ==
  /\ walk.pc = "idle" => walk = Idle /\ since = [kept |-> {}, left |-> 0, came |-> 0]
  /\ walk.pc # "idle" => walk.page # 0
  /\ walk.pc \in Reading => walk.query \in {1, 2} /\ walk.query <= Len(listing.queries)
  /\ walk.pc \in {"pick", "answer", "ended"} => walk.picked = {}
  /\ walk.pc = "ended" => walk.answer = {} /\ walk.page * limit >= walk.total
  /\ walk.pc \in Reading /\ walk.query = 1 => walk.answer = {} /\ walk.total = 0
  /\ walk.pc = "answer" => walk.query = Len(listing.queries)
  /\ ~ Single /\ walk.pc \in Reading /\ walk.query = 2 => walk.answer \subseteq ShownIn(1)
  /\ ~ Single /\ walk.pc \in {"load", "count"} =>
       /\ walk.query = 1 => walk.picked \subseteq ShownIn(1)
       /\ walk.query = 2 => walk.picked \subseteq ShownIn(2)

\* What a step of the client leaves alone.
Still == UNCHANGED <<listing, rows>>

Same(f) == walk'[f] = walk[f]

LEMMA BeginDoes ==
  ASSUME Types, Shape, Begin
  PROVE  /\ Still /\ walk' \in Walk /\ since' \in Since
         /\ walk'.pc = "pick" /\ walk'.page = 1 /\ walk'.query = 1
         /\ walk'.picked = {} /\ walk'.answer = {} /\ walk'.seen = {}
         /\ walk'.total = 0 /\ walk'.answers = 0 /\ walk'.repeats = 0
         /\ since'.kept = AllShown /\ since'.left = 0 /\ since'.came = 0
<1>1. walk = Idle /\ since = [kept |-> {}, left |-> 0, came |-> 0] /\ Still
  BY DEF Begin, Shape, Still
<1>2. walk' = [pc |-> "pick", page |-> 1, query |-> 1, picked |-> {}, answer |-> {}, total |-> 0,
               seen |-> {}, answers |-> 0, repeats |-> 0]
  BY <1>1 DEF Begin, Ask, Idle
<1>3. since' = [kept |-> AllShown, left |-> 0, came |-> 0]
  BY <1>1 DEF Begin
<1>4. AllShown \in SUBSET Nat
  BY KnownIds DEF AllShown
<1>5. walk' \in Walk
  BY <1>2 DEF Walk
<1>6. since' \in Since
  BY <1>3, <1>4 DEF Since
<1> QED BY <1>1, <1>2, <1>3, <1>5, <1>6

LEMMA PickDoes ==
  ASSUME Types, Shape, Pick
  PROVE  /\ Still /\ walk' \in Walk /\ UNCHANGED since
         /\ walk.pc = "pick" /\ walk'.pc \in {"load", "count"}
         /\ walk'.page = walk.page /\ walk'.query = walk.query
         /\ walk'.answer = walk.answer /\ walk'.seen = walk.seen
         /\ walk'.total = walk.total /\ walk'.answers = walk.answers
         /\ walk'.repeats = walk.repeats
         /\ \E order \in Orders(ShownIn(walk.query)) : walk'.picked = PageOf(order, walk.page)
<1>1. Still /\ UNCHANGED since /\ walk.pc = "pick" /\ walk \in Walk
  BY DEF Pick, Still, Types
<1>2. PICK order \in Orders(Shown(Current)) :
         walk' = [walk EXCEPT !.pc = IF Current.joins THEN "load" ELSE "count",
                              !.picked = PageOf(order, walk.page)]
  BY DEF Pick
<1>3. walk.query \in {1, 2} /\ walk.query <= Len(listing.queries)
  BY <1>1 DEF Shape, Reading
<1>4. Shown(Current) = ShownIn(walk.query) /\ ShownIn(walk.query) \subseteq Nat
      /\ IsFiniteSet(ShownIn(walk.query))
  <2>1. Shown(Current) = ShownIn(walk.query)
    BY <1>3 DEF ShownIn, Current
  <2>2. ShownIn(walk.query) \subseteq Known /\ IsFiniteSet(ShownIn(walk.query))
    BY <1>3, ShownFacts
  <2> QED BY <2>1, <2>2, KnownIds
<1>5. walk.page \in Nat \ {0}
  BY <1>1 DEF Shape, Walk
<1>6. order \in SetToSeqs(ShownIn(walk.query))
  BY <1>4 DEF Orders
<1>7. PageOf(order, walk.page) \in SUBSET Nat
  BY <1>4, <1>5, <1>6, PageSize
<1> DEFINE P == PageOf(order, walk.page)
           pc == IF Current.joins THEN "load" ELSE "count"
<1>8. pc \in {"load", "count"}
  OBVIOUS
<1> HIDE DEF P, pc
<1>9. walk' = [walk EXCEPT !.pc = pc, !.picked = P] /\ P \in SUBSET Nat
  BY <1>2, <1>7 DEF P, pc
<1>10. /\ walk' \in Walk
       /\ walk'.pc = pc /\ walk'.picked = P
       /\ walk'.page = walk.page /\ walk'.query = walk.query
       /\ walk'.answer = walk.answer /\ walk'.seen = walk.seen
       /\ walk'.total = walk.total /\ walk'.answers = walk.answers
       /\ walk'.repeats = walk.repeats
  BY <1>1, <1>8, <1>9 DEF Walk
<1> QED BY <1>1, <1>2, <1>4, <1>8, <1>10 DEF P

LEMMA LoadDoes ==
  ASSUME Types, Shape, Load
  PROVE  /\ Still /\ walk' \in Walk /\ UNCHANGED since
         /\ walk.pc = "load" /\ walk'.pc = "count"
         /\ walk'.page = walk.page /\ walk'.query = walk.query
         /\ walk'.answer = walk.answer /\ walk'.seen = walk.seen
         /\ walk'.total = walk.total /\ walk'.answers = walk.answers
         /\ walk'.repeats = walk.repeats
         /\ walk'.picked = walk.picked \intersect ShownIn(walk.query)
<1>1. Still /\ UNCHANGED since /\ walk.pc = "load" /\ walk \in Walk
      /\ walk' = [walk EXCEPT !.pc = "count", !.picked = walk.picked \intersect Shown(Current)]
  BY DEF Load, Still, Types
<1>2. walk.query \in {1, 2} /\ walk.query <= Len(listing.queries)
  BY <1>1 DEF Shape, Reading
<1>3. Shown(Current) = ShownIn(walk.query)
  BY <1>2 DEF ShownIn, Current
<1> DEFINE P == walk.picked \intersect ShownIn(walk.query)
<1>4. P \in SUBSET Nat
  BY <1>1 DEF Walk
<1>5. walk' = [walk EXCEPT !.pc = "count", !.picked = P]
  BY <1>1, <1>3, Zenon
<1> HIDE DEF P
<1>6. /\ walk' \in Walk
      /\ walk'.pc = "count" /\ walk'.picked = P
      /\ walk'.page = walk.page /\ walk'.query = walk.query
      /\ walk'.answer = walk.answer /\ walk'.seen = walk.seen
      /\ walk'.total = walk.total /\ walk'.answers = walk.answers
      /\ walk'.repeats = walk.repeats
  BY <1>1, <1>4, <1>5 DEF Walk
<1> QED BY <1>1, <1>6 DEF P

LEMMA CountDoes ==
  ASSUME Types, Shape, Count
  PROVE  LET more == walk.query < Len(listing.queries)
         IN  /\ Still /\ walk' \in Walk /\ UNCHANGED since
             /\ walk.pc = "count"
             /\ walk'.pc = (IF more THEN "pick" ELSE "answer")
             /\ walk'.query = (IF more THEN walk.query + 1 ELSE walk.query)
             /\ walk'.page = walk.page /\ walk'.seen = walk.seen
             /\ walk'.answers = walk.answers /\ walk'.repeats = walk.repeats
             /\ walk'.answer = walk.answer \union walk.picked
             /\ walk'.total = walk.total + Cardinality(ShownIn(walk.query))
             /\ walk'.picked = {}
<1> DEFINE more == walk.query < Len(listing.queries)
           c == Cardinality(ShownIn(walk.query))
<1>1. Still /\ UNCHANGED since /\ walk.pc = "count" /\ walk \in Walk /\ listing.counts
  BY DEF Count, Still, Types, ListingOK
<1>2. walk.query \in {1, 2} /\ walk.query <= Len(listing.queries)
  BY <1>1 DEF Shape, Reading
<1>3. Shown(Current) = ShownIn(walk.query)
  BY <1>2 DEF ShownIn, Current
<1>4. c \in Nat
  BY <1>2, ShownFacts
<1> DEFINE pc == IF more THEN "pick" ELSE "answer"
           query == IF more THEN walk.query + 1 ELSE walk.query
           answer == walk.answer \union walk.picked
           total == walk.total + c
<1>5. walk' = [walk EXCEPT !.pc = pc, !.query = query, !.answer = answer, !.total = total,
                           !.picked = {}]
  <2>1. walk' = [walk EXCEPT
                   !.pc = IF walk.query < Len(listing.queries) THEN "pick" ELSE "answer",
                   !.query = IF walk.query < Len(listing.queries) THEN @ + 1 ELSE @,
                   !.answer = @ \union walk.picked,
                   !.total = @ + (IF listing.counts THEN Cardinality(Shown(Current))
                                  ELSE Cardinality(walk.picked)),
                   !.picked = {}]
    BY DEF Count, CountOf
  <2> QED BY <1>1, <1>3, <2>1
<1>6. pc \in {"pick", "answer"} /\ query \in Nat /\ answer \in SUBSET Nat /\ total \in Nat
  <2> HIDE DEF c
  <2> QED BY <1>1, <1>2, <1>4 DEF Walk
<1> HIDE DEF pc, query, answer, total
<1>7. /\ walk' \in Walk
      /\ walk'.pc = pc /\ walk'.query = query
      /\ walk'.page = walk.page /\ walk'.seen = walk.seen
      /\ walk'.answers = walk.answers /\ walk'.repeats = walk.repeats
      /\ walk'.answer = answer /\ walk'.total = total
      /\ walk'.picked = {}
  BY <1>1, <1>5, <1>6 DEF Walk
<1> QED BY <1>1, <1>7 DEF pc, query, answer, total

LEMMA AnswerDoes ==
  ASSUME Types, Shape, Answer
  PROVE  LET on == walk.page * limit < walk.total
         IN  /\ Still /\ walk' \in Walk /\ UNCHANGED since
             /\ walk.pc = "answer"
             /\ walk'.pc = (IF on THEN "pick" ELSE "ended")
             /\ walk'.page = (IF on THEN walk.page + 1 ELSE walk.page)
             /\ walk'.total = (IF on THEN 0 ELSE walk.total)
             /\ walk'.query = 1 /\ walk'.picked = {} /\ walk'.answer = {}
             /\ walk'.seen = walk.seen \union walk.answer
             /\ walk'.answers = walk.answers + Cardinality(walk.answer)
             /\ walk'.repeats = walk.repeats + Cardinality(walk.answer \intersect walk.seen)
<1> DEFINE on == walk.page * limit < walk.total
           c == Cardinality(walk.answer)
           d == Cardinality(walk.answer \intersect walk.seen)
           told == [Ask(walk.page + 1) EXCEPT !.seen = walk.seen \union walk.answer,
                                              !.answers = walk.answers + c,
                                              !.repeats = walk.repeats + d]
<1>1. Still /\ UNCHANGED since /\ walk.pc = "answer" /\ walk \in Walk /\ listing.counts
  BY DEF Answer, Still, Types, ListingOK
<1>2. c \in Nat /\ d \in Nat
  <2>1. walk.answer \in SUBSET Known /\ walk.answer \intersect walk.seen \in SUBSET Known
    BY DEF Types
  <2>2. IsFiniteSet(walk.answer) /\ IsFiniteSet(walk.answer \intersect walk.seen)
    BY <2>1, KnownIds, FS_Subset
  <2> QED BY <2>2, FS_CardinalityType
<1>3. walk' = IF on THEN told ELSE [told EXCEPT !.pc = "ended", !.page = walk.page, !.total = walk.total]
  BY <1>1 DEF Answer
<1> HIDE DEF on, c, d
<1>4. /\ told \in Walk
      /\ told.pc = "pick" /\ told.page = walk.page + 1 /\ told.total = 0
      /\ told.query = 1 /\ told.picked = {} /\ told.answer = {}
      /\ told.seen = walk.seen \union walk.answer
      /\ told.answers = walk.answers + c /\ told.repeats = walk.repeats + d
  <2> DEFINE next == walk.page + 1
             base == Ask(next)
             seen == walk.seen \union walk.answer
             answers == walk.answers + c
             repeats == walk.repeats + d
  <2>1. next \in Nat /\ seen \in SUBSET Nat /\ answers \in Nat /\ repeats \in Nat
    BY <1>1, <1>2 DEF Walk
  <2>2. told = [base EXCEPT !.seen = seen, !.answers = answers, !.repeats = repeats]
    OBVIOUS
  <2> HIDE DEF next, seen, answers, repeats, told
  <2>3. /\ base \in Walk
        /\ base.pc = "pick" /\ base.page = next /\ base.total = 0
        /\ base.query = 1 /\ base.picked = {} /\ base.answer = {}
    BY <1>1, <2>1 DEF Ask, Walk
  <2> HIDE DEF base
  <2>4. /\ told \in Walk
        /\ told.pc = "pick" /\ told.page = next /\ told.total = 0
        /\ told.query = 1 /\ told.picked = {} /\ told.answer = {}
        /\ told.seen = seen /\ told.answers = answers /\ told.repeats = repeats
    BY <2>1, <2>2, <2>3 DEF Walk
  <2> QED BY <2>4 DEF next, seen, answers, repeats
<1> HIDE DEF told
<1>5. on \in BOOLEAN
  BY DEF on
<1>6. CASE on
  BY <1>1, <1>3, <1>4, <1>6 DEF on, c, d
<1>7. CASE ~ on
  <2>1. walk' = [told EXCEPT !.pc = "ended", !.page = walk.page, !.total = walk.total]
    BY <1>3, <1>7
  <2>2. /\ walk' \in Walk
        /\ walk'.pc = "ended" /\ walk'.page = walk.page /\ walk'.total = walk.total
        /\ walk'.query = told.query /\ walk'.picked = told.picked /\ walk'.answer = told.answer
        /\ walk'.seen = told.seen /\ walk'.answers = told.answers /\ walk'.repeats = told.repeats
    BY <1>1, <1>4, <2>1 DEF Walk
  <2> QED BY <1>1, <1>4, <1>7, <2>2 DEF on, c, d
<1> QED BY <1>5, <1>6, <1>7

LEMMA StillFacts ==
  ASSUME Types, Still
  PROVE  /\ Known' = Known /\ AllShown' = AllShown
         /\ ShownIn(1)' = ShownIn(1) /\ ShownIn(2)' = ShownIn(2)
         /\ ListingOK' /\ rows' \in Seq(Row) /\ Single' = Single
<1>1. \A q : Shown(q)' = Shown(q)
  BY DEF Still, Shown, Known
<1>2. Known' = Known /\ AllShown' = AllShown
  BY DEF Still, Known, AllShown, Statuses
<1>3. ShownIn(1)' = ShownIn(1) /\ ShownIn(2)' = ShownIn(2)
  BY <1>1 DEF Still, ShownIn, Shown, Known
<1> QED BY <1>2, <1>3 DEF Still, Types, ListingOK, Single

Good == Types /\ Shape

LEMMA MovesKeepShape ==
  ASSUME Good, Moves
  PROVE  Good'
<1>1. walk' = walk /\ listing' = listing /\ Types' /\ Single' = Single
  BY DEF Moves, Single
<1>2. ~ Walking => since' = since
  BY DEF Moves, Stays, ComesTo, GoesFrom
<1>3. ~ Single => ShownIn(1) \subseteq ShownIn(1)' /\ ShownIn(2) \subseteq ShownIn(2)'
  <2> SUFFICES ASSUME ~ Single
               PROVE  ShownIn(1) \subseteq ShownIn(1)' /\ ShownIn(2) \subseteq ShownIn(2)'
    OBVIOUS
  <2>1. Stays \/ \E q \in {1, 2}, id \in Nat : ComesTo(q, id)
    BY DEF Moves, GoesFrom
  <2>2. CASE Stays
    BY <2>2 DEF Stays
  <2>3. ASSUME NEW q \in {1, 2}, NEW id \in Nat, ComesTo(q, id)
        PROVE  ShownIn(1) \subseteq ShownIn(1)' /\ ShownIn(2) \subseteq ShownIn(2)'
    <3>1. CASE q = 1
      <4>1. ShownIn(1)' = ShownIn(1) \union {id} /\ ShownIn(3 - 1)' = ShownIn(3 - 1)
        BY <2>3, <3>1 DEF ComesTo
      <4>2. 3 - 1 = 2
        OBVIOUS
      <4> QED BY <4>1, <4>2
    <3>2. CASE q = 2
      <4>1. ShownIn(2)' = ShownIn(2) \union {id} /\ ShownIn(3 - 2)' = ShownIn(3 - 2)
        BY <2>3, <3>2 DEF ComesTo
      <4>2. 3 - 2 = 1
        OBVIOUS
      <4> QED BY <4>1, <4>2
    <3> QED BY <3>1, <3>2
  <2> QED BY <2>1, <2>2, <2>3
<1>4. Shape'
  <2>1. Shape
    BY DEF Good
  <2>2. walk.pc = "idle" => since' = since
    BY <1>2 DEF Walking
  <2>3. ~ Single /\ walk.pc \in Reading /\ walk.query = 2 => walk.answer \subseteq ShownIn(1)'
    BY <1>3, <2>1 DEF Shape
  <2>4. ~ Single /\ walk.pc \in {"load", "count"} =>
          /\ walk.query = 1 => walk.picked \subseteq ShownIn(1)'
          /\ walk.query = 2 => walk.picked \subseteq ShownIn(2)'
    BY <1>3, <2>1 DEF Shape
  <2> QED BY <1>1, <2>1, <2>2, <2>3, <2>4 DEF Shape, Idle
<1> QED BY <1>1, <1>4 DEF Good

LEMMA LengthIs ==
  ASSUME Types
  PROVE  Len(listing.queries) \in {1, 2} /\ (Single <=> Len(listing.queries) = 1)
<1>1. ListingOK
  BY DEF Types
<1> QED BY <1>1, ListingShape

LEMMA BeginKeeps ==
  ASSUME Good, Begin
  PROVE  Good'
<1>1. Types /\ Shape
  BY DEF Good
<1>2. /\ Still /\ walk' \in Walk /\ since' \in Since
      /\ walk'.pc = "pick" /\ walk'.page = 1 /\ walk'.query = 1
      /\ walk'.picked = {} /\ walk'.answer = {} /\ walk'.seen = {}
      /\ walk'.total = 0
      /\ since'.kept = AllShown
  BY <1>1, BeginDoes
<1>3. Known' = Known /\ ListingOK' /\ rows' \in Seq(Row) /\ Single' = Single
  BY <1>1, <1>2, StillFacts
<1>4. AllShown \subseteq Known
  BY DEF AllShown
<1>5. Types'
  BY <1>2, <1>3, <1>4 DEF Types
<1>6. 1 <= Len(listing'.queries)
  <2>1. 1 <= Len(listing.queries)
    BY <1>1, LengthIs
  <2> QED BY <1>2, <2>1 DEF Still
<1> QED BY <1>2, <1>5, <1>6 DEF Good, Shape, Reading

LEMMA PickKeeps ==
  ASSUME Good, Pick
  PROVE  Good'
<1>1. Types /\ Shape
  BY DEF Good
<1>2. /\ Still /\ walk' \in Walk /\ UNCHANGED since
      /\ walk.pc = "pick" /\ walk'.pc \in {"load", "count"}
      /\ walk'.page = walk.page /\ walk'.query = walk.query
      /\ walk'.answer = walk.answer /\ walk'.seen = walk.seen
      /\ walk'.total = walk.total
  BY <1>1, PickDoes
<1>3. PICK order \in Orders(ShownIn(walk.query)) : walk'.picked = PageOf(order, walk.page)
  BY <1>1, PickDoes
<1>4. walk.query \in {1, 2} /\ walk.page \in Nat \ {0} /\ walk.query <= Len(listing.queries)
  BY <1>1, <1>2 DEF Types, Walk, Shape, Reading
<1>5. ShownIn(walk.query) \subseteq Known /\ IsFiniteSet(ShownIn(walk.query))
  BY <1>1, <1>4, ShownFacts
<1>6. walk'.picked \subseteq ShownIn(walk.query)
  <2>1. order \in SetToSeqs(ShownIn(walk.query))
    BY <1>3 DEF Orders
  <2> QED BY <1>3, <1>4, <1>5, <2>1, PageSize
<1>7. Known' = Known /\ ListingOK' /\ rows' \in Seq(Row) /\ Single' = Single
      /\ ShownIn(1)' = ShownIn(1) /\ ShownIn(2)' = ShownIn(2)
  BY <1>1, <1>2, StillFacts
<1>8. Types'
  BY <1>1, <1>2, <1>5, <1>6, <1>7 DEF Types
<1>9. /\ walk'.query = 1 => walk'.picked \subseteq ShownIn(1)'
      /\ walk'.query = 2 => walk'.picked \subseteq ShownIn(2)'
  BY <1>1, <1>2, <1>6, <1>7 DEF Shape
<1>10. listing' = listing
  BY <1>2 DEF Still
<1>11. walk.pc \in Reading /\ walk'.pc \in Reading
  BY <1>2 DEF Reading
<1>12. Shape'
  BY <1>1, <1>2, <1>4, <1>7, <1>9, <1>10, <1>11 DEF Shape
<1> QED BY <1>8, <1>12 DEF Good

LEMMA LoadKeeps ==
  ASSUME Good, Load
  PROVE  Good'
<1>1. Types /\ Shape
  BY DEF Good
<1>2. /\ Still /\ walk' \in Walk /\ UNCHANGED since
      /\ walk.pc = "load" /\ walk'.pc = "count"
      /\ walk'.page = walk.page /\ walk'.query = walk.query
      /\ walk'.answer = walk.answer /\ walk'.seen = walk.seen
      /\ walk'.total = walk.total
      /\ walk'.picked = walk.picked \intersect ShownIn(walk.query)
  BY <1>1, LoadDoes
<1>4. walk.query \in {1, 2} /\ walk.query <= Len(listing.queries)
  BY <1>1, <1>2 DEF Shape, Reading
<1>7. Known' = Known /\ ListingOK' /\ rows' \in Seq(Row) /\ Single' = Single
      /\ ShownIn(1)' = ShownIn(1) /\ ShownIn(2)' = ShownIn(2)
  BY <1>1, <1>2, StillFacts
<1>8. Types'
  BY <1>1, <1>2, <1>7 DEF Types
<1>9. /\ walk'.query = 1 => walk'.picked \subseteq ShownIn(1)'
      /\ walk'.query = 2 => walk'.picked \subseteq ShownIn(2)'
  BY <1>1, <1>2, <1>7 DEF Shape
<1>10. listing' = listing
  BY <1>2 DEF Still
<1>11. walk.pc \in Reading /\ walk'.pc \in Reading
  BY <1>2 DEF Reading
<1>12. Shape'
  BY <1>1, <1>2, <1>4, <1>7, <1>9, <1>10, <1>11 DEF Shape
<1> QED BY <1>8, <1>12 DEF Good

LEMMA CountKeeps ==
  ASSUME Good, Count
  PROVE  Good'
<1>1. Types /\ Shape
  BY DEF Good
<1> DEFINE more == walk.query < Len(listing.queries)
<1>2. /\ Still /\ walk' \in Walk /\ UNCHANGED since
      /\ walk.pc = "count"
      /\ walk'.pc = (IF more THEN "pick" ELSE "answer")
      /\ walk'.query = (IF more THEN walk.query + 1 ELSE walk.query)
      /\ walk'.page = walk.page /\ walk'.seen = walk.seen
      /\ walk'.answer = walk.answer \union walk.picked
      /\ walk'.picked = {}
  BY <1>1, CountDoes
<1>4. walk.query \in {1, 2} /\ walk.query <= Len(listing.queries)
      /\ (walk.query = 1 => walk.answer = {})
      /\ (~ Single /\ walk.query = 1 => walk.picked \subseteq ShownIn(1))
      /\ walk.page # 0
  BY <1>1, <1>2 DEF Shape, Reading
<1>5. Len(listing.queries) \in {1, 2} /\ (Single <=> Len(listing.queries) = 1)
  BY <1>1, LengthIs
<1>7. Known' = Known /\ ListingOK' /\ rows' \in Seq(Row) /\ Single' = Single
      /\ ShownIn(1)' = ShownIn(1) /\ ShownIn(2)' = ShownIn(2)
  BY <1>1, <1>2, StillFacts
<1>8. Types'
  BY <1>1, <1>2, <1>7 DEF Types
<1>10. listing' = listing
  BY <1>2 DEF Still
<1>11. CASE more
  <2>1. walk.query = 1 /\ ~ Single /\ walk'.pc = "pick" /\ walk'.query = 2
    <3>1. walk.query = 1 /\ Len(listing.queries) = 2
      <4>1. PICK n \in {1, 2}, q \in {1, 2} : n = Len(listing.queries) /\ q = walk.query
        BY <1>4, <1>5
      <4>2. q < n
        BY <1>11, <4>1
      <4> QED BY <4>1, <4>2
    <3> QED BY <1>2, <1>5, <1>11, <3>1
  <2>2. walk'.answer \subseteq ShownIn(1)'
    BY <1>2, <1>4, <1>7, <2>1
  <2>3. Shape'
    BY <1>2, <1>4, <1>5, <1>10, <2>1, <2>2 DEF Shape
  <2> QED BY <1>8, <2>3 DEF Good
<1>12. CASE ~ more
  <2>1. walk'.pc = "answer" /\ walk'.query = Len(listing'.queries)
    BY <1>2, <1>4, <1>5, <1>10, <1>12
  <2>3. Shape'
    BY <1>2, <1>4, <2>1 DEF Shape, Reading
  <2> QED BY <1>8, <2>3 DEF Good
<1> QED BY <1>11, <1>12

LEMMA AnswerKeeps ==
  ASSUME Good, Answer
  PROVE  Good'
<1>1. Types /\ Shape
  BY DEF Good
<1> DEFINE on == walk.page * limit < walk.total
<1>2. /\ Still /\ walk' \in Walk /\ UNCHANGED since
      /\ walk.pc = "answer"
      /\ walk'.pc = (IF on THEN "pick" ELSE "ended")
      /\ walk'.page = (IF on THEN walk.page + 1 ELSE walk.page)
      /\ walk'.total = (IF on THEN 0 ELSE walk.total)
      /\ walk'.query = 1 /\ walk'.picked = {} /\ walk'.answer = {}
      /\ walk'.seen = walk.seen \union walk.answer
  BY <1>1, AnswerDoes
<1>4. walk.page \in Nat \ {0}
  BY <1>1, <1>2 DEF Types, Walk, Shape
<1>5. Len(listing.queries) \in {1, 2} /\ (Single <=> Len(listing.queries) = 1)
  BY <1>1, LengthIs
<1>7. Known' = Known /\ ListingOK' /\ rows' \in Seq(Row) /\ Single' = Single
  BY <1>1, <1>2, StillFacts
<1>8. Types'
  BY <1>1, <1>2, <1>7 DEF Types
<1>10. listing' = listing
  BY <1>2 DEF Still
<1> HIDE DEF on
<1>11. walk'.page # 0 /\ walk'.pc \in {"pick", "ended"} /\ (walk'.pc = "pick" => walk'.total = 0)
  <2>1. CASE on
    BY <1>2, <1>4, <2>1
  <2>2. CASE ~ on
    BY <1>2, <1>4, <2>2
  <2> QED BY <2>1, <2>2
<1>12. Shape'
  <2>1. 1 <= Len(listing'.queries)
    <3>1. PICK n \in {1, 2} : n = Len(listing.queries)
      BY <1>5
    <3>2. 1 <= n
      OBVIOUS
    <3> QED BY <1>10, <3>1, <3>2
  <2>2. walk'.query = 1 /\ walk'.picked = {} /\ walk'.answer = {}
    BY <1>2
  <2>3. walk'.pc \in Reading => walk'.pc = "pick"
    BY <1>11 DEF Reading
  <2>4. walk'.pc = "ended" => walk'.page * limit >= walk'.total
    <3> SUFFICES ASSUME walk'.pc = "ended" PROVE walk'.page * limit >= walk'.total
      OBVIOUS
    <3>1. walk.page \in Nat /\ walk.total \in Nat /\ limit \in Nat
      BY <1>1, ListingsAssumption DEF Types, Walk
    <3>2. walk.page * limit \in Nat
      BY <3>1
    <3>3. ~ (walk.page * limit < walk.total)
      BY <1>2 DEF on
    <3>4. walk'.page = walk.page /\ walk'.total = walk.total
      BY <1>2, <3>3 DEF on
    <3>5. walk.page * limit >= walk.total
      BY <3>1, <3>2, <3>3
    <3> QED BY <3>4, <3>5
  <2> QED BY <1>11, <2>1, <2>2, <2>3, <2>4 DEF Shape
<1> QED BY <1>8, <1>12 DEF Good

LEMMA StutterFacts ==
  ASSUME UNCHANGED vars
  PROVE  Still /\ UNCHANGED <<walk, since>>
BY DEF vars, Still

LEMMA GoodStep ==
  ASSUME Good, [Next]_vars
  PROVE  Good'
<1>1. (Moves /\ ~ Ended) \/ ClientStep \/ UNCHANGED vars
  BY NextCases DEF Good
<1>2. CASE UNCHANGED vars
  <2>1. Still /\ UNCHANGED <<walk, since>>
    BY <1>2, StutterFacts
  <2>2. Types
    BY DEF Good
  <2>3. Known' = Known /\ ListingOK' /\ rows' \in Seq(Row) /\ Single' = Single
        /\ ShownIn(1)' = ShownIn(1) /\ ShownIn(2)' = ShownIn(2)
    BY <2>1, <2>2, StillFacts
  <2>4. Types'
    BY <2>1, <2>2, <2>3 DEF Types
  <2>5. Shape'
    <3>1. UNCHANGED <<walk, since, listing>> /\ Shape
      BY <2>1 DEF Still, Good
    <3> QED BY <2>3, <3>1 DEF Shape, Idle
  <2> QED BY <2>4, <2>5 DEF Good
<1> QED BY <1>1, <1>2, MovesKeepShape, BeginKeeps, PickKeeps, LoadKeeps, CountKeeps, AnswerKeeps
        DEF ClientStep

-----------------------------------------------------------------------------
(* How far the walk has got. *)

\* Pages picked of query q, and the rows these pages hold now.
Pages(q) ==
  IF walk.pc = "idle" THEN 0
  ELSE IF \/ walk.pc \in {"answer", "ended"}
          \/ q < walk.query
          \/ q = walk.query /\ walk.pc \in {"load", "count"}
       THEN walk.page
       ELSE walk.page - 1

Size(q) == Cardinality(ShownIn(q))

\* The rows of the pages picked, as the table is now.
Covered(q) == AtMost(Pages(q) * limit, Size(q))

\* What the counts still to come will add to the total, if nothing changes.
Uncounted ==
  IF walk.pc \notin Reading THEN 0
  ELSE IF walk.query = 1 THEN Covered(1) + Covered(2) ELSE Covered(2)

Changes == since.left + since.came

\* Of the rows picked, those that Load will find.
Sure ==
  IF walk.pc = "load"
  THEN walk.picked \intersect (IF walk.query = 1 THEN ShownIn(1) ELSE ShownIn(2))
  ELSE walk.picked

\* The rows in all answers, with and without those that Load will not find.
Got == walk.answers + Cardinality(walk.answer) + Cardinality(walk.picked)

SureGot == walk.answers + Cardinality(walk.answer) + Cardinality(Sure)

\* The rows got are those of the pages picked, and on the last page also those
\* of the total, but for one row per change.
Sizes ==
  /\ Got <= Covered(1) + Covered(2) + Changes
  /\ Covered(1) + Covered(2) <= SureGot + Changes
  /\ walk.page * limit >= walk.total =>
       /\ Got <= walk.total + Uncounted + Changes
       /\ walk.total + Uncounted <= SureGot + Changes

\* The rows of K that rank below c, and those from c on.
Below(S, K, c, down) == {k \in K : Rank(S, k, down) < c}

From(S, K, c, down) == {k \in K \intersect S : ~ (Rank(S, k, down) < c)}

\* What the client holds, in the answers it has and in the one that is made.
Held == walk.seen \union walk.answer \union walk.picked

\* Up to this rank the rows have been picked.
Reached == Pages(1) * limit

\* Rows that stayed, rank among the pages picked, and were not picked; rows that
\* were picked and will be again; and rows that were.
Skipped == Below(ShownIn(1), since.kept \ Held, Reached, listing.descending)

ToCome == From(ShownIn(1), Held, Reached, listing.descending)

Again == (walk.picked \union walk.answer) \intersect walk.seen

\* A row that stayed can be passed over only when another went, which draws those
\* behind it one rank ahead.
NoneSkipped ==
  /\ Walking => since.kept \subseteq ShownIn(1) /\ Cardinality(Skipped) <= since.left
  /\ walk.pc = "answer" /\ walk.page * limit >= walk.total =>
       Cardinality(since.kept \ Held) <= since.left
  /\ Ended => Cardinality(since.kept \ walk.seen) <= since.left

\* A row can be met again only when another came, which pushes those behind it
\* one rank back.
NoneAgain ==
  /\ walk.pc # "idle" => walk.repeats + Cardinality(Again) + Cardinality(ToCome) <= since.came

Ordered == listing.by = "created" => NoneSkipped /\ NoneAgain

LEMMA AtMostFacts ==
  ASSUME NEW a \in Nat, NEW n \in Nat
  PROVE  /\ AtMost(a, n) \in Nat /\ AtMost(a, n) <= n
         /\ AtMost(a, n) <= AtMost(a, n + 1) /\ AtMost(a, n + 1) <= AtMost(a, n) + 1
         /\ AtMost(0, n) = 0
         /\ a >= n => AtMost(a, n) = n
BY DEF AtMost

LEMMA CoveredFacts ==
  ASSUME Good, NEW q \in {1, 2}
  PROVE  /\ limit \in Nat /\ Pages(q) \in Nat /\ Pages(q) * limit \in Nat
         /\ Size(q) \in Nat /\ Covered(q) \in Nat /\ Covered(q) <= Size(q)
<1>1. walk.pc # "idle" => walk.page \in Nat /\ walk.page - 1 \in Nat
  BY DEF Good, Types, Shape, Walk
<1>2. Pages(q) \in Nat
  BY <1>1 DEF Pages
<1>3. limit \in Nat
  BY ListingsAssumption
<1>4. Size(q) \in Nat
  BY ShownFacts DEF Good, Size
<1>5. Pages(q) * limit \in Nat
  BY <1>2, <1>3
<1> HIDE DEF Pages, Size
<1> QED BY <1>2, <1>3, <1>4, <1>5, AtMostFacts DEF Covered

LEMMA HandFacts ==
  ASSUME Good
  PROVE  /\ IsFiniteSet(walk.answer) /\ IsFiniteSet(walk.picked) /\ IsFiniteSet(walk.seen)
         /\ IsFiniteSet(Sure) /\ IsFiniteSet(Held) /\ IsFiniteSet(since.kept)
         /\ Cardinality(walk.answer) \in Nat /\ Cardinality(walk.picked) \in Nat
         /\ Cardinality(Sure) \in Nat /\ Cardinality(Sure) <= Cardinality(walk.picked)
         /\ walk.answers \in Nat /\ walk.total \in Nat /\ walk.page \in Nat /\ walk.repeats \in Nat
         /\ since.left \in Nat /\ since.came \in Nat
         /\ Got \in Nat /\ SureGot \in Nat /\ SureGot <= Got /\ Changes \in Nat
<1>1. Types
  BY DEF Good
<1>2. walk.answer \in SUBSET Known /\ walk.picked \in SUBSET Known /\ walk.seen \in SUBSET Known
      /\ since.kept \in SUBSET Known /\ Held \in SUBSET Known
  BY <1>1 DEF Types, Held
<1>3. Sure \in SUBSET walk.picked
  BY DEF Sure
<1>4. IsFiniteSet(walk.answer) /\ IsFiniteSet(walk.picked) /\ IsFiniteSet(walk.seen)
      /\ IsFiniteSet(since.kept) /\ IsFiniteSet(Held)
  BY <1>1, <1>2, KnownIds, FS_Subset
<1>5. IsFiniteSet(Sure) /\ Cardinality(Sure) <= Cardinality(walk.picked)
  BY <1>3, <1>4, FS_Subset
<1>6. Cardinality(walk.answer) \in Nat /\ Cardinality(walk.picked) \in Nat /\ Cardinality(Sure) \in Nat
  BY <1>4, <1>5, FS_CardinalityType
<1>7. walk.answers \in Nat /\ walk.total \in Nat /\ walk.page \in Nat /\ walk.repeats \in Nat
      /\ since.left \in Nat /\ since.came \in Nat
  BY <1>1 DEF Types, Walk, Since
<1> QED BY <1>4, <1>5, <1>6, <1>7 DEF Got, SureGot, Changes

LEMMA IdleSizes ==
  ASSUME Good, walk.pc = "idle"
  PROVE  Sizes
<1>1. walk = Idle
  BY DEF Good, Shape
<1>2. /\ walk.page = 0 /\ walk.total = 0 /\ walk.answers = 0
      /\ walk.answer = {} /\ walk.picked = {}
  BY <1>1 DEF Idle
<1>3. Cardinality(walk.answer) = 0 /\ Cardinality(walk.picked) = 0 /\ Sure = {} /\ Cardinality(Sure) = 0
  BY <1>2, FS_EmptySet DEF Sure
<1>4. Got = 0 /\ SureGot = 0
  BY <1>2, <1>3 DEF Got, SureGot
<1>5. Pages(1) = 0 /\ Pages(2) = 0
  BY DEF Pages
<1>6. limit \in Nat /\ Size(1) \in Nat /\ Size(2) \in Nat
  BY CoveredFacts
<1>7. Pages(1) * limit = 0 /\ Pages(2) * limit = 0
  BY <1>5, <1>6
<1>8. Covered(1) = 0 /\ Covered(2) = 0
  <2> HIDE DEF Pages, Size
  <2> QED BY <1>6, <1>7, AtMostFacts DEF Covered
<1>9. Uncounted = 0
  BY DEF Uncounted, Reading
<1> QED BY <1>2, <1>4, <1>8, <1>9, HandFacts DEF Sizes

-----------------------------------------------------------------------------
(* The answers hold as many rows as the total: what other requests do. *)

LEMMA MovesCovered ==
  ASSUME Good, Moves, NEW q \in {1, 2}
  PROVE  /\ Pages(q)' = Pages(q)
         /\ Size(q)' = Size(q) => Covered(q)' = Covered(q)
         /\ Size(q)' = Size(q) + 1 => /\ Covered(q)' \in Nat
                                      /\ Covered(q) <= Covered(q)'
                                      /\ Covered(q)' <= Covered(q) + 1
         /\ Size(q)' = Size(q) - 1 /\ Size(q) # 0 => /\ Covered(q)' \in Nat
                                                    /\ Covered(q)' <= Covered(q)
                                                    /\ Covered(q) <= Covered(q)' + 1
<1>1. Pages(q)' = Pages(q)
  BY DEF Moves, Pages
<1>2. PICK a \in Nat, n \in Nat : a = Pages(q) * limit /\ n = Size(q)
  BY CoveredFacts
<1>3. Covered(q) = AtMost(a, n) /\ Covered(q)' = AtMost(a, Size(q)')
  BY <1>1, <1>2 DEF Covered
<1>4. CASE Size(q)' = Size(q) - 1 /\ Size(q) # 0
  <2>1. n - 1 \in Nat /\ (n - 1) + 1 = n /\ Size(q)' = n - 1
    BY <1>2, <1>4
  <2>2. Covered(q)' = AtMost(a, n - 1) /\ Covered(q) = AtMost(a, (n - 1) + 1)
    BY <1>3, <2>1
  <2>3. AtMost(a, n - 1) \in Nat /\ AtMost(a, n - 1) <= AtMost(a, (n - 1) + 1)
        /\ AtMost(a, (n - 1) + 1) <= AtMost(a, n - 1) + 1
    BY <2>1 DEF AtMost
  <2> HIDE DEF Size, Covered
  <2>4. Covered(q)' \in Nat /\ Covered(q)' <= Covered(q) /\ Covered(q) <= Covered(q)' + 1
    BY <2>2, <2>3
  <2>5. Size(q)' # Size(q) /\ Size(q)' # Size(q) + 1
    BY <1>2, <2>1
  <2> QED BY <1>1, <2>4, <2>5
<1>5. CASE Size(q)' = Size(q) + 1
  <2>1. Size(q)' = n + 1
    BY <1>2, <1>5
  <2>2. Covered(q)' = AtMost(a, n + 1) /\ Covered(q) = AtMost(a, n)
    BY <1>3, <2>1
  <2>3. AtMost(a, n) <= AtMost(a, n + 1) /\ AtMost(a, n + 1) <= AtMost(a, n) + 1
        /\ AtMost(a, n + 1) \in Nat
    BY DEF AtMost
  <2>4. Covered(q)' \in Nat /\ Covered(q) <= Covered(q)' /\ Covered(q)' <= Covered(q) + 1
    BY <2>2, <2>3
  <2>5. Size(q)' # Size(q) /\ Size(q)' # Size(q) - 1
    BY <1>2, <2>1
  <2> QED BY <1>1, <2>4, <2>5
<1>6. CASE Size(q)' = Size(q)
  <2>1. Size(q)' # Size(q) + 1 /\ Size(q)' # Size(q) - 1
    BY <1>2, <1>6
  <2>2. Covered(q)' = Covered(q)
    BY <1>2, <1>3, <1>6
  <2> QED BY <1>1, <2>1, <2>2
<1> QED BY <1>1, <1>4, <1>5, <1>6, Zenon

\* What moves of rows do to the sizes.
LEMMA MovesSizes ==
  ASSUME Good, Moves, ~ Ended, walk.pc # "idle"
  PROVE  /\ Got' = Got
         /\ \/ /\ Covered(1)' = Covered(1) /\ Covered(2)' = Covered(2) /\ SureGot' = SureGot
               /\ Changes' \in Nat /\ Changes' >= Changes
            \/ /\ Changes' = Changes + 1
               /\ Covered(1)' \in Nat /\ Covered(2)' \in Nat /\ SureGot' \in Nat
               /\ Covered(1) <= Covered(1)' /\ Covered(2) <= Covered(2)'
               /\ Covered(1)' + Covered(2)' <= Covered(1) + Covered(2) + 1
               /\ SureGot' >= SureGot
            \/ /\ Changes' = Changes + 1
               /\ Covered(1)' \in Nat /\ Covered(2)' \in Nat /\ SureGot' \in Nat
               /\ Covered(1)' <= Covered(1) /\ Covered(2)' <= Covered(2)
               /\ Covered(1) + Covered(2) <= Covered(1)' + Covered(2)' + 1
               /\ SureGot <= SureGot' + 1
<1>1. walk' = walk /\ Types' /\ Got' = Got
  BY DEF Moves, Got
<1>2. Walking
  BY DEF Walking
<1>3. Types /\ IsFiniteSet(Sure) /\ IsFiniteSet(walk.picked) /\ SureGot \in Nat /\ Changes \in Nat
      /\ since.left \in Nat /\ since.came \in Nat /\ Cardinality(Sure) \in Nat
      /\ walk.answers \in Nat /\ Cardinality(walk.answer) \in Nat
  BY HandFacts DEF Good
<1>4. /\ Covered(1) \in Nat /\ Covered(2) \in Nat /\ Size(1) \in Nat /\ Size(2) \in Nat
  BY CoveredFacts
<1>5. IsFiniteSet(ShownIn(1)) /\ IsFiniteSet(ShownIn(2))
  BY <1>3, ShownFacts
<1>6. CASE Stays
  <2>1. ShownIn(1)' = ShownIn(1) /\ ShownIn(2)' = ShownIn(2)
        /\ since'.left >= since.left /\ since'.came >= since.came
    BY <1>6 DEF Stays
  <2>2. since'.left \in Nat /\ since'.came \in Nat
    BY <1>1 DEF Types, Since
  <2>3. Sure' = Sure
    BY <1>1, <2>1 DEF Sure
  <2>4. SureGot' = SureGot /\ Changes' \in Nat /\ Changes' >= Changes
    BY <1>1, <1>3, <2>1, <2>2, <2>3 DEF SureGot, Changes
  <2>5. Size(1)' = Size(1) /\ Size(2)' = Size(2)
    BY <2>1 DEF Size
  <2>6. Covered(1)' = Covered(1) /\ Covered(2)' = Covered(2)
    BY <2>5, MovesCovered
  <2> QED BY <1>1, <2>4, <2>6
<1>7. ASSUME NEW q \in {1, 2}, NEW id \in Nat, ComesTo(q, id)
      PROVE  /\ Changes' = Changes + 1
             /\ Covered(1)' \in Nat /\ Covered(2)' \in Nat /\ SureGot' \in Nat
             /\ Covered(1) <= Covered(1)' /\ Covered(2) <= Covered(2)'
             /\ Covered(1)' + Covered(2)' <= Covered(1) + Covered(2) + 1
             /\ SureGot' >= SureGot
  <2>1. PICK p \in {1, 2} : p = 3 - q
    OBVIOUS
  <2>2. id \notin ShownIn(q) /\ ShownIn(q)' = ShownIn(q) \union {id} /\ ShownIn(p)' = ShownIn(p)
        /\ since' = [kept |-> since.kept, left |-> since.left, came |-> since.came + 1]
    BY <1>2, <1>7, <2>1 DEF ComesTo
  <2>3. Changes' = Changes + 1
    <3>1. since'.left = since.left /\ since'.came = since.came + 1
      BY <2>2
    <3> QED BY <1>3, <3>1 DEF Changes
  <2>4. Size(q)' = Size(q) + 1 /\ Size(p)' = Size(p)
    <3>1. Cardinality(ShownIn(q) \union {id}) = Cardinality(ShownIn(q)) + 1
      BY <1>5, <2>2, FS_AddElement
    <3> QED BY <2>2, <3>1 DEF Size
  <2>5. Covered(q)' \in Nat /\ Covered(q) <= Covered(q)' /\ Covered(q)' <= Covered(q) + 1
        /\ Covered(p)' = Covered(p)
    BY <2>4, MovesCovered
  <2>6. SureGot' \in Nat /\ SureGot' >= SureGot
    <3>1. Sure \subseteq Sure' /\ Sure' \in SUBSET walk.picked
      <4>1. ShownIn(1) \subseteq ShownIn(1)' /\ ShownIn(2) \subseteq ShownIn(2)'
        <5>1. (q = 1 /\ p = 2) \/ (q = 2 /\ p = 1)
          BY <2>1
        <5> QED BY <2>2, <5>1
      <4> QED BY <1>1, <4>1 DEF Sure
    <3>2. IsFiniteSet(Sure') /\ Cardinality(Sure') \in Nat /\ Cardinality(Sure) <= Cardinality(Sure')
      BY <1>3, <3>1, FS_Subset, FS_CardinalityType
    <3> QED BY <1>1, <1>3, <3>2 DEF SureGot
  <2>7. (q = 1 /\ p = 2) \/ (q = 2 /\ p = 1)
    BY <2>1
  <2>8. CASE q = 1 /\ p = 2
    BY <1>4, <2>3, <2>5, <2>6, <2>8
  <2>9. CASE q = 2 /\ p = 1
    BY <1>4, <2>3, <2>5, <2>6, <2>9
  <2> QED BY <2>7, <2>8, <2>9
<1>8. ASSUME NEW q \in {1, 2}, NEW id \in Nat, GoesFrom(q, id)
      PROVE  /\ Changes' = Changes + 1
             /\ Covered(1)' \in Nat /\ Covered(2)' \in Nat /\ SureGot' \in Nat
             /\ Covered(1)' <= Covered(1) /\ Covered(2)' <= Covered(2)
             /\ Covered(1) + Covered(2) <= Covered(1)' + Covered(2)' + 1
             /\ SureGot <= SureGot' + 1
  <2>1. PICK p \in {1, 2} : p = 3 - q
    OBVIOUS
  <2>2. id \in ShownIn(q) /\ ShownIn(q)' = ShownIn(q) \ {id} /\ ShownIn(p)' = ShownIn(p)
        /\ since' = [kept |-> since.kept \ {id}, left |-> since.left + 1, came |-> since.came]
    BY <1>2, <1>8, <2>1 DEF GoesFrom
  <2>3. Changes' = Changes + 1
    <3>1. since'.left = since.left + 1 /\ since'.came = since.came
      BY <2>2
    <3> QED BY <1>3, <3>1 DEF Changes
  <2>4. Size(q)' = Size(q) - 1 /\ Size(q) # 0 /\ Size(p)' = Size(p)
    <3>1. Cardinality(ShownIn(q) \ {id}) = Cardinality(ShownIn(q)) - 1
      BY <1>5, <2>2, FS_RemoveElement
    <3>2. Cardinality(ShownIn(q)) # 0
      BY <1>5, <2>2, FS_EmptySet
    <3> QED BY <2>2, <3>1, <3>2 DEF Size
  <2>5. Covered(q)' \in Nat /\ Covered(q)' <= Covered(q) /\ Covered(q) <= Covered(q)' + 1
        /\ Covered(p)' = Covered(p)
    BY <2>4, MovesCovered
  <2>6. SureGot' \in Nat /\ SureGot <= SureGot' + 1
    <3>1. Sure' \in SUBSET walk.picked /\ Sure \subseteq Sure' \union {id}
      <4>1. ShownIn(1) \subseteq ShownIn(1)' \union {id} /\ ShownIn(2) \subseteq ShownIn(2)' \union {id}
        <5>1. (q = 1 /\ p = 2) \/ (q = 2 /\ p = 1)
          BY <2>1
        <5> QED BY <2>2, <5>1
      <4> QED BY <1>1, <4>1 DEF Sure
    <3>2. IsFiniteSet(Sure') /\ Cardinality(Sure') \in Nat
      BY <1>3, <3>1, FS_Subset, FS_CardinalityType
    <3>3. IsFiniteSet(Sure' \union {id}) /\ Cardinality(Sure' \union {id}) <= Cardinality(Sure') + 1
      BY <3>2, FS_AddElement
    <3>4. Cardinality(Sure) <= Cardinality(Sure' \union {id}) /\ Cardinality(Sure' \union {id}) \in Nat
      BY <3>1, <3>3, FS_Subset, FS_CardinalityType
    <3> QED BY <1>1, <1>3, <3>2, <3>3, <3>4 DEF SureGot
  <2>7. (q = 1 /\ p = 2) \/ (q = 2 /\ p = 1)
    BY <2>1
  <2>8. CASE q = 1 /\ p = 2
    BY <1>4, <2>3, <2>5, <2>6, <2>8
  <2>9. CASE q = 2 /\ p = 1
    BY <1>4, <2>3, <2>5, <2>6, <2>9
  <2> QED BY <2>7, <2>8, <2>9
<1> QED BY <1>1, <1>6, <1>7, <1>8 DEF Moves

LEMMA MovesFinite ==
  ASSUME Good, Moves, NEW q \in {1, 2}
  PROVE  IsFiniteSet(ShownIn(q)') /\ Size(q)' \in Nat
<1>1. IsFiniteSet(ShownIn(1)) /\ IsFiniteSet(ShownIn(2))
  BY ShownFacts DEF Good
<1>2. PICK S : S = ShownIn(q)' /\ Size(q)' = Cardinality(S)
  BY DEF Size
<1>3. \E id : S \subseteq ShownIn(q) \union {id}
  <2>1. CASE Stays
    BY <1>2, <2>1 DEF Stays
  <2>2. ASSUME NEW p \in {1, 2}, NEW id \in Nat, ComesTo(p, id) \/ GoesFrom(p, id)
        PROVE  S \subseteq ShownIn(q) \union {id}
    <3>1. 3 - 1 = 2 /\ 3 - 2 = 1
      OBVIOUS
    <3>2. CASE p = 1
      BY <1>2, <2>2, <3>1, <3>2 DEF ComesTo, GoesFrom
    <3>3. CASE p = 2
      BY <1>2, <2>2, <3>1, <3>3 DEF ComesTo, GoesFrom
    <3> QED BY <3>2, <3>3
  <2> QED BY <2>1, <2>2 DEF Moves
<1>4. PICK id : S \subseteq ShownIn(q) \union {id}
  BY <1>3
<1>5. IsFiniteSet(ShownIn(q) \union {id})
  BY <1>1, FS_AddElement
<1>6. IsFiniteSet(S) /\ Cardinality(S) \in Nat
  BY <1>4, <1>5, FS_Subset, FS_CardinalityType
<1> QED BY <1>2, <1>6

LEMMA MovesKeepSizes ==
  ASSUME Good, Sizes, Moves, ~ Ended
  PROVE  Sizes'
<1>0. Good' /\ walk' = walk
  BY MovesKeepShape DEF Moves
<1>1. CASE walk.pc = "idle"
  <2>1. walk' = Idle /\ since' = since
    BY <1>0, <1>1 DEF Good, Shape, Moves, Stays, ComesTo, GoesFrom, Walking
  <2>2. /\ walk'.page = 0 /\ walk'.total = 0 /\ walk'.answers = 0
        /\ walk'.answer = {} /\ walk'.picked = {} /\ walk'.pc = "idle"
    BY <2>1 DEF Idle
  <2>3. Got' = 0 /\ SureGot' = 0
    <3>1. Sure' = {}
      BY <2>2 DEF Sure
    <3>2. Cardinality(walk'.answer) = 0 /\ Cardinality(walk'.picked) = 0 /\ Cardinality(Sure') = 0
      BY <2>2, <3>1, FS_EmptySet
    <3> QED BY <2>2, <3>2 DEF Got, SureGot
  <2>4. Covered(1)' = 0 /\ Covered(2)' = 0
    <3>1. ASSUME NEW q \in {1, 2} PROVE Covered(q)' = 0
      <4>1. Pages(q)' = 0
        BY <2>2 DEF Pages
      <4>2. Covered(q)' = AtMost(0, Size(q)')
        <5>1. 0 * limit = 0
          BY ListingsAssumption
        <5> QED BY <4>1, <5>1 DEF Covered
      <4>3. Size(q)' \in Nat
        BY MovesFinite
      <4> HIDE DEF Size
      <4> QED BY <4>2, <4>3, AtMostFacts
    <3> QED BY <3>1
  <2>5. Uncounted' = 0
    BY <2>2 DEF Uncounted, Reading
  <2>6. Changes' \in Nat
    BY <2>1, HandFacts DEF Changes
  <2>7. PICK dh \in Nat : dh = Changes'
    BY <2>6
  <2>8. 0 <= 0 + 0 + dh /\ 0 + 0 <= 0 + dh
    OBVIOUS
  <2>9. walk'.total = 0
    BY <2>2
  <2> HIDE DEF Got, SureGot, Covered, Uncounted, Changes
  <2> QED BY <2>3, <2>4, <2>5, <2>7, <2>8, <2>9 DEF Sizes
<1>2. CASE walk.pc # "idle"
  <2>1. PICK c1 \in Nat, c2 \in Nat, got \in Nat, sure \in Nat, ch \in Nat, t \in Nat, g \in Nat :
          /\ c1 = Covered(1) /\ c2 = Covered(2) /\ got = Got /\ sure = SureGot /\ ch = Changes
          /\ t = walk.total /\ g = walk.page * limit
    <3>1. walk.page * limit \in Nat
      BY HandFacts, ListingsAssumption
    <3> QED BY <3>1, HandFacts, CoveredFacts
  <2>2. PICK d1, d2, more, dh : d1 = Covered(1)' /\ d2 = Covered(2)' /\ more = SureGot' /\ dh = Changes'
    OBVIOUS
  <2>3. /\ Got' = got /\ t = walk'.total /\ g = walk'.page * limit
        /\ d1 \in Nat /\ d2 \in Nat /\ more \in Nat /\ dh \in Nat
        /\ \/ d1 = c1 /\ d2 = c2 /\ more = sure /\ dh >= ch
           \/ /\ dh = ch + 1 /\ c1 <= d1 /\ c2 <= d2 /\ d1 + d2 <= c1 + c2 + 1 /\ more >= sure
           \/ /\ dh = ch + 1 /\ d1 <= c1 /\ d2 <= c2 /\ c1 + c2 <= d1 + d2 + 1 /\ sure <= more + 1
    <3>1. t = walk'.total /\ g = walk'.page * limit
      BY <1>0, <2>1
    <3>2. ch + 1 \in Nat
      OBVIOUS
    <3> QED BY <1>2, <2>1, <2>2, <3>1, <3>2, MovesSizes
  <2>4. PICK u \in Nat, v \in Nat :
          /\ u = Uncounted /\ v = Uncounted'
          /\ \/ u = 0 /\ v = 0
             \/ u = c1 + c2 /\ v = d1 + d2
             \/ u = c2 /\ v = d2
    <3>1. CASE walk.pc \notin Reading
      BY <1>0, <3>1 DEF Uncounted
    <3>2. CASE walk.pc \in Reading /\ walk.query = 1
      <4>1. Uncounted = c1 + c2 /\ Uncounted' = d1 + d2
        BY <1>0, <2>1, <2>2, <3>2 DEF Uncounted
      <4>2. c1 + c2 \in Nat /\ d1 + d2 \in Nat
        BY <2>3
      <4> QED BY <4>1, <4>2
    <3>3. CASE walk.pc \in Reading /\ walk.query # 1
      BY <1>0, <2>1, <2>2, <2>3, <3>3 DEF Uncounted
    <3> QED BY <3>1, <3>2, <3>3
  <2>5. /\ got <= c1 + c2 + ch /\ c1 + c2 <= sure + ch
        /\ g >= t => got <= t + u + ch /\ t + u <= sure + ch
    BY <2>1, <2>4 DEF Sizes
  <2>6. /\ got <= d1 + d2 + dh /\ d1 + d2 <= more + dh
        /\ g >= t => got <= t + v + dh /\ t + v <= more + dh
    BY <2>3, <2>4, <2>5
  <2> QED BY <2>2, <2>3, <2>4, <2>6 DEF Sizes
<1> QED BY <1>1, <1>2


\* A step of the client that leaves the rows alone.
LEMMA StillCovered ==
  ASSUME Good, Still, NEW q \in {1, 2}
  PROVE  /\ Size(q)' = Size(q)
         /\ Pages(q)' = Pages(q) => Covered(q)' = Covered(q)
         /\ Size(q) = 0 /\ Pages(q)' \in Nat => Covered(q)' = 0 /\ Covered(q) = 0
<1>1. ShownIn(1)' = ShownIn(1) /\ ShownIn(2)' = ShownIn(2)
  BY StillFacts DEF Good
<1>2. ShownIn(q)' = ShownIn(q)
  BY <1>1
<1>3. Size(q)' = Size(q)
  BY <1>2 DEF Size
<1>4. Pages(q)' = Pages(q) => Covered(q)' = Covered(q)
  BY <1>3 DEF Covered
<1>5. ASSUME Size(q) = 0, Pages(q)' \in Nat PROVE Covered(q)' = 0 /\ Covered(q) = 0
  <2>1. limit \in Nat /\ Pages(q) \in Nat
    BY CoveredFacts
  <2>2. PICK a \in Nat, b \in Nat : a = Pages(q)' * limit /\ b = Pages(q) * limit
    BY <1>5, <2>1
  <2>3. Covered(q)' = AtMost(a, 0) /\ Covered(q) = AtMost(b, 0)
    BY <1>3, <1>5, <2>2 DEF Covered
  <2> QED BY <2>3 DEF AtMost
<1> QED BY <1>3, <1>4, <1>5

LEMMA BeginSizes ==
  ASSUME Good, Begin
  PROVE  Sizes'
<1>1. /\ Still
      /\ walk'.pc = "pick" /\ walk'.page = 1 /\ walk'.query = 1
      /\ walk'.picked = {} /\ walk'.answer = {}
      /\ walk'.total = 0 /\ walk'.answers = 0
      /\ since'.left = 0 /\ since'.came = 0 /\ walk.pc = "idle"
  BY BeginDoes DEF Good, Begin
<1>2. Changes' = 0
  BY <1>1 DEF Changes
<1>3. Got' = 0 /\ SureGot' = 0
  <2>1. Sure' = {}
    BY <1>1 DEF Sure
  <2>2. Cardinality(walk'.answer) = 0 /\ Cardinality(walk'.picked) = 0 /\ Cardinality(Sure') = 0
    BY <1>1, <2>1, FS_EmptySet
  <2> QED BY <1>1, <2>2 DEF Got, SureGot
<1>4. ASSUME NEW q \in {1, 2} PROVE Covered(q)' = 0
  <2>1. Pages(q)' = 0 /\ Pages(q) = 0
    BY <1>1 DEF Pages
  <2>2. limit \in Nat /\ Size(q) \in Nat
    BY CoveredFacts
  <2>3. Covered(q)' = Covered(q) /\ Covered(q) = AtMost(0, Size(q))
    <3>1. 0 * limit = 0
      BY <2>2
    <3> QED BY <1>1, <2>1, <3>1, StillCovered DEF Covered
  <2> HIDE DEF Size
  <2> QED BY <2>2, <2>3, AtMostFacts
<1>5. Covered(1)' = 0 /\ Covered(2)' = 0
  BY <1>4
<1>6. Uncounted' = 0
  BY <1>1, <1>5 DEF Uncounted, Reading
<1> HIDE DEF Got, SureGot, Covered, Uncounted, Changes
<1>7. 0 <= 0 + 0 + 0
  OBVIOUS
<1> QED BY <1>1, <1>2, <1>3, <1>5, <1>6, <1>7 DEF Sizes

LEMMA PickSizes ==
  ASSUME Good, Sizes, Pick
  PROVE  Sizes'
<1>1. /\ Still /\ UNCHANGED since
      /\ walk.pc = "pick" /\ walk'.pc \in {"load", "count"}
      /\ walk'.page = walk.page /\ walk'.query = walk.query
      /\ walk'.answer = walk.answer /\ walk'.total = walk.total /\ walk'.answers = walk.answers
  BY PickDoes DEF Good
<1>2. PICK order \in Orders(ShownIn(walk.query)) : walk'.picked = PageOf(order, walk.page)
  BY PickDoes DEF Good
<1>3. walk.query \in {1, 2} /\ walk.page \in Nat \ {0} /\ walk.picked = {}
  BY <1>1 DEF Good, Types, Walk, Shape, Reading
<1>4. PICK q \in {1, 2}, p \in {1, 2} : q = walk.query /\ p = 3 - q
  BY <1>3
<1>5. /\ walk'.picked \in SUBSET ShownIn(q)
      /\ Cardinality(walk'.picked) = AtMost(walk.page * limit, Size(q)) - AtMost(Skip(walk.page), Size(q))
  <2>1. IsFiniteSet(ShownIn(q)) /\ order \in SetToSeqs(ShownIn(q))
    <3>1. IsFiniteSet(ShownIn(1)) /\ IsFiniteSet(ShownIn(2))
      BY ShownFacts DEF Good
    <3> QED BY <1>2, <1>4, <3>1 DEF Orders
  <2> QED BY <1>2, <1>3, <2>1, PageSize DEF Size
<1>6. Covered(q) = AtMost(Skip(walk.page), Size(q)) /\ Covered(q)' = AtMost(walk.page * limit, Size(q))
  <2>1. Pages(q) = walk.page - 1 /\ Pages(q)' = walk.page
    <3>1. walk'.query = q /\ walk.query = q /\ ~ (q < q)
      BY <1>1, <1>4
    <3> QED BY <1>1, <3>1 DEF Pages
  <2>2. Size(q)' = Size(q)
    BY <1>1, StillCovered
  <2> QED BY <2>1, <2>2 DEF Covered, Skip
<1>7. Covered(p)' = Covered(p) /\ p # q
  <2>1. Pages(p)' = Pages(p) /\ p # q
    BY <1>1, <1>4 DEF Pages
  <2> QED BY <1>1, <2>1, StillCovered
<1>8. Sure' = walk'.picked
  <2>1. ShownIn(1)' = ShownIn(1) /\ ShownIn(2)' = ShownIn(2)
    BY <1>1, StillFacts DEF Good
  <2>2. CASE q = 1
    BY <1>1, <1>4, <1>5, <2>1, <2>2 DEF Sure
  <2>3. CASE q = 2
    BY <1>1, <1>4, <1>5, <2>1, <2>3 DEF Sure
  <2> QED BY <2>2, <2>3
<1>9. PICK c \in Nat, d \in Nat, k \in Nat, n \in Nat, a \in Nat, ch \in Nat, t \in Nat, g \in Nat :
        /\ c = Covered(q) /\ k = Covered(p) /\ d = Covered(q)'
        /\ n = Cardinality(walk'.picked) /\ a = walk.answers + Cardinality(walk.answer)
        /\ ch = Changes /\ t = walk.total /\ g = walk.page * limit /\ n = d - c
  <2>1. IsFiniteSet(ShownIn(1)) /\ IsFiniteSet(ShownIn(2))
    BY ShownFacts DEF Good
  <2>2. IsFiniteSet(ShownIn(q))
    BY <2>1
  <2>3. Cardinality(walk'.picked) \in Nat
    BY <1>5, <2>2, FS_Subset, FS_CardinalityType
  <2>4. walk.page * limit \in Nat /\ Covered(q) \in Nat /\ Covered(p) \in Nat /\ Size(q) \in Nat
    BY <1>3, CoveredFacts
  <2>5. AtMost(walk.page * limit, Size(q)) \in Nat
    <3> HIDE DEF Size
    <3> QED BY <2>4, AtMostFacts
  <2>6. walk.answers + Cardinality(walk.answer) \in Nat /\ Changes \in Nat /\ walk.total \in Nat
    BY HandFacts
  <2> HIDE DEF Covered, Changes
  <2> QED BY <1>5, <1>6, <2>3, <2>4, <2>5, <2>6
<1>10. Got = a + 0 /\ SureGot = a + 0 /\ Got' = a + n /\ SureGot' = a + n /\ Changes' = ch
  <2>1. Sure = {}
    BY <1>1, <1>3 DEF Sure
  <2>2. Cardinality({}) = 0
    BY FS_EmptySet
  <2> QED BY <1>1, <1>3, <1>8, <1>9, <2>1, <2>2 DEF Got, SureGot, Changes
<1>11. \/ q = 1 /\ p = 2 /\ Uncounted = c + k /\ Uncounted' = d + k
       \/ q = 2 /\ p = 1 /\ Uncounted = c /\ Uncounted' = d
  <2>1. walk.pc \in Reading /\ walk'.pc \in Reading
    BY <1>1 DEF Reading
  <2>2. CASE q = 1
    BY <1>1, <1>4, <1>7, <1>9, <2>1, <2>2 DEF Uncounted
  <2>3. CASE q = 2
    BY <1>1, <1>4, <1>7, <1>9, <2>1, <2>3 DEF Uncounted
  <2> QED BY <2>2, <2>3
<1>12. PICK u \in Nat, v \in Nat : u = Uncounted /\ v = Uncounted'
  BY <1>11
<1>13. /\ a + 0 <= c + k + ch /\ c + k <= a + 0 + ch
       /\ g >= t => a + 0 <= t + u + ch /\ t + u <= a + 0 + ch
  <2>1. Covered(1) + Covered(2) = c + k
    BY <1>9, <1>11
  <2> QED BY <1>9, <1>10, <1>12, <2>1 DEF Sizes
<1>14. /\ a + n <= d + k + ch /\ d + k <= a + n + ch
       /\ g >= t => a + n <= t + v + ch /\ t + v <= a + n + ch
  BY <1>9, <1>11, <1>12, <1>13
<1>15. Covered(1)' + Covered(2)' = d + k
  BY <1>7, <1>9, <1>11
<1>16. walk'.total = t /\ walk'.page * limit = g
  BY <1>1, <1>9
<1> HIDE DEF Got, SureGot, Covered, Uncounted, Changes
<1> QED BY <1>9, <1>10, <1>12, <1>14, <1>15, <1>16 DEF Sizes

LEMMA LoadSizes ==
  ASSUME Good, Sizes, Load
  PROVE  Sizes'
<1>1. /\ Still /\ UNCHANGED since
      /\ walk.pc = "load" /\ walk'.pc = "count"
      /\ walk'.page = walk.page /\ walk'.query = walk.query
      /\ walk'.answer = walk.answer /\ walk'.total = walk.total /\ walk'.answers = walk.answers
      /\ walk'.picked = walk.picked \intersect ShownIn(walk.query)
  BY LoadDoes DEF Good
<1>2. walk.query \in {1, 2}
  BY <1>1 DEF Good, Shape, Reading
<1>3. Sure = walk'.picked /\ Sure' = walk'.picked
  BY <1>1, <1>2 DEF Sure
<1>4. Got' = SureGot /\ SureGot' = SureGot /\ Changes' = Changes
  BY <1>1, <1>3 DEF Got, SureGot, Changes
<1>5. Covered(1)' = Covered(1) /\ Covered(2)' = Covered(2)
  <2>1. Pages(1)' = Pages(1) /\ Pages(2)' = Pages(2)
    BY <1>1 DEF Pages
  <2> QED BY <1>1, <2>1, StillCovered
<1>6. Uncounted' = Uncounted
  BY <1>1, <1>5 DEF Uncounted, Reading
<1>7. PICK c \in Nat, got \in Nat, sure \in Nat, ch \in Nat, t \in Nat, g \in Nat, u \in Nat :
        /\ c = Covered(1) + Covered(2) /\ got = Got /\ sure = SureGot /\ ch = Changes
        /\ t = walk.total /\ g = walk.page * limit /\ u = Uncounted /\ sure <= got
  <2>1. walk.page * limit \in Nat /\ Covered(1) + Covered(2) \in Nat
    BY HandFacts, CoveredFacts
  <2>2. Uncounted \in Nat
    BY CoveredFacts DEF Uncounted
  <2> QED BY <2>1, <2>2, HandFacts
<1>8. /\ got <= c + ch /\ c <= sure + ch
      /\ g >= t => got <= t + u + ch /\ t + u <= sure + ch
  BY <1>7 DEF Sizes
<1>9. /\ sure <= c + ch /\ c <= sure + ch
      /\ g >= t => sure <= t + u + ch /\ t + u <= sure + ch
  BY <1>7, <1>8
<1>10. walk'.total = t /\ walk'.page * limit = g
  BY <1>1, <1>7
<1> HIDE DEF Got, SureGot, Covered, Uncounted, Changes
<1> QED BY <1>4, <1>5, <1>6, <1>7, <1>9, <1>10 DEF Sizes

LEMMA CountSizes ==
  ASSUME Good, Sizes, Count
  PROVE  Sizes'
<1> DEFINE on == walk.query < Len(listing.queries)
<1>1. /\ Still /\ UNCHANGED since /\ walk.pc = "count"
      /\ walk'.pc = (IF on THEN "pick" ELSE "answer")
      /\ walk'.query = (IF on THEN walk.query + 1 ELSE walk.query)
      /\ walk'.page = walk.page /\ walk'.answers = walk.answers
      /\ walk'.answer = walk.answer \union walk.picked
      /\ walk'.total = walk.total + Cardinality(ShownIn(walk.query))
      /\ walk'.picked = {}
  BY CountDoes DEF Good
<1>2. /\ walk.query \in {1, 2} /\ walk.query <= Len(listing.queries) /\ walk.page # 0
      /\ walk.query = 1 => walk.answer = {} /\ walk.total = 0
      /\ ~ Single /\ walk.query = 2 => walk.answer \subseteq ShownIn(1) /\ walk.picked \subseteq ShownIn(2)
  BY <1>1 DEF Good, Shape, Reading
<1>3. PICK len \in {1, 2}, q \in {1, 2} :
        len = Len(listing.queries) /\ q = walk.query /\ q <= len /\ (Single <=> len = 1)
  BY <1>2, LengthIs DEF Good
<1>4. walk.answer \intersect walk.picked = {}
  <2>1. CASE q = 1
    BY <1>2, <1>3, <2>1
  <2>2. CASE q = 2
    <3>1. ~ Single
      <4>1. q <= len /\ (Single <=> len = 1)
        BY <1>3
      <4>2. len # 1
        BY <2>2, <4>1
      <4> QED BY <4>1, <4>2, Zenon
    <3>2. ShownIn(1) \intersect ShownIn(2) = {}
      <4>1. listing.queries[1].shows = {"share"} /\ listing.queries[2].shows = {"position"}
            /\ ShownIn(1) = Shown(listing.queries[1]) /\ ShownIn(2) = Shown(listing.queries[2])
        BY <3>1, ListingShape DEF Good, Types
      <4> QED BY <4>1 DEF Shown
    <3> QED BY <1>2, <1>3, <2>2, <3>1, <3>2
  <2> QED BY <2>1, <2>2
<1>5. Cardinality(walk'.answer) = Cardinality(walk.answer) + Cardinality(walk.picked)
  <2>1. Cardinality(walk.answer \union walk.picked)
          = Cardinality(walk.answer) + Cardinality(walk.picked) - Cardinality({})
    BY <1>4, HandFacts, FS_Union
  <2> QED BY <1>1, <2>1, HandFacts, FS_EmptySet
<1>6. Got' = Got /\ SureGot = Got /\ SureGot' = Got /\ Changes' = Changes
  <2>1. Sure = walk.picked
    BY <1>1 DEF Sure
  <2>2. Sure' = {} /\ Cardinality({}) = 0
    <3>1. walk'.pc # "load"
      BY <1>1
    <3> QED BY <1>1, <3>1, FS_EmptySet DEF Sure
  <2> QED BY <1>1, <1>5, <2>1, <2>2, HandFacts DEF Got, SureGot, Changes
<1>7. /\ Covered(1)' = Covered(1) /\ Covered(2)' = Covered(2)
      /\ walk'.page * limit >= walk'.total =>
           /\ walk.page * limit >= walk.total
           /\ walk'.total + Uncounted' = walk.total + Uncounted
  <2>0. PICK c1 \in Nat, c2 \in Nat, n1 \in Nat, n2 \in Nat, t \in Nat, g \in Nat :
          /\ c1 = Covered(1) /\ c2 = Covered(2) /\ n1 = Size(1) /\ n2 = Size(2)
          /\ t = walk.total /\ g = walk.page * limit
    <3>1. walk.page * limit \in Nat
      BY HandFacts, CoveredFacts
    <3> QED BY <3>1, HandFacts, CoveredFacts
  <2>1. Pages(q) = walk.page /\ Covered(q) = AtMost(g, Size(q))
    <3>1. Pages(q) = walk.page
      BY <1>1, <1>3 DEF Pages
    <3> QED BY <2>0, <3>1 DEF Covered
  <2>2. walk'.total = t + Size(q) /\ walk'.page * limit = g
    BY <1>1, <1>3, <2>0 DEF Size
  <2>3. CASE q = 1 /\ len = 2
    <3>1. on /\ walk'.pc = "pick" /\ walk'.query = 2
      BY <1>1, <1>3, <2>3
    <3>2. Pages(1)' = Pages(1) /\ Pages(2)' = Pages(2)
      BY <1>1, <1>3, <2>3, <3>1 DEF Pages
    <3>3. Covered(1)' = Covered(1) /\ Covered(2)' = Covered(2)
      BY <1>1, <3>2, StillCovered
    <3>4. Uncounted = c1 + c2 /\ Uncounted' = c2 /\ t = 0
      BY <1>1, <1>2, <1>3, <2>0, <2>3, <3>1, <3>3 DEF Uncounted, Reading
    <3>5. g >= n1 => c1 = n1
      BY <2>0, <2>1, <2>3 DEF AtMost
    <3>6. walk'.total = t + n1
      BY <2>0, <2>2, <2>3
    <3>7. t + n1 <= g => g >= t /\ t + n1 + c2 = t + (c1 + c2)
      BY <3>4, <3>5
    <3> HIDE DEF Covered, Uncounted, Size
    <3> QED BY <2>0, <2>2, <3>3, <3>4, <3>6, <3>7
  <2>4. CASE q = 1 /\ len = 1
    <3>1. ~ on /\ walk'.pc = "answer"
      <4>1. ~ (1 < 1)
        OBVIOUS
      <4> QED BY <1>1, <1>3, <2>4, <4>1
    <3>2. Pages(1)' = Pages(1) /\ Pages(2)' = walk.page
      BY <1>1, <1>3, <2>4, <3>1 DEF Pages
    <3>3. n2 = 0
      BY <1>3, <2>0, <2>4, ShownFacts DEF Good, Size
    <3>4. Covered(1)' = Covered(1) /\ Covered(2)' = 0 /\ Covered(2) = 0
      <4>1. walk.page \in Nat
        BY HandFacts
      <4> QED BY <1>1, <2>0, <3>2, <3>3, <4>1, StillCovered
    <3>5. Uncounted = c1 + c2 /\ Uncounted' = 0 /\ t = 0
      BY <1>1, <1>2, <1>3, <2>0, <2>4, <3>1 DEF Uncounted, Reading
    <3>6. g >= n1 => c1 = n1
      BY <2>0, <2>1, <2>4 DEF AtMost
    <3>7. walk'.total = t + n1
      BY <2>0, <2>2, <2>4
    <3>8. t + n1 <= g => g >= t /\ t + n1 + 0 = t + (c1 + c2)
      BY <2>0, <3>4, <3>5, <3>6
    <3> HIDE DEF Covered, Uncounted, Size
    <3> QED BY <2>0, <2>2, <3>4, <3>5, <3>7, <3>8
  <2>5. CASE q = 2 /\ len = 2
    <3>1. ~ on /\ walk'.pc = "answer"
      <4>1. ~ (2 < 2)
        OBVIOUS
      <4> QED BY <1>1, <1>3, <2>5, <4>1
    <3>2. Pages(1)' = Pages(1) /\ Pages(2)' = Pages(2)
      BY <1>1, <1>3, <2>5, <3>1 DEF Pages
    <3>3. Covered(1)' = Covered(1) /\ Covered(2)' = Covered(2)
      BY <1>1, <3>2, StillCovered
    <3>4. Uncounted = c2 /\ Uncounted' = 0
      BY <1>1, <1>2, <1>3, <2>0, <2>5, <3>1, <3>3 DEF Uncounted, Reading
    <3>5. g >= n2 => c2 = n2
      BY <2>0, <2>1, <2>5 DEF AtMost
    <3>6. walk'.total = t + n2
      BY <2>0, <2>2, <2>5
    <3>7. t + n2 <= g => g >= t /\ t + n2 + 0 = t + c2
      BY <3>4, <3>5
    <3> HIDE DEF Covered, Uncounted, Size
    <3> QED BY <2>0, <2>2, <3>3, <3>4, <3>6, <3>7
  <2>6. (q = 1 /\ len = 2) \/ (q = 1 /\ len = 1) \/ (q = 2 /\ len = 2)
    <3>1. q <= len
      BY <1>3
    <3> QED BY <3>1
  <2> QED BY <2>3, <2>4, <2>5, <2>6, Zenon
<1> HIDE DEF Got, SureGot, Covered, Uncounted, Changes, on
<1>8. Covered(1)' + Covered(2)' = Covered(1) + Covered(2)
  BY <1>7
<1> QED BY <1>6, <1>7, <1>8 DEF Sizes

LEMMA AnswerSizes ==
  ASSUME Good, Sizes, Answer
  PROVE  Sizes'
<1> DEFINE on == walk.page * limit < walk.total
<1>1. /\ Still /\ UNCHANGED since /\ walk.pc = "answer"
      /\ walk'.pc = (IF on THEN "pick" ELSE "ended")
      /\ walk'.page = (IF on THEN walk.page + 1 ELSE walk.page)
      /\ walk'.total = (IF on THEN 0 ELSE walk.total)
      /\ walk'.query = 1 /\ walk'.picked = {} /\ walk'.answer = {}
      /\ walk'.answers = walk.answers + Cardinality(walk.answer)
  BY AnswerDoes DEF Good
<1>2. walk.page \in Nat \ {0} /\ walk.picked = {}
  BY <1>1 DEF Good, Types, Walk, Shape
<1>3. Got' = Got /\ SureGot = Got /\ SureGot' = Got /\ Changes' = Changes
  <2>1. Sure = {} /\ Sure' = {}
    BY <1>1, <1>2 DEF Sure
  <2>2. Cardinality({}) = 0
    BY FS_EmptySet
  <2> QED BY <1>1, <1>2, <2>1, <2>2, HandFacts DEF Got, SureGot, Changes
<1>4. Pages(1)' = Pages(1) /\ Pages(2)' = Pages(2)
  <2>1. Pages(1) = walk.page /\ Pages(2) = walk.page
    BY <1>1 DEF Pages
  <2>2. CASE on
    <3>1. walk'.pc = "pick" /\ walk'.page = walk.page + 1 /\ (walk.page + 1) - 1 = walk.page
      BY <1>1, <1>2, <2>2
    <3> QED BY <1>1, <2>1, <3>1 DEF Pages
  <2>3. CASE ~ on
    <3>1. walk'.pc = "ended" /\ walk'.page = walk.page
      BY <1>1, <2>3
    <3> QED BY <2>1, <3>1 DEF Pages
  <2> QED BY <2>2, <2>3
<1>5. Covered(1)' = Covered(1) /\ Covered(2)' = Covered(2)
  BY <1>1, <1>4, StillCovered
<1>6. PICK c1 \in Nat, c2 \in Nat, t \in Nat, g \in Nat, got \in Nat, ch \in Nat :
          /\ c1 = Covered(1) /\ c2 = Covered(2) /\ got = Got /\ ch = Changes
          /\ t = walk.total /\ g = walk.page * limit
  <2>1. walk.page * limit \in Nat
    BY HandFacts, CoveredFacts
  <2> QED BY <2>1, HandFacts, CoveredFacts
<1>7. Uncounted = 0
  BY <1>1 DEF Uncounted, Reading
<1>8. /\ got <= c1 + c2 + ch /\ c1 + c2 <= got + ch
      /\ g >= t => got <= t + 0 + ch /\ t + 0 <= got + ch
  <2> HIDE DEF Got, SureGot, Covered, Uncounted, Changes
  <2> QED BY <1>3, <1>6, <1>7 DEF Sizes
<1>9. CASE on
  <2>1. walk'.pc = "pick" /\ walk'.total = 0 /\ Uncounted' = c1 + c2
    BY <1>1, <1>5, <1>6, <1>9 DEF Uncounted, Reading
  <2>2. got <= 0 + (c1 + c2) + ch /\ 0 + (c1 + c2) <= got + ch
    BY <1>8
  <2> HIDE DEF Got, SureGot, Covered, Uncounted, Changes
  <2> QED BY <1>3, <1>5, <1>6, <1>8, <2>1, <2>2 DEF Sizes
<1>10. CASE ~ on
  <2>1. walk'.pc = "ended" /\ walk'.total = t /\ walk'.page * limit = g /\ Uncounted' = 0
    BY <1>1, <1>6, <1>10 DEF Uncounted, Reading
  <2> HIDE DEF Got, SureGot, Covered, Uncounted, Changes
  <2> QED BY <1>3, <1>5, <1>6, <1>8, <2>1 DEF Sizes
<1> QED BY <1>9, <1>10

LEMMA StillSizes ==
  ASSUME Good, Sizes, Still, UNCHANGED <<walk, since>>
  PROVE  Sizes'
<1>1. ShownIn(1)' = ShownIn(1) /\ ShownIn(2)' = ShownIn(2)
  BY StillFacts DEF Good
<1>2. Covered(1)' = Covered(1) /\ Covered(2)' = Covered(2)
  <2>1. Pages(1)' = Pages(1) /\ Pages(2)' = Pages(2)
    BY DEF Pages
  <2> QED BY <2>1, StillCovered
<1>3. Sure' = Sure
  BY <1>1 DEF Sure
<1>4. Got' = Got /\ SureGot' = SureGot /\ Changes' = Changes
  BY <1>3 DEF Got, SureGot, Changes
<1>5. Uncounted' = Uncounted
  BY <1>2 DEF Uncounted
<1> HIDE DEF Got, SureGot, Covered, Uncounted, Changes
<1> QED BY <1>2, <1>4, <1>5 DEF Sizes

LEMMA SizesStep ==
  ASSUME Good, Sizes, [Next]_vars
  PROVE  Sizes'
<1>1. (Moves /\ ~ Ended) \/ ClientStep \/ UNCHANGED vars
  BY NextCases DEF Good
<1> QED BY <1>1, MovesKeepSizes, BeginSizes, PickSizes, LoadSizes, CountSizes, AnswerSizes,
           StutterFacts, StillSizes DEF ClientStep

-----------------------------------------------------------------------------
(* What a row that comes, or goes, does to the ranks of the others. *)

LEMMA OneMore ==
  ASSUME NEW S, IsFiniteSet(S), NEW x
  PROVE  /\ IsFiniteSet(S \union {x}) /\ Cardinality(S \union {x}) \in Nat
         /\ Cardinality(S \union {x}) <= Cardinality(S) + 1
<1>1. Cardinality(S) \in Nat
  BY FS_CardinalityType
<1>2. CASE x \in S
  <2>1. S \union {x} = S
    BY <1>2
  <2>2. Cardinality(S) <= Cardinality(S) + 1
    BY <1>1
  <2> QED BY <1>1, <2>1, <2>2, Zenon
<1>3. CASE x \notin S
  <2>1. IsFiniteSet(S \union {x}) /\ Cardinality(S \union {x}) = Cardinality(S) + 1
    BY <1>3, FS_AddElement
  <2>2. Cardinality(S) + 1 \in Nat /\ Cardinality(S) + 1 <= Cardinality(S) + 1
    BY <1>1
  <2> QED BY <2>1, <2>2, Zenon
<1> QED BY <1>2, <1>3

LEMMA RankRemove ==
  ASSUME NEW S \in SUBSET Nat, IsFiniteSet(S), NEW x \in S, NEW k \in S \ {x}, NEW down \in BOOLEAN
  PROVE  Rank(S, k, down) = IF Ahead(x, k, down) THEN Rank(S \ {x}, k, down) + 1
                            ELSE Rank(S \ {x}, k, down)
<1>1. IsFiniteSet(S \ {x}) /\ x \notin S \ {x} /\ (S \ {x}) \union {x} = S
  BY FS_RemoveElement
<1> QED BY <1>1, RankAdd

\* Few more of the rows that stay rank below c.
LEMMA FewSkipped ==
  ASSUME NEW S \in SUBSET Nat, IsFiniteSet(S), NEW x \in S, NEW K \in SUBSET (S \ {x}),
         NEW c \in Nat, NEW down \in BOOLEAN
  PROVE  Cardinality(Below(S \ {x}, K, c, down)) <= Cardinality(Below(S, K, c, down)) + 1
<1> DEFINE new == {k \in K : Rank(S \ {x}, k, down) < c}
           old == {k \in K : Rank(S, k, down) < c}
           at == {k \in K : Rank(S, k, down) = c}
<1>1. IsFiniteSet(old) /\ IsFiniteSet(S \ {x}) /\ Cardinality(old) \in Nat
  <2>1. old \in SUBSET S /\ S \ {x} \in SUBSET S
    OBVIOUS
  <2> QED BY <2>1, FS_Subset, FS_CardinalityType
<1>2. \A k \in new : k \in old \/ k \in at
  <2> SUFFICES ASSUME NEW k \in K, Rank(S \ {x}, k, down) < c
               PROVE  Rank(S, k, down) < c \/ Rank(S, k, down) = c
    OBVIOUS
  <2>1. PICK r \in Nat, s \in Nat : r = Rank(S \ {x}, k, down) /\ s = Rank(S, k, down)
    BY <1>1, FirstFinite
  <2>2. s = r \/ s = r + 1
    BY <2>1, RankRemove
  <2>3. r < c
    BY <2>1
  <2>4. s < c \/ s = c
    BY <2>2, <2>3
  <2> QED BY <2>1, <2>4
<1>3. CASE at = {}
  <2>1. new \in SUBSET old
    BY <1>2, <1>3
  <2>2. Cardinality(new) <= Cardinality(old) /\ Cardinality(new) \in Nat
    BY <1>1, <2>1, FS_Subset, FS_CardinalityType
  <2> HIDE DEF new, old
  <2>3. Cardinality(new) <= Cardinality(old) + 1
    BY <1>1, <2>2
  <2> QED BY <2>3 DEF new, old, Below
<1>4. CASE at # {}
  <2>1. PICK y : y \in at
    BY <1>4
  <2>2. \A k \in at : k = y
    BY <2>1, RankInjective
  <2>3. new \in SUBSET (old \union {y})
    BY <1>2, <2>2
  <2>4. IsFiniteSet(old \union {y}) /\ Cardinality(old \union {y}) <= Cardinality(old) + 1
        /\ Cardinality(old \union {y}) \in Nat
    <3> HIDE DEF old
    <3> QED BY <1>1, OneMore
  <2>5. Cardinality(new) <= Cardinality(old \union {y}) /\ Cardinality(new) \in Nat
    BY <2>3, <2>4, FS_Subset, FS_CardinalityType
  <2> HIDE DEF new, old
  <2>6. Cardinality(new) <= Cardinality(old) + 1
    BY <1>1, <2>4, <2>5
  <2> QED BY <2>6 DEF new, old, Below
<1> QED BY <1>3, <1>4

LEMMA NoMoreSkipped ==
  ASSUME NEW S \in SUBSET Nat, IsFiniteSet(S), NEW x \in Nat \ S, NEW K \in SUBSET S,
         NEW c \in Nat, NEW down \in BOOLEAN
  PROVE  Below(S \union {x}, K, c, down) \subseteq Below(S, K, c, down)
<1> SUFFICES ASSUME NEW k \in K, Rank(S \union {x}, k, down) < c
             PROVE  Rank(S, k, down) < c
  BY DEF Below
<1>1. PICK r \in Nat : r = Rank(S, k, down)
  BY FirstFinite
<1>2. Rank(S \union {x}, k, down) = r \/ Rank(S \union {x}, k, down) = r + 1
  BY <1>1, RankAdd
<1>3. r < c
  BY <1>2
<1> QED BY <1>1, <1>3

LEMMA NoMoreToCome ==
  ASSUME NEW S \in SUBSET Nat, IsFiniteSet(S), NEW x \in S, NEW H, NEW c \in Nat, NEW down \in BOOLEAN
  PROVE  From(S \ {x}, H, c, down) \subseteq From(S, H, c, down)
<1> SUFFICES ASSUME NEW k \in S \ {x}, ~ (Rank(S \ {x}, k, down) < c)
             PROVE  ~ (Rank(S, k, down) < c)
  BY DEF From
<1>0. IsFiniteSet(S \ {x})
  BY FS_RemoveElement
<1>1. PICK r \in Nat : r = Rank(S \ {x}, k, down)
  BY <1>0, FirstFinite
<1>2. Rank(S, k, down) = r \/ Rank(S, k, down) = r + 1
  BY <1>1, RankRemove
<1>3. ~ (r < c)
  BY <1>1
<1> QED BY <1>2, <1>3

\* Few more of the rows held rank from c on.
LEMMA FewToCome ==
  ASSUME NEW S \in SUBSET Nat, IsFiniteSet(S), NEW x \in Nat \ S, NEW H, NEW c \in Nat,
         NEW down \in BOOLEAN
  PROVE  Cardinality(From(S \union {x}, H, c, down)) <= Cardinality(From(S, H, c, down)) + 1
<1> DEFINE T == S \union {x}
           new == {k \in H \intersect T : ~ (Rank(T, k, down) < c)}
           old == {k \in H \intersect S : ~ (Rank(S, k, down) < c)}
           at == {k \in S : Rank(S, k, down) + 1 = c}
<1>1. IsFiniteSet(old) /\ Cardinality(old) \in Nat /\ IsFiniteSet(T) /\ T \in SUBSET Nat
  <2>1. old \in SUBSET S
    OBVIOUS
  <2> QED BY <2>1, FS_Subset, FS_CardinalityType, FS_AddElement
<1>2. ASSUME NEW k \in S
      PROVE  /\ Rank(S, k, down) \in Nat
             /\ Rank(T, k, down) = IF Ahead(x, k, down) THEN Rank(S, k, down) + 1 ELSE Rank(S, k, down)
  BY FirstFinite, RankAdd
<1>3. \E y : new \subseteq old \union {y}
  <2>1. CASE Rank(T, x, down) < c
    <3>1. \A k \in new : k \in old \/ k \in at
      <4> SUFFICES ASSUME NEW k \in new PROVE k \in old \/ k \in at
        OBVIOUS
      <4>1. k \in S /\ k \in H /\ ~ (Rank(T, k, down) < c)
        BY <2>1
      <4>2. PICK r \in Nat : r = Rank(S, k, down)
        BY <1>2, <4>1
      <4>3. Rank(T, k, down) = r \/ Rank(T, k, down) = r + 1
        BY <1>2, <4>1, <4>2
      <4>4. ~ (r < c) \/ r + 1 = c
        <5> HIDE DEF T
        <5> QED BY <4>1, <4>2, <4>3
      <4> QED BY <4>1, <4>2, <4>4
    <3>2. CASE at = {}
      BY <3>1, <3>2
    <3>3. CASE at # {}
      <4>1. PICK y : y \in at
        BY <3>3
      <4>2. ASSUME NEW k \in at PROVE k = y
        <5>1. k \in S /\ y \in S /\ Rank(S, k, down) = Rank(S, y, down)
          BY <1>2, <4>1
        <5> QED BY <5>1, RankInjective
      <4>3. new \subseteq old \union {y}
        BY <3>1, <4>2
      <4> QED BY <4>3
    <3> QED BY <3>2, <3>3
  <2>2. CASE ~ (Rank(T, x, down) < c)
    <3>1. \A k \in new : k \in old \union {x}
      <4> SUFFICES ASSUME NEW k \in new, k # x PROVE k \in old
        OBVIOUS
      <4>1. k \in S /\ k \in T /\ k \in H /\ ~ (Rank(T, k, down) < c)
        OBVIOUS
      <4>2. PICK r \in Nat, s \in Nat : r = Rank(S, k, down) /\ s = Rank(T, x, down)
        BY <1>1, <1>2, <4>1, FirstFinite
      <4>3. CASE Ahead(x, k, down)
        <5>1. Rank(T, x, down) < Rank(T, k, down)
          BY <1>1, <4>1, <4>3, RankGrows
        <5>2. Rank(T, k, down) = r + 1
          BY <1>2, <4>1, <4>2, <4>3
        <5>3. ~ (s < c) /\ s < r + 1
          BY <2>2, <4>2, <5>1, <5>2
        <5>4. ~ (r < c)
          BY <5>3
        <5> QED BY <4>1, <4>2, <5>4
      <4>4. CASE ~ Ahead(x, k, down)
        <5>1. Rank(T, k, down) = r
          BY <1>2, <4>1, <4>2, <4>4
        <5> QED BY <4>1, <4>2, <5>1
      <4> QED BY <4>3, <4>4
    <3>2. new \subseteq old \union {x}
      BY <3>1
    <3> QED BY <3>2
  <2> QED BY <2>1, <2>2
<1>4. PICK y : new \subseteq old \union {y}
  BY <1>3
<1>5. IsFiniteSet(old \union {y}) /\ Cardinality(old \union {y}) <= Cardinality(old) + 1
      /\ Cardinality(old \union {y}) \in Nat
  <2> HIDE DEF old
  <2> QED BY <1>1, OneMore
<1>6. Cardinality(new) <= Cardinality(old \union {y}) /\ Cardinality(new) \in Nat
  BY <1>4, <1>5, FS_Subset, FS_CardinalityType
<1>7. Cardinality(new) <= Cardinality(old) + 1
  <2> HIDE DEF new, old
  <2> QED BY <1>1, <1>5, <1>6
<1> QED BY <1>7 DEF From

-----------------------------------------------------------------------------
(* A walk in the order of creation. *)

LEMMA CreatedFacts ==
  ASSUME Good, listing.by = "created"
  PROVE  /\ Single /\ listing.descending \in BOOLEAN
         /\ ShownIn(1) \in SUBSET Nat /\ IsFiniteSet(ShownIn(1)) /\ AllShown = ShownIn(1)
         /\ Cardinality(ShownIn(1)) \in Nat
         /\ Len(listing.queries) = 1 /\ Reached \in Nat
         /\ walk.pc \in Reading => walk.query = 1 /\ walk.answer = {} /\ walk.total = 0
<1>1. Types /\ ListingOK /\ Shape
  BY DEF Good, Types
<1>2. Single /\ Len(listing.queries) = 1
  BY <1>1, ListingShape
<1>3. listing.descending \in BOOLEAN
  BY <1>1 DEF ListingOK
<1>4. ShownIn(1) \in SUBSET Nat /\ IsFiniteSet(ShownIn(1)) /\ AllShown = ShownIn(1)
      /\ Cardinality(ShownIn(1)) \in Nat
  <2>1. ShownIn(1) \subseteq Known /\ Known \subseteq Nat
    BY <1>1, ShownFacts, KnownIds
  <2> QED BY <1>1, <1>2, <2>1, ShownFacts
<1>5. Reached \in Nat
  BY CoveredFacts DEF Reached
<1>6. walk.pc \in Reading => walk.query = 1 /\ walk.answer = {} /\ walk.total = 0
  <2>1. walk.pc \in Reading => walk.query = 1
    BY <1>1, <1>2 DEF Shape
  <2> QED BY <1>1, <2>1 DEF Shape
<1> QED BY <1>2, <1>3, <1>4, <1>5, <1>6

LEMMA CreatedMoves ==
  ASSUME Good, listing.by = "created", Moves, Walking
  PROVE  /\ walk' = walk /\ listing' = listing /\ Reached' = Reached
         /\ since'.kept \subseteq since.kept
         /\ since'.left \in Nat /\ since'.came \in Nat
         /\ since'.left >= since.left /\ since'.came >= since.came
         /\ \/ ShownIn(1)' = ShownIn(1)
            \/ \E x \in Nat \ ShownIn(1) : /\ ShownIn(1)' = ShownIn(1) \union {x}
                                           /\ since'.kept = since.kept
                                           /\ since'.came = since.came + 1
            \/ \E x \in ShownIn(1) : /\ ShownIn(1)' = ShownIn(1) \ {x}
                                     /\ since'.kept = since.kept \ {x}
                                     /\ since'.left = since.left + 1
<1>1. walk' = walk /\ listing' = listing /\ Types'
  BY DEF Moves
<1>2. Reached' = Reached
  <2>1. Pages(1)' = Pages(1)
    BY MovesCovered
  <2> QED BY <2>1 DEF Reached
<1>3. since'.left \in Nat /\ since'.came \in Nat /\ since.left \in Nat /\ since.came \in Nat
  <2>1. since' \in Since /\ since \in Since
    BY <1>1 DEF Good, Types
  <2> QED BY <2>1 DEF Since
<1>4. ShownIn(2) = {} /\ ShownIn(2)' = {}
  <2>1. Len(listing.queries) = 1 /\ ~ (2 <= 1)
    BY CreatedFacts
  <2> QED BY <1>1, <2>1 DEF ShownIn
<1>5. 3 - 1 = 2 /\ 3 - 2 = 1
  OBVIOUS
<1>6. CASE Stays
  BY <1>1, <1>2, <1>3, <1>6 DEF Stays
<1>7. ASSUME NEW q \in {1, 2}, NEW id \in Nat, ComesTo(q, id)
      PROVE  /\ id \notin ShownIn(1) /\ ShownIn(1)' = ShownIn(1) \union {id}
             /\ since' = [kept |-> since.kept, left |-> since.left, came |-> since.came + 1]
  <2>1. q = 1
    BY <1>4, <1>7 DEF ComesTo
  <2> QED BY <1>7, <2>1 DEF ComesTo
<1>8. ASSUME NEW q \in {1, 2}, NEW id \in Nat, GoesFrom(q, id)
      PROVE  /\ id \in ShownIn(1) /\ ShownIn(1)' = ShownIn(1) \ {id}
             /\ since' = [kept |-> since.kept \ {id}, left |-> since.left + 1, came |-> since.came]
  <2>1. q = 1
    BY <1>4, <1>8 DEF GoesFrom
  <2> QED BY <1>8, <2>1 DEF GoesFrom
<1>9. CASE \E q \in {1, 2}, id \in Nat : ComesTo(q, id)
  <2>1. PICK q \in {1, 2}, id \in Nat : ComesTo(q, id)
    BY <1>9
  <2>2. /\ id \notin ShownIn(1) /\ ShownIn(1)' = ShownIn(1) \union {id}
        /\ since' = [kept |-> since.kept, left |-> since.left, came |-> since.came + 1]
    BY <1>7, <2>1
  <2>3. since'.kept = since.kept /\ since'.left = since.left /\ since'.came = since.came + 1
    BY <2>2
  <2>4. since'.left >= since.left /\ since'.came >= since.came /\ id \in Nat \ ShownIn(1)
    BY <1>3, <2>2, <2>3
  <2> QED BY <1>1, <1>2, <1>3, <2>2, <2>3, <2>4
<1>10. CASE \E q \in {1, 2}, id \in Nat : GoesFrom(q, id)
  <2>1. PICK q \in {1, 2}, id \in Nat : GoesFrom(q, id)
    BY <1>10
  <2>2. /\ id \in ShownIn(1) /\ ShownIn(1)' = ShownIn(1) \ {id}
        /\ since' = [kept |-> since.kept \ {id}, left |-> since.left + 1, came |-> since.came]
    BY <1>8, <2>1
  <2>3. since'.kept = since.kept \ {id} /\ since'.left = since.left + 1 /\ since'.came = since.came
    BY <2>2
  <2>4. since'.left >= since.left /\ since'.came >= since.came
    BY <1>3, <2>3
  <2> QED BY <1>1, <1>2, <1>3, <2>2, <2>3, <2>4
<1>11. Stays \/ (\E q \in {1, 2}, id \in Nat : ComesTo(q, id))
       \/ (\E q \in {1, 2}, id \in Nat : GoesFrom(q, id))
  BY DEF Moves
<1> QED BY <1>6, <1>9, <1>10, <1>11

LEMMA SmallerSet ==
  ASSUME NEW S, IsFiniteSet(S), NEW T \in SUBSET S
  PROVE  IsFiniteSet(T) /\ Cardinality(T) \in Nat /\ Cardinality(S) \in Nat
         /\ Cardinality(T) <= Cardinality(S)
BY FS_Subset, FS_CardinalityType

LEMMA WalkSets ==
  ASSUME Good
  PROVE  /\ IsFiniteSet(Skipped) /\ IsFiniteSet(ToCome) /\ IsFiniteSet(Again)
         /\ IsFiniteSet(since.kept \ Held) /\ IsFiniteSet(since.kept \ walk.seen)
         /\ Cardinality(Skipped) \in Nat /\ Cardinality(ToCome) \in Nat /\ Cardinality(Again) \in Nat
         /\ Cardinality(since.kept \ Held) \in Nat /\ Cardinality(since.kept \ walk.seen) \in Nat
<1>1. IsFiniteSet(since.kept) /\ IsFiniteSet(Held) /\ IsFiniteSet(walk.seen)
  BY HandFacts
<1>2. /\ Skipped \in SUBSET since.kept /\ ToCome \in SUBSET Held /\ Again \in SUBSET walk.seen
      /\ since.kept \ Held \in SUBSET since.kept /\ since.kept \ walk.seen \in SUBSET since.kept
  BY DEF Skipped, ToCome, Again, Below, From
<1> QED BY <1>1, <1>2, SmallerSet

LEMMA MovesKeepOrdered ==
  ASSUME Good, listing.by = "created", NoneSkipped, NoneAgain, Moves, ~ Ended
  PROVE  NoneSkipped' /\ NoneAgain'
<1>0. walk' = walk /\ listing' = listing
  BY DEF Moves
<1>1. CASE walk.pc = "idle"
  BY <1>0, <1>1 DEF NoneSkipped, NoneAgain, Walking, Ended
<1>2. CASE walk.pc # "idle"
  <2>1. Walking
    BY <1>2 DEF Walking
  <2> DEFINE S == ShownIn(1)
             down == listing.descending
  <2>2. /\ Reached' = Reached
        /\ since'.kept \subseteq since.kept
        /\ since'.left \in Nat /\ since'.came \in Nat /\ since.left \in Nat /\ since.came \in Nat
        /\ since'.left >= since.left /\ since'.came >= since.came
    BY <2>1, CreatedMoves, HandFacts
  <2>3. S \in SUBSET Nat /\ IsFiniteSet(S) /\ down \in BOOLEAN /\ Reached \in Nat
    BY CreatedFacts
  <2>4a. PICK H : H = Held
    OBVIOUS
  <2>4b. PICK a \in Nat, r \in Nat, left \in Nat, came \in Nat :
           /\ a = Cardinality(Again) /\ r = walk.repeats
           /\ left = since'.left /\ came = since'.came
    BY <2>2, HandFacts, WalkSets
  <2>4. /\ H = Held /\ a = Cardinality(Again) /\ r = walk.repeats
        /\ left = since'.left /\ came = since'.came
    BY <2>4a, <2>4b
  <2>5. H = Held' /\ a = Cardinality(Again)' /\ r = walk'.repeats /\ a \in Nat
    BY <1>0, <2>4, WalkSets DEF Held, Again
  <2>6. since.kept \subseteq S /\ Cardinality(Skipped) <= since.left
        /\ r + a + Cardinality(ToCome) <= since.came
    BY <1>2, <2>1, <2>4 DEF NoneSkipped, NoneAgain
  <2>7. Cardinality(Skipped) \in Nat /\ Cardinality(ToCome) \in Nat /\ IsFiniteSet(Skipped) /\ IsFiniteSet(ToCome)
    BY WalkSets
  <2>8a. PICK K, T : K = since'.kept /\ T = ShownIn(1)'
    OBVIOUS
  <2>8b. PICK c \in Nat : c = Reached
    BY <2>3
  <2>8. K = since'.kept /\ T = ShownIn(1)' /\ c = Reached
    BY <2>8a, <2>8b
  <2>9. /\ Skipped = Below(S, since.kept \ H, c, down) /\ ToCome = From(S, H, c, down)
        /\ Skipped' = Below(T, K \ H, c, down) /\ ToCome' = From(T, H, c, down)
    BY <1>0, <2>2, <2>4, <2>5, <2>8 DEF Skipped, ToCome
  <2>10. /\ K \subseteq T
         /\ Cardinality(Skipped') <= left
         /\ r + a + Cardinality(ToCome') <= came
    <3>1. CASE T = S
      <4>1. Skipped' \in SUBSET Skipped /\ ToCome' = ToCome
        BY <2>2, <2>8, <2>9, <3>1 DEF Below
      <4>2. Cardinality(Skipped') <= Cardinality(Skipped) /\ Cardinality(Skipped') \in Nat
        BY <2>7, <4>1, SmallerSet
      <4>3. K \subseteq T
        BY <2>2, <2>6, <2>8, <3>1
      <4> QED BY <2>2, <2>4, <2>5, <2>6, <2>7, <4>1, <4>2, <4>3
    <3>2. ASSUME NEW x \in Nat \ S, T = S \union {x}, K = since.kept, came = since.came + 1
          PROVE  /\ K \subseteq T
                 /\ Cardinality(Skipped') <= left
                 /\ r + a + Cardinality(ToCome') <= came
      <4>1. K \ H \in SUBSET S
        BY <2>6, <3>2
      <4>2. Skipped' \in SUBSET Skipped
        BY <2>3, <2>9, <3>2, <4>1, NoMoreSkipped
      <4>3. Cardinality(Skipped') <= Cardinality(Skipped) /\ Cardinality(Skipped') \in Nat
        BY <2>7, <4>2, SmallerSet
      <4>4. Cardinality(ToCome') <= Cardinality(ToCome) + 1
        <5>1. Cardinality(From(S \union {x}, H, c, down)) <= Cardinality(From(S, H, c, down)) + 1
          <6> HIDE DEF S, down
          <6> QED BY <2>3, <3>2, FewToCome
        <5> QED BY <2>9, <3>2, <5>1, Zenon
      <4>5. IsFiniteSet(ToCome') /\ Cardinality(ToCome') \in Nat
        <5>1. ToCome' \in SUBSET H /\ IsFiniteSet(H)
          BY <2>4, <2>9, HandFacts DEF From
        <5> QED BY <5>1, SmallerSet
      <4>6. K \subseteq T
        BY <2>6, <3>2
      <4> QED BY <2>2, <2>4, <2>5, <2>6, <2>7, <3>2, <4>3, <4>4, <4>5, <4>6
    <3>3. ASSUME NEW x \in S, T = S \ {x}, K = since.kept \ {x}, left = since.left + 1
          PROVE  /\ K \subseteq T
                 /\ Cardinality(Skipped') <= left
                 /\ r + a + Cardinality(ToCome') <= came
      <4>1. K \ H \in SUBSET (S \ {x})
        BY <2>6, <3>3
      <4>2. Cardinality(Skipped') <= Cardinality(Below(S, K \ H, c, down)) + 1
        <5>1. Cardinality(Below(S \ {x}, K \ H, c, down)) <= Cardinality(Below(S, K \ H, c, down)) + 1
          <6> HIDE DEF S, down
          <6> QED BY <2>3, <3>3, <4>1, FewSkipped
        <5> QED BY <2>9, <3>3, <5>1, Zenon
      <4>3. Below(S, K \ H, c, down) \in SUBSET Skipped
        BY <2>9, <3>3 DEF Below
      <4>4. Cardinality(Below(S, K \ H, c, down)) <= Cardinality(Skipped)
            /\ Cardinality(Below(S, K \ H, c, down)) \in Nat
        BY <2>7, <4>3, SmallerSet
      <4>5. Skipped' \in SUBSET since.kept /\ IsFiniteSet(since.kept)
        BY <2>2, <2>8, <2>9, HandFacts DEF Below
      <4>6. Cardinality(Skipped') \in Nat
        BY <4>5, SmallerSet
      <4>7. ToCome' \in SUBSET ToCome
        BY <2>3, <2>9, <3>3, NoMoreToCome
      <4>8. Cardinality(ToCome') <= Cardinality(ToCome) /\ Cardinality(ToCome') \in Nat
        BY <2>7, <4>7, SmallerSet
      <4>9. K \subseteq T
        BY <2>6, <3>3
      <4> QED BY <2>2, <2>4, <2>5, <2>6, <2>7, <3>3, <4>2, <4>4, <4>6, <4>8, <4>9
    <3>4. \/ T = S
          \/ \E x \in Nat \ S : T = S \union {x} /\ K = since.kept /\ came = since.came + 1
          \/ \E x \in S : T = S \ {x} /\ K = since.kept \ {x} /\ left = since.left + 1
      BY <2>1, <2>4, <2>8, CreatedMoves
    <3> QED BY <3>1, <3>2, <3>3, <3>4
  <2>11. walk'.pc = "answer" /\ walk'.page * limit >= walk'.total => Cardinality(since'.kept \ Held') <= left
    <3> SUFFICES ASSUME walk'.pc = "answer", walk'.page * limit >= walk'.total
                 PROVE  Cardinality(since'.kept \ Held') <= left
      OBVIOUS
    <3>1. Cardinality(since.kept \ Held) <= since.left
      BY <1>0 DEF NoneSkipped
    <3>2. since'.kept \ Held' \in SUBSET (since.kept \ Held)
      BY <2>2, <2>4, <2>5
    <3>3. Cardinality(since'.kept \ Held') <= Cardinality(since.kept \ Held)
          /\ Cardinality(since'.kept \ Held') \in Nat /\ Cardinality(since.kept \ Held) \in Nat
      BY <3>2, WalkSets, SmallerSet
    <3> QED BY <2>2, <2>4, <3>1, <3>3
  <2>12. ~ Ended'
    BY <1>0 DEF Ended
  <2>13. NoneSkipped'
    BY <2>4, <2>8, <2>10, <2>11, <2>12 DEF NoneSkipped
  <2>14. NoneAgain'
    BY <2>4, <2>5, <2>10 DEF NoneAgain
  <2> QED BY <2>13, <2>14
<1> QED BY <1>1, <1>2

LEMMA BeginOrdered ==
  ASSUME Good, listing.by = "created", Begin
  PROVE  NoneSkipped' /\ NoneAgain'
<1>1. /\ Still
      /\ walk'.pc = "pick" /\ walk'.page = 1 /\ walk'.query = 1
      /\ walk'.picked = {} /\ walk'.answer = {} /\ walk'.seen = {} /\ walk'.repeats = 0
      /\ since'.kept = AllShown /\ since'.left = 0 /\ since'.came = 0
  BY BeginDoes DEF Good
<1>2. PICK S : S = ShownIn(1)
  OBVIOUS
<1>3. S \in SUBSET Nat /\ IsFiniteSet(S) /\ AllShown = S /\ ShownIn(1)' = S
  BY <1>1, <1>2, CreatedFacts, StillFacts DEF Good
<1>4. Reached' = 0
  <2>1. Pages(1)' = 0
    BY <1>1 DEF Pages
  <2>2. 0 * limit = 0
    BY ListingsAssumption
  <2> QED BY <2>1, <2>2 DEF Reached
<1>5. Held' = {} /\ Again' = {} /\ ToCome' = {}
  BY <1>1 DEF Held, Again, ToCome, From
<1>6. Skipped' = {}
  <2>1. Skipped' = Below(S, S \ {}, 0, listing'.descending)
    BY <1>1, <1>3, <1>4, <1>5 DEF Skipped
  <2>2. ASSUME NEW down PROVE Below(S, S \ {}, 0, down) = {}
    <3>1. \A k \in S : ~ (Rank(S, k, down) < 0)
      BY <1>3, FirstFinite
    <3> QED BY <3>1 DEF Below
  <2> QED BY <2>1, <2>2
<1>7. Cardinality({}) = 0
  BY FS_EmptySet
<1>8. Walking' => since'.kept \subseteq ShownIn(1)' /\ Cardinality(Skipped') <= since'.left
  BY <1>1, <1>3, <1>6, <1>7
<1>9. walk'.repeats + Cardinality(Again') + Cardinality(ToCome') <= since'.came
  BY <1>1, <1>5, <1>7
<1>10. walk'.pc # "answer" /\ ~ Ended'
  BY <1>1 DEF Ended
<1> QED BY <1>8, <1>9, <1>10 DEF NoneSkipped, NoneAgain

LEMMA PickOrdered ==
  ASSUME Good, listing.by = "created", NoneSkipped, NoneAgain, Pick
  PROVE  NoneSkipped' /\ NoneAgain'
<1>1. /\ Still /\ UNCHANGED since
      /\ walk.pc = "pick" /\ walk'.pc \in {"load", "count"}
      /\ walk'.page = walk.page /\ walk'.query = walk.query
      /\ walk'.answer = walk.answer /\ walk'.seen = walk.seen /\ walk'.repeats = walk.repeats
  BY PickDoes DEF Good
<1>2. /\ walk.query = 1 /\ walk.answer = {} /\ walk.picked = {} /\ walk.page \in Nat \ {0}
  <2>1. walk.query = 1 /\ walk.answer = {}
    BY <1>1, CreatedFacts DEF Reading
  <2> QED BY <1>1, <2>1 DEF Good, Types, Walk, Shape
<1>3. PICK S, down, P, seen, kept :
        S = ShownIn(1) /\ down = listing.descending /\ P = walk'.picked /\ seen = walk.seen
        /\ kept = since.kept
  OBVIOUS
<1>4. PICK a \in Nat, b \in Nat : a = Skip(walk.page) /\ b = walk.page * limit
  BY <1>2, Skips
<1>5. S \in SUBSET Nat /\ IsFiniteSet(S) /\ down \in BOOLEAN /\ ShownIn(1)' = S /\ listing' = listing
  BY <1>1, <1>3, CreatedFacts, StillFacts DEF Good, Still
<1>6. P = Between(S, a, b, down)
  <2>1. PICK order \in Orders(S) : P = PageOf(order, walk.page)
    BY <1>2, <1>3, PickDoes DEF Good
  <2>2. order \in SetToSeqs(S) /\ \A i, j \in DOMAIN order : i < j => IsBefore(order[i], order[j])
    BY <2>1 DEF Orders
  <2>3. \A x, y : IsBefore(x, y) => Ahead(x, y, down)
    BY <1>3 DEF IsBefore, Ahead
  <2>4. \A i, j \in DOMAIN order : i < j => Ahead(order[i], order[j], down)
    BY <2>2, <2>3
  <2> QED BY <1>2, <1>4, <1>5, <2>1, <2>2, <2>4, PageRanks
<1>7. Reached = a /\ Reached' = b
  <2>1. Pages(1) = walk.page - 1 /\ Pages(1)' = walk.page
    <3>1. walk'.query = 1 /\ ~ (1 < 1)
      BY <1>1, <1>2
    <3> QED BY <1>1, <1>2, <3>1 DEF Pages
  <2> QED BY <1>4, <2>1 DEF Reached, Skip
<1>8. Held = seen /\ Held' = seen \union P /\ Again = {} /\ Again' = P \intersect seen
  BY <1>1, <1>2, <1>3 DEF Held, Again
<1>9. /\ Skipped = Below(S, kept \ seen, a, down) /\ ToCome = From(S, seen, a, down)
      /\ Skipped' = Below(S, kept \ (seen \union P), b, down)
      /\ ToCome' = From(S, seen \union P, b, down)
  BY <1>1, <1>3, <1>5, <1>7, <1>8 DEF Skipped, ToCome
<1>10. kept \subseteq S /\ Cardinality(Skipped) <= since.left
       /\ walk.repeats + Cardinality(Again) + Cardinality(ToCome) <= since.came
  BY <1>1, <1>3 DEF NoneSkipped, NoneAgain, Walking, Ended
<1>11. \A k \in S : Rank(S, k, down) \in Nat
  BY <1>5, FirstFinite
<1>12. Cardinality(Skipped') <= since'.left
  <2>1. Skipped' \in SUBSET Skipped
    <3> SUFFICES ASSUME NEW k \in kept \ (seen \union P), Rank(S, k, down) < b
                 PROVE  Rank(S, k, down) < a
      BY <1>9 DEF Below
    <3>1. k \in S /\ k \notin P
      BY <1>10
    <3>2. ~ (a <= Rank(S, k, down))
      BY <1>6, <3>1 DEF Between
    <3> QED BY <1>11, <3>1, <3>2
  <2>2. Cardinality(Skipped') <= Cardinality(Skipped) /\ Cardinality(Skipped') \in Nat
        /\ Cardinality(Skipped) \in Nat
    BY <2>1, WalkSets, SmallerSet
  <2> QED BY <1>1, <1>10, <2>2, HandFacts
<1>13. walk'.repeats + Cardinality(Again') + Cardinality(ToCome') <= since'.came
  <2>1. a <= b
    <3>1. limit \in Nat /\ b = a + limit
      BY <1>2, <1>4, Skips
    <3> QED BY <3>1
  <2>2. Again' \intersect ToCome' = {}
    BY <1>6, <1>8, <1>9 DEF Between, From
  <2>3. Again' \union ToCome' \in SUBSET ToCome
    <3>1. ASSUME NEW k \in Again' PROVE k \in ToCome
      <4>1. k \in S /\ k \in seen /\ a <= Rank(S, k, down)
        BY <1>6, <1>8, <3>1 DEF Between
      <4>2. ~ (Rank(S, k, down) < a)
        BY <1>11, <4>1
      <4> QED BY <1>9, <4>1, <4>2 DEF From
    <3>2. ASSUME NEW k \in ToCome' PROVE k \in ToCome
      <4>1. k \in S /\ k \in seen \union P /\ ~ (Rank(S, k, down) < b)
        BY <1>9, <3>2 DEF From
      <4>2. k \notin P
        BY <1>6, <4>1 DEF Between
      <4>3. ~ (Rank(S, k, down) < a)
        BY <1>11, <2>1, <4>1
      <4> QED BY <1>9, <4>1, <4>2, <4>3 DEF From
    <3> QED BY <3>1, <3>2
  <2>4. /\ IsFiniteSet(Again') /\ IsFiniteSet(ToCome')
        /\ Cardinality(Again') \in Nat /\ Cardinality(ToCome') \in Nat
        /\ IsFiniteSet(ToCome) /\ Cardinality(ToCome) \in Nat
    <3>1. Again' \in SUBSET ToCome /\ ToCome' \in SUBSET ToCome
      BY <2>3
    <3> QED BY <3>1, WalkSets, SmallerSet
  <2>5. Cardinality(Again' \union ToCome') = Cardinality(Again') + Cardinality(ToCome')
    <3>1. Cardinality(Again' \union ToCome')
            = Cardinality(Again') + Cardinality(ToCome') - Cardinality(Again' \intersect ToCome')
      BY <2>4, FS_Union
    <3>2. Cardinality(Again' \intersect ToCome') = 0
      BY <2>2, FS_EmptySet
    <3> QED BY <2>4, <3>1, <3>2
  <2>6. Cardinality(Again' \union ToCome') <= Cardinality(ToCome)
    BY <2>3, <2>4, SmallerSet
  <2>7. Cardinality(Again) = 0
    BY <1>8, FS_EmptySet
  <2>8. PICK x \in Nat, y \in Nat, z \in Nat, r \in Nat, came \in Nat :
          /\ x = Cardinality(Again') /\ y = Cardinality(ToCome') /\ z = Cardinality(ToCome)
          /\ r = walk.repeats /\ came = since.came
    BY <2>4, HandFacts
  <2>9. x + y <= z /\ r + 0 + z <= came
    BY <1>10, <2>5, <2>6, <2>7, <2>8
  <2>10. r + x + y <= came
    BY <2>9
  <2> QED BY <1>1, <2>8, <2>10
<1>14. since'.kept \subseteq ShownIn(1)'
  BY <1>1, <1>3, <1>5, <1>10
<1>15. walk'.pc # "answer" /\ ~ Ended'
  BY <1>1 DEF Ended
<1> QED BY <1>12, <1>13, <1>14, <1>15 DEF NoneSkipped, NoneAgain

LEMMA LoadOrdered ==
  ASSUME Good, listing.by = "created", NoneSkipped, NoneAgain, Load
  PROVE  NoneSkipped' /\ NoneAgain'
<1>1. /\ Still /\ UNCHANGED since
      /\ walk.pc = "load" /\ walk'.pc = "count"
      /\ walk'.page = walk.page /\ walk'.query = walk.query
      /\ walk'.answer = walk.answer /\ walk'.seen = walk.seen /\ walk'.repeats = walk.repeats
      /\ walk'.picked = walk.picked \intersect ShownIn(walk.query)
  BY LoadDoes DEF Good
<1>2. walk.query = 1
  BY <1>1, CreatedFacts DEF Reading
<1>3. ShownIn(1)' = ShownIn(1) /\ listing' = listing
  BY <1>1, StillFacts DEF Good, Still
<1>4. Reached' = Reached
  <2>1. Pages(1)' = Pages(1)
    BY <1>1 DEF Pages
  <2> QED BY <2>1 DEF Reached
<1>5. since.kept \subseteq ShownIn(1) /\ Cardinality(Skipped) <= since.left
      /\ walk.repeats + Cardinality(Again) + Cardinality(ToCome) <= since.came
  BY <1>1 DEF NoneSkipped, NoneAgain, Walking, Ended
<1>6. Held' \subseteq Held /\ since.kept \ Held' = since.kept \ Held /\ Again' \in SUBSET Again
  BY <1>1, <1>2, <1>5 DEF Held, Again
<1>7. Skipped' = Skipped
  BY <1>1, <1>3, <1>4, <1>6 DEF Skipped
<1>8. ToCome' \in SUBSET ToCome
  BY <1>3, <1>4, <1>6 DEF ToCome, From
<1>9. /\ Cardinality(Again') <= Cardinality(Again) /\ Cardinality(ToCome') <= Cardinality(ToCome)
      /\ Cardinality(Again') \in Nat /\ Cardinality(ToCome') \in Nat
      /\ Cardinality(Again) \in Nat /\ Cardinality(ToCome) \in Nat
  BY <1>6, <1>8, WalkSets, SmallerSet
<1>10. walk'.repeats + Cardinality(Again') + Cardinality(ToCome') <= since'.came
  BY <1>1, <1>5, <1>9, HandFacts
<1>11. since'.kept \subseteq ShownIn(1)' /\ Cardinality(Skipped') <= since'.left
  BY <1>1, <1>3, <1>5, <1>7
<1>12. walk'.pc # "answer" /\ ~ Ended'
  BY <1>1 DEF Ended
<1> QED BY <1>10, <1>11, <1>12 DEF NoneSkipped, NoneAgain

LEMMA CountOrdered ==
  ASSUME Good, listing.by = "created", NoneSkipped, NoneAgain, Count
  PROVE  NoneSkipped' /\ NoneAgain'
<1>1. walk.pc = "count"
  BY CountDoes DEF Good
<1>2. walk.query = 1 /\ walk.answer = {} /\ walk.total = 0 /\ Len(listing.queries) = 1
  BY <1>1, CreatedFacts DEF Reading
<1>3. ~ (walk.query < Len(listing.queries))
  <2>1. ~ (1 < 1)
    OBVIOUS
  <2> QED BY <1>2, <2>1
<1>4. /\ Still /\ UNCHANGED since
      /\ walk'.pc = "answer" /\ walk'.query = 1
      /\ walk'.page = walk.page /\ walk'.seen = walk.seen /\ walk'.repeats = walk.repeats
      /\ walk'.answer = walk.answer \union walk.picked /\ walk'.picked = {}
      /\ walk'.total = 0 + Cardinality(ShownIn(1))
  BY <1>2, <1>3, CountDoes DEF Good
<1>5. ShownIn(1)' = ShownIn(1) /\ listing' = listing
  BY <1>4, StillFacts DEF Good, Still
<1>6. Reached = walk.page * limit /\ Reached' = Reached
  <2>1. Pages(1) = walk.page /\ Pages(1)' = walk.page
    BY <1>1, <1>2, <1>4 DEF Pages
  <2> QED BY <2>1 DEF Reached
<1>7. since.kept \subseteq ShownIn(1) /\ Cardinality(Skipped) <= since.left
      /\ walk.repeats + Cardinality(Again) + Cardinality(ToCome) <= since.came
  BY <1>1 DEF NoneSkipped, NoneAgain, Walking, Ended
<1>8. Held' = Held /\ Again' = Again
  BY <1>4 DEF Held, Again
<1>9. Skipped' = Skipped /\ ToCome' = ToCome
  BY <1>4, <1>5, <1>6, <1>8 DEF Skipped, ToCome
<1>10. walk'.page * limit >= walk'.total => Cardinality(since'.kept \ Held') <= since'.left
  <2> SUFFICES ASSUME walk'.page * limit >= walk'.total
               PROVE  Cardinality(since'.kept \ Held') <= since'.left
    OBVIOUS
  <2>1. PICK n \in Nat, g \in Nat : n = Cardinality(ShownIn(1)) /\ g = Reached
    BY CreatedFacts
  <2>2. n <= g
    <3>1. walk'.total = 0 + n /\ walk'.page * limit = g
      BY <1>4, <1>6, <2>1
    <3> QED BY <3>1
  <2>3. since.kept \ Held \in SUBSET Skipped
    <3> SUFFICES ASSUME NEW k \in since.kept \ Held
                 PROVE  Rank(ShownIn(1), k, listing.descending) < Reached
      BY DEF Skipped, Below
    <3>1. k \in ShownIn(1)
      BY <1>7
    <3>2. ShownIn(1) \in SUBSET Nat /\ IsFiniteSet(ShownIn(1)) /\ listing.descending \in BOOLEAN
      BY CreatedFacts
    <3>3. Rank(ShownIn(1), k, listing.descending) < n
          /\ Rank(ShownIn(1), k, listing.descending) \in Nat
      BY <2>1, <3>1, <3>2, RankBelowSize, FirstFinite
    <3> QED BY <2>1, <2>2, <3>3
  <2>4. Cardinality(since.kept \ Held) <= Cardinality(Skipped)
        /\ Cardinality(since.kept \ Held) \in Nat /\ Cardinality(Skipped) \in Nat
    BY <2>3, WalkSets, SmallerSet
  <2>5. Cardinality(since.kept \ Held) <= since.left
    BY <1>7, <2>4, HandFacts
  <2> QED BY <1>4, <1>8, <2>5
<1>11. since'.kept \subseteq ShownIn(1)' /\ Cardinality(Skipped') <= since'.left
       /\ walk'.repeats + Cardinality(Again') + Cardinality(ToCome') <= since'.came
  BY <1>4, <1>5, <1>7, <1>8, <1>9
<1>12. ~ Ended'
  BY <1>4 DEF Ended
<1> QED BY <1>10, <1>11, <1>12 DEF NoneSkipped, NoneAgain

LEMMA AnswerOrdered ==
  ASSUME Good, listing.by = "created", NoneSkipped, NoneAgain, Answer
  PROVE  NoneSkipped' /\ NoneAgain'
<1> DEFINE on == walk.page * limit < walk.total
<1>1. /\ Still /\ UNCHANGED since /\ walk.pc = "answer"
      /\ walk'.pc = (IF on THEN "pick" ELSE "ended")
      /\ walk'.page = (IF on THEN walk.page + 1 ELSE walk.page)
      /\ walk'.query = 1 /\ walk'.picked = {} /\ walk'.answer = {}
      /\ walk'.seen = walk.seen \union walk.answer
      /\ walk'.repeats = walk.repeats + Cardinality(walk.answer \intersect walk.seen)
  BY AnswerDoes DEF Good
<1>2. walk.page \in Nat \ {0} /\ walk.picked = {}
  BY <1>1 DEF Good, Types, Walk, Shape
<1>3. ShownIn(1)' = ShownIn(1) /\ listing' = listing
  BY <1>1, StillFacts DEF Good, Still
<1>4. Reached' = Reached
  <2>1. Pages(1) = walk.page
    BY <1>1 DEF Pages
  <2>2. CASE on
    <3>1. walk'.pc = "pick" /\ walk'.page = walk.page + 1 /\ (walk.page + 1) - 1 = walk.page
      BY <1>1, <1>2, <2>2
    <3> QED BY <1>1, <2>1, <3>1 DEF Pages, Reached
  <2>3. CASE ~ on
    <3>1. walk'.pc = "ended" /\ walk'.page = walk.page
      BY <1>1, <2>3
    <3> QED BY <2>1, <3>1 DEF Pages, Reached
  <2> QED BY <2>2, <2>3
<1>5. since.kept \subseteq ShownIn(1) /\ Cardinality(Skipped) <= since.left
      /\ walk.repeats + Cardinality(Again) + Cardinality(ToCome) <= since.came
  BY <1>1 DEF NoneSkipped, NoneAgain, Walking, Ended
<1>6. Held' = Held /\ Held = walk'.seen /\ Again = walk.answer \intersect walk.seen /\ Again' = {}
  BY <1>1, <1>2 DEF Held, Again
<1>7. Skipped' = Skipped /\ ToCome' = ToCome
  BY <1>1, <1>3, <1>4, <1>6 DEF Skipped, ToCome
<1>8. walk'.repeats + Cardinality(Again') + Cardinality(ToCome') <= since'.came
  <2>1. Cardinality(Again') = 0 /\ walk'.repeats = walk.repeats + Cardinality(Again)
    BY <1>1, <1>6, FS_EmptySet
  <2> QED BY <1>1, <1>5, <1>7, <2>1, WalkSets, HandFacts
<1>9. since'.kept \subseteq ShownIn(1)' /\ Cardinality(Skipped') <= since'.left
  BY <1>1, <1>3, <1>5, <1>7
<1>10. walk'.pc # "answer"
  BY <1>1
<1>11. Ended' => Cardinality(since'.kept \ walk'.seen) <= since'.left
  <2> SUFFICES ASSUME walk'.pc = "ended"
               PROVE  Cardinality(since'.kept \ walk'.seen) <= since'.left
    BY DEF Ended
  <2>1. ~ on
    BY <1>1
  <2>2. walk.page * limit \in Nat /\ walk.total \in Nat
    BY HandFacts, CoveredFacts
  <2>3. walk.page * limit >= walk.total
    BY <2>1, <2>2
  <2>4. Cardinality(since.kept \ Held) <= since.left
    BY <1>1, <2>3 DEF NoneSkipped
  <2> QED BY <1>1, <1>6, <2>4
<1> QED BY <1>8, <1>9, <1>10, <1>11 DEF NoneSkipped, NoneAgain

LEMMA StillOrdered ==
  ASSUME Good, NoneSkipped, NoneAgain, Still, UNCHANGED <<walk, since>>
  PROVE  NoneSkipped' /\ NoneAgain'
<1>1. ShownIn(1)' = ShownIn(1) /\ listing' = listing
  BY StillFacts DEF Good, Still
<1>2. Reached' = Reached /\ Held' = Held /\ Again' = Again
  BY DEF Reached, Pages, Held, Again
<1>3. Skipped' = Skipped /\ ToCome' = ToCome
  BY <1>1, <1>2 DEF Skipped, ToCome
<1>4. Walking' = Walking /\ Ended' = Ended
  BY DEF Walking, Ended
<1> QED BY <1>1, <1>2, <1>3, <1>4 DEF NoneSkipped, NoneAgain

LEMMA OrderedStep ==
  ASSUME Good, Ordered, [Next]_vars
  PROVE  Ordered'
<1>1. (Moves /\ ~ Ended) \/ ClientStep \/ UNCHANGED vars
  BY NextCases DEF Good
<1>2. listing' = listing
  BY <1>1 DEF Moves, ClientStep, Begin, Pick, Load, Count, Answer, vars
<1>3. ASSUME listing.by = "created" PROVE NoneSkipped' /\ NoneAgain'
  <2>1. NoneSkipped /\ NoneAgain
    BY <1>3 DEF Ordered
  <2> QED BY <1>1, <1>3, <2>1, MovesKeepOrdered, BeginOrdered, PickOrdered, LoadOrdered, CountOrdered,
             AnswerOrdered, StutterFacts, StillOrdered DEF ClientStep
<1> QED BY <1>2, <1>3 DEF Ordered

-----------------------------------------------------------------------------
(* The theorems. *)

\* The inductive invariant.
Inv == Good /\ Sizes /\ Ordered

\* A listing of one table.
OneTable(l) ==
  /\ l.counts = TRUE /\ l.descending = TRUE
  /\ \E q : l.queries = <<q>> /\ q.shows \subseteq Words

LEMMA OneQuery ==
  ASSUME NEW name, NEW shows \in SUBSET Words, NEW joins, NEW by
  PROVE  OneTable(Listing(name, <<Query(shows, joins)>>, by))
<1>1. PICK q : q = Query(shows, joins)
  OBVIOUS
<1>2. q.shows = shows
  BY <1>1 DEF Query
<1>3. PICK l : l = Listing(name, <<Query(shows, joins)>>, by)
  OBVIOUS
<1>4. l = [name |-> name, queries |-> <<q>>, by |-> by, descending |-> TRUE, counts |-> TRUE]
  BY <1>1, <1>3 DEF Listing
<1>5. OneTable(l)
  BY <1>2, <1>4 DEF OneTable
<1> QED BY <1>3, <1>5

LEMMA PagedShape ==
  ASSUME NEW l \in Paged
  PROVE  /\ l.counts = TRUE
         /\ \/ \E q : l.queries = <<q>> /\ q.shows \subseteq Words
            \/ /\ l.queries = <<Query({"share"}, TRUE), Query({"position"}, TRUE)>>
               /\ l.name = "getUserPortfolio"
               /\ l.by = "none"
         /\ l.by = "created" => l.descending \in BOOLEAN
<1>1. /\ {"PENDING_RESOLUTION"} \in SUBSET Words /\ {"PENDING"} \in SUBSET Words
      /\ {"trade"} \in SUBSET Words /\ {"transaction"} \in SUBSET Words
      /\ {"verified"} \in SUBSET Words /\ {"user"} \in SUBSET Words /\ {"share"} \in SUBSET Words
      /\ AnyMarket \in SUBSET Words /\ {"ACTIVE"} \in SUBSET Words /\ {"DISPUTED"} \in SUBSET Words
  BY DEF Words, AnyMarket
<1>2. CASE l \in getMarkets
  <2>1. /\ l.queries \in {<<Query(shows, TRUE)>> : shows \in {AnyMarket, {"ACTIVE"}, {"DISPUTED"}}}
        /\ l.descending \in BOOLEAN /\ l.counts \in {TRUE}
    BY <1>2 DEF getMarkets
  <2>2. PICK shows \in {AnyMarket, {"ACTIVE"}, {"DISPUTED"}} : l.queries = <<Query(shows, TRUE)>>
    BY <2>1
  <2>3. PICK q : q = Query(shows, TRUE)
    OBVIOUS
  <2>4. l.queries = <<q>> /\ q.shows \subseteq Words
    BY <1>1, <2>2, <2>3 DEF Query
  <2> QED BY <2>1, <2>4
<1>3. CASE l = getPendingMarkets
  <2>1. PICK m : m = Listing("getPendingMarkets", <<Query({"PENDING_RESOLUTION"}, TRUE)>>, "amount")
    OBVIOUS
  <2>2. OneTable(m)
    BY <1>1, <2>1, OneQuery
  <2>3. l = [m EXCEPT !.descending = FALSE]
    BY <1>3, <2>1 DEF getPendingMarkets
  <2>4. l.counts = m.counts /\ l.queries = m.queries /\ l.by = m.by
    BY <2>3
  <2>5. m.by = "amount"
    BY <2>1 DEF Listing
  <2> QED BY <2>2, <2>4, <2>5 DEF OneTable
<1>4. CASE l \in {getPendingCreators, getMarketTrades, getTransactionHistory, getClaimHistory,
                  searchUsersOfAdmin, searchUsers, getShareholders}
  <2>1. OneTable(l)
    <3>1. CASE l = getPendingCreators
      BY <1>1, <3>1, OneQuery DEF getPendingCreators
    <3>2. CASE l = getMarketTrades
      BY <1>1, <3>2, OneQuery DEF getMarketTrades
    <3>3. CASE l = getTransactionHistory
      BY <1>1, <3>3, OneQuery DEF getTransactionHistory
    <3>4. CASE l = getClaimHistory
      BY <1>1, <3>4, OneQuery DEF getClaimHistory
    <3>5. CASE l = searchUsersOfAdmin
      BY <1>1, <3>5, OneQuery DEF searchUsersOfAdmin
    <3>6. CASE l = searchUsers
      BY <1>1, <3>6, OneQuery DEF searchUsers
    <3>7. CASE l = getShareholders
      BY <1>1, <3>7, OneQuery DEF getShareholders
    <3> QED BY <1>4, <3>1, <3>2, <3>3, <3>4, <3>5, <3>6, <3>7
  <2> QED BY <2>1 DEF OneTable
<1>5. CASE l = getUserPortfolio
  <2>1. PICK q, r : q = Query({"share"}, TRUE) /\ r = Query({"position"}, TRUE)
    OBVIOUS
  <2>2. l = [name |-> "getUserPortfolio", queries |-> <<q, r>>, by |-> "none", descending |-> TRUE,
             counts |-> TRUE]
    BY <1>5, <2>1 DEF getUserPortfolio, Listing
  <2>3. l.counts = TRUE /\ l.queries = <<q, r>> /\ l.name = "getUserPortfolio" /\ l.by = "none"
    BY <2>2
  <2>4. l.by # "created"
    BY <2>3
  <2> QED BY <2>1, <2>3, <2>4
<1>6. \/ l \in getMarkets
      \/ l = getPendingMarkets
      \/ l \in {getPendingCreators, getMarketTrades, getTransactionHistory, getClaimHistory,
                searchUsersOfAdmin, searchUsers, getShareholders}
      \/ l = getUserPortfolio
  BY DEF Paged
<1> QED BY <1>2, <1>3, <1>4, <1>5, <1>6, Zenon

LEMMA InitInv ==
  ASSUME Listings \subseteq Paged, Init
  PROVE  Inv
<1>1. listing \in Listings /\ rows = << >> /\ walk = Idle
      /\ since = [kept |-> {}, left |-> 0, came |-> 0]
  BY DEF Init
<1>2. ListingOK
  BY <1>1, PagedShape DEF ListingOK
<1>3. walk.pc = "idle" /\ walk.picked = {} /\ walk.answer = {} /\ walk.seen = {} /\ since.kept = {}
  BY <1>1 DEF Idle
<1>4. walk \in Walk
  BY <1>1 DEF Idle, Walk
<1>5. since \in Since /\ rows \in Seq(Row)
  BY <1>1 DEF Since
<1>6. Types
  BY <1>2, <1>3, <1>4, <1>5 DEF Types
<1>7. Shape
  BY <1>1, <1>3 DEF Shape, Reading
<1>8. Good
  BY <1>6, <1>7 DEF Good
<1>9. Sizes
  BY <1>3, <1>8, IdleSizes
<1>10. Ordered
  BY <1>3 DEF Ordered, NoneSkipped, NoneAgain, Walking, Ended
<1> QED BY <1>8, <1>9, <1>10 DEF Inv

LEMMA NextInv ==
  ASSUME Inv, [Next]_vars
  PROVE  Inv'
BY GoodStep, SizesStep, OrderedStep DEF Inv

LEMMA InvGives ==
  ASSUME Inv
  PROVE  MissesBounded /\ RepeatsBounded /\ TotalAgrees
<1>1. Good /\ Sizes /\ Ordered
  BY DEF Inv
<1>2. MissesBounded
  BY <1>1 DEF Ordered, NoneSkipped, MissesBounded
<1>3. RepeatsBounded
  <2> SUFFICES ASSUME Ended, listing.by = "created" PROVE walk.repeats <= since.came
    BY DEF RepeatsBounded
  <2>1. walk.repeats + Cardinality(Again) + Cardinality(ToCome) <= since.came
    BY <1>1 DEF Ordered, NoneAgain, Ended
  <2> QED BY <1>1, <2>1, WalkSets, HandFacts
<1>4. TotalAgrees
  <2> SUFFICES ASSUME Ended
               PROVE  /\ walk.answers <= walk.total + since.left + since.came
                      /\ walk.total <= walk.answers + since.left + since.came
    BY DEF TotalAgrees
  <2>1. walk.pc = "ended" /\ walk.answer = {} /\ walk.picked = {} /\ walk.page * limit >= walk.total
    BY <1>1 DEF Ended, Good, Shape
  <2>2. Sure = {} /\ Uncounted = 0
    BY <2>1 DEF Sure, Uncounted, Reading
  <2>3. PICK n \in Nat, t \in Nat, left \in Nat, came \in Nat :
          n = walk.answers /\ t = walk.total /\ left = since.left /\ came = since.came
    BY <1>1, HandFacts
  <2>4. Got = n /\ SureGot = n /\ Changes = left + came
    <3>1. Cardinality({}) = 0
      BY FS_EmptySet
    <3> QED BY <2>1, <2>2, <2>3, <3>1 DEF Got, SureGot, Changes
  <2>5. n <= t + 0 + (left + came) /\ t + 0 <= n + (left + came)
    <3> HIDE DEF Got, SureGot, Changes, Uncounted
    <3> QED BY <1>1, <2>1, <2>2, <2>3, <2>4 DEF Sizes
  <2> QED BY <2>3, <2>5
<1> QED BY <1>2, <1>3, <1>4

\* The inductive invariant holds of every listing that counts what it shows, which
\* is every one but getUserActivity, while other requests insert, move and hide rows.
THEOREM Invariance ==
  ASSUME Listings \subseteq Paged
  PROVE  Spec => []Inv
<1>1. Init => Inv
  BY InitInv
<1>2. Inv /\ [Next]_vars => Inv'
  BY NextInv
<1> QED BY <1>1, <1>2, PTL DEF Spec

\* In the order of creation, a walk through the pages misses no more of the rows that
\* stayed than rows went from the listing.
THEOREM MissesAreBounded ==
  ASSUME Listings \subseteq Paged
  PROVE  Spec => []MissesBounded
<1>1. Inv => MissesBounded
  BY InvGives
<1>2. Spec => []Inv
  BY Invariance
<1> QED BY <1>1, <1>2, PTL

\* In the order of creation, a walk repeats no more rows than rows came.
THEOREM RepeatsAreBounded ==
  ASSUME Listings \subseteq Paged
  PROVE  Spec => []RepeatsBounded
<1>1. Inv => RepeatsBounded
  BY InvGives
<1>2. Spec => []Inv
  BY Invariance
<1> QED BY <1>1, <1>2, PTL

\* In any order, and when two tables share the page, the rows answered are as many as
\* the total told, but for one row per change.
THEOREM TotalsAgree ==
  ASSUME Listings \subseteq Paged
  PROVE  Spec => []TotalAgrees
<1>1. Inv => TotalAgrees
  BY InvGives
<1>2. Spec => []Inv
  BY Invariance
<1> QED BY <1>1, <1>2, PTL


-----------------------------------------------------------------------------
(* Dividends: listings and claims.                                           *)

Completing == {"completeLoad", "completeUpdate"}

Deciding == {"listEpoch", "listClaim"}

\* A request that completes a claim holds a copy of a row that is there; it found it
\* open, and finds it open still unless another request completes it too.
CopyOK(q) ==
  q.pc \in Completing =>
    /\ claims[q.id] # NoRow
    /\ q.row.verified = TRUE
    /\ q.id \notin contended => claims[q.id].verified = FALSE
    /\ q.pc = "completeUpdate" /\ q.seen.verified = TRUE => claims[q.id].verified = TRUE

\* A claim is inserted under an id of its own.
InsertOK(q) ==
  q.pc = "initiateInsert" => q.id <= claimedAt /\ claims[q.id] = NoRow

IdsAreOwn ==
  /\ \A id \in ClaimIds : id > claimedAt => claims[id] = NoRow
  /\ \A r, s \in Requests : r # s =>
       /\ request[r].pc = "initiateInsert" /\ request[s].pc = "initiateInsert" =>
            request[r].id # request[s].id
       /\ \A id \in ClaimIds : Completes(r, id) /\ Completes(s, id) => id \in contended

\* The creators a listing has still to decide about.
Pending(q) == IF q.pc = "listClaim" THEN q.todo \union {q.creator} ELSE q.todo

Owed(u, c) ==
  /\ holdings[u][c] # NoRow
  /\ epochs[c] # NoRow
  /\ IsClaimable(epochs[c].totalFees, Share(u, c))

NoneVerified(u, c) == \A id \in ClaimsOf(u, c) : ~IsVerified(id)

\* What a listing has read is what the tables say, and what it has listed is right.
ReadOK(q) ==
  /\ q.pc = "listClaim" => q.epoch = epochs[q.creator] /\ q.creator \notin q.todo
  /\ \A c \in Pending(q) : /\ holdings[q.user][c] # NoRow
                           /\ q.shares[c] = Share(q.user, c)
                           /\ c \notin q.listed
  /\ \A c \in Creators \ Pending(q) : NoneVerified(q.user, c) => (c \in q.listed <=> Owed(q.user, c))

\* Written tables are noted in version.
ListOK(q) ==
  q.pc \in Deciding => q.asOf <= version /\ (q.asOf = version => ReadOK(q))

\* The inductive invariant.
ClaimsInv ==
  /\ DividendsTypeOK
  /\ IdsAreOwn
  /\ \A r \in Requests : CopyOK(request[r]) /\ InsertOK(request[r]) /\ ListOK(request[r])

LEMMA MaxIn ==
  ASSUME NEW S \in SUBSET ClaimIds, S # {}
  PROVE  Max(S) \in S
<1>1. MaxClaims \in Nat /\ S \subseteq 1 .. MaxClaims
  BY DividendsAssumption DEF ClaimIds
<1> DEFINE T == {n \in Nat : MaxClaims - n \in S}
           R == OpToRel(<, Nat)
<1>2. T \subseteq Nat /\ T # {}
  <2>1. PICK x \in S : TRUE
    OBVIOUS
  <2>2. MaxClaims - x \in Nat /\ MaxClaims - (MaxClaims - x) = x
    BY <1>1
  <2> QED BY <2>1, <2>2
<1>3. \E n \in T : \A m \in T : ~ (<<m, n>> \in R)
  BY <1>2, NatLessThanWellFounded, WFMin, Zenon
<1>4. PICK n \in T : \A m \in T : ~ (<<m, n>> \in R)
  BY <1>3
<1>5. \A m \in T : ~ (m < n)
  BY <1>4 DEF OpToRel
<1>6. \A y \in S : MaxClaims - n >= y
  <2> SUFFICES ASSUME NEW y \in S PROVE MaxClaims - n >= y
    OBVIOUS
  <2>1. MaxClaims - y \in T
    BY <1>1
  <2>2. ~ (MaxClaims - y < n)
    BY <1>5, <2>1
  <2> QED BY <1>1, <2>2
<1>7. MaxClaims - n \in S
  OBVIOUS
<1> QED BY <1>6, <1>7 DEF Max

-----------------------------------------------------------------------------
(* Requests. *)

ListEpochs ==
  [pc : {"listEpoch"}, user : Users, todo : SUBSET Creators,
   shares : [Creators -> CreatorShare \union {NoRow}], listed : SUBSET Creators, asOf : Nat]

ListClaims ==
  [pc : {"listClaim"}, user : Users, todo : SUBSET Creators,
   shares : [Creators -> CreatorShare \union {NoRow}], listed : SUBSET Creators, asOf : Nat,
   creator : Creators, epoch : DividendEpoch]

InitiateEpochs == [pc : {"initiateEpoch"}, user : Users, creator : Creators, share : CreatorShare]

InitiateInserts == [pc : {"initiateInsert"}, id : ClaimIds, row : Claim]

CompleteLoads == [pc : {"completeLoad"}, id : ClaimIds, row : Claim]

CompleteUpdates == [pc : {"completeUpdate"}, id : ClaimIds, row : Claim, seen : Claim]

LEMMA RequestSets ==
  Request = {IdleRequest} \union ListEpochs \union ListClaims \union InitiateEpochs
            \union InitiateInserts \union CompleteLoads \union CompleteUpdates
BY DEF Request, ListEpochs, ListClaims, InitiateEpochs, InitiateInserts, CompleteLoads,
       CompleteUpdates

LEMMA RequestKinds ==
  ASSUME NEW q \in Request
  PROVE  /\ q.pc = "listEpoch" => q \in ListEpochs
         /\ q.pc = "listClaim" => q \in ListClaims
         /\ q.pc = "initiateEpoch" => q \in InitiateEpochs
         /\ q.pc = "initiateInsert" => q \in InitiateInserts
         /\ q.pc = "completeLoad" => q \in CompleteLoads
         /\ q.pc = "completeUpdate" => q \in CompleteUpdates
<1>2. CASE q = IdleRequest
  BY <1>2 DEF IdleRequest
<1>3. CASE q \in ListEpochs
  BY <1>3 DEF ListEpochs
<1>4. CASE q \in ListClaims
  BY <1>4 DEF ListClaims
<1>5. CASE q \in InitiateEpochs
  BY <1>5 DEF InitiateEpochs
<1>6. CASE q \in InitiateInserts
  BY <1>6 DEF InitiateInserts
<1>7. CASE q \in CompleteLoads
  BY <1>7 DEF CompleteLoads
<1>8. CASE q \in CompleteUpdates
  BY <1>8 DEF CompleteUpdates
<1> QED BY <1>2, <1>3, <1>4, <1>5, <1>6, <1>7, <1>8, RequestSets

\* The row of a claim, open or completed.
LEMMA ClaimRow ==
  ASSUME NEW row \in Claim
  PROVE  /\ row.user \in Users /\ row.creator \in Creators /\ row.amount \in Nat
         /\ row.epoch \in Nat \ {0} /\ row.verified \in BOOLEAN
         /\ row.verified = TRUE => row.tweetId \in Tweets
         /\ row.verified = FALSE => row.tweetId = NoTweet
         /\ row # NoRow
BY DividendsAssumption DEF Claim

LEMMA CompletedRow ==
  ASSUME NEW row \in Claim, NEW tweet \in Tweets, NEW new,
         new = [row EXCEPT !.tweetId = tweet, !.verified = TRUE]
  PROVE  /\ new \in Claim /\ new.verified = TRUE
         /\ new.user = row.user /\ new.creator = row.creator
         /\ new = [row EXCEPT !.tweetId = new.tweetId, !.verified = new.verified]
BY DEF Claim

\* What every request has is what the invariant asks for.
LEMMA AllRequests ==
  ASSUME DividendsTypeOK', IdsAreOwn',
         \A q : (\E r \in Requests : request'[r] = q) => CopyOK(q)' /\ InsertOK(q)' /\ ListOK(q)'
  PROVE  ClaimsInv'
<1> SUFFICES ASSUME NEW r \in Requests
             PROVE  (CopyOK(request[r]) /\ InsertOK(request[r]) /\ ListOK(request[r]))'
  BY DEF ClaimsInv
<1>1. PICK q : q = request'[r]
  OBVIOUS
<1>2. CopyOK(q)' /\ InsertOK(q)' /\ ListOK(q)'
  BY <1>1
<1>3. CopyOK(request[r])'
  BY <1>1, <1>2 DEF CopyOK
<1>4. InsertOK(request[r])'
  BY <1>1, <1>2 DEF InsertOK
<1>5. ListOK(request[r])'
  BY <1>1, <1>2 DEF ListOK, ReadOK, Pending, Owed, NoneVerified, ClaimsOf, Share
<1> QED BY <1>3, <1>4, <1>5

LEMMA Continues ==
  ASSUME DividendsTypeOK, NEW r \in Requests, NEW next \in Request, Continue(r, next)
  PROVE  /\ request' \in [Requests -> Request]
         /\ request'[r] = next
         /\ \A s \in Requests : s # r => request'[s] = request[s]
BY DEF Continue, DividendsTypeOK

LEMMA SameTables ==
  ASSUME UNCHANGED <<outside, claims, claimedAt, version, contended>>, NEW q
  PROVE  /\ CopyOK(q) => CopyOK(q)'
         /\ InsertOK(q) => InsertOK(q)'
         /\ ListOK(q) => ListOK(q)'
<1>1. CopyOK(q) => CopyOK(q)'
  BY DEF CopyOK
<1>2. InsertOK(q) => InsertOK(q)'
  BY DEF InsertOK
<1>3. ListOK(q) => ListOK(q)'
  BY DEF outside, ListOK, ReadOK, Pending, Owed, NoneVerified, ClaimsOf, Share, IsVerified
<1> QED BY <1>1, <1>2, <1>3

\* A request goes on and nothing is written.
LEMMA QuietStep ==
  ASSUME ClaimsInv, NEW r \in Requests, NEW next \in Request, Continue(r, next),
         UNCHANGED <<outside, claims, claimedAt, history>>,
         CopyOK(next), ListOK(next), next.pc # "initiateInsert",
         next.pc \in Completing => request[r].pc \in Completing /\ next.id = request[r].id
  PROVE  ClaimsInv'
<1>1. /\ request' \in [Requests -> Request]
      /\ request'[r] = next
      /\ \A s \in Requests : s # r => request'[s] = request[s]
  BY Continues DEF ClaimsInv
<1>2. DividendsTypeOK'
  BY <1>1 DEF ClaimsInv, DividendsTypeOK, outside, history
<1>3. InsertOK(next)
  BY DEF InsertOK
<1>4. ASSUME NEW q, NEW s \in Requests, request'[s] = q
      PROVE  CopyOK(q)' /\ InsertOK(q)' /\ ListOK(q)'
  <2>1. CopyOK(q) /\ InsertOK(q) /\ ListOK(q)
    <3>1. CASE s = r
      BY <1>1, <1>3, <1>4, <3>1
    <3>2. CASE s # r
      BY <1>1, <1>4, <3>2 DEF ClaimsInv
    <3> QED BY <3>1, <3>2
  <2> QED BY <2>1, SameTables DEF history
<1>5. \A id \in ClaimIds : id > claimedAt' => claims'[id] = NoRow
  BY DEF ClaimsInv, IdsAreOwn
<1>6. \A s \in Requests : request'[s].pc = "initiateInsert" =>
        request[s].pc = "initiateInsert" /\ request'[s].id = request[s].id
  BY <1>1
<1>7. \A s \in Requests, id \in ClaimIds : Completes(s, id)' => Completes(s, id)
  BY <1>1 DEF Completes, Completing
<1>8. IdsAreOwn'
  <2>1. \A s, t \in Requests : s # t =>
          (request'[s].pc = "initiateInsert" /\ request'[t].pc = "initiateInsert" =>
             request'[s].id # request'[t].id)
    BY <1>6 DEF ClaimsInv, IdsAreOwn
  <2>2. \A s, t \in Requests : s # t =>
          \A id \in ClaimIds : Completes(s, id)' /\ Completes(t, id)' => id \in contended'
    BY <1>7 DEF ClaimsInv, IdsAreOwn, history
  <2> QED BY <1>5, <2>1, <2>2 DEF IdsAreOwn
<1> QED BY <1>2, <1>4, <1>8, AllRequests

LEMMA AtRest ==
  /\ IdleRequest \in Request /\ IdleRequest.pc = "idle"
  /\ CopyOK(IdleRequest) /\ ListOK(IdleRequest)
<1>1. IdleRequest \in Request /\ IdleRequest.pc = "idle"
  BY RequestSets DEF IdleRequest
<1> QED BY <1>1 DEF CopyOK, ListOK, Completing, Deciding

\* The request ends.
LEMMA EndsQuietly ==
  ASSUME ClaimsInv, NEW r \in Requests, Continue(r, IdleRequest),
         UNCHANGED <<outside, claims, claimedAt, history>>
  PROVE  ClaimsInv'
<1>1. IdleRequest.pc # "initiateInsert" /\ IdleRequest.pc \notin Completing
  BY AtRest DEF Completing
<1> QED BY <1>1, AtRest, QuietStep

-----------------------------------------------------------------------------
(* What can be claimed. *)

LEMMA HeldShares ==
  ASSUME DividendsTypeOK, NEW u \in Users, NEW c \in Creators, holdings[u][c] # NoRow
  PROVE  Share(u, c) \in CreatorShare
<1>1. holdings[u][c] \in Nat /\ totalShares[c] \in Nat
  BY DEF DividendsTypeOK
<1> QED BY <1>1 DEF Share, CreatorShare

LEMMA GetKeepsInv ==
  ASSUME ClaimsInv, NEW r \in Requests, NEW u \in Users, getClaimableDividends(r, u)
  PROVE  ClaimsInv'
<1> DEFINE held == {c \in Creators : holdings[u][c] # NoRow}
           shares == [c \in Creators |-> IF c \in held THEN Share(u, c) ELSE NoRow]
           next == [pc |-> "listEpoch", user |-> u, todo |-> held, shares |-> shares,
                    listed |-> {}, asOf |-> version]
<1>1. /\ UNCHANGED <<outside, claims, claimedAt, history>>
      /\ Continue(r, IF held = {} THEN IdleRequest ELSE next)
  BY DEF getClaimableDividends
<1>2. CASE held = {}
  BY <1>1, <1>2, EndsQuietly
<1>3. CASE held # {}
  <2>1. shares \in [Creators -> CreatorShare \union {NoRow}]
    <3>1. \A c \in held : Share(u, c) \in CreatorShare
      BY HeldShares DEF ClaimsInv
    <3> QED BY <3>1
  <2>2. version \in Nat
    BY DEF ClaimsInv, DividendsTypeOK
  <2>3. PICK q : q = next
    OBVIOUS
  <2>4. /\ q.pc = "listEpoch" /\ q.user = u /\ q.todo = held /\ q.listed = {} /\ q.asOf = version
        /\ q.shares = shares
    BY <2>3
  <2>5. q \in Request
    <3> HIDE DEF held, shares
    <3>1. held \in SUBSET Creators
      BY DEF held
    <3>2. q \in ListEpochs
      BY <2>1, <2>2, <2>3, <3>1 DEF ListEpochs
    <3> QED BY <3>2, RequestSets
  <2>6. ReadOK(q)
    <3>1. Pending(q) = held
      BY <2>4 DEF Pending
    <3>2. \A c \in Creators \ held : ~ Owed(u, c)
      BY DEF Owed
    <3> QED BY <2>4, <3>1, <3>2 DEF ReadOK
  <2>7. ListOK(q) /\ CopyOK(q) /\ q.pc \notin Completing /\ q.pc # "initiateInsert"
    BY <2>2, <2>4, <2>6 DEF ListOK, CopyOK, Completing
  <2> HIDE DEF next
  <2> QED BY <1>1, <1>3, <2>3, <2>5, <2>7, QuietStep
<1> QED BY <1>2, <1>3

\* A creator is dropped when no claim of the user was completed only if nothing is owed.
LEMMA ListEpochKeepsInv ==
  ASSUME ClaimsInv, NEW r \in Requests, NEW c \in Creators, ListEpoch(r, c)
  PROVE  ClaimsInv'
<1>1. PICK q : q = request[r]
  OBVIOUS
<1> DEFINE dropped == [q EXCEPT !.todo = @ \ {c}]
           looking == [pc |-> "listClaim", user |-> q.user, todo |-> q.todo \ {c},
                       shares |-> q.shares, listed |-> q.listed, asOf |-> q.asOf,
                       creator |-> c, epoch |-> epochs[c]]
<1>2. /\ UNCHANGED <<outside, claims, claimedAt, history>>
      /\ q.pc = "listEpoch" /\ c \in q.todo
      /\ Continue(r, IF epochs[c] = NoRow THEN dropped ELSE looking)
  BY <1>1 DEF ListEpoch
<1>3. q \in ListEpochs /\ ListOK(q)
  BY <1>1, <1>2, RequestKinds DEF ClaimsInv, DividendsTypeOK
<1>4. /\ q.asOf <= version
      /\ q.asOf = version =>
           /\ \A d \in q.todo : /\ holdings[q.user][d] # NoRow
                                /\ q.shares[d] = Share(q.user, d)
                                /\ d \notin q.listed
           /\ \A d \in Creators \ q.todo :
                NoneVerified(q.user, d) => (d \in q.listed <=> Owed(q.user, d))
  BY <1>2, <1>3 DEF ListOK, ReadOK, Pending, Deciding
<1>5. CASE epochs[c] = NoRow
  <2>1. PICK n : n = dropped
    OBVIOUS
  <2>2. /\ n \in ListEpochs /\ n.pc = "listEpoch" /\ n.todo = q.todo \ {c} /\ n.user = q.user
        /\ n.shares = q.shares /\ n.listed = q.listed /\ n.asOf = q.asOf
    BY <1>3, <2>1 DEF ListEpochs
  <2>3. n.asOf = version => ReadOK(n)
    <3> SUFFICES ASSUME n.asOf = version PROVE ReadOK(n)
      OBVIOUS
    <3>1. Pending(n) = q.todo \ {c}
      BY <2>2 DEF Pending
    <3>2. ~ Owed(q.user, c) /\ c \notin q.listed
      BY <1>2, <1>4, <1>5, <2>2 DEF Owed
    <3>3. \A d \in Creators \ (q.todo \ {c}) :
            NoneVerified(q.user, d) => (d \in q.listed <=> Owed(q.user, d))
      BY <1>4, <2>2, <3>2
    <3> QED BY <1>4, <2>2, <3>1, <3>3 DEF ReadOK
  <2>4. ListOK(n) /\ CopyOK(n) /\ n.pc \notin Completing /\ n.pc # "initiateInsert" /\ n \in Request
    BY <1>4, <2>2, <2>3, RequestSets DEF ListOK, CopyOK, Completing
  <2> HIDE DEF dropped
  <2> QED BY <1>2, <1>5, <2>1, <2>4, QuietStep
<1>6. CASE epochs[c] # NoRow
  <2>1. PICK n : n = looking
    OBVIOUS
  <2>2. /\ n.pc = "listClaim" /\ n.todo = q.todo \ {c} /\ n.user = q.user
        /\ n.shares = q.shares /\ n.listed = q.listed /\ n.asOf = q.asOf
        /\ n.creator = c /\ n.epoch = epochs[c]
    BY <2>1
  <2>3. n \in ListClaims
    <3>1. epochs[c] \in DividendEpoch
      BY <1>6 DEF ClaimsInv, DividendsTypeOK
    <3> QED BY <1>3, <2>1, <3>1 DEF ListEpochs, ListClaims
  <2>4. n.asOf = version => ReadOK(n)
    <3>1. Pending(n) = q.todo
      BY <1>2, <2>2 DEF Pending
    <3> QED BY <1>4, <2>2, <3>1 DEF ReadOK
  <2>5. ListOK(n) /\ CopyOK(n) /\ n.pc \notin Completing /\ n.pc # "initiateInsert" /\ n \in Request
    BY <1>4, <2>2, <2>3, <2>4, RequestSets DEF ListOK, CopyOK, Completing
  <2> HIDE DEF looking
  <2> QED BY <1>2, <1>6, <2>1, <2>5, QuietStep
<1> QED BY <1>5, <1>6

LEMMA ListClaimKeepsInv ==
  ASSUME ClaimsInv, NEW r \in Requests, ListClaim(r)
  PROVE  ClaimsInv'
<1>1. PICK q : q = request[r]
  OBVIOUS
<1>2. PICK c : c = q.creator
  OBVIOUS
<1> DEFINE claimable == IsClaimable(q.epoch.totalFees, q.shares[c]) /\ ~HasClaimed(q.user, c)
           next == [pc |-> "listEpoch", user |-> q.user, todo |-> q.todo,
                    shares |-> q.shares, asOf |-> q.asOf,
                    listed |-> IF claimable THEN q.listed \union {c} ELSE q.listed]
<1>3. /\ UNCHANGED <<outside, claims, claimedAt, history>>
      /\ q.pc = "listClaim"
      /\ Continue(r, next)
  BY <1>1, <1>2 DEF ListClaim
<1>4. q \in ListClaims /\ ListOK(q)
  BY <1>1, <1>3, RequestKinds DEF ClaimsInv, DividendsTypeOK
<1>5. /\ q.asOf <= version
      /\ q.asOf = version => /\ ReadOK(q) /\ Pending(q) = q.todo \union {c}
                             /\ q.epoch = epochs[c] /\ c \notin q.todo
  BY <1>2, <1>3, <1>4 DEF ListOK, ReadOK, Pending, Deciding
<1>6. PICK n : n = next
  OBVIOUS
<1>7. /\ n.pc = "listEpoch" /\ n.todo = q.todo /\ n.user = q.user
      /\ n.shares = q.shares /\ n.asOf = q.asOf
      /\ n.listed = IF claimable THEN q.listed \union {c} ELSE q.listed
  BY <1>6
<1>8. n \in ListEpochs
  <2>1. n.listed \in SUBSET Creators
    BY <1>2, <1>4, <1>7 DEF ListClaims
  <2>2. n = [pc |-> "listEpoch", user |-> q.user, todo |-> q.todo,
             shares |-> q.shares, asOf |-> q.asOf, listed |-> n.listed]
    BY <1>6
  <2> QED BY <1>4, <2>1, <2>2 DEF ListClaims, ListEpochs
<1>9. n.asOf = version => ReadOK(n)
  <2> SUFFICES ASSUME q.asOf = version PROVE ReadOK(n)
    BY <1>7
  <2>1. q.epoch \in DividendEpoch /\ q.user \in Users /\ c \in Creators
    BY <1>2, <1>4 DEF ListClaims
  <2>2. epochs[c] # NoRow
    BY <1>5, <2>1, DividendsAssumption
  <2>3. holdings[q.user][c] # NoRow /\ q.shares[c] = Share(q.user, c) /\ c \notin q.listed
    BY <1>5 DEF ReadOK
  <2>4. IsClaimable(q.epoch.totalFees, q.shares[c]) <=> Owed(q.user, c)
    BY <1>5, <2>2, <2>3 DEF Owed
  <2>5. NoneVerified(q.user, c) => ~HasClaimed(q.user, c)
    <3> SUFFICES ASSUME NoneVerified(q.user, c), HasClaimed(q.user, c) PROVE FALSE
      OBVIOUS
    <3>1. Max(ClaimsOf(q.user, c)) \in ClaimsOf(q.user, c)
      BY MaxIn DEF HasClaimed, ClaimsOf
    <3> QED BY <3>1 DEF NoneVerified, HasClaimed, IsVerified, ClaimsOf
  <2>6. NoneVerified(q.user, c) => (c \in n.listed <=> Owed(q.user, c))
    BY <1>7, <2>3, <2>4, <2>5
  <2>7. Pending(n) = q.todo
    BY <1>7 DEF Pending
  <2>8. \A d \in Creators \ q.todo :
          NoneVerified(q.user, d) => (d \in n.listed <=> Owed(q.user, d))
    <3> SUFFICES ASSUME NEW d \in Creators \ q.todo, d # c
                 PROVE  NoneVerified(q.user, d) => (d \in n.listed <=> Owed(q.user, d))
      BY <2>6
    <3>1. d \in Creators \ Pending(q)
      BY <1>5
    <3>2. NoneVerified(q.user, d) => (d \in q.listed <=> Owed(q.user, d))
      BY <1>5, <3>1 DEF ReadOK
    <3> HIDE DEF claimable
    <3> QED BY <1>7, <3>2
  <2>9. \A d \in q.todo : /\ holdings[q.user][d] # NoRow
                          /\ q.shares[d] = Share(q.user, d)
                          /\ d \notin n.listed
    <3> HIDE DEF claimable
    <3> QED BY <1>5, <1>7 DEF ReadOK
  <2> QED BY <1>7, <2>7, <2>8, <2>9 DEF ReadOK
<1>10. ListOK(n) /\ CopyOK(n) /\ n.pc \notin Completing /\ n.pc # "initiateInsert" /\ n \in Request
  BY <1>5, <1>7, <1>8, <1>9, RequestSets DEF ListOK, CopyOK, Completing
<1> HIDE DEF next
<1> QED BY <1>3, <1>6, <1>10, QuietStep

-----------------------------------------------------------------------------
(* Claims. *)

LEMMA InitiateKeepsInv ==
  ASSUME ClaimsInv, NEW r \in Requests, NEW u \in Users, NEW c \in Creators, initiateClaim(r, u, c)
  PROVE  ClaimsInv'
<1>1. PICK n : n = [pc |-> "initiateEpoch", user |-> u, creator |-> c, share |-> Share(u, c)]
  OBVIOUS
<1>2. UNCHANGED <<outside, claims, claimedAt, history>> /\ Continue(r, n)
  BY <1>1 DEF initiateClaim
<1>3. Share(u, c) \in CreatorShare
  BY HeldShares DEF ClaimsInv, initiateClaim
<1>4. n.pc = "initiateEpoch" /\ n \in Request
  BY <1>1, <1>3, RequestSets DEF InitiateEpochs
<1>5. ListOK(n) /\ CopyOK(n) /\ n.pc \notin Completing /\ n.pc # "initiateInsert"
  BY <1>4 DEF ListOK, CopyOK, Completing, Deciding
<1> QED BY <1>2, <1>4, <1>5, QuietStep

LEMMA AmountNat ==
  ASSUME NEW fees \in Nat, NEW share \in CreatorShare
  PROVE  ClaimableAmount(fees, share) \in Nat
<1>1. PICK total \in Nat \ {0} : total = IF share.total = 0 THEN 1 ELSE share.total
  BY DEF CreatorShare
<1>2. 2 * fees * share.sharesHeld + total \in Nat /\ 2 * total \in Nat \ {0}
  BY <1>1 DEF CreatorShare
<1>3. \A a \in Nat, d \in Nat \ {0} : a \div d \in Nat
  OBVIOUS
<1> QED BY <1>1, <1>2, <1>3 DEF ClaimableAmount

LEMMA InitiateEpochKeepsInv ==
  ASSUME ClaimsInv, NEW r \in Requests, InitiateEpoch(r)
  PROVE  ClaimsInv'
<1>1. PICK q : q = request[r]
  OBVIOUS
<1>2. PICK row : row = [user |-> q.user, creator |-> q.creator,
                        amount |-> ClaimableAmount(epochs[q.creator].totalFees, q.share),
                        epoch |-> epochs[q.creator].epochNumber,
                        tweetId |-> NoTweet, verified |-> FALSE]
  OBVIOUS
<1>3. PICK n : n = [pc |-> "initiateInsert", id |-> claimedAt + 1, row |-> row]
  OBVIOUS
<1>4. /\ q.pc = "initiateEpoch" /\ claimedAt < MaxClaims
      /\ UNCHANGED <<outside, claims, history>>
      /\ \/ /\ epochs[q.creator] # NoRow
            /\ Continue(r, n) /\ claimedAt' = claimedAt + 1
         \/ Continue(r, IdleRequest) /\ UNCHANGED claimedAt
  BY <1>1, <1>2, <1>3 DEF InitiateEpoch
<1>5. CASE Continue(r, IdleRequest) /\ UNCHANGED claimedAt
  BY <1>4, <1>5, EndsQuietly
<1>6. CASE epochs[q.creator] # NoRow /\ Continue(r, n) /\ claimedAt' = claimedAt + 1
  <2>1. q \in InitiateEpochs
    BY <1>1, <1>4, RequestKinds DEF ClaimsInv, DividendsTypeOK
  <2>2. epochs[q.creator] \in DividendEpoch
    BY <1>6, <2>1 DEF ClaimsInv, DividendsTypeOK, InitiateEpochs
  <2>3. row \in Claim
    <3>1. ClaimableAmount(epochs[q.creator].totalFees, q.share) \in Nat
      BY <2>1, <2>2, AmountNat DEF InitiateEpochs, DividendEpoch
    <3> QED BY <1>2, <2>1, <2>2, <3>1 DEF Claim, InitiateEpochs, DividendEpoch
  <2>4. MaxClaims \in Nat /\ claimedAt \in 0 .. MaxClaims /\ claimedAt + 1 \in ClaimIds
    BY <1>4, DividendsAssumption DEF ClaimsInv, DividendsTypeOK, ClaimIds
  <2>5. n.pc = "initiateInsert" /\ n.id = claimedAt + 1 /\ n \in Request
    BY <1>3, <2>3, <2>4, RequestSets DEF InitiateInserts
  <2>6. /\ request' \in [Requests -> Request]
        /\ request'[r] = n
        /\ \A s \in Requests : s # r => request'[s] = request[s]
    BY <1>6, <2>5, Continues DEF ClaimsInv
  <2>7. DividendsTypeOK'
    BY <1>4, <1>6, <2>4, <2>6 DEF ClaimsInv, DividendsTypeOK, ClaimIds, outside, history
  <2>8. claims[claimedAt + 1] = NoRow
    BY <2>4 DEF ClaimsInv, IdsAreOwn, ClaimIds
  <2>9. ASSUME NEW p, NEW s \in Requests, request'[s] = p
        PROVE  CopyOK(p)' /\ InsertOK(p)' /\ ListOK(p)'
    <3>1. CASE s = r
      BY <1>4, <1>6, <2>4, <2>5, <2>6, <2>8, <2>9, <3>1 DEF CopyOK, InsertOK, ListOK, Completing, Deciding
    <3>2. CASE s # r
      <4>1. CopyOK(p) /\ InsertOK(p) /\ ListOK(p) /\ p \in Request
        BY <2>6, <2>9, <3>2 DEF ClaimsInv, DividendsTypeOK
      <4>2. CopyOK(p)'
        BY <1>4, <4>1 DEF CopyOK, history
      <4>3. InsertOK(p)'
        <5>1. p.pc = "initiateInsert" => p.id \in ClaimIds
          BY <4>1, RequestKinds DEF InitiateInserts
        <5> QED BY <1>4, <1>6, <2>4, <4>1, <5>1 DEF InsertOK, ClaimIds
      <4>4. ListOK(p)'
        BY <1>4, <4>1
        DEF outside, history, ListOK, ReadOK, Pending, Owed, NoneVerified, ClaimsOf, Share, IsVerified
      <4> QED BY <4>2, <4>3, <4>4
    <3> QED BY <3>1, <3>2
  <2>10. \A id \in ClaimIds : id > claimedAt' => claims'[id] = NoRow
    BY <1>4, <1>6, <2>4 DEF ClaimsInv, IdsAreOwn, ClaimIds
  <2>11. \A s \in Requests : request[s].pc = "initiateInsert" => request[s].id # n.id
    <3> SUFFICES ASSUME NEW s \in Requests, request[s].pc = "initiateInsert" PROVE request[s].id # n.id
      OBVIOUS
    <3>1. request[s].id <= claimedAt /\ request[s].id \in ClaimIds
      <4>1. request[s] \in InitiateInserts
        BY RequestKinds DEF ClaimsInv, DividendsTypeOK
      <4> QED BY <4>1 DEF ClaimsInv, InsertOK, InitiateInserts
    <3> QED BY <2>4, <2>5, <3>1 DEF ClaimIds
  <2>12. \A s, t \in Requests : s # t =>
           (request'[s].pc = "initiateInsert" /\ request'[t].pc = "initiateInsert" =>
              request'[s].id # request'[t].id)
    <3> SUFFICES ASSUME NEW s \in Requests, NEW t \in Requests, s # t,
                        request'[s].pc = "initiateInsert", request'[t].pc = "initiateInsert"
                 PROVE  request'[s].id # request'[t].id
      OBVIOUS
    <3>1. CASE s = r
      BY <2>6, <2>11, <3>1
    <3>2. CASE t = r
      BY <2>6, <2>11, <3>2
    <3>3. CASE s # r /\ t # r
      BY <2>6, <3>3 DEF ClaimsInv, IdsAreOwn
    <3> QED BY <3>1, <3>2, <3>3
  <2>13. \A s \in Requests, id \in ClaimIds : Completes(s, id)' => Completes(s, id)
    BY <2>5, <2>6 DEF Completes
  <2>14. \A s, t \in Requests : s # t =>
          \A id \in ClaimIds : Completes(s, id)' /\ Completes(t, id)' => id \in contended'
    BY <1>4, <2>13 DEF ClaimsInv, IdsAreOwn, history
  <2>15. IdsAreOwn'
    BY <2>10, <2>12, <2>14 DEF IdsAreOwn
  <2> QED BY <2>7, <2>9, <2>15, AllRequests
<1> QED BY <1>4, <1>5, <1>6

\* What a list has read is out of date once the tables are written.
LEMMA OutOfDate ==
  ASSUME DividendsTypeOK, NEW q \in Request, ListOK(q), version' = version + 1
  PROVE  ListOK(q)'
<1>1. version \in Nat
  BY DEF DividendsTypeOK
<1>2. q.pc \in Deciding => q.asOf \in Nat
  BY RequestKinds DEF Deciding, ListEpochs, ListClaims
<1> QED BY <1>1, <1>2 DEF ListOK

LEMMA InsertKeepsInv ==
  ASSUME ClaimsInv, NEW r \in Requests, InitiateInsert(r)
  PROVE  ClaimsInv'
<1>1. PICK q : q = request[r]
  OBVIOUS
<1>2. /\ q.pc = "initiateInsert"
      /\ claims' = [claims EXCEPT ![q.id] = q.row]
      /\ version' = version + 1
      /\ Continue(r, IdleRequest)
      /\ UNCHANGED <<outside, claimedAt, completions, contended>>
  BY <1>1 DEF InitiateInsert
<1>3. q \in InitiateInserts /\ q.id \in ClaimIds /\ q.row \in Claim
  <2>1. q \in InitiateInserts
    BY <1>1, <1>2, RequestKinds DEF ClaimsInv, DividendsTypeOK
  <2> QED BY <2>1 DEF InitiateInserts
<1>4. q.id <= claimedAt /\ claims[q.id] = NoRow
  BY <1>1, <1>2 DEF ClaimsInv, InsertOK
<1>5. /\ request' \in [Requests -> Request]
      /\ request'[r] = IdleRequest
      /\ \A s \in Requests : s # r => request'[s] = request[s]
  BY <1>2, AtRest, Continues DEF ClaimsInv
<1>6. claims' \in [ClaimIds -> Claim \union {NoRow}]
  BY <1>2, <1>3 DEF ClaimsInv, DividendsTypeOK
<1>7. DividendsTypeOK'
  BY <1>2, <1>5, <1>6 DEF ClaimsInv, DividendsTypeOK, outside
<1>8. \A id \in ClaimIds : id # q.id => claims'[id] = claims[id]
  BY <1>2, <1>3 DEF ClaimsInv, DividendsTypeOK
<1>9. ASSUME NEW p, NEW s \in Requests, request'[s] = p
      PROVE  CopyOK(p)' /\ InsertOK(p)' /\ ListOK(p)'
  <2>1. CASE s = r
    BY <1>5, <1>9, <2>1, AtRest DEF CopyOK, InsertOK, ListOK, Completing, Deciding
  <2>2. CASE s # r
    <3>1. CopyOK(p) /\ InsertOK(p) /\ ListOK(p) /\ p \in Request /\ p = request[s]
      BY <1>5, <1>9, <2>2 DEF ClaimsInv, DividendsTypeOK
    <3>2. CopyOK(p)'
      <4>1. p.pc \in Completing => p.id \in ClaimIds /\ p.id # q.id
        BY <1>4, <3>1, RequestKinds DEF CopyOK, CompleteLoads, CompleteUpdates, Completing
      <4> QED BY <1>2, <1>8, <3>1, <4>1 DEF CopyOK
    <3>3. InsertOK(p)'
      <4>1. p.pc = "initiateInsert" => p.id \in ClaimIds /\ p.id # q.id
        BY <1>1, <1>2, <2>2, <3>1, RequestKinds DEF ClaimsInv, IdsAreOwn, InitiateInserts
      <4> QED BY <1>2, <1>8, <3>1, <4>1 DEF InsertOK
    <3>4. ListOK(p)'
      BY <1>2, <3>1, OutOfDate DEF ClaimsInv
    <3> QED BY <3>2, <3>3, <3>4
  <2> QED BY <2>1, <2>2
<1>10. \A id \in ClaimIds : id > claimedAt' => claims'[id] = NoRow
  <2>1. claimedAt \in Nat
    BY DEF ClaimsInv, DividendsTypeOK
  <2> QED BY <1>2, <1>3, <1>4, <1>8, <2>1 DEF ClaimsInv, IdsAreOwn, ClaimIds
<1>11. \A s, t \in Requests : s # t =>
         (request'[s].pc = "initiateInsert" /\ request'[t].pc = "initiateInsert" =>
            request'[s].id # request'[t].id)
  BY <1>5, AtRest DEF ClaimsInv, IdsAreOwn
<1>12. \A s \in Requests, id \in ClaimIds : Completes(s, id)' => Completes(s, id)
  BY <1>5, AtRest DEF Completes
<1>13. \A s, t \in Requests : s # t =>
         \A id \in ClaimIds : Completes(s, id)' /\ Completes(t, id)' => id \in contended'
  BY <1>2, <1>12 DEF ClaimsInv, IdsAreOwn
<1>14. IdsAreOwn'
  BY <1>10, <1>11, <1>13 DEF IdsAreOwn
<1> QED BY <1>7, <1>9, <1>14, AllRequests

LEMMA CompletingIds ==
  ASSUME NEW q \in Request, q.pc \in Completing
  PROVE  q.id \in ClaimIds /\ q.row \in Claim
BY RequestKinds DEF Completing, CompleteLoads, CompleteUpdates

LEMMA CompleteKeepsInv ==
  ASSUME ClaimsInv, NEW r \in Requests, NEW id \in ClaimIds, NEW tweet \in Tweets \union {NoTweet},
         completeClaim(r, id, tweet)
  PROVE  ClaimsInv'
<1>1. PICK row : row = [claims[id] EXCEPT !.tweetId = tweet, !.verified = TRUE]
  OBVIOUS
<1>2. PICK n : n = [pc |-> "completeLoad", id |-> id, row |-> row]
  OBVIOUS
<1>3. /\ request[r] = IdleRequest
      /\ claims[id] # NoRow /\ ~claims[id].verified
      /\ tweet \in Tweets
      /\ Continue(r, n)
      /\ contended' = IF \E other \in Requests : Completes(other, id)
                      THEN contended \union {id} ELSE contended
      /\ UNCHANGED <<outside, claims, claimedAt, version, completions>>
  BY <1>1, <1>2 DEF completeClaim, IsOpenClaim, IsTweetUrl
<1>4. claims[id] \in Claim /\ claims[id].verified = FALSE
  BY <1>3, ClaimRow DEF ClaimsInv, DividendsTypeOK
<1>5. row \in Claim /\ row.verified = TRUE
  BY <1>1, <1>3, <1>4, CompletedRow
<1>6. n.pc = "completeLoad" /\ n.id = id /\ n.row = row /\ n \in Request
  BY <1>2, <1>5, RequestSets DEF CompleteLoads
<1>7. /\ request' \in [Requests -> Request]
      /\ request'[r] = n
      /\ \A s \in Requests : s # r => request'[s] = request[s]
  BY <1>3, <1>6, Continues DEF ClaimsInv
<1>8. contended \subseteq contended' /\ contended' \in SUBSET ClaimIds
  BY <1>3 DEF ClaimsInv, DividendsTypeOK
<1>9. DividendsTypeOK'
  BY <1>3, <1>7, <1>8 DEF ClaimsInv, DividendsTypeOK, outside
<1>10. ASSUME NEW p, NEW s \in Requests, request'[s] = p
       PROVE  CopyOK(p)' /\ InsertOK(p)' /\ ListOK(p)'
  <2>1. CASE s = r
    BY <1>3, <1>4, <1>5, <1>6, <1>7, <1>10, <2>1 DEF CopyOK, InsertOK, ListOK, Completing, Deciding
  <2>2. CASE s # r
    <3>1. CopyOK(p) /\ InsertOK(p) /\ ListOK(p)
      BY <1>7, <1>10, <2>2 DEF ClaimsInv
    <3>2. CopyOK(p)'
      BY <1>3, <1>8, <3>1 DEF CopyOK
    <3>3. InsertOK(p)'
      BY <1>3, <3>1 DEF InsertOK
    <3>4. ListOK(p)'
      BY <1>3, <3>1
      DEF outside, ListOK, ReadOK, Pending, Owed, NoneVerified, ClaimsOf, Share, IsVerified
    <3> QED BY <3>2, <3>3, <3>4
  <2> QED BY <2>1, <2>2
<1>11. \A i \in ClaimIds : i > claimedAt' => claims'[i] = NoRow
  BY <1>3 DEF ClaimsInv, IdsAreOwn
<1>12. \A s, t \in Requests : s # t =>
         (request'[s].pc = "initiateInsert" /\ request'[t].pc = "initiateInsert" =>
            request'[s].id # request'[t].id)
  BY <1>6, <1>7 DEF ClaimsInv, IdsAreOwn
<1>13. \A s \in Requests \ {r}, i \in ClaimIds : Completes(s, i)' => Completes(s, i)
  BY <1>7 DEF Completes
<1>14. \A i \in ClaimIds : Completes(r, i)' => i = id
  BY <1>6, <1>7 DEF Completes
<1>15. \A s, t \in Requests : s # t =>
         \A i \in ClaimIds : Completes(s, i)' /\ Completes(t, i)' => i \in contended'
  <2> SUFFICES ASSUME NEW s \in Requests, NEW t \in Requests, s # t, NEW i \in ClaimIds,
                      Completes(s, i)', Completes(t, i)'
               PROVE  i \in contended'
    OBVIOUS
  <2>1. CASE s # r /\ t # r
    <3>1. Completes(s, i) /\ Completes(t, i)
      BY <1>13, <2>1
    <3> QED BY <1>8, <3>1 DEF ClaimsInv, IdsAreOwn
  <2>2. CASE s = r
    BY <1>3, <1>13, <1>14, <2>2
  <2>3. CASE t = r
    BY <1>3, <1>13, <1>14, <2>3
  <2> QED BY <2>1, <2>2, <2>3
<1>16. IdsAreOwn'
  BY <1>11, <1>12, <1>15 DEF IdsAreOwn
<1> QED BY <1>9, <1>10, <1>16, AllRequests

LEMMA LoadKeepsInv ==
  ASSUME ClaimsInv, NEW r \in Requests, CompleteLoad(r)
  PROVE  ClaimsInv'
<1>1. PICK q : q = request[r]
  OBVIOUS
<1>2. PICK n : n = [pc |-> "completeUpdate", id |-> q.id, row |-> q.row, seen |-> claims[q.id]]
  OBVIOUS
<1>3. /\ q.pc = "completeLoad" /\ Continue(r, n)
      /\ UNCHANGED <<outside, claims, claimedAt, history>>
  BY <1>1, <1>2 DEF CompleteLoad
<1>4. q \in Request /\ CopyOK(q) /\ q.pc \in Completing /\ q.id \in ClaimIds /\ q.row \in Claim
  BY <1>1, <1>3, CompletingIds DEF ClaimsInv, DividendsTypeOK, Completing
<1>5. claims[q.id] \in Claim
  BY <1>4 DEF CopyOK, ClaimsInv, DividendsTypeOK
<1>6. n.pc = "completeUpdate" /\ n.id = q.id /\ n.row = q.row /\ n.seen = claims[q.id] /\ n \in Request
  BY <1>2, <1>4, <1>5, RequestSets DEF CompleteUpdates
<1>7. CopyOK(n)
  BY <1>4, <1>6 DEF CopyOK
<1>8. ListOK(n) /\ n.pc # "initiateInsert"
  BY <1>6 DEF ListOK, Deciding
<1> QED BY <1>1, <1>3, <1>4, <1>6, <1>7, <1>8, QuietStep

\* The update completes the claim and changes nothing else of it, whatever was read.
LEMMA UpdateCompletes ==
  ASSUME ClaimsInv, NEW r \in Requests, request[r].pc = "completeUpdate",
         NEW row, row = UpdatedClaim(claims[request[r].id], request[r].seen, request[r].row)
  PROVE  /\ request[r].id \in ClaimIds
         /\ claims[request[r].id] \in Claim
         /\ row \in Claim /\ row.verified = TRUE
         /\ row = [claims[request[r].id] EXCEPT !.tweetId = row.tweetId, !.verified = row.verified]
<1>1. PICK q : q = request[r]
  OBVIOUS
<1>2. q \in CompleteUpdates /\ q.pc \in Completing /\ CopyOK(q)
  BY <1>1, RequestKinds DEF ClaimsInv, DividendsTypeOK, Completing
<1>3. q.id \in ClaimIds /\ q.row \in Claim /\ q.seen \in Claim
  BY <1>2 DEF CompleteUpdates
<1>4. PICK current : current = claims[q.id]
  OBVIOUS
<1>5. current \in Claim /\ q.row.verified = TRUE /\ (q.seen.verified = TRUE => current.verified = TRUE)
  BY <1>1, <1>2, <1>3, <1>4 DEF CopyOK, ClaimsInv, DividendsTypeOK
<1>6. PICK tweet : tweet = Column(current.tweetId, q.seen.tweetId, q.row.tweetId)
  OBVIOUS
<1>7. tweet \in Tweets
  <2>1. q.row.tweetId \in Tweets
    BY <1>3, <1>5, ClaimRow
  <2>2. CASE q.row.tweetId = q.seen.tweetId
    <3>1. q.seen.verified = TRUE
      BY <1>3, <2>1, <2>2, ClaimRow, DividendsAssumption
    <3>2. current.tweetId \in Tweets
      BY <1>5, <3>1, ClaimRow
    <3> QED BY <1>6, <2>2, <3>2 DEF Column
  <2>3. CASE q.row.tweetId # q.seen.tweetId
    BY <1>6, <2>1, <2>3 DEF Column
  <2> QED BY <2>2, <2>3
<1>8. Column(current.verified, q.seen.verified, q.row.verified) = TRUE
  BY <1>3, <1>5, ClaimRow DEF Column
<1>9. row = [current EXCEPT !.tweetId = tweet, !.verified = TRUE]
  BY <1>1, <1>4, <1>6, <1>8 DEF UpdatedClaim
<1> QED BY <1>1, <1>3, <1>4, <1>5, <1>7, <1>9, CompletedRow

LEMMA UpdateKeepsInv ==
  ASSUME ClaimsInv, NEW r \in Requests, CompleteUpdate(r)
  PROVE  ClaimsInv'
<1>1. PICK q : q = request[r]
  OBVIOUS
<1>2. PICK row : row = UpdatedClaim(claims[q.id], q.seen, q.row)
  OBVIOUS
<1>3. /\ q.pc = "completeUpdate" /\ Continue(r, IdleRequest)
      /\ UNCHANGED <<outside, claimedAt, contended>>
      /\ \/ /\ claims' = [claims EXCEPT ![q.id] = row]
            /\ completions' = [completions EXCEPT ![q.id] = @ + 1]
            /\ version' = version + 1
         \/ UNCHANGED <<claims, completions, version>>
  BY <1>1, <1>2 DEF CompleteUpdate
<1>4. CASE UNCHANGED <<claims, completions, version>>
  BY <1>3, <1>4, EndsQuietly DEF history
<1>5. CASE /\ claims' = [claims EXCEPT ![q.id] = row]
           /\ completions' = [completions EXCEPT ![q.id] = @ + 1]
           /\ version' = version + 1
  <2>1. q.id \in ClaimIds /\ row \in Claim /\ row.verified = TRUE /\ row # NoRow
    BY <1>1, <1>2, <1>3, UpdateCompletes, ClaimRow
  <2>2. /\ request' \in [Requests -> Request]
        /\ request'[r] = IdleRequest
        /\ \A s \in Requests : s # r => request'[s] = request[s]
    BY <1>3, AtRest, Continues DEF ClaimsInv
  <2>3. /\ claims' \in [ClaimIds -> Claim \union {NoRow}]
        /\ claims'[q.id] = row
        /\ \A i \in ClaimIds : i # q.id => claims'[i] = claims[i]
    BY <1>5, <2>1 DEF ClaimsInv, DividendsTypeOK
  <2>4. completions' \in [ClaimIds -> Nat]
    BY <1>5, <2>1 DEF ClaimsInv, DividendsTypeOK
  <2>5. DividendsTypeOK'
    BY <1>3, <1>5, <2>2, <2>3, <2>4 DEF ClaimsInv, DividendsTypeOK, outside
  <2>6. ASSUME NEW p, NEW s \in Requests, request'[s] = p
        PROVE  CopyOK(p)' /\ InsertOK(p)' /\ ListOK(p)'
    <3>1. CASE s = r
      BY <2>2, <2>6, <3>1, AtRest DEF CopyOK, InsertOK, ListOK, Completing, Deciding
    <3>2. CASE s # r
      <4>1. CopyOK(p) /\ InsertOK(p) /\ ListOK(p) /\ p \in Request /\ p = request[s]
        BY <2>2, <2>6, <3>2 DEF ClaimsInv, DividendsTypeOK
      <4>2. CopyOK(p)'
        <5> SUFFICES ASSUME p.pc \in Completing PROVE CopyOK(p)'
          BY DEF CopyOK
        <5>1. p.id \in ClaimIds
          BY <4>1, CompletingIds
        <5>2. CASE p.id = q.id
          <6>1. Completes(s, q.id) /\ Completes(r, q.id)
            BY <1>1, <1>3, <4>1, <5>2 DEF Completes, Completing
          <6>2. q.id \in contended'
            BY <1>3, <2>1, <3>2, <6>1 DEF ClaimsInv, IdsAreOwn
          <6> QED BY <2>1, <2>3, <4>1, <5>2, <6>2 DEF CopyOK
        <5>3. CASE p.id # q.id
          BY <1>3, <2>3, <4>1, <5>1, <5>3 DEF CopyOK
        <5> QED BY <5>2, <5>3
      <4>3. InsertOK(p)'
        <5>1. claims[q.id] # NoRow
          BY <1>1, <1>3 DEF ClaimsInv, CopyOK, Completing
        <5>2. p.pc = "initiateInsert" => p.id \in ClaimIds
          BY <4>1, RequestKinds DEF InitiateInserts
        <5> QED BY <1>3, <2>3, <4>1, <5>1, <5>2 DEF InsertOK
      <4>4. ListOK(p)'
        BY <1>5, <4>1, OutOfDate DEF ClaimsInv
      <4> QED BY <4>2, <4>3, <4>4
    <3> QED BY <3>1, <3>2
  <2>7. \A i \in ClaimIds : i > claimedAt' => claims'[i] = NoRow
    <3>1. claims[q.id] # NoRow
      BY <1>1, <1>3 DEF ClaimsInv, CopyOK, Completing
    <3> QED BY <1>3, <2>1, <2>3, <3>1 DEF ClaimsInv, IdsAreOwn
  <2>8. \A s, t \in Requests : s # t =>
          (request'[s].pc = "initiateInsert" /\ request'[t].pc = "initiateInsert" =>
             request'[s].id # request'[t].id)
    BY <2>2, AtRest DEF ClaimsInv, IdsAreOwn
  <2>9. \A s \in Requests, id \in ClaimIds : Completes(s, id)' => Completes(s, id)
    BY <2>2, AtRest DEF Completes
  <2>10. \A s, t \in Requests : s # t =>
          \A id \in ClaimIds : Completes(s, id)' /\ Completes(t, id)' => id \in contended'
    BY <1>3, <2>9 DEF ClaimsInv, IdsAreOwn
  <2>11. IdsAreOwn'
    BY <2>7, <2>8, <2>10 DEF IdsAreOwn
  <2> QED BY <2>5, <2>6, <2>11, AllRequests
<1> QED BY <1>3, <1>4, <1>5

LEMMA WritesKeepInv ==
  ASSUME ClaimsInv,
         holdings' \in [Users -> [Creators -> Nat \union {NoRow}]],
         totalShares' \in [Creators -> Nat],
         epochs' \in [Creators -> DividendEpoch \union {NoRow}],
         version' = version + 1,
         UNCHANGED <<claims, claimedAt, request, completions, contended>>
  PROVE  ClaimsInv'
<1>1. DividendsTypeOK'
  BY DEF ClaimsInv, DividendsTypeOK
<1>2. IdsAreOwn'
  BY DEF ClaimsInv, IdsAreOwn, Completes
<1>3. ASSUME NEW p, NEW s \in Requests, request'[s] = p
      PROVE  CopyOK(p)' /\ InsertOK(p)' /\ ListOK(p)'
  <2>1. CopyOK(p) /\ InsertOK(p) /\ ListOK(p) /\ p \in Request
    BY <1>3 DEF ClaimsInv, DividendsTypeOK
  <2>2. CopyOK(p)' /\ InsertOK(p)'
    BY <2>1 DEF CopyOK, InsertOK
  <2>3. ListOK(p)'
    BY <2>1, OutOfDate DEF ClaimsInv
  <2> QED BY <2>2, <2>3
<1> QED BY <1>1, <1>2, <1>3, AllRequests

\* The shares of a creator, told apart by their holder and a number.
Units(c) ==
  {p \in Users \X Nat : /\ holdings[p[1]][c] # NoRow
                        /\ 1 <= p[2] /\ p[2] <= holdings[p[1]][c]}

\* The total of a creator is the sum of the holdings.
TotalsAreSums ==
  \A c \in Creators : IsFiniteSet(Units(c)) /\ Cardinality(Units(c)) = totalShares[c]

LEMMA UnitsOfOne ==
  ASSUME NEW u, NEW n \in Nat
  PROVE  /\ IsFiniteSet({u} \X (1 .. n)) /\ Cardinality({u} \X (1 .. n)) = n
<1>1. IsFiniteSet({u}) /\ Cardinality({u}) = 1
  BY FS_Singleton
<1>2. IsFiniteSet(1 .. n) /\ Cardinality(1 .. n) = n
  BY FS_Interval
<1>3. /\ IsFiniteSet({u} \X (1 .. n))
      /\ Cardinality({u} \X (1 .. n)) = Cardinality({u}) * Cardinality(1 .. n)
  BY <1>1, <1>2, FS_Product
<1> QED BY <1>1, <1>2, <1>3

LEMMA RecordCounts ==
  ASSUME DividendsTypeOK, TotalsAreSums,
         NEW u \in Users, NEW c \in Creators, NEW shares \in Nat, RecordShares(u, c, shares)
  PROVE  totalShares' \in [Creators -> Nat] /\ TotalsAreSums'
<1>1. PICK held : held = IF holdings[u][c] = NoRow THEN 0 ELSE holdings[u][c]
  OBVIOUS
<1>2. /\ holdings' = [holdings EXCEPT ![u][c] = shares]
      /\ totalShares' = [totalShares EXCEPT ![c] = totalShares[c] + shares - held]
  BY <1>1 DEF RecordShares
<1>3. /\ held \in Nat /\ totalShares \in [Creators -> Nat]
      /\ holdings \in [Users -> [Creators -> Nat \union {NoRow}]] /\ NoRow \notin Nat
  BY <1>1, DividendsAssumption DEF DividendsTypeOK
<1>4. \A v \in Users, d \in Creators :
        holdings'[v][d] = IF v = u /\ d = c THEN shares ELSE holdings[v][d]
  BY <1>2, <1>3
<1> DEFINE U == Units(c)
           O == {u} \X (1 .. held)
           N == {u} \X (1 .. shares)
           R == U \ O
<1>5. O \subseteq U
  <2> SUFFICES ASSUME NEW k \in 1 .. held PROVE <<u, k>> \in U
    OBVIOUS
  <2>1. holdings[u][c] = held /\ held # 0
    BY <1>1, <1>3
  <2> QED BY <1>3, <2>1 DEF Units
<1>6. \A p \in R : p[1] # u
  <2> SUFFICES ASSUME NEW p \in U, p[1] = u PROVE p \in O
    OBVIOUS
  <2>1. p[2] \in Nat /\ 1 <= p[2] /\ p[2] <= holdings[u][c] /\ holdings[u][c] # NoRow /\ p = <<u, p[2]>>
    BY DEF Units
  <2> QED BY <1>1, <1>3, <2>1
<1>7. Units(c)' = R \union N
  <2>1. ASSUME NEW p \in Units(c)' PROVE p \in R \union N
    <3>1. /\ p \in Users \X Nat /\ holdings'[p[1]][c] # NoRow /\ 1 <= p[2] /\ p[2] <= holdings'[p[1]][c]
      BY <2>1 DEF Units
    <3>2. CASE p[1] = u
      BY <1>4, <3>1, <3>2
    <3>3. CASE p[1] # u
      <4>1. p \in U
        BY <1>4, <3>1, <3>3 DEF Units
      <4> QED BY <3>3, <4>1
    <3> QED BY <3>2, <3>3
  <2>2. ASSUME NEW p \in R PROVE p \in Units(c)'
    BY <1>4, <1>6, <2>2 DEF Units
  <2>3. ASSUME NEW k \in 1 .. shares PROVE <<u, k>> \in Units(c)'
    BY <1>3, <1>4, <2>3 DEF Units
  <2> QED BY <2>1, <2>2, <2>3
<1>8. /\ IsFiniteSet(U) /\ Cardinality(U) = totalShares[c]
      /\ IsFiniteSet(O) /\ Cardinality(O) = held
      /\ IsFiniteSet(N) /\ Cardinality(N) = shares
  BY <1>3, UnitsOfOne DEF TotalsAreSums
<1>9. IsFiniteSet(R) /\ Cardinality(R) = totalShares[c] - held
  <2>1. U \intersect O = O
    BY <1>5
  <2> HIDE DEF U, O, N
  <2>2. IsFiniteSet(U \ O) /\ Cardinality(U \ O) = Cardinality(U) - Cardinality(U \intersect O)
    BY <1>8, FS_Difference
  <2> QED BY <1>8, <2>1, <2>2
<1>10. Cardinality(R) \in Nat
  BY <1>9, FS_CardinalityType
<1>11. IsFiniteSet(R \union N) /\ Cardinality(R \union N) = totalShares[c] - held + shares
  <2>1. R \intersect N = {}
    BY <1>6
  <2>2. Cardinality({}) = 0
    BY FS_EmptySet
  <2> HIDE DEF U, O, N, R
  <2>3. IsFiniteSet(R \union N) /\ Cardinality(R \union N) = Cardinality(R) + Cardinality(N) - Cardinality({})
    BY <1>8, <1>9, <2>1, FS_Union
  <2> QED BY <1>3, <1>8, <1>9, <1>10, <2>2, <2>3
<1>12. \A d \in Creators : d # c => Units(d)' = Units(d)
  BY <1>3, <1>4 DEF Units
<1>13. totalShares[c] + shares - held \in Nat /\ totalShares[c] + shares - held = totalShares[c] - held + shares
  <2> HIDE DEF U, O, N, R
  <2> QED BY <1>3, <1>9, <1>10
<1>14. totalShares' \in [Creators -> Nat]
  BY <1>2, <1>3, <1>13
<1>15. TotalsAreSums'
  <2> SUFFICES ASSUME NEW d \in Creators
               PROVE  IsFiniteSet(Units(d)') /\ Cardinality(Units(d)') = totalShares'[d]
    BY DEF TotalsAreSums
  <2>1. CASE d = c
    BY <1>2, <1>3, <1>7, <1>11, <1>13, <2>1
  <2>2. CASE d # c
    BY <1>2, <1>3, <1>12, <2>2 DEF TotalsAreSums
  <2> QED BY <2>1, <2>2
<1> QED BY <1>14, <1>15

LEMMA RecordKeepsInv ==
  ASSUME ClaimsInv, TotalsAreSums,
         NEW u \in Users, NEW c \in Creators, NEW shares \in Nat, RecordShares(u, c, shares)
  PROVE  ClaimsInv'
<1>1. holdings' \in [Users -> [Creators -> Nat \union {NoRow}]]
  BY DEF ClaimsInv, DividendsTypeOK, RecordShares
<1>2. totalShares' \in [Creators -> Nat]
  BY RecordCounts DEF ClaimsInv
<1> QED BY <1>1, <1>2, WritesKeepInv DEF RecordShares, ClaimsInv, DividendsTypeOK

LEMMA DistributeKeepsInv ==
  ASSUME ClaimsInv, NEW c \in Creators, NEW fees \in Nat, Distribute(c, fees)
  PROVE  ClaimsInv'
<1>1. PICK row : row = [epochNumber |-> IF epochs[c] = NoRow THEN 1 ELSE epochs[c].epochNumber + 1,
                        totalFees |-> fees]
  OBVIOUS
<1>2. row \in DividendEpoch
  BY <1>1 DEF ClaimsInv, DividendsTypeOK, DividendEpoch
<1>3. epochs' = [epochs EXCEPT ![c] = row]
  BY <1>1 DEF Distribute
<1>4. epochs' \in [Creators -> DividendEpoch \union {NoRow}]
  BY <1>2, <1>3 DEF ClaimsInv, DividendsTypeOK
<1> QED BY <1>4, WritesKeepInv DEF Distribute, ClaimsInv, DividendsTypeOK

-----------------------------------------------------------------------------
(* The invariant and what follows from it. *)

LEMMA InitClaims ==
  ASSUME DividendsInit
  PROVE  ClaimsInv /\ TotalsAreSums
<1>1. /\ MaxClaims \in Nat /\ NoRow \notin Nat
      /\ holdings = [u \in Users |-> [c \in Creators |-> NoRow]]
      /\ \A r \in Requests : request[r] = IdleRequest
      /\ \A id \in ClaimIds : claims[id] = NoRow
  BY DividendsAssumption DEF DividendsInit
<1>2. DividendsTypeOK
  BY <1>1, AtRest DEF DividendsInit, DividendsTypeOK
<1>3. IdsAreOwn
  BY <1>1, AtRest DEF IdsAreOwn, Completes
<1>4. \A r \in Requests : CopyOK(request[r]) /\ InsertOK(request[r]) /\ ListOK(request[r])
  BY <1>1, AtRest DEF InsertOK
<1>5. \A c \in Creators : Units(c) = {}
  BY <1>1 DEF Units
<1>6. TotalsAreSums
  BY <1>5, FS_EmptySet DEF TotalsAreSums, DividendsInit
<1> QED BY <1>2, <1>3, <1>4, <1>6 DEF ClaimsInv

\* The steps of one request.
RequestStep(r) ==
  \/ \E u \in Users : getClaimableDividends(r, u)
  \/ \E c \in Creators : ListEpoch(r, c)
  \/ ListClaim(r)
  \/ AnswerClaimable(r)
  \/ \E u \in Users, c \in Creators : initiateClaim(r, u, c)
  \/ InitiateEpoch(r)
  \/ InitiateInsert(r)
  \/ \E id \in ClaimIds, tweet \in Tweets \union {NoTweet} : completeClaim(r, id, tweet)
  \/ CompleteLoad(r)
  \/ CompleteUpdate(r)
  \/ Abort(r)

LEMMA StepsOfAll ==
  ASSUME [DividendsNext]_dividendsVars
  PROVE  \/ \E u \in Users, c \in Creators, shares \in 0 .. MaxShares : RecordShares(u, c, shares)
         \/ \E c \in Creators, fees \in 0 .. MaxFees : Distribute(c, fees)
         \/ \E r \in Requests : RequestStep(r)
         \/ UNCHANGED dividendsVars
BY DEF DividendsNext, RequestStep

LEMMA StepLeavesHoldings ==
  ASSUME NEW r \in Requests, RequestStep(r)
  PROVE  UNCHANGED <<holdings, totalShares>>
BY DEF RequestStep, getClaimableDividends, ListEpoch, ListClaim, AnswerClaimable, initiateClaim,
       InitiateEpoch, InitiateInsert, completeClaim, CompleteLoad, CompleteUpdate, Abort, outside

LEMMA RequestKeepsInv ==
  ASSUME ClaimsInv, NEW r \in Requests, RequestStep(r)
  PROVE  ClaimsInv'
<1>1. ASSUME AnswerClaimable(r) \/ Abort(r) PROVE ClaimsInv'
  BY <1>1, EndsQuietly DEF AnswerClaimable, Abort
<1> QED BY <1>1, GetKeepsInv, ListEpochKeepsInv, ListClaimKeepsInv, InitiateKeepsInv,
           InitiateEpochKeepsInv, InsertKeepsInv, CompleteKeepsInv, LoadKeepsInv, UpdateKeepsInv
        DEF RequestStep

LEMMA SumsStay ==
  ASSUME TotalsAreSums, UNCHANGED <<holdings, totalShares>>
  PROVE  TotalsAreSums'
BY DEF TotalsAreSums, Units

LEMMA NextKeepsClaims ==
  ASSUME ClaimsInv, TotalsAreSums, [DividendsNext]_dividendsVars
  PROVE  ClaimsInv' /\ TotalsAreSums'
<1>1. MaxShares \in Nat /\ MaxFees \in Nat
  BY DividendsAssumption
<1>2. ASSUME NEW u \in Users, NEW c \in Creators, NEW shares \in 0 .. MaxShares,
             RecordShares(u, c, shares)
      PROVE  ClaimsInv' /\ TotalsAreSums'
  <2>1. shares \in Nat
    BY <1>1
  <2> QED BY <1>2, <2>1, RecordKeepsInv, RecordCounts DEF ClaimsInv
<1>3. ASSUME NEW c \in Creators, NEW fees \in 0 .. MaxFees, Distribute(c, fees)
      PROVE  ClaimsInv' /\ TotalsAreSums'
  <2>1. fees \in Nat
    BY <1>1
  <2> QED BY <1>3, <2>1, DistributeKeepsInv, SumsStay DEF Distribute
<1>4. ASSUME NEW r \in Requests, RequestStep(r)
      PROVE  ClaimsInv' /\ TotalsAreSums'
  BY <1>4, RequestKeepsInv, StepLeavesHoldings, SumsStay
<1>5. CASE UNCHANGED dividendsVars
  <2>1. DividendsTypeOK' /\ IdsAreOwn'
    BY <1>5 DEF dividendsVars, ClaimsInv, DividendsTypeOK, IdsAreOwn, Completes
  <2>2. ASSUME NEW p, NEW s \in Requests, request'[s] = p
        PROVE  CopyOK(p)' /\ InsertOK(p)' /\ ListOK(p)'
    BY <1>5, <2>2, SameTables DEF dividendsVars, outside, ClaimsInv
  <2> QED BY <1>5, <2>1, <2>2, AllRequests, SumsStay DEF dividendsVars
<1> QED BY <1>2, <1>3, <1>4, <1>5, StepsOfAll

\* The inductive invariant: what requests have in hand agrees with the tables, and totals
\* are the sums of the holdings.
THEOREM ClaimsInvariance == DividendsSpec => [](ClaimsInv /\ TotalsAreSums)
<1>1. DividendsInit => ClaimsInv /\ TotalsAreSums
  BY InitClaims
<1>2. ClaimsInv /\ TotalsAreSums /\ [DividendsNext]_dividendsVars => ClaimsInv' /\ TotalsAreSums'
  BY NextKeepsClaims
<1> QED BY <1>1, <1>2, PTL DEF DividendsSpec

\* While no claim of the user was completed, getClaimableDividends lists exactly what
\* initiateClaim would let the user claim, if the tables stay as they were at its first reading.
THEOREM UnclaimedAreListed == DividendsSpec => []UnclaimedIsListed
<1>1. ClaimsInv => UnclaimedIsListed
  <2> SUFFICES ASSUME ClaimsInv, NEW r \in Requests, HasReadAll(request[r]), NEW c \in Creators,
                      NoneVerified(request[r].user, c)
               PROVE  c \in request[r].listed <=> Owed(request[r].user, c)
    BY DEF UnclaimedIsListed, NoneVerified, Owed
  <2>1. PICK q : q = request[r]
    OBVIOUS
  <2>2. q.pc = "listEpoch" /\ q.todo = {} /\ q.asOf = version
    BY <2>1 DEF HasReadAll
  <2>3. ReadOK(q)
    BY <2>1, <2>2 DEF ClaimsInv, ListOK, Deciding
  <2>4. Pending(q) = {}
    BY <2>2 DEF Pending
  <2> QED BY <2>1, <2>3, <2>4 DEF ReadOK
<1> QED BY <1>1, ClaimsInvariance, PTL

LEMMA SameRow ==
  ASSUME NEW row \in Claim
  PROVE  row = [row EXCEPT !.tweetId = row.tweetId, !.verified = row.verified]
BY DEF Claim

\* Whatever requests overlap, a claim stays what it was made for and completed when it is;
\* and where no two requests complete it at once, it is completed once, with one tweet.
THEOREM ClaimsStay == DividendsSpec => ClaimsAreKept
<1> DEFINE Kept(id) ==
             claims[id] # NoRow =>
               /\ claims'[id] = [claims[id] EXCEPT !.tweetId = claims'[id].tweetId,
                                                   !.verified = claims'[id].verified]
               /\ IsVerified(id) => claims'[id].verified
               /\ Alone(id)' =>
                    /\ IsVerified(id) => claims'[id] = claims[id]
                    /\ completions'[id] # completions[id] =>
                         /\ ~IsVerified(id)
                         /\ claims'[id].verified
<1>1. ASSUME ClaimsInv, [DividendsNext]_dividendsVars, NEW id \in ClaimIds PROVE Kept(id)
  <2>1. ASSUME claims'[id] = claims[id], completions'[id] = completions[id] PROVE Kept(id)
    <3> SUFFICES ASSUME claims[id] # NoRow PROVE Kept(id)
      OBVIOUS
    <3>1. PICK row : row = claims[id]
      OBVIOUS
    <3>2. row \in Claim
      BY <1>1, <3>1 DEF ClaimsInv, DividendsTypeOK
    <3> QED BY <2>1, <3>1, <3>2, SameRow DEF IsVerified
  <2>2. ASSUME NEW r \in Requests, InitiateInsert(r) PROVE Kept(id)
    <3>1. request[r].id \in ClaimIds /\ claims[request[r].id] = NoRow
      <4>1. request[r] \in InitiateInserts
        BY <1>1, <2>2, RequestKinds DEF ClaimsInv, DividendsTypeOK, InitiateInsert
      <4> QED BY <1>1, <2>2, <4>1 DEF ClaimsInv, InsertOK, InitiateInserts, InitiateInsert
    <3>2. CASE id = request[r].id
      BY <3>1, <3>2
    <3>3. CASE id # request[r].id
      <4>1. claims'[id] = claims[id] /\ completions'[id] = completions[id]
        BY <1>1, <2>2, <3>1, <3>3 DEF ClaimsInv, DividendsTypeOK, InitiateInsert
      <4> QED BY <2>1, <4>1
    <3> QED BY <3>2, <3>3
  <2>3. ASSUME NEW r \in Requests, CompleteUpdate(r) PROVE Kept(id)
    <3>1. PICK row : row = UpdatedClaim(claims[request[r].id], request[r].seen, request[r].row)
      OBVIOUS
    <3>2. /\ request[r].pc = "completeUpdate"
          /\ \/ /\ claims' = [claims EXCEPT ![request[r].id] = row]
                /\ completions' = [completions EXCEPT ![request[r].id] = @ + 1]
             \/ UNCHANGED <<claims, completions>>
          /\ UNCHANGED contended
      BY <2>3, <3>1 DEF CompleteUpdate
    <3>3. /\ request[r].id \in ClaimIds /\ row.verified = TRUE
          /\ row = [claims[request[r].id] EXCEPT !.tweetId = row.tweetId, !.verified = row.verified]
      BY <1>1, <3>1, <3>2, UpdateCompletes
    <3>4. request[r].id \notin contended => claims[request[r].id].verified = FALSE
      BY <1>1, <3>2 DEF ClaimsInv, CopyOK, Completing
    <3>5. CASE UNCHANGED <<claims, completions>> \/ id # request[r].id
      <4>1. claims'[id] = claims[id] /\ completions'[id] = completions[id]
        BY <1>1, <3>2, <3>3, <3>5 DEF ClaimsInv, DividendsTypeOK
      <4> QED BY <2>1, <4>1
    <3>6. CASE ~ UNCHANGED <<claims, completions>> /\ id = request[r].id
      <4>1. claims'[id] = row
        BY <1>1, <3>2, <3>3, <3>6 DEF ClaimsInv, DividendsTypeOK
      <4>2. Alone(id)' => ~ IsVerified(id)
        BY <3>2, <3>4, <3>6 DEF Alone, IsVerified
      <4> QED BY <3>3, <3>6, <4>1, <4>2
    <3> QED BY <3>5, <3>6
  <2>4. \/ \E r \in Requests : InitiateInsert(r) \/ CompleteUpdate(r)
        \/ UNCHANGED <<claims, completions>>
    BY <1>1, StepsOfAll
    DEF RequestStep, RecordShares, Distribute, getClaimableDividends, ListEpoch, ListClaim,
        AnswerClaimable, initiateClaim, InitiateEpoch, completeClaim, CompleteLoad, Abort,
        history, dividendsVars
  <2> HIDE DEF Kept
  <2> QED BY <2>1, <2>2, <2>3, <2>4
<1>2. ClaimsInv /\ [DividendsNext]_dividendsVars => [\A id \in ClaimIds : Kept(id)]_dividendsVars
  <2> HIDE DEF Kept
  <2> QED BY <1>1
<1>3. DividendsSpec => [][\A id \in ClaimIds : Kept(id)]_dividendsVars
  BY ClaimsInvariance, <1>2, PTL DEF DividendsSpec
<1> QED BY <1>3, Zenon DEF ClaimsAreKept
=============================================================================
