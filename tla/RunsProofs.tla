----------------------------- MODULE RunsProofs -----------------------------
(***************************************************************************)
(* The way of the addresses: how they are chosen and shared out            *)
(* (Collection), and what the scheduled runs that take them, and the       *)
(* dashboard beside them, keep of the database (ScheduledRuns).  For any   *)
(* sources, ranges, settings and statistics, and for any set of addresses  *)
(* and of handlers, any limit, batch and number of retries.                *)
(*                                                                         *)
(* The two share no variable.  Each has its own inductive invariant; that  *)
(* of the collection needs sums over the ranges, whose laws come first.    *)
(***************************************************************************)
EXTENDS ScheduledRuns, Collection, FiniteSetTheorems, WellFoundedInduction, TLAPS

-----------------------------------------------------------------------------
(* Recursion and induction over the subsets of a finite set *)

(***************************************************************************)
(* Among subsets of a finite set one has no smaller one beside it.  This   *)
(* is what induction needs here: a set of counterexamples has a smallest.  *)
(***************************************************************************)
LEMMA Minimal ==
  ASSUME NEW S, IsFiniteSet(S), NEW T \in SUBSET SUBSET S, T # {}
  PROVE  \E s \in T : \A t \in T : t \subseteq s => t = s
<1>1. IsWellFoundedOn(StrictSubsetOrdering(S), FiniteSubsetsOf(S))
  BY FS_StrictSubsetOrderingWellFounded
<1>2. T \subseteq FiniteSubsetsOf(S)
  BY FS_FiniteSubsetsOfFinite
<1>3. \E s \in T : \A t \in T : ~ (<<t, s>> \in StrictSubsetOrdering(S))
  BY <1>1, <1>2, WFMin
<1> QED BY <1>2, <1>3 DEF StrictSubsetOrdering

(* One element of a set, and the set without it: the order in which a fold *)
(* goes through a set.                                                     *)
First(s) == CHOOSE x \in s : TRUE
Rest(s)  == s \ {First(s)}

(* f is the fold of the subsets of S with this base, combining so. *)
IsFold(f, S, V, base, combine) ==
  /\ f \in [SUBSET S -> V]
  /\ \A s \in SUBSET S : f[s] = IF s = {} THEN base ELSE combine[<<s, f[Rest(s)]>>]

(* A fold is determined by how it combines, wherever its domain ends. *)
LEMMA FoldsAgree ==
  ASSUME NEW T, IsFiniteSet(T), NEW U, T \subseteq U, NEW V, NEW base, NEW combine,
         NEW f, IsFold(f, T, V, base, combine), NEW g, IsFold(g, U, V, base, combine)
  PROVE  f[T] = g[T]
<1> DEFINE Differ == {s \in SUBSET T : f[s] # g[s]}
<1>1. SUFFICES ASSUME Differ # {} PROVE FALSE
  OBVIOUS
<1>2. PICK s \in Differ : \A t \in Differ : t \subseteq s => t = s
  <2>1. Differ \in SUBSET SUBSET T
    OBVIOUS
  <2> HIDE DEF Differ
  <2> QED BY <1>1, <2>1, Minimal
<1>3. CASE s = {}
  BY <1>2, <1>3 DEF IsFold
<1>4. CASE s # {}
  <2>1. First(s) \in s
    BY <1>4 DEF First
  <2>2. Rest(s) \in SUBSET T /\ Rest(s) \subseteq s /\ Rest(s) # s
    BY <2>1 DEF Rest
  <2>3. f[Rest(s)] = g[Rest(s)]
    BY <1>2, <2>2
  <2> QED BY <1>2, <1>4, <2>2, <2>3 DEF IsFold
<1> QED BY <1>3, <1>4

(***************************************************************************)
(* Every such step has a fold: if the subsets of a smallest s have folds, they  *)
(* agree, and together they are one for s but for s itself.                *)
(***************************************************************************)
LEMMA FoldExists ==
  ASSUME NEW S, IsFiniteSet(S), NEW V, NEW base \in V, NEW combine \in [(SUBSET S) \X V -> V]
  PROVE  \E f : IsFold(f, S, V, base, combine)
<1> DEFINE Bad == {s \in SUBSET S : ~ \E f : IsFold(f, s, V, base, combine)}
<1>1. SUFFICES ASSUME Bad # {} PROVE FALSE
  OBVIOUS
<1>2. PICK s \in Bad : \A t \in Bad : t \subseteq s => t = s
  <2>1. Bad \in SUBSET SUBSET S
    OBVIOUS
  <2> HIDE DEF Bad
  <2> QED BY <1>1, <2>1, Minimal
<1> DEFINE F(t) == CHOOSE f : IsFold(f, t, V, base, combine)
<1>3. \A t \in SUBSET s : t # s => IsFold(F(t), t, V, base, combine)
  BY <1>2
<1> DEFINE g == [t \in SUBSET s |-> IF t = {} THEN base
                                    ELSE combine[<<t, F(Rest(t))[Rest(t)]>>]]
<1>4. ASSUME NEW t \in SUBSET s, t # {}
      PROVE  /\ Rest(t) \in SUBSET s /\ Rest(t) # s /\ Rest(t) \subseteq t
             /\ F(Rest(t))[Rest(t)] \in V
  <2>1. First(t) \in t
    BY <1>4 DEF First
  <2>2. Rest(t) \in SUBSET s /\ Rest(t) # s /\ Rest(t) \subseteq t
    BY <2>1 DEF Rest
  <2>3. IsFold(F(Rest(t)), Rest(t), V, base, combine)
    BY <1>3, <2>2
  <2> QED BY <2>2, <2>3 DEF IsFold
<1>5. ASSUME NEW t \in SUBSET s, t # s
      PROVE  g[t] = F(t)[t]
  <2>1. IsFold(F(t), t, V, base, combine)
    BY <1>3, <1>5
  <2>2. CASE t = {}
    BY <2>1, <2>2 DEF IsFold
  <2>3. CASE t # {}
    <3>1. IsFold(F(Rest(t)), Rest(t), V, base, combine)
      BY <1>3, <1>4, <2>3
    <3>2. Rest(t) \subseteq t /\ IsFiniteSet(Rest(t))
      BY <1>4, <2>3, FS_Subset
    <3>3. F(t)[Rest(t)] = F(Rest(t))[Rest(t)]
      <4> DEFINE r == Rest(t)  f == F(r)  h == F(t)
      <4>1. r \subseteq t /\ IsFiniteSet(r)
        BY <3>2
      <4>2. IsFold(f, r, V, base, combine)
        BY <3>1
      <4>3. IsFold(h, t, V, base, combine)
        BY <2>1
      <4> HIDE DEF r, f, h
      <4>4. f[r] = h[r]
        BY <4>1, <4>2, <4>3, FoldsAgree
      <4> QED BY <4>4 DEF r, f, h
    <3> QED BY <2>1, <2>3, <3>3 DEF IsFold
  <2> QED BY <2>2, <2>3
<1>6. g \in [SUBSET s -> V]
  BY <1>4
<1>7. ASSUME NEW t \in SUBSET s, t # {} PROVE g[t] = combine[<<t, g[Rest(t)]>>]
  BY <1>4, <1>5, <1>7
<1>8. IsFold(g, s, V, base, combine)
  <2>1. g[{}] = base
    OBVIOUS
  <2> HIDE DEF g
  <2> QED BY <1>6, <1>7, <2>1 DEF IsFold
<1> QED BY <1>2, <1>8

Sums(f, S) ==
  CHOOSE g : g = [s \in SUBSET S |-> IF s = {} THEN 0 ELSE f[First(s)] + g[Rest(s)]]

Products(f, S, base) ==
  CHOOSE g : g = [s \in SUBSET S |-> IF s = {} THEN base ELSE f[First(s)] * g[Rest(s)]]

(* First takes an element out, and Rest is smaller. *)
LEMMA FirstRest ==
  ASSUME NEW s, s # {}
  PROVE  First(s) \in s /\ Rest(s) \subseteq s /\ Rest(s) # s
<1>1. First(s) \in s
  BY DEF First
<1> QED BY <1>1 DEF Rest

(***************************************************************************)
(* Induction over the subsets of a finite set in the order of a fold, with *)
(* a set for the induction hypothesis.                                     *)
(***************************************************************************)
LEMMA SubsetInduction ==
  ASSUME NEW S, IsFiniteSet(S), NEW T, {} \in T,
         \A s \in SUBSET S : s # {} /\ Rest(s) \in T => s \in T
  PROVE  \A s \in SUBSET S : s \in T
<1> DEFINE Bad == (SUBSET S) \ T
<1>1. SUFFICES ASSUME Bad # {} PROVE FALSE
  OBVIOUS
<1>2. PICK s \in Bad : \A t \in Bad : t \subseteq s => t = s
  <2>1. Bad \in SUBSET SUBSET S
    OBVIOUS
  <2> HIDE DEF Bad
  <2> QED BY <1>1, <2>1, Minimal
<1>3. s # {}
  OBVIOUS
<1>4. Rest(s) \subseteq s /\ Rest(s) # s
  BY <1>3, FirstRest
<1> QED BY <1>2, <1>3, <1>4

(* SumFunction and the products of Weights are the last values of these. *)
LEMMA SumIs ==
  ASSUME NEW S, NEW f \in [S -> Int]
  PROVE  SumFunction(f) = Sums(f, S)[S]
<1>1. DOMAIN f = S
  OBVIOUS
<1>2. SumFunctionOnSet(f, S) = Sums(f, S)[S]
  BY DEF SumFunctionOnSet, FoldFunctionOnSet, MapThenFoldSet, Sums, First, Rest
<1> QED BY <1>1, <1>2 DEF SumFunction

LEMMA ProductIs ==
  ASSUME NEW S, NEW f, NEW base
  PROVE  FoldFunctionOnSet(LAMBDA a, b : a * b, base, f, S) = Products(f, S, base)[S]
BY DEF FoldFunctionOnSet, MapThenFoldSet, Products, First, Rest

(* The equations of the recursive function behind SumFunction hold. *)
LEMMA SumsUnfold ==
  ASSUME NEW S, IsFiniteSet(S), NEW f \in [S -> Int]
  PROVE  /\ Sums(f, S)[{}] = 0
         /\ \A s \in SUBSET S : s # {} => Sums(f, S)[s] = f[First(s)] + Sums(f, S)[Rest(s)]
         /\ \A s \in SUBSET S : Sums(f, S)[s] \in Int
<1> DEFINE combine == [p \in (SUBSET S) \X Int |-> (IF p[1] = {} THEN 0 ELSE f[First(p[1])]) + p[2]]
<1>1. combine \in [(SUBSET S) \X Int -> Int] /\ 0 \in Int
  BY FirstRest
<1>2. PICK g : IsFold(g, S, Int, 0, combine)
  <2> HIDE DEF combine
  <2> QED BY <1>1, FoldExists
<1>3. g = [s \in SUBSET S |-> IF s = {} THEN 0 ELSE f[First(s)] + g[Rest(s)]]
  <2>1. \A s \in SUBSET S : Rest(s) \in SUBSET S
    BY DEF Rest
  <2> QED BY <1>2, <2>1 DEF IsFold
<1> DEFINE h == Sums(f, S)
<1>4. h = [s \in SUBSET S |-> IF s = {} THEN 0 ELSE f[First(s)] + h[Rest(s)]]
  BY <1>3 DEF Sums
<1> HIDE DEF h
<1>5. h[{}] = 0 /\ \A s \in SUBSET S : s # {} => h[s] = f[First(s)] + h[Rest(s)]
  BY <1>4
<1>6. \A s \in SUBSET S : h[s] \in Int
  <2> DEFINE T == {s \in SUBSET S : h[s] \in Int}
  <2>1. {} \in T
    BY <1>5
  <2>2. ASSUME NEW s \in SUBSET S, s # {}, Rest(s) \in T
        PROVE  s \in T
    BY <1>5, <2>2, FirstRest
  <2> HIDE DEF T
  <2>3. \A s \in SUBSET S : s \in T
    BY <2>1, <2>2, SubsetInduction
  <2> QED BY <2>3 DEF T
<1> QED BY <1>5, <1>6 DEF h

(* A product of positive numbers is positive. *)
LEMMA ProductsArePositive ==
  ASSUME NEW S, IsFiniteSet(S), NEW f, \A x \in S : f[x] \in Nat \ {0},
         NEW base \in Nat \ {0}
  PROVE  Products(f, S, base)[S] \in Nat \ {0}
<1> DEFINE Pos  == Nat \ {0}
           combine == [p \in (SUBSET S) \X Pos |-> (IF p[1] = {} THEN 1 ELSE f[First(p[1])]) * p[2]]
<1>0. \A a, b \in Pos : a * b \in Pos
  OBVIOUS
<1>1. combine \in [(SUBSET S) \X Pos -> Pos]
  <2>1. ASSUME NEW p \in (SUBSET S) \X Pos
        PROVE  (IF p[1] = {} THEN 1 ELSE f[First(p[1])]) \in Pos
    BY FirstRest
  <2> QED BY <1>0, <2>1
<1>2. PICK g : IsFold(g, S, Pos, base, combine)
  <2> HIDE DEF combine, Pos
  <2>1. base \in Pos
    BY DEF Pos
  <2> QED BY <1>1, <2>1, FoldExists
<1>3. g = [s \in SUBSET S |-> IF s = {} THEN base ELSE f[First(s)] * g[Rest(s)]]
  <2>1. \A s \in SUBSET S : Rest(s) \in SUBSET S
    BY DEF Rest
  <2> QED BY <1>2, <2>1 DEF IsFold
<1> DEFINE h == Products(f, S, base)
<1>4. h = [s \in SUBSET S |-> IF s = {} THEN base ELSE f[First(s)] * h[Rest(s)]]
  BY <1>3 DEF Products
<1> HIDE DEF h
<1>5. h[{}] = base /\ \A s \in SUBSET S : s # {} => h[s] = f[First(s)] * h[Rest(s)]
  BY <1>4
<1> DEFINE T == {s \in SUBSET S : h[s] \in Pos}
<1>6. {} \in T
  BY <1>5
<1>7. ASSUME NEW s \in SUBSET S, s # {}, Rest(s) \in T
      PROVE  s \in T
  <2>1. f[First(s)] \in Pos
    BY <1>7, FirstRest
  <2>2. h[Rest(s)] \in Pos
    BY <1>7
  <2>3. h[s] = f[First(s)] * h[Rest(s)]
    BY <1>5, <1>7
  <2>4. h[s] \in Pos
    <3> HIDE DEF Pos
    <3> QED BY <1>0, <2>1, <2>2, <2>3
  <2> QED BY <2>4
<1>8. \A s \in SUBSET S : s \in T
  <2> HIDE DEF T
  <2> QED BY <1>6, <1>7, SubsetInduction
<1> QED BY <1>8 DEF h

(* Sums are linear, monotone, and what they should be of simple functions. *)
LEMMA SumScaled ==
  ASSUME NEW S, IsFiniteSet(S), NEW f \in [S -> Int], NEW k \in Int,
         NEW h \in [S -> Int], \A x \in S : h[x] = k * f[x]
  PROVE  SumFunction(h) = k * SumFunction(f)
<1> DEFINE F == Sums(f, S)  H == Sums(h, S)
           T == {s \in SUBSET S : H[s] = k * F[s]}
<1>1. /\ F[{}] = 0 /\ H[{}] = 0
      /\ \A s \in SUBSET S : F[s] \in Int /\ H[s] \in Int
  BY SumsUnfold
<1>2. \A s \in SUBSET S : s # {} =>
        F[s] = f[First(s)] + F[Rest(s)] /\ H[s] = h[First(s)] + H[Rest(s)]
  BY SumsUnfold
<1> HIDE DEF F, H
<1>3. {} \in T
  BY <1>1
<1>4. ASSUME NEW s \in SUBSET S, s # {}, Rest(s) \in T
      PROVE  s \in T
  <2>1. First(s) \in S /\ Rest(s) \in SUBSET S
    BY <1>4, FirstRest
  <2>2. H[s] = k * f[First(s)] + k * F[Rest(s)]
    BY <1>2, <1>4, <2>1
  <2>3. k * (f[First(s)] + F[Rest(s)]) = k * f[First(s)] + k * F[Rest(s)]
    BY <1>1, <2>1
  <2> QED BY <1>2, <1>4, <2>2, <2>3
<1>5. \A s \in SUBSET S : s \in T
  <2> HIDE DEF T
  <2> QED BY <1>3, <1>4, SubsetInduction
<1>6. H[S] = k * F[S]
  BY <1>5
<1> QED BY <1>6, SumIs DEF F, H

LEMMA SumAdded ==
  ASSUME NEW S, IsFiniteSet(S), NEW f \in [S -> Int], NEW g \in [S -> Int],
         NEW h \in [S -> Int], \A x \in S : h[x] = f[x] + g[x]
  PROVE  SumFunction(h) = SumFunction(f) + SumFunction(g)
<1> DEFINE F == Sums(f, S)  G == Sums(g, S)  H == Sums(h, S)
           T == {s \in SUBSET S : H[s] = F[s] + G[s]}
<1>1. /\ F[{}] = 0 /\ G[{}] = 0 /\ H[{}] = 0
      /\ \A s \in SUBSET S : F[s] \in Int /\ G[s] \in Int /\ H[s] \in Int
  BY SumsUnfold
<1>2. \A s \in SUBSET S : s # {} =>
        /\ F[s] = f[First(s)] + F[Rest(s)]
        /\ G[s] = g[First(s)] + G[Rest(s)]
        /\ H[s] = h[First(s)] + H[Rest(s)]
  BY SumsUnfold
<1> HIDE DEF F, G, H
<1>3. {} \in T
  BY <1>1
<1>4. ASSUME NEW s \in SUBSET S, s # {}, Rest(s) \in T
      PROVE  s \in T
  <2>1. First(s) \in S /\ Rest(s) \in SUBSET S
    BY <1>4, FirstRest
  <2> QED BY <1>1, <1>2, <1>4, <2>1
<1>5. \A s \in SUBSET S : s \in T
  <2> HIDE DEF T
  <2> QED BY <1>3, <1>4, SubsetInduction
<1>6. H[S] = F[S] + G[S]
  BY <1>5
<1> QED BY <1>6, SumIs DEF F, G, H

LEMMA SumMonotone ==
  ASSUME NEW S, IsFiniteSet(S), NEW f \in [S -> Int], NEW g \in [S -> Int],
         \A x \in S : f[x] <= g[x]
  PROVE  SumFunction(f) <= SumFunction(g)
<1> DEFINE F == Sums(f, S)  G == Sums(g, S)
           T == {s \in SUBSET S : F[s] <= G[s]}
<1>1. /\ F[{}] = 0 /\ G[{}] = 0
      /\ \A s \in SUBSET S : F[s] \in Int /\ G[s] \in Int
  BY SumsUnfold
<1>2. \A s \in SUBSET S : s # {} =>
        /\ F[s] = f[First(s)] + F[Rest(s)]
        /\ G[s] = g[First(s)] + G[Rest(s)]
  BY SumsUnfold
<1> HIDE DEF F, G
<1>3. {} \in T
  BY <1>1
<1>4. ASSUME NEW s \in SUBSET S, s # {}, Rest(s) \in T
      PROVE  s \in T
  <2>1. First(s) \in S /\ Rest(s) \in SUBSET S
    BY <1>4, FirstRest
  <2> QED BY <1>1, <1>2, <1>4, <2>1
<1>5. \A s \in SUBSET S : s \in T
  <2> HIDE DEF T
  <2> QED BY <1>3, <1>4, SubsetInduction
<1>6. F[S] <= G[S]
  BY <1>5
<1> QED BY <1>6, SumIs DEF F, G

LEMMA SumConstant ==
  ASSUME NEW S, IsFiniteSet(S), NEW k \in Int,
         NEW f \in [S -> Int], \A x \in S : f[x] = k
  PROVE  SumFunction(f) = k * Cardinality(S)
<1> DEFINE F == Sums(f, S)
           T == {s \in SUBSET S : F[s] = k * Cardinality(s)}
<1>1. F[{}] = 0 /\ \A s \in SUBSET S : F[s] \in Int
  BY SumsUnfold
<1>2. \A s \in SUBSET S : s # {} => F[s] = f[First(s)] + F[Rest(s)]
  BY SumsUnfold
<1> HIDE DEF F
<1>3. {} \in T
  BY <1>1, FS_EmptySet
<1>4. ASSUME NEW s \in SUBSET S, s # {}, Rest(s) \in T
      PROVE  s \in T
  <2>1. First(s) \in s /\ Rest(s) \in SUBSET S
    BY <1>4, FirstRest
  <2>2. IsFiniteSet(s) /\ Cardinality(s) \in Nat
    BY FS_Subset, FS_CardinalityType
  <2>3. Cardinality(Rest(s)) = Cardinality(s) - 1
    BY <2>1, <2>2, FS_RemoveElement DEF Rest
  <2>4. F[Rest(s)] = k * (Cardinality(s) - 1)
    BY <1>4, <2>3
  <2>5. F[s] = k + F[Rest(s)]
    BY <1>2, <1>4, <2>1
  <2>6. k + k * (Cardinality(s) - 1) = k * Cardinality(s)
    BY <2>2
  <2> QED BY <2>4, <2>5, <2>6
<1>5. \A s \in SUBSET S : s \in T
  <2> HIDE DEF T
  <2> QED BY <1>3, <1>4, SubsetInduction
<1>6. F[S] = k * Cardinality(S)
  BY <1>5
<1> QED BY <1>6, SumIs DEF F

LEMMA SumAtOne ==
  ASSUME NEW S, IsFiniteSet(S), NEW b \in S, NEW k \in Int,
         NEW f \in [S -> Int], \A x \in S : f[x] = IF x = b THEN k ELSE 0
  PROVE  SumFunction(f) = k
<1> DEFINE F == Sums(f, S)
           T == {s \in SUBSET S : F[s] = IF b \in s THEN k ELSE 0}
<1>1. F[{}] = 0 /\ \A s \in SUBSET S : F[s] \in Int
  BY SumsUnfold
<1>2. \A s \in SUBSET S : s # {} => F[s] = f[First(s)] + F[Rest(s)]
  BY SumsUnfold
<1> HIDE DEF F
<1>3. {} \in T
  BY <1>1
<1>4. ASSUME NEW s \in SUBSET S, s # {}, Rest(s) \in T
      PROVE  s \in T
  <2>1. First(s) \in s /\ Rest(s) \in SUBSET S
    BY <1>4, FirstRest
  <2>2. First(s) = b => b \notin Rest(s) /\ b \in s
    BY <2>1 DEF Rest
  <2>3. First(s) # b => (b \in Rest(s) <=> b \in s)
    BY DEF Rest
  <2>4. F[Rest(s)] = IF b \in Rest(s) THEN k ELSE 0
    BY <1>4
  <2>5. F[s] = f[First(s)] + F[Rest(s)] /\ First(s) \in S
    BY <1>2, <1>4, <2>1
  <2>6. F[s] = IF b \in s THEN k ELSE 0
    BY <2>2, <2>3, <2>4, <2>5
  <2> QED BY <2>6
<1>5. \A s \in SUBSET S : s \in T
  <2> HIDE DEF T
  <2> QED BY <1>3, <1>4, SubsetInduction
<1>6. F[S] = k
  BY <1>5
<1> QED BY <1>6, SumIs DEF F

-----------------------------------------------------------------------------
(* Collection: the shares of the ranges *)

Stat    == [sampled : Nat, passed : Nat]
History == [Ranges -> Stat]

(* The ranges are 1 .. NumRanges, and there is one. *)
LEMMA RangesFinite ==
  /\ IsFiniteSet(Ranges) /\ Cardinality(Ranges) = NumRanges /\ Ranges # {}
  /\ NumRanges \in Nat \ {0} /\ Ranges \subseteq Nat
  /\ \A r \in Ranges : r > 0 /\ 1 .. r \subseteq Ranges
<1>1. NumRanges \in Nat \ {0}
  BY CollectionAssumption DEF CollectionAssumption
<1>2. IsFiniteSet(1 .. NumRanges) /\ Cardinality(1 .. NumRanges) = NumRanges
  BY <1>1, FS_Interval
<1> QED BY <1>1, <1>2 DEF Ranges

(***************************************************************************)
(* Whatever the history of a range, its weight is a positive number, over  *)
(* the common denominator too.                                             *)
(***************************************************************************)
LEMMA WeightsArePositive ==
  ASSUME NEW st \in History
  PROVE  /\ Weights(st) \in [Ranges -> Nat \ {0}]
         /\ \A r \in Ranges : Weight(st[r]).num \in Nat \ {0} /\ Weight(st[r]).den \in Nat \ {0}
<1>1. ASSUME NEW r \in Ranges
      PROVE  Weight(st[r]).num \in Nat \ {0} /\ Weight(st[r]).den \in Nat \ {0}
  <2>1. st[r].sampled \in Nat /\ st[r].passed \in Nat
    BY DEF History, Stat
  <2> QED BY <2>1 DEF Weight
<1> DEFINE den == [r \in Ranges |-> Weight(st[r]).den]
<1>2. ASSUME NEW r \in Ranges
      PROVE  Products(den, Ranges \ {r}, Weight(st[r]).num)[Ranges \ {r}] \in Nat \ {0}
  <2>1. IsFiniteSet(Ranges \ {r})
    BY RangesFinite, FS_RemoveElement
  <2>2. \A x \in Ranges \ {r} : den[x] \in Nat \ {0}
    BY <1>1
  <2> HIDE DEF den
  <2> QED BY <1>1, <2>1, <2>2, ProductsArePositive
<1>3. Weights(st) = [r \in Ranges |-> Products(den, Ranges \ {r}, Weight(st[r]).num)[Ranges \ {r}]]
  BY ProductIs DEF Weights
<1> QED BY <1>1, <1>2, <1>3

(* There is a first range with the highest weight. *)
LEMMA BestIsBest ==
  ASSUME NEW w \in [Ranges -> Nat]
  PROVE  BestRange(w) \in Ranges /\ \A q \in Ranges : w[q] <= w[BestRange(w)]
<1> DEFINE above(r) == {q \in Ranges : w[r] < w[q]}
           Tops     == {r \in Ranges : \A q \in Ranges : w[q] <= w[r]}
<1>1. Tops # {}
  <2> DEFINE T == {above(r) : r \in Ranges}
  <2>1. IsFiniteSet(Ranges) /\ T \in SUBSET SUBSET Ranges
    BY RangesFinite
  <2>0. T # {}
    <3>1. PICK r \in Ranges : TRUE
      BY RangesFinite
    <3>2. above(r) \in T
      OBVIOUS
    <3> QED BY <3>2
  <2>2. PICK s \in T : \A t \in T : t \subseteq s => t = s
    <3> HIDE DEF T
    <3> QED BY <2>0, <2>1, Minimal
  <2>3. PICK r \in Ranges : s = above(r)
    OBVIOUS
  <2>4. ASSUME NEW q \in Ranges PROVE w[q] <= w[r]
    <3>1. SUFFICES ASSUME w[r] < w[q] PROVE FALSE
      OBVIOUS
    <3>2. above(q) \subseteq above(r) /\ q \in above(r) /\ q \notin above(q)
      BY <3>1
    <3> QED BY <2>2, <2>3, <3>2
  <2> QED BY <2>4
<1>2. \E x \in Tops : \A y \in Tops : x <= y
  <2> DEFINE T == {1 .. r : r \in Tops}
  <2>1. IsFiniteSet(Ranges) /\ T \in SUBSET SUBSET Ranges
    BY RangesFinite
  <2>0. T # {}
    BY <1>1
  <2>2. PICK s \in T : \A t \in T : t \subseteq s => t = s
    <3> HIDE DEF T
    <3> QED BY <2>0, <2>1, Minimal
  <2>3. PICK x \in Tops : s = 1 .. x
    OBVIOUS
  <2>4. ASSUME NEW y \in Tops PROVE x <= y
    <3>1. SUFFICES ASSUME y < x PROVE FALSE
      BY RangesFinite
    <3>2. 1 .. y \subseteq 1 .. x /\ x \in 1 .. x /\ x \notin 1 .. y
      BY <3>1, RangesFinite
    <3> QED BY <2>2, <2>3, <3>2
  <2> QED BY <2>4
<1>3. BestRange(w) \in Tops
  BY <1>2 DEF BestRange, Min
<1> QED BY <1>3

(* Division of natural numbers *)
LEMMA Quotient ==
  ASSUME NEW n \in Nat, NEW d \in Nat \ {0}
  PROVE  /\ n \div d \in Nat /\ d * (n \div d) <= n /\ n < d * (n \div d) + d
         /\ (n % d = 0 /\ n > 0) => n \div d > 0
OBVIOUS

LEMMA QuotientMonotone ==
  ASSUME NEW m \in Nat, NEW n \in Nat, NEW d \in Nat \ {0}, m <= n
  PROVE  m \div d <= n \div d
OBVIOUS

LEMMA SumTyped ==
  ASSUME NEW S, IsFiniteSet(S), NEW f \in [S -> Int]
  PROVE  SumFunction(f) \in Int
<1>1. Sums(f, S)[S] \in Int
  BY SumsUnfold
<1> QED BY <1>1, SumIs

(* The two parts of the sample add up to it but for a rest of the even one. *)
LEMMA PoolsFit ==
  ASSUME NEW total \in Nat \ {0}
  PROVE  /\ Pools(total).exploit \in Int /\ Pools(total).each \in Nat \ {0}
         /\ total < NumRanges => Pools(total).each = 1 /\ Pools(total).exploit < 0
         /\ total >= NumRanges =>
              /\ Pools(total).exploit >= 0
              /\ NumRanges * Pools(total).each + Pools(total).exploit
                   \in total - NumRanges + 1 .. total
<1> DEFINE x == (total * 3) \div 5
           y == (total - x) \div NumRanges
<1>1. NumRanges \in Nat \ {0}
  BY RangesFinite
<1>2. x \in Nat /\ x <= total
  OBVIOUS
<1>3. y \in Nat /\ NumRanges * y <= total - x /\ total - x < NumRanges * y + NumRanges
  <2>1. total - x \in Nat
    BY <1>2
  <2> HIDE DEF x
  <2> QED BY <1>1, <2>1, Quotient
<1>4. Pools(total) = IF y < 1 THEN [each |-> 1, exploit |-> total - NumRanges]
                              ELSE [each |-> y, exploit |-> x]
  BY DEF Pools
<1> HIDE DEF x, y
<1>5. CASE y < 1
  <2>1. Pools(total).each = 1 /\ Pools(total).exploit = total - NumRanges
    BY <1>4, <1>5
  <2>2. NumRanges * 1 = NumRanges
    BY <1>1
  <2> QED BY <1>1, <2>1, <2>2
<1>6. CASE ~ (y < 1)
  <2>1. Pools(total).each = y /\ Pools(total).exploit = x
    BY <1>4, <1>6
  <2>2. NumRanges * y >= NumRanges
    BY <1>1, <1>3, <1>6
  <2>3. NumRanges * y \in Int
    BY <1>1, <1>3
  <2>4. NumRanges <= total
    BY <1>1, <1>2, <1>3, <2>2, <2>3
  <2>5. NumRanges * y + x \in total - NumRanges + 1 .. total
    BY <1>1, <1>2, <1>3, <2>3
  <2>6. y \in Nat \ {0}
    BY <1>3, <1>6
  <2>7. Pools(total).exploit \in Int /\ Pools(total).exploit >= 0
    BY <1>2, <2>1
  <2> QED BY <1>1, <2>1, <2>4, <2>5, <2>6, <2>7
<1> QED BY <1>3, <1>5, <1>6

(* Truncation loses less than one, or one where nothing was to be lost. *)
LEMMA TruncatedFits ==
  ASSUME NEW n \in Int, NEW d \in Nat \ {0}, NEW k \in Truncated(n, d)
  PROVE  /\ k \in Nat
         /\ n <= 0 => k = 0
         /\ n >= 0 => d * k <= n /\ k <= n \div d /\ n \div d <= k + 1
<1>1. CASE n <= 0
  <2>1. k = 0
    BY <1>1 DEF Truncated
  <2>2. n = 0 => n \div d = 0 /\ d * 0 = 0
    OBVIOUS
  <2> QED BY <1>1, <2>1, <2>2
<1>2. CASE n > 0
  <2>0. n \in Nat
    BY <1>2
  <2>1. n \div d \in Nat /\ d * (n \div d) <= n /\ (n % d = 0 => n \div d > 0)
    BY <1>2, <2>0, Quotient
  <2>2. k = n \div d \/ (k = n \div d - 1 /\ n % d = 0)
    BY <1>2 DEF Truncated
  <2>3. k \in Nat /\ k <= n \div d /\ n \div d <= k + 1
    BY <2>1, <2>2
  <2>4. d * k <= d * (n \div d)
    <3> DEFINE e == n \div d
    <3>1. e \in Nat /\ k <= e
      BY <2>1, <2>3
    <3> HIDE DEF e
    <3>2. d * k <= d * e
      BY <2>3, <3>1
    <3> QED BY <3>2 DEF e
  <2>5. d * k <= n
    <3> DEFINE e == n \div d
    <3>1. d * k <= d * e /\ d * e <= n /\ d * k \in Int /\ d * e \in Int
      BY <2>1, <2>3, <2>4
    <3> QED BY <3>1
  <2> QED BY <1>2, <2>3, <2>5
<1> QED BY <1>1, <1>2

(***************************************************************************)
(* For every history the shares fit.  What the truncated shares add up to  *)
(* is at most what there is to share (Sum is monotone and linear), so that *)
(* the rest that goes to the best range makes the sum exact; and only the  *)
(* best range, which no other outweighs, has more than its own share.      *)
(***************************************************************************)
LEMMA SharesFit ==
  ASSUME NEW st \in History, NEW total \in Nat \ {0}, NEW q \in Quotas(st, total)
  PROVE  /\ \A r \in Ranges : q[r] >= 1
         /\ IF total < NumRanges THEN SumFunction(q) = NumRanges
            ELSE SumFunction(q) \in total - NumRanges + 1 .. total
         /\ \A r, s \in Ranges : Weights(st)[r] > Weights(st)[s] => q[r] >= q[s] - 1
<1> DEFINE E    == Pools(total).exploit
           each == Pools(total).each
           w    == Weights(st)
           d    == SumFunction(w)
           best == BestRange(w)
<1>0. IsFiniteSet(Ranges)
  BY RangesFinite
<1>1. PICK f \in [Ranges -> 0 .. total] :
        /\ \A r \in Ranges : f[r] \in Truncated(E * w[r], d)
        /\ q = [r \in Ranges |-> each + f[r] +
                  IF r = best /\ E - SumFunction(f) > 0 THEN E - SumFunction(f) ELSE 0]
  BY DEF Quotas
<1>2. /\ E \in Int /\ each \in Nat \ {0}
      /\ total < NumRanges => each = 1 /\ E < 0
      /\ total >= NumRanges => E >= 0 /\ NumRanges * each + E \in total - NumRanges + 1 .. total
  BY PoolsFit
<1>3. /\ w \in [Ranges -> Nat \ {0}] /\ w \in [Ranges -> Nat] /\ w \in [Ranges -> Int]
      /\ best \in Ranges /\ \A r \in Ranges : w[r] <= w[best]
  <2>1. w \in [Ranges -> Nat \ {0}]
    BY WeightsArePositive
  <2>2. w \in [Ranges -> Nat] /\ w \in [Ranges -> Int]
    BY <2>1
  <2> HIDE DEF w
  <2> QED BY <2>1, <2>2, BestIsBest
<1> HIDE DEF E, each, w
<1>4. d \in Nat \ {0}
  <2> DEFINE one == [r \in Ranges |-> 1]
  <2>1. one \in [Ranges -> Int] /\ \A r \in Ranges : one[r] = 1
    OBVIOUS
  <2> HIDE DEF one
  <2>2. SumFunction(one) = 1 * Cardinality(Ranges)
    BY <2>1, <1>0, SumConstant
  <2>3. \A r \in Ranges : one[r] <= w[r]
    BY <1>3, <2>1
  <2>4. SumFunction(one) <= d
    BY <1>3, <2>1, <2>3, <1>0, SumMonotone
  <2>5. d \in Int
    BY <1>3, <1>0, SumTyped
  <2> HIDE DEF d
  <2> QED BY <2>2, <2>4, <2>5, RangesFinite
<1> HIDE DEF d, best
<1>5. \A r \in Ranges :
        /\ f[r] \in Nat /\ E * w[r] \in Int
        /\ E <= 0 => f[r] = 0
        /\ E >= 0 => /\ E * w[r] \in Nat /\ d * f[r] <= E * w[r]
                     /\ f[r] <= (E * w[r]) \div d /\ (E * w[r]) \div d <= f[r] + 1
  <2> TAKE r \in Ranges
  <2> DEFINE n == E * w[r]
  <2>1. w[r] \in Nat \ {0}
    BY <1>3
  <2>2. n \in Int /\ (E <= 0 => n <= 0) /\ (E >= 0 => n >= 0)
    BY <1>2, <2>1
  <2>3. f[r] \in Truncated(n, d)
    BY <1>1
  <2> HIDE DEF n
  <2>4. /\ f[r] \in Nat
        /\ n <= 0 => f[r] = 0
        /\ n >= 0 => d * f[r] <= n /\ f[r] <= n \div d /\ n \div d <= f[r] + 1
    BY <1>4, <2>2, <2>3, TruncatedFits
  <2>5. /\ f[r] \in Nat /\ n \in Int
        /\ E <= 0 => f[r] = 0
        /\ E >= 0 => /\ n \in Nat /\ d * f[r] <= n
                     /\ f[r] <= n \div d /\ n \div d <= f[r] + 1
    BY <2>2, <2>4
  <2> QED BY <2>5 DEF n
<1>6. f \in [Ranges -> Int]
  BY <1>5
<1> DEFINE given == SumFunction(f)
           rest  == IF E - given > 0 THEN E - given ELSE 0
           bonus == [r \in Ranges |-> IF r = best THEN rest ELSE 0]
<1>7. given \in Int /\ rest \in Nat
  <2>1. given \in Int
    BY <1>6, <1>0, SumTyped
  <2> HIDE DEF given
  <2> QED BY <1>2, <2>1
<1>8. (E >= 0 => given <= E) /\ (E < 0 => given = 0)
  <2>1. CASE E >= 0
    <3> DEFINE df == [r \in Ranges |-> d * f[r]]
               Ew == [r \in Ranges |-> E * w[r]]
    <3>1. df \in [Ranges -> Int] /\ \A r \in Ranges : df[r] = d * f[r]
      BY <1>4, <1>6
    <3>2. Ew \in [Ranges -> Int] /\ \A r \in Ranges : Ew[r] = E * w[r]
      BY <1>5
    <3>3. \A r \in Ranges : df[r] <= Ew[r]
      BY <1>5, <2>1
    <3> HIDE DEF df, Ew
    <3>4. SumFunction(df) = d * given
      BY <1>4, <1>6, <3>1, <1>0, SumScaled
    <3>5. SumFunction(Ew) = E * d
      BY <1>2, <1>3, <3>2, <1>0, SumScaled DEF d
    <3>6. SumFunction(df) <= SumFunction(Ew)
      BY <3>1, <3>2, <3>3, <1>0, SumMonotone
    <3>7. d * given <= d * E
      BY <1>2, <1>4, <3>4, <3>5, <3>6
    <3> HIDE DEF given
    <3>8. given <= E
      BY <1>2, <1>4, <1>7, <3>7
    <3> QED BY <1>2, <2>1, <3>8
  <2>2. CASE E < 0
    <3>1. \A r \in Ranges : f[r] = 0
      BY <1>2, <1>5, <2>2
    <3>2. SumFunction(f) = 0 * Cardinality(Ranges)
      BY <1>6, <3>1, <1>0, SumConstant
    <3>3. given = 0
      BY <3>2, RangesFinite
    <3> QED BY <1>2, <2>2, <3>3
  <2> QED BY <1>2, <2>1, <2>2
<1>9. bonus \in [Ranges -> Int] /\ \A r \in Ranges : bonus[r] = IF r = best THEN rest ELSE 0
  BY <1>7
<1>10. \A r \in Ranges : q[r] = each + f[r] + bonus[r]
  BY <1>1
<1>11. q \in [Ranges -> Int]
  BY <1>1, <1>2, <1>5, <1>7
<1> HIDE DEF given, rest, bonus
<1>12. SumFunction(q) = NumRanges * each + given + rest
  <2> DEFINE flat  == [r \in Ranges |-> each]
             extra == [r \in Ranges |-> f[r] + bonus[r]]
  <2>1. flat \in [Ranges -> Int] /\ \A r \in Ranges : flat[r] = each
    BY <1>2
  <2>2. extra \in [Ranges -> Int] /\ \A r \in Ranges : extra[r] = f[r] + bonus[r]
    BY <1>6, <1>9
  <2>3. \A r \in Ranges : q[r] = flat[r] + extra[r]
    BY <1>2, <1>6, <1>9, <1>10, <2>1, <2>2
  <2> HIDE DEF flat, extra
  <2>4. SumFunction(flat) = each * Cardinality(Ranges)
    BY <1>2, <2>1, <1>0, SumConstant
  <2>5. SumFunction(bonus) = rest
    BY <1>3, <1>7, <1>9, <1>0, SumAtOne
  <2>6. SumFunction(extra) = given + rest
    BY <1>6, <1>9, <2>2, <2>5, <1>0, SumAdded DEF given
  <2>7. SumFunction(q) = SumFunction(flat) + SumFunction(extra)
    BY <1>11, <2>1, <2>2, <2>3, <1>0, SumAdded
  <2>8. each * Cardinality(Ranges) = NumRanges * each /\ NumRanges * each \in Int
    BY <1>2, RangesFinite
  <2> QED BY <1>7, <2>4, <2>6, <2>7, <2>8
<1>13. \A r \in Ranges : q[r] >= 1
  BY <1>2, <1>5, <1>7, <1>9, <1>10
<1>14. IF total < NumRanges THEN SumFunction(q) = NumRanges
       ELSE SumFunction(q) \in total - NumRanges + 1 .. total
  <2>1. NumRanges * each \in Int /\ (each = 1 => NumRanges * each = NumRanges) /\ NumRanges \in Int
    BY <1>2, RangesFinite
  <2>2. CASE total < NumRanges
    <3>1. given = 0 /\ rest = 0 /\ each = 1
      BY <1>2, <1>8, <2>2 DEF rest
    <3> QED BY <1>12, <2>1, <2>2, <3>1
  <2>3. CASE ~ (total < NumRanges)
    <3>1. E >= 0 /\ NumRanges * each + E \in total - NumRanges + 1 .. total
      BY <1>2, <2>1, <2>3
    <3>2. given + rest = E
      BY <1>2, <1>7, <1>8, <3>1 DEF rest
    <3>3. SumFunction(q) = NumRanges * each + E
      BY <1>7, <1>12, <2>1, <3>2
    <3> QED BY <2>3, <3>1, <3>3
  <2> QED BY <2>2, <2>3
<1>15. ASSUME NEW r \in Ranges, NEW s \in Ranges, w[r] > w[s]
       PROVE  q[r] >= q[s] - 1
  <2>1. w[r] \in Nat /\ w[s] \in Nat
    BY <1>3
  <2>2. s # best /\ bonus[s] = 0 /\ bonus[r] \in Nat
    BY <1>3, <1>7, <1>9, <1>15, <2>1
  <2>3. f[r] >= f[s] - 1
    <3>1. CASE E <= 0
      BY <1>5, <3>1
    <3>2. CASE E >= 0
      <4> DEFINE m == E * w[s]  n == E * w[r]
      <4>1. m \in Nat /\ n \in Nat
        BY <1>5, <3>2
      <4>2. m <= n
        BY <1>2, <1>15, <2>1, <3>2
      <4>3. f[s] <= m \div d /\ n \div d <= f[r] + 1
        BY <1>5, <3>2
      <4> HIDE DEF m, n
      <4>4. m \div d <= n \div d
        BY <1>4, <4>1, <4>2, QuotientMonotone
      <4>5. m \div d \in Int /\ n \div d \in Int
        BY <1>4, <4>1
      <4> QED BY <1>5, <4>3, <4>4, <4>5
    <3> QED BY <1>2, <3>1, <3>2
  <2>4. f[r] \in Int /\ f[s] \in Int /\ each \in Int
    BY <1>2, <1>5
  <2> QED BY <1>10, <2>2, <2>3, <2>4
<1> QED BY <1>13, <1>14, <1>15 DEF w

(* What the round holds, by type, with all sets of tasks finite. *)
CollectionTypes ==
  /\ stats \in History /\ savedStats \subseteq History
  /\ DOMAIN fetched = Source /\ \A s \in Source : IsFiniteSet(fetched[s])
  /\ IsFiniteSet(official) /\ IsFiniteSet(custom)

(* A task is of the source that yielded it. *)
OwnTasks == \A s \in Source : \A t \in fetched[s] : t.source = s

CollectionInv == CollectionTypes /\ OwnTasks /\ SourcesKept

(* Only finitely many addresses are listed, drawn and tested. *)
LEMMA ImageFinite ==
  ASSUME NEW S, IsFiniteSet(S), NEW f, f = [x \in S |-> f[x]]
  PROVE  IsFiniteSet(Range(f))
<1>1. DOMAIN f = S /\ f \in [S -> Range(f)]
  BY DEF Range
<1>2. f \in Surjection(S, Range(f))
  BY <1>1 DEF Surjection, Range
<1> QED BY <1>2, FS_Surjection

LEMMA AddressesFinite ==
  ASSUME NEW r \in Ranges
  PROVE  IsFiniteSet(Addresses(r))
<1> DEFINE f == [k \in 0 .. Size[r] - 1 |-> [range |-> r, place |-> k]]
<1>1. Size[r] \in Nat
  BY CollectionAssumption DEF CollectionAssumption
<1>2. IsFiniteSet(0 .. Size[r] - 1)
  BY <1>1, FS_Interval
<1>3. IsFiniteSet(Range(f))
  BY <1>2, ImageFinite
<1>4. Range(f) = Addresses(r)
  BY DEF Range, Addresses
<1> QED BY <1>3, <1>4

LEMMA SampleFinite ==
  ASSUME NEW r \in Ranges, NEW n, NEW x \in Sample(r, n)
  PROVE  IsFiniteSet(x)
<1>1. x = {} \/ x \in SUBSET Addresses(r)
  BY DEF Sample, kSubset
<1> QED BY <1>1, AddressesFinite, FS_EmptySet, FS_Subset

(* What a source yields is its own. *)
LEMMA TasksAreOwn ==
  ASSUME NEW s, NEW ports \in PortLists,
         NEW R, IsFiniteSet(R), NEW P, NEW pick \in [R -> P], \A r \in R : IsFiniteSet(pick[r])
  PROVE  /\ IsFiniteSet(TasksOf(s, pick, ports))
         /\ \A t \in TasksOf(s, pick, ports) : t.source = s
<1> DEFINE ips == UNION Range(pick)
           f   == [p \in ips \X ports |-> Task(s, p[1], p[2], p[1].range)]
<1>1. IsFiniteSet(ips)
  <2>1. IsFiniteSet(Range(pick))
    BY ImageFinite
  <2>2. \A x \in Range(pick) : IsFiniteSet(x)
    BY DEF Range
  <2> QED BY <2>1, <2>2, FS_UNION
<1>2. IsFiniteSet(ports)
  BY CollectionAssumption DEF CollectionAssumption, PortLists
<1>3. IsFiniteSet(ips \X ports)
  BY <1>1, <1>2, FS_Product
<1>4. IsFiniteSet(Range(f))
  BY <1>3, ImageFinite
<1>5. Range(f) = TasksOf(s, pick, ports)
  <2>1. ASSUME NEW t \in TasksOf(s, pick, ports) PROVE t \in Range(f)
    <3>1. PICK ip \in ips, p \in ports : t = Task(s, ip, p, ip.range)
      BY DEF TasksOf
    <3>2. <<ip, p>> \in DOMAIN f /\ f[<<ip, p>>] = t
      BY <3>1
    <3> QED BY <3>2 DEF Range
  <2>2. ASSUME NEW t \in Range(f) PROVE t \in TasksOf(s, pick, ports)
    <3>1. PICK p \in ips \X ports : t = Task(s, p[1], p[2], p[1].range)
      BY DEF Range
    <3>2. p[1] \in ips /\ p[2] \in ports
      OBVIOUS
    <3> QED BY <3>1, <3>2 DEF TasksOf
  <2> QED BY <2>1, <2>2
<1>6. \A t \in TasksOf(s, pick, ports) : t.source = s
  BY DEF TasksOf, Task
<1> QED BY <1>4, <1>5, <1>6

LEMMA ListIsOwn ==
  ASSUME NEW s \in Source, NEW ports \in PortLists
  PROVE  /\ IsFiniteSet(ParseIPList(s, ports))
         /\ \A t \in ParseIPList(s, ports) : t.source = s
<1> DEFINE L == {m \in Lines[s] \X ports : m[1].port \in {0, m[2]}}
           f == [l \in L |-> Task(s, l[1].ip, l[2], 0)]
<1>1. IsFiniteSet(Lines[s]) /\ IsFiniteSet(ports)
  BY CollectionAssumption DEF CollectionAssumption, Source, PortLists
<1>2. IsFiniteSet(Lines[s] \X ports)
  BY <1>1, FS_Product
<1>3. IsFiniteSet(L)
  BY <1>2, FS_Subset
<1>4. IsFiniteSet(Range(f))
  BY <1>3, ImageFinite
<1>5. Range(f) = ParseIPList(s, ports)
  BY DEF Range, ParseIPList
<1>6. \A t \in ParseIPList(s, ports) : t.source = s
  BY DEF ParseIPList, Task
<1> QED BY <1>4, <1>5, <1>6

LEMMA CutIsPart ==
  ASSUME NEW tasks, IsFiniteSet(tasks), NEW limit, NEW bound, NEW size,
         NEW x \in Cut(tasks, limit, bound, size)
  PROVE  x \subseteq tasks /\ IsFiniteSet(x)
<1>1. x \subseteq tasks
  BY DEF Cut, kSubset
<1> QED BY <1>1, FS_Subset

(* What is recorded of a range is a history of it. *)
LEMMA CountIsNatural ==
  ASSUME NEW tasks, IsFiniteSet(tasks), NEW r
  PROVE  CountOf(tasks, r) \in Nat
<1>1. IsFiniteSet({t \in tasks : t.range = r})
  BY FS_Subset
<1> QED BY <1>1, FS_CardinalityType DEF CountOf

LEMMA RecordedIsHistory ==
  ASSUME NEW st \in History, NEW count \in [Ranges -> Nat]
  PROVE  Recorded(st, "sampled", count) \in History /\ Recorded(st, "passed", count) \in History
<1>1. ASSUME NEW r \in Ranges
      PROVE  /\ [st[r] EXCEPT !["sampled"] = Decayed(@) + count[r]] \in Stat
             /\ [st[r] EXCEPT !["passed"] = Decayed(@) + count[r]] \in Stat
  <2>1. st[r] \in Stat /\ count[r] \in Nat
    BY DEF History
  <2>2. \A n \in Nat : Decayed(n) \in Nat
    BY DEF Decayed
  <2>3. Decayed(st[r].sampled) + count[r] \in Nat /\ Decayed(st[r].passed) + count[r] \in Nat
    BY <2>1, <2>2 DEF Stat
  <2> HIDE DEF Decayed
  <2> QED BY <2>1, <2>3 DEF Stat
<1> QED BY <1>1 DEF Recorded, History

(* The invariant of the collection holds at first, and every step keeps it. *)
LEMMA CollectionInitially == CollectionInit => CollectionInv
<1> SUFFICES ASSUME CollectionInit PROVE CollectionInv
  OBVIOUS
<1>1. NoHistory \in History
  BY DEF NoHistory, History, Stat
<1>2. CollectionTypes
  BY <1>1, FS_EmptySet DEF CollectionInit, CollectionTypes
<1>3. OwnTasks
  BY DEF CollectionInit, OwnTasks
<1>4. SourcesKept
  BY DEF CollectionInit, SourcesKept
<1> QED BY <1>2, <1>3, <1>4 DEF CollectionInv

(* The end of a goroutine that yields tasks of its own *)
LEMMA EndedKeeps ==
  ASSUME CollectionInv, NEW s \in Source, NEW tasks, Ended(s, tasks), stats' \in History,
         IsFiniteSet(tasks), \A t \in tasks : t.source = s
  PROVE  CollectionInv'
<1> USE DEF CollectionInv
<1>1. CollectionTypes'
  BY DEF Ended, CollectionTypes
<1>2. OwnTasks'
  BY DEF Ended, OwnTasks, CollectionTypes
<1>3. SourcesKept'
  BY DEF Ended, SourcesKept
<1> QED BY <1>1, <1>2, <1>3

(***************************************************************************)
(* Merge: the two sides are disjoint, as their tasks have sources of their *)
(* own, and are all tasks with the ports that it reads; a cut keeps the    *)
(* custom ones apart by their targets, so that what is left over was on no *)
(* custom list and is official.  Their number is told by the three reads   *)
(* of MaxIPs only if these agree.                                          *)
(***************************************************************************)
LEMMA MergeKeeps ==
  ASSUME CollectionInv, Merge
  PROVE  CollectionInv'
<1>1. CollectionTypes /\ OwnTasks
  BY DEF CollectionInv
<1>2. /\ "official" \in Source /\ Custom \subseteq Source /\ "official" \notin Custom
      /\ IsFiniteSet(Custom) /\ Caps \subseteq Nat
  BY CollectionAssumption DEF CollectionAssumption, Source, Caps
<1>3. PICK ports \in PortLists, limit \in Caps, bound \in Caps, size \in Caps :
        LET a == Merging(ports).official
            b == Merging(ports).custom
        IN  /\ configRead' = [ports |-> ports, caps |-> {limit, bound, size}]
            /\ IF TooMany(a \cup b, limit, bound)
               THEN \E kept \in kSubset(size, a \cup b) :
                      official' = Split(kept, b).official /\ custom' = Split(kept, b).custom
               ELSE official' = a /\ custom' = b
  BY DEF Merge
<1> DEFINE all == UNION {fetched[s] : s \in Custom}
           o   == {t \in fetched["official"] : t.port \in ports}
           c   == {t \in all : t.port \in ports}
           right == {t \in UNION Range(fetched) : t.port \in ports}
<1>4. /\ configRead' = [ports |-> ports, caps |-> {limit, bound, size}]
      /\ \/ /\ limit > 0 /\ Cardinality(o \cup c) > bound
            /\ \E kept \in kSubset(size, o \cup c) :
                 official' = Split(kept, c).official /\ custom' = Split(kept, c).custom
         \/ /\ ~ (limit > 0 /\ Cardinality(o \cup c) > bound)
            /\ official' = o /\ custom' = c
  BY <1>3 DEF Merging, TooMany
<1>5. o \cap c = {}
  BY <1>1, <1>2 DEF OwnTasks
<1>6. o \cup c = right
  BY <1>1, <1>2 DEF CollectionTypes, Range, Source
<1>7. IsFiniteSet(o) /\ IsFiniteSet(c)
  <2> DEFINE f == [s \in Custom |-> fetched[s]]
  <2>1. IsFiniteSet(Range(f))
    BY <1>2, ImageFinite
  <2>2. \A x \in Range(f) : IsFiniteSet(x)
    BY <1>1, <1>2 DEF Range, CollectionTypes
  <2>3. UNION Range(f) = all
    BY DEF Range
  <2>4. IsFiniteSet(all) /\ IsFiniteSet(fetched["official"])
    BY <1>1, <1>2, <2>1, <2>2, <2>3, FS_UNION DEF CollectionTypes
  <2> HIDE DEF all
  <2> QED BY <2>4, FS_Subset
<1>8. IsFiniteSet(o \cup c) /\ Cardinality(o \cup c) \in Nat
  BY <1>7, FS_Union, FS_CardinalityType
<1>9. c \subseteq all /\ o \subseteq fetched["official"]
  OBVIOUS
<1> HIDE DEF o, c, right
<1>10. PICK kept \in SUBSET (o \cup c) :
         /\ official' \cup custom' = kept /\ official' \cap custom' = {}
         /\ official' \subseteq o
         /\ \A t \in custom' : Target(t) \in {Target(u) : u \in c}
         /\ limit = size /\ bound = size =>
              Cardinality(kept) = IF size > 0 THEN Min({size, Cardinality(o \cup c)})
                                  ELSE Cardinality(o \cup c)
  <2>1. CASE /\ limit > 0 /\ Cardinality(o \cup c) > bound
             /\ \E kept \in kSubset(size, o \cup c) :
                  official' = Split(kept, c).official /\ custom' = Split(kept, c).custom
    <3>1. PICK kept \in kSubset(size, o \cup c) :
            official' = Split(kept, c).official /\ custom' = Split(kept, c).custom
      BY <2>1
    <3>2. kept \in SUBSET (o \cup c) /\ Cardinality(kept) = size
      BY DEF kSubset
    <3>3. /\ official' = {t \in kept : Target(t) \notin {Target(u) : u \in c}}
          /\ custom' = {t \in kept : Target(t) \in {Target(u) : u \in c}}
      BY <3>1 DEF Split
    <3>4. limit = size /\ bound = size => Min({size, Cardinality(o \cup c)}) = size
      BY <1>2, <1>8, <2>1 DEF Min
    <3>5. /\ official' \cup custom' = kept /\ official' \cap custom' = {}
          /\ official' \subseteq o
          /\ \A t \in custom' : Target(t) \in {Target(u) : u \in c}
      BY <3>2, <3>3
    <3>6. limit = size => size > 0
      BY <2>1
    <3> QED BY <3>2, <3>4, <3>5, <3>6
  <2>2. CASE /\ ~ (limit > 0 /\ Cardinality(o \cup c) > bound)
             /\ official' = o /\ custom' = c
    <3>1. limit = size /\ bound = size /\ size > 0
            => Min({size, Cardinality(o \cup c)}) = Cardinality(o \cup c)
      BY <1>2, <1>8, <2>2 DEF Min
    <3> QED BY <1>5, <2>2, <3>1
  <2> QED BY <1>4, <2>1, <2>2
<1>11. IsFiniteSet(kept)
  BY <1>8, FS_Subset
<1>12. IsFiniteSet(official') /\ IsFiniteSet(custom')
  BY <1>10, <1>11, FS_Subset
<1>13. Cardinality(official') + Cardinality(custom') = Cardinality(kept)
  <2>1. Cardinality(kept) = Cardinality(official') + Cardinality(custom')
                            - Cardinality(official' \cap custom')
    BY <1>10, <1>12, FS_Union
  <2>2. Cardinality(official' \cap custom') = 0
    BY <1>10, FS_EmptySet
  <2>3. Cardinality(official') \in Nat /\ Cardinality(custom') \in Nat
    BY <1>12, FS_CardinalityType
  <2> QED BY <2>1, <2>2, <2>3
<1>14. CollectionTypes'
  BY <1>1, <1>12 DEF Merge, CollectionTypes
<1>15. OwnTasks'
  BY <1>1 DEF Merge, OwnTasks
<1>16. fetched' = fetched
  BY DEF Merge
<1>17. SourcesKept'
  <2>1. right = {t \in UNION Range(fetched') : t.port \in configRead'.ports}
    BY <1>4, <1>16 DEF right
  <2>2. all = UNION {fetched'[s] : s \in Custom}
    BY <1>16
  <2>3. /\ official' \cap custom' = {} /\ official' \cup custom' \subseteq right
        /\ official' \subseteq fetched'["official"]
    BY <1>6, <1>9, <1>10, <1>16
  <2>4. \A t \in custom' : Target(t) \in {Target(u) : u \in all}
    BY <1>9, <1>10
  <2>5. ASSUME NEW cap \in Caps, configRead'.caps = {cap}
        PROVE  Cardinality(official') + Cardinality(custom') =
                 IF cap > 0 THEN Min({cap, Cardinality(right)}) ELSE Cardinality(right)
    <3>1. limit = cap /\ bound = cap /\ size = cap
      BY <1>4, <2>5
    <3> QED BY <1>6, <1>10, <1>13, <3>1
  <2> HIDE DEF all
  <2> QED BY <2>1, <2>2, <2>3, <2>4, <2>5 DEF SourcesKept
<1> QED BY <1>14, <1>15, <1>17 DEF CollectionInv

(* FetchOfficial samples the ranges, cuts, and records what was sampled. *)
LEMMA OfficialKeeps ==
  ASSUME CollectionInv, FetchOfficial
  PROVE  CollectionInv'
<1>0. PICK n \in {Asked(c) : c \in Counts}, ports \in PortLists :
        \E quota, pick, tasks :
          /\ pick \in [Ranges -> UNION {Sample(r, quota[r]) : r \in Ranges}]
          /\ tasks \in Cut(TasksOf("official", pick, ports), n, n, n)
          /\ \A r \in Ranges : pick[r] \in Sample(r, quota[r])
          /\ Ended("official", tasks)
          /\ stats' = IF rated
                      THEN Recorded(stats, "sampled", [r \in Ranges |-> CountOf(tasks, r)])
                      ELSE stats
  BY DEF FetchOfficial
<1>1. PICK quota, pick, tasks :
        /\ pick \in [Ranges -> UNION {Sample(r, quota[r]) : r \in Ranges}]
        /\ tasks \in Cut(TasksOf("official", pick, ports), n, n, n)
        /\ \A r \in Ranges : pick[r] \in Sample(r, quota[r])
        /\ Ended("official", tasks)
        /\ stats' = IF rated
                    THEN Recorded(stats, "sampled", [r \in Ranges |-> CountOf(tasks, r)])
                    ELSE stats
  BY <1>0
<1>2. stats \in History
  BY DEF CollectionInv, CollectionTypes
<1>3. \A r \in Ranges : IsFiniteSet(pick[r])
  BY <1>1, SampleFinite
<1>4. /\ IsFiniteSet(TasksOf("official", pick, ports))
      /\ \A t \in TasksOf("official", pick, ports) : t.source = "official"
  BY <1>1, <1>3, RangesFinite, TasksAreOwn
<1>5. tasks \subseteq TasksOf("official", pick, ports) /\ IsFiniteSet(tasks)
  BY <1>1, <1>4, CutIsPart
<1>6. stats' \in History
  <2>1. [r \in Ranges |-> CountOf(tasks, r)] \in [Ranges -> Nat]
    BY <1>5, CountIsNatural
  <2> QED BY <1>1, <1>2, <2>1, RecordedIsHistory
<1>7. "official" \in Source
  BY DEF Source
<1> QED BY <1>1, <1>4, <1>5, <1>6, <1>7, EndedKeeps

LEMMA ListKeeps ==
  ASSUME CollectionInv, NEW s \in Source, FetchList(s)
  PROVE  CollectionInv'
<1>1. stats \in History
  BY DEF CollectionInv, CollectionTypes
<1>0. PICK ports \in PortLists, limit \in Counts, bound \in Counts, size \in Counts :
        \E tasks : /\ tasks \in IF s = "official"
                               THEN Cut(ParseIPList(s, ports), limit, bound, size)
                               ELSE {ParseIPList(s, ports)}
                  /\ Ended(s, tasks) /\ stats' = stats
  BY DEF FetchList
<1>2. PICK tasks :
        /\ tasks \in IF s = "official" THEN Cut(ParseIPList(s, ports), limit, bound, size)
                                       ELSE {ParseIPList(s, ports)}
        /\ Ended(s, tasks) /\ stats' = stats
  BY <1>0
<1>3. /\ IsFiniteSet(ParseIPList(s, ports))
      /\ \A t \in ParseIPList(s, ports) : t.source = s
  BY ListIsOwn
<1>4. tasks \subseteq ParseIPList(s, ports) /\ IsFiniteSet(tasks)
  BY <1>2, <1>3, CutIsPart
<1> QED BY <1>1, <1>2, <1>3, <1>4, EndedKeeps

LEMMA CustomKeeps ==
  ASSUME CollectionInv, NEW s \in Custom, FetchCustom(s)
  PROVE  CollectionInv'
<1>1. stats \in History
  BY DEF CollectionInv, CollectionTypes
<1>2. PICK pick \in [Listed[s] -> UNION {Sample(r, SamplesPerCIDR) : r \in Listed[s]}],
           ports \in PortLists :
        /\ \A r \in Listed[s] : pick[r] \in Sample(r, SamplesPerCIDR)
        /\ Ended(s, TasksOf(s, pick, ports)) /\ stats' = stats
  BY DEF FetchCustom
<1>3. Listed[s] \subseteq Ranges /\ s \in Source
  BY CollectionAssumption DEF CollectionAssumption, Source
<1>4. IsFiniteSet(Listed[s])
  BY <1>3, RangesFinite, FS_Subset
<1>5. \A r \in Listed[s] : IsFiniteSet(pick[r])
  BY <1>2, <1>3, SampleFinite
<1>6. /\ IsFiniteSet(TasksOf(s, pick, ports))
      /\ \A t \in TasksOf(s, pick, ports) : t.source = s
  BY <1>4, <1>5, TasksAreOwn
<1> QED BY <1>1, <1>2, <1>3, <1>6, EndedKeeps

LEMMA FailsKeeps ==
  ASSUME CollectionInv, NEW s \in Source, FetchFails(s)
  PROVE  CollectionInv'
<1>1. stats' \in History
  BY DEF CollectionInv, CollectionTypes, FetchFails
<1>2. Ended(s, {})
  BY DEF FetchFails
<1> QED BY <1>1, <1>2, FS_EmptySet, EndedKeeps

(* The steps that drop what the round has fetched, and those that fetch    *)
(* and record nothing                                                      *)
LEMMA DroppedKeeps ==
  ASSUME CollectionInv, Dropped, phase' # "fetched", stats' \in History, savedStats' \subseteq History
  PROVE  CollectionInv'
<1>1. CollectionTypes'
  BY FS_EmptySet DEF Dropped, CollectionTypes
<1>2. OwnTasks'
  BY DEF Dropped, OwnTasks
<1>3. SourcesKept'
  BY DEF SourcesKept
<1> QED BY <1>1, <1>2, <1>3 DEF CollectionInv

LEMMA RateKeeps ==
  ASSUME CollectionInv, RateRanges
  PROVE  CollectionInv'
<1>0. CollectionTypes
  BY DEF CollectionInv
<1>1. PICK count \in [Ranges -> 0 .. Cardinality(official \cup custom)] :
        stats' = Recorded(stats, "passed", count)
  BY DEF RateRanges
<1>2. Cardinality(official \cup custom) \in Nat
  BY <1>0, FS_Union, FS_CardinalityType DEF CollectionTypes
<1>3. count \in [Ranges -> Nat]
  BY <1>2
<1>4. stats' \in History
  BY <1>0, <1>1, <1>3, RecordedIsHistory DEF CollectionTypes
<1>5. Dropped /\ phase' # "fetched" /\ savedStats' \subseteq History
  BY <1>0 DEF RateRanges, CollectionTypes
<1> QED BY <1>4, <1>5, DroppedKeeps

LEMMA OthersKeep ==
  ASSUME CollectionInv,
         StartRound \/ MergePanics \/ Saved \/ EndEarly \/ Restart \/ UNCHANGED collectionVars
  PROVE  CollectionInv'
<1>0. CollectionTypes /\ OwnTasks /\ SourcesKept
  BY DEF CollectionInv
<1>1. CASE StartRound
  <2>1. CollectionTypes'
    BY <1>0, <1>1 DEF StartRound, CollectionTypes
  <2>2. OwnTasks'
    BY <1>0, <1>1 DEF StartRound, OwnTasks
  <2>3. SourcesKept'
    BY <1>1 DEF StartRound, SourcesKept
  <2> QED BY <2>1, <2>2, <2>3 DEF CollectionInv
<1>2. CASE Saved
  <2>1. CollectionTypes'
    BY <1>0, <1>2 DEF Saved, CollectionTypes
  <2>2. OwnTasks'
    BY <1>0, <1>2 DEF Saved, OwnTasks
  <2>3. SourcesKept'
    BY <1>2 DEF Saved, SourcesKept
  <2> QED BY <2>1, <2>2, <2>3 DEF CollectionInv
<1>3. CASE EndEarly \/ MergePanics
  <2>1. Dropped /\ phase' # "fetched" /\ stats' \in History /\ savedStats' \subseteq History
    BY <1>0, <1>3 DEF EndEarly, MergePanics, CollectionTypes
  <2> QED BY <2>1, DroppedKeeps
<1>4. CASE Restart
  <2>1. NoHistory \in History
    BY DEF NoHistory, History, Stat
  <2>2. Dropped /\ phase' # "fetched" /\ stats' \in History /\ savedStats' \subseteq History
    BY <1>0, <1>4, <2>1 DEF Restart, CollectionTypes
  <2> QED BY <2>2, DroppedKeeps
<1>5. CASE UNCHANGED collectionVars
  <2>1. CollectionTypes'
    BY <1>0, <1>5 DEF collectionVars, CollectionTypes
  <2>2. OwnTasks'
    BY <1>0, <1>5 DEF collectionVars, OwnTasks
  <2>3. SourcesKept'
    BY <1>0, <1>5 DEF collectionVars, SourcesKept
  <2> QED BY <2>1, <2>2, <2>3 DEF CollectionInv
<1> QED BY <1>1, <1>2, <1>3, <1>4, <1>5

(* The invariant of the collection is one, for any sources and settings. *)
THEOREM CollectionInductive == CollectionSpec => []CollectionInv
<1>1. CollectionInv /\ [CollectionNext]_collectionVars => CollectionInv'
  <2> SUFFICES ASSUME CollectionInv, [CollectionNext]_collectionVars PROVE CollectionInv'
    OBVIOUS
  <2>1. CASE FetchOfficial
    BY <2>1, OfficialKeeps
  <2>2. CASE Merge
    BY <2>2, MergeKeeps
  <2>3. CASE RateRanges
    BY <2>3, RateKeeps
  <2>4. ASSUME NEW s \in Custom, FetchCustom(s) PROVE CollectionInv'
    BY <2>4, CustomKeeps
  <2>5. ASSUME NEW s \in Source, FetchFails(s) \/ FetchList(s) PROVE CollectionInv'
    BY <2>5, FailsKeeps, ListKeeps
  <2>6. CASE StartRound \/ MergePanics \/ Saved \/ EndEarly \/ Restart \/ UNCHANGED collectionVars
    BY <2>6, OthersKeep
  <2> QED BY <2>1, <2>2, <2>3, <2>4, <2>5, <2>6 DEF CollectionNext
<1> QED BY <1>1, CollectionInitially, PTL DEF CollectionSpec

(***************************************************************************)
(* Whatever requests do to the configuration meanwhile, the merge keeps    *)
(* only tasks with a configured port, once each and on the side they came  *)
(* from; and unless MaxIPs changes while it is applied, no fewer than it   *)
(* must.  For any sources, lists, ranges, settings and limits.             *)
(***************************************************************************)
THEOREM CutKeepsSources == CollectionSpec => []SourcesKept
<1>1. CollectionInv => SourcesKept
  BY DEF CollectionInv
<1> QED BY <1>1, CollectionInductive, PTL

(***************************************************************************)
(* Whatever has been recorded, lost and loaded again, the shares of the    *)
(* ranges fit the sample, for any number of ranges and any sample.         *)
(***************************************************************************)
THEOREM QuotasAlwaysFit == CollectionSpec => []QuotasFit
<1>1. CollectionInv => QuotasFit
  <2> SUFFICES ASSUME CollectionInv, NEW n \in {Asked(c) : c \in Counts}, NEW q \in Quotas(stats, n)
               PROVE  LET w == Weights(stats)
                      IN  /\ \A r \in Ranges : q[r] >= 1
                          /\ IF n < NumRanges THEN SumFunction(q) = NumRanges
                             ELSE SumFunction(q) \in n - NumRanges + 1 .. n
                          /\ \A r, s \in Ranges : w[r] > w[s] => q[r] >= q[s] - 1
    BY DEF QuotasFit
  <2>1. stats \in History
    BY DEF CollectionInv, CollectionTypes
  <2>2. n \in Nat \ {0}
    BY CollectionAssumption DEF CollectionAssumption, Counts, Asked
  <2> QED BY <2>1, <2>2, SharesFit
<1> QED BY <1>1, CollectionInductive, PTL

-----------------------------------------------------------------------------
(* ScheduledRuns: the database *)

(***************************************************************************)
(* A clear may promise its backup because of what an undisturbed request   *)
(* knows at each of its steps: the checkpoint has left the whole table in  *)
(* the file, the handler has read just that, and so the backup holds it.   *)
(***************************************************************************)
CapturedBy(h) ==
  quiet[h] =>
    /\ step[h] \in {"create", "copy"} => file = rows
    /\ step[h] = "copy" => copy[h] = rows /\ backups[name[h]] # Absent
    /\ step[h] = "clear" => backups[name[h]] = rows

StoreInv ==
  /\ StoreTypeOK
  /\ \A h \in Handler : CapturedBy(h)
  /\ ClearIsRecoverable

(* Which run stands at which statement *)
Placed ==
  /\ (run = "nothing") = (at = "idle")
  /\ at \in {"fetched nothing", "purge", "verify", "purge again", "select", "cleanup", "report"}
       => run = "collect"
  /\ at \in {"check", "read", "publish"} => run \in {"after", "push"}

(* What is to be written is of the ports configured. *)
BatchIsOurs == RowsOf(batch) \subseteq Ours

(* A run under way has neither published nor sent the alarm. *)
OutcomeIsOpen == run # "nothing" => pushes = 0 /\ ~alarm

(***************************************************************************)
(* What was written since the collection began is still marked as new, or  *)
(* gone, and what is about to be written has not been written before.      *)
(***************************************************************************)
Fresh ==
  run \in {"collect", "after"} /\ ~disturbed =>
    /\ \A k \in Key : wrote[k] <= 1
    /\ \A k \in KeysOf(rows) : wrote[k] > 0 => rows[k].new
    /\ at = "write" => \A k \in unwritten : wrote[k] = 0
    /\ at \in {"fetched nothing", "purge", "verify", "purge again", "select"} => wrote = NoBatch

RunTypes ==
  /\ run \in {"nothing", "collect", "after", "push"} /\ at \in Points
  /\ batch \in [Key -> 0 .. MaxScore] /\ unwritten \subseteq RowsOf(batch)
  /\ excess \in Nat /\ attempt \in 0 .. MaxRetries
  /\ wrote \in [Key -> 0 .. 2] /\ disturbed \in BOOLEAN /\ alarm \in BOOLEAN
  /\ rewritten \subseteq Ours /\ published \subseteq Ours /\ pushes \in 0 .. 2

RunInv ==
  /\ RunTypes
  /\ Placed /\ BatchIsOurs
  /\ OutcomeIsOpen /\ PublishedOrAlarmed
  /\ Fresh

IInv == StoreInv /\ RunInv

-----------------------------------------------------------------------------
(* The database *)

(* What a table may turn into *)
LEMMA Tables ==
  /\ NoRow \in Row
  /\ \A gone : \A t \in Table : Drop(t, gone) \in Table
  /\ \A t \in Table : Aged(t) \in Table
  /\ Empty \in Table
<1>1. NoRow \in Row
  BY DEF Row
<1>2. ASSUME NEW r \in Row PROVE [score |-> r.score, new |-> FALSE] \in Row
  <2>1. CASE r = NoRow
    <3>1. r.score = 0
      BY <2>1 DEF NoRow
    <3>. QED
      BY <3>1 DEF Row, NoRow
  <2>2. CASE r \in [score : 1 .. MaxScore, new : BOOLEAN]
    <3>1. r.score \in 1 .. MaxScore
      BY <2>2
    <3>. QED
      BY <3>1 DEF Row
  <2>. QED
    BY <2>1, <2>2 DEF Row
<1>. QED
  BY <1>1, <1>2 DEF Table, Drop, Aged, Empty

(* What a commit does to the file and to those who copy it *)
LEMMA CommitShape ==
  ASSUME StoreInv, NEW h, NEW t \in Table, Commit(h, t)
  PROVE  /\ rows' = t /\ file' \in Table /\ file' \in {file, t}
         /\ copy' \in [Handler -> Table \cup {Absent, Broken}]
         /\ \A g \in Handler : copy'[g] = Absent <=> copy[g] = Absent
         /\ file' = file => copy' = copy
         /\ quiet' \in [Handler -> BOOLEAN]
         /\ \A g \in Handler : g # h /\ quiet'[g] /\ step[g] \in Backing => quiet[g] /\ t = rows
<1>1. rows' = t /\ file' \in Table /\ file' \in {file, t}
  BY DEF Commit, StoreInv, StoreTypeOK
<1>2. /\ copy' \in [Handler -> Table \cup {Absent, Broken}]
      /\ \A g \in Handler : copy'[g] = Absent <=> copy[g] = Absent
      /\ file' = file => copy' = copy
  BY StoreAssumption DEF Commit, StoreInv, StoreTypeOK
<1>3. /\ quiet' \in [Handler -> BOOLEAN]
      /\ \A g \in Handler : g # h /\ quiet'[g] /\ step[g] \in Backing => quiet[g] /\ t = rows
  BY DEF Commit, StoreInv, StoreTypeOK
<1>. QED
  BY <1>1, <1>2, <1>3

(* A commit keeps what the other requests know. *)
LEMMA CommitCaptures ==
  ASSUME StoreInv, NEW h, NEW t \in Table, Commit(h, t), backups' = backups,
         NEW g \in Handler, g # h, step'[g] = step[g], name'[g] = name[g]
  PROVE  CapturedBy(g)'
<1> SUFFICES ASSUME quiet'[g], step[g] \in Backing PROVE CapturedBy(g)'
  BY DEF CapturedBy, Backing
<1>1. quiet[g] /\ t = rows /\ rows' = rows /\ file' \in {file, rows}
  BY CommitShape
<1>2. file' = file => copy' = copy
  BY CommitShape
<1>3. CapturedBy(g)
  BY DEF StoreInv
<1>. QED
  BY <1>1, <1>2, <1>3 DEF CapturedBy, Backing

LEMMA WriteStores ==
  ASSUME StoreInv, NEW t \in Table, Write(t)
  PROVE  StoreInv'
<1>1. Commit("run", t) /\ UNCHANGED <<backups, promised, second, doing, step, name>>
  BY DEF Write, Others, files
<1>2. StoreTypeOK'
  <2>1. ASSUME NEW h \in Handler PROVE (copy'[h] = Absent) = (step'[h] # "copy")
    <3>1. copy'[h] = Absent <=> copy[h] = Absent
      BY <1>1, CommitShape
    <3>2. (copy[h] = Absent) = (step[h] # "copy")
      BY DEF StoreInv, StoreTypeOK
    <3>. QED
      BY <1>1, <3>1, <3>2
  <2>. QED
    BY <1>1, <2>1, CommitShape DEF StoreInv, StoreTypeOK
<1>3. \A h \in Handler : CapturedBy(h)'
  BY <1>1, CommitCaptures, RunAssumption
<1>4. ClearIsRecoverable'
  BY <1>1 DEF StoreInv, ClearIsRecoverable
<1>. QED
  BY <1>2, <1>3, <1>4 DEF StoreInv

LEMMA ReadStores ==
  ASSUME StoreInv, Read
  PROVE  StoreInv'
BY DEF Read, Others, files, store, StoreInv, StoreTypeOK, CapturedBy, ClearIsRecoverable

(* Time leaves a backup a backup, and what is equal equal. *)
LEMMA TimeStores ==
  ASSUME StoreInv, TimePasses
  PROVE  StoreInv'
<1>1. \A f \in Table \cup {Absent, Broken} :
        /\ AgedFile(f) \in Table \cup {Absent, Broken}
        /\ AgedFile(f) = Absent <=> f = Absent
        /\ AgedFile(f) = Broken <=> f = Broken
  BY Tables, FileAssumption DEF AgedFile
<1>2. \A f \in Table : AgedFile(f) = Aged(f)
  BY FileAssumption DEF AgedFile
<1>3. StoreTypeOK'
  BY <1>1, Tables, StoreAssumption, FileAssumption DEF TimePasses, StoreInv, StoreTypeOK
<1>4. ASSUME NEW h \in Handler PROVE CapturedBy(h)'
  BY <1>1, <1>2 DEF TimePasses, StoreInv, StoreTypeOK, CapturedBy
<1>5. ClearIsRecoverable'
  BY <1>1 DEF TimePasses, StoreInv, StoreTypeOK, ClearIsRecoverable
<1>. QED
  BY <1>3, <1>4, <1>5 DEF StoreInv

(* A request that touches the backup of second s spoils no other. *)
LEMMA DisturbCaptures ==
  ASSUME StoreInv, NEW h \in Handler, NEW s \in Second, Disturb(h, s), UNCHANGED store,
         \A r \in Second \ {s} : backups'[r] = backups[r],
         NEW g \in Handler, g # h, step'[g] = step[g], name'[g] = name[g], copy'[g] = copy[g]
  PROVE  CapturedBy(g)'
<1>1. quiet'[g] => quiet[g] /\ ~WorksOn(g, s)
  BY DEF Disturb
<1>2. CapturedBy(g) /\ name[g] \in Second
  BY DEF StoreInv, StoreTypeOK
<1>. QED
  BY <1>1, <1>2 DEF CapturedBy, WorksOn, store

LEMMA DisturbTypes ==
  ASSUME NEW h \in Handler, NEW s, Disturb(h, s)
  PROVE  quiet' \in [Handler -> BOOLEAN]
BY DEF Disturb

(* An answer ends the request of h and no other. *)
LEMMA ReplyShape ==
  ASSUME StoreInv, NEW h \in Handler, Reply(h)
  PROVE  /\ doing' \in [Handler -> {"nothing", "backup", "clear", "restore"}]
         /\ step' \in [Handler -> {"idle", "checkpoint", "create", "copy", "clear",
                                   "wipe", "insert"}]
         /\ name' \in [Handler -> Second]
         /\ step'[h] = "idle"
         /\ \A g \in Handler \ {h} : step'[g] = step[g] /\ name'[g] = name[g]
<1>1. 1 \in Second
  BY StoreAssumption DEF Second
<1>. QED
  BY <1>1 DEF StoreInv, StoreTypeOK, Reply

(* The steps that only move a request, the checkpoint among them *)
LEMMA MoveStores ==
  ASSUME StoreInv, NEW h \in Handler,
         BeginBackup(h) \/ Checkpoint(h) \/ BeginRestore(h) \/ GiveUp(h)
  PROVE  StoreInv'
<1> USE DEF StoreInv, StoreTypeOK, store, files
<1>1. CASE BeginBackup(h)
  <2>1. StoreTypeOK'
    BY <1>1 DEF BeginBackup
  <2>2. \A g \in Handler : CapturedBy(g)'
    BY <1>1 DEF BeginBackup, CapturedBy
  <2>. QED
    BY <1>1, <2>1, <2>2 DEF BeginBackup, ClearIsRecoverable
<1>2. CASE Checkpoint(h)
  <2>1. /\ rows' = rows /\ file' = rows
        /\ UNCHANGED <<backups, promised, second, doing, name, quiet>>
        /\ step[h] = "checkpoint" /\ step' = [step EXCEPT ![h] = "create"]
    BY <1>2 DEF Checkpoint, Go
  <2>2. /\ copy' \in [Handler -> Table \cup {Absent, Broken}]
        /\ \A g \in Handler : copy'[g] = Absent <=> copy[g] = Absent
        /\ file' = file => copy' = copy
    BY <1>2, StoreAssumption DEF Checkpoint
  <2>3. ASSUME NEW g \in Handler PROVE (copy'[g] = Absent) = (step'[g] # "copy")
    BY <2>1, <2>2
  <2>4. StoreTypeOK'
    BY <2>1, <2>2, <2>3
  <2>5. ASSUME NEW g \in Handler PROVE CapturedBy(g)'
    <3>1. CapturedBy(g)
      OBVIOUS
    <3>. QED
      BY <2>1, <2>2, <3>1 DEF CapturedBy
  <2>. QED
    BY <2>1, <2>4, <2>5 DEF ClearIsRecoverable
<1>3. CASE BeginRestore(h)
  <2>1. StoreTypeOK'
    BY <1>3 DEF BeginRestore
  <2>2. \A g \in Handler : CapturedBy(g)'
    BY <1>3 DEF BeginRestore, CapturedBy
  <2>. QED
    BY <1>3, <2>1, <2>2 DEF BeginRestore, ClearIsRecoverable
<1>4. CASE GiveUp(h)
  <2>1. StoreTypeOK'
    <3>1. ASSUME NEW g \in Handler PROVE (copy'[g] = Absent) = (step'[g] # "copy")
      BY <1>4 DEF GiveUp, Reply
    <3>. QED
      BY <1>4, <3>1, ReplyShape DEF GiveUp
  <2>2. \A g \in Handler : CapturedBy(g)'
    BY <1>4 DEF GiveUp, Reply, CapturedBy
  <2>. QED
    BY <1>4, <2>1, <2>2 DEF GiveUp, ClearIsRecoverable
<1>. QED
  BY <1>1, <1>2, <1>3, <1>4

(* BackupDB, and the deletion of a backup *)
LEMMA BackupStores ==
  ASSUME StoreInv, NEW h \in Handler, CreateFile(h) \/ CopyFile(h) \/ DeleteBackup(h)
  PROVE  StoreInv'
<1> USE DEF StoreInv, StoreTypeOK
<1>1. CASE CreateFile(h)
  <2> DEFINE s == second'
  <2>1. /\ s \in Second /\ step[h] = "create"
        /\ step' = [step EXCEPT ![h] = "copy"] /\ name' = [name EXCEPT ![h] = s]
        /\ backups' = [backups EXCEPT ![s] = Broken]
        /\ promised' = [promised EXCEPT ![s] = Absent]
        /\ copy' = [copy EXCEPT ![h] = file]
        /\ Disturb(h, s) /\ UNCHANGED <<rows, file, doing>>
    BY <1>1 DEF CreateFile, Second, store
  <2> HIDE DEF s
  <2>2. StoreTypeOK'
    <3>1. ASSUME NEW g \in Handler PROVE (copy'[g] = Absent) = (step'[g] # "copy")
      BY <2>1, FileAssumption
    <3>2. quiet' \in [Handler -> BOOLEAN]
      BY <2>1, DisturbTypes
    <3>3. second' \in Second
      BY <2>1 DEF s
    <3>. QED
      BY <2>1, <3>1, <3>2, <3>3
  <2>3. ASSUME NEW g \in Handler PROVE CapturedBy(g)'
    <3>1. CASE g = h
      <4>1. quiet'[h] => quiet[h]
        BY <2>1 DEF Disturb
      <4>2. CapturedBy(h)
        OBVIOUS
      <4>. QED
        BY <2>1, <3>1, <4>1, <4>2, StoreAssumption DEF CapturedBy
    <3>2. CASE g # h
      BY <2>1, <3>2, DisturbCaptures DEF store
    <3>. QED
      BY <3>1, <3>2
  <2>4. ClearIsRecoverable'
    BY <2>1 DEF ClearIsRecoverable
  <2>. QED
    BY <2>2, <2>3, <2>4
<1>2. CASE CopyFile(h)
  <2> DEFINE s == name[h]
  <2>1. PICK left \in Bytes(h) : backups' = [backups EXCEPT ![s] = IF @ = Absent THEN @ ELSE left]
    BY <1>2 DEF CopyFile
  <2>2. /\ s \in Second /\ step[h] = "copy"
        /\ promised' = [promised EXCEPT ![s] = Absent]
        /\ copy' = [copy EXCEPT ![h] = Absent]
        /\ Disturb(h, s) /\ UNCHANGED <<rows, file, second>>
        /\ \/ step' = [step EXCEPT ![h] = "clear"] /\ UNCHANGED <<doing, name>>
           \/ Reply(h)
    BY <1>2 DEF CopyFile, store, Go
  <2>3. left \in Table \cup {Absent, Broken}
    BY <2>1 DEF Bytes
  <2> HIDE DEF s
  <2>4. StoreTypeOK'
    <3>1. ASSUME NEW g \in Handler PROVE (copy'[g] = Absent) = (step'[g] # "copy")
      BY <2>2 DEF Reply
    <3>2. quiet' \in [Handler -> BOOLEAN]
      BY <2>2, DisturbTypes
    <3>3. backups' \in [Second -> Table \cup {Absent, Broken}]
      BY <2>1, <2>3
    <3>4. /\ doing' \in [Handler -> {"nothing", "backup", "clear", "restore"}]
          /\ step' \in [Handler -> {"idle", "checkpoint", "create", "copy", "clear",
                                    "wipe", "insert"}]
          /\ name' \in [Handler -> Second]
      BY <2>2, ReplyShape
    <3>. QED
      BY <2>2, <3>1, <3>2, <3>3, <3>4, StoreAssumption
  <2>5. ASSUME NEW g \in Handler PROVE CapturedBy(g)'
    <3>1. CASE g = h
      <4>1. SUFFICES ASSUME quiet'[h] PROVE backups'[s] = rows
        BY <2>2, <3>1 DEF CapturedBy, Reply, s
      <4>2. quiet[h] /\ \A o \in Handler \ {h} : ~WorksOn(o, s)
        BY <2>2, <4>1 DEF Disturb
      <4>3. Bytes(h) = {copy[h]}
        BY <4>2 DEF Bytes, WorksOn, s
      <4>4. copy[h] = rows /\ backups[s] # Absent
        BY <2>2, <4>2 DEF CapturedBy, s
      <4>. QED
        BY <2>1, <2>2, <4>3, <4>4
    <3>2. CASE g # h
      BY <2>1, <2>2, <3>2, DisturbCaptures DEF store, Reply
    <3>. QED
      BY <3>1, <3>2
  <2>6. ClearIsRecoverable'
    BY <2>1, <2>2 DEF ClearIsRecoverable
  <2>. QED
    BY <2>4, <2>5, <2>6
<1>3. CASE DeleteBackup(h)
  <2>1. PICK s \in Second :
          /\ backups' = [backups EXCEPT ![s] = Absent]
          /\ promised' = [promised EXCEPT ![s] = Absent]
          /\ Disturb(h, s)
    BY <1>3 DEF DeleteBackup
  <2>2. step[h] = "idle" /\ UNCHANGED <<rows, file, second, doing, step, name, copy>>
    BY <1>3 DEF DeleteBackup, store
  <2>3. StoreTypeOK'
    BY <2>1, <2>2, DisturbTypes
  <2>4. ASSUME NEW g \in Handler PROVE CapturedBy(g)'
    <3>1. CASE g = h
      BY <2>2, <3>1 DEF CapturedBy
    <3>2. CASE g # h
      BY <2>1, <2>2, <3>2, DisturbCaptures DEF store
    <3>. QED
      BY <3>1, <3>2
  <2>5. ClearIsRecoverable'
    BY <2>1, <2>2 DEF ClearIsRecoverable
  <2>. QED
    BY <2>3, <2>4, <2>5
<1>. QED
  BY <1>1, <1>2, <1>3

(* The transactions of a clear and of a restore *)
LEMMA EraseStores ==
  ASSUME StoreInv, NEW h \in Handler, ClearAll(h) \/ Wipe(h) \/ Insert(h)
  PROVE  StoreInv'
<1> USE DEF StoreInv, StoreTypeOK
<1>1. PICK t \in Table : Commit(h, t)
  <2>1. CASE ClearAll(h) \/ Wipe(h)
    BY <2>1, Tables DEF ClearAll, Wipe
  <2>2. CASE Insert(h)
    <3> DEFINE saved == backups[name[h]]
               t == [k \in Key |-> IF saved[k] # NoRow THEN saved[k] ELSE rows[k]]
    <3>1. saved \in Table /\ Commit(h, t)
      BY <2>2 DEF Insert
    <3>2. t \in Table
      BY <3>1 DEF Table
    <3>. QED
      BY <3>1, <3>2
  <2>. QED
    BY <2>1, <2>2
<1>2. /\ backups' = backups /\ second' = second
      /\ step[h] \notin {"create", "copy"} /\ step'[h] \in {"idle", "insert"}
      /\ doing' \in [Handler -> {"nothing", "backup", "clear", "restore"}]
      /\ step' \in [Handler -> {"idle", "checkpoint", "create", "copy", "clear",
                                "wipe", "insert"}]
      /\ name' \in [Handler -> Second]
      /\ \A g \in Handler \ {h} : step'[g] = step[g] /\ name'[g] = name[g]
  <2>1. CASE ClearAll(h) \/ Insert(h)
    BY <2>1, ReplyShape DEF ClearAll, Insert, files
  <2>2. CASE Wipe(h)
    BY <2>2 DEF Wipe, Go, files
  <2>. QED
    BY <2>1, <2>2
<1>3. /\ promised' \in [Second -> Table \cup {Absent}]
      /\ ClearIsRecoverable'
  <2>1. CASE ClearAll(h)
    <3>1. /\ step[h] = "clear" /\ name[h] \in Second
          /\ promised' = [promised EXCEPT ![name[h]] = IF quiet[h] THEN rows ELSE @]
      BY <2>1 DEF ClearAll
    <3>2. quiet[h] => backups[name[h]] = rows
      BY <3>1 DEF CapturedBy
    <3>. QED
      BY <1>2, <3>1, <3>2 DEF ClearIsRecoverable
  <2>2. CASE Wipe(h) \/ Insert(h)
    BY <1>2, <2>2 DEF Wipe, Insert, files, ClearIsRecoverable
  <2>. QED
    BY <2>1, <2>2
<1>4. StoreTypeOK'
  <2>1. ASSUME NEW g \in Handler PROVE (copy'[g] = Absent) = (step'[g] # "copy")
    <3>1. copy'[g] = Absent <=> copy[g] = Absent
      BY <1>1, CommitShape
    <3>2. (copy[g] = Absent) = (step[g] # "copy")
      OBVIOUS
    <3>3. step[g] = "copy" <=> step'[g] = "copy"
      BY <1>2
    <3>. QED
      BY <3>1, <3>2, <3>3
  <2>. QED
    BY <1>1, <1>2, <1>3, <2>1, CommitShape
<1>5. ASSUME NEW g \in Handler PROVE CapturedBy(g)'
  <2>1. CASE g = h
    BY <1>2, <2>1 DEF CapturedBy
  <2>2. CASE g # h
    BY <1>1, <1>2, <2>2, CommitCaptures
  <2>. QED
    BY <2>1, <2>2
<1>. QED
  BY <1>3, <1>4, <1>5

LEMMA StepStores ==
  ASSUME StoreInv, StoreStep
  PROVE  StoreInv'
BY MoveStores, BackupStores, EraseStores DEF StoreStep, HandlerStep

-----------------------------------------------------------------------------
(* The runs *)

BeforeWriting == {"fetched nothing", "purge", "verify", "purge again", "select"}
CollectPoints == BeforeWriting \cup {"cleanup", "report"}
PushPoints    == {"check", "read", "publish"}

(* A statement that at most deletes rows *)
Sheds == \A k \in Key : rows'[k] \in {rows[k], NoRow}

LEMMA DropSheds ==
  ASSUME StoreInv, NEW t
  PROVE  /\ Write(Drop(rows, t)) => Sheds /\ Drop(rows, t) \in Table
         /\ Read => Sheds
<1>1. Write(Drop(rows, t)) => rows' = Drop(rows, t)
  BY DEF Write, Commit
<1>2. Read => rows' = rows
  BY DEF Read, store
<1>3. \A k \in Key : Drop(rows, t)[k] \in {rows[k], NoRow}
  BY DEF Drop
<1>4. Drop(rows, t) \in Table
  BY Tables DEF StoreInv, StoreTypeOK
<1>. QED
  BY <1>1, <1>2, <1>3, <1>4 DEF Sheds

LEMMA Shed ==
  ASSUME Sheds
  PROVE  \A k \in KeysOf(rows)' : k \in KeysOf(rows) /\ rows'[k] = rows[k]
BY DEF Sheds, KeysOf

LEMMA Nothing ==
  /\ NoBatch \in [Key -> 0 .. MaxScore] /\ NoBatch \in [Key -> 0 .. 2]
  /\ RowsOf(NoBatch) = {}
  /\ 0 \in 0 .. MaxRetries /\ 0 \in Nat
<1>1. MaxRetries \in Nat
  BY RunAssumption
<1>. QED
  BY <1>1, StoreAssumption DEF NoBatch, RowsOf

(* The run goes on to a statement other than a write, and may count. *)
LEMMA GoesOn ==
  ASSUME RunInv, Sheds, at # "idle",
         at' \in Points \ {"idle", "write"}, UNCHANGED <<run, ghosts, outcome>>,
         at' \in CollectPoints => run = "collect",
         at' \in PushPoints => run \in {"after", "push"},
         at' \in BeforeWriting => at \in BeforeWriting,
         excess' \in Nat, attempt' \in 0 .. MaxRetries,
         \/ UNCHANGED <<batch, unwritten>>
         \/ batch' = NoBatch /\ unwritten' = {}
  PROVE  RunInv'
<1> USE DEF RunInv, ghosts, outcome, BeforeWriting, CollectPoints, PushPoints
<1>1. batch' \in [Key -> 0 .. MaxScore] /\ RowsOf(batch') \subseteq Ours
  BY Nothing DEF RunTypes, BatchIsOurs
<1>2. RunTypes'
  BY <1>1 DEF RunTypes, RowsOf
<1>3. Placed' /\ BatchIsOurs' /\ OutcomeIsOpen' /\ PublishedOrAlarmed'
  BY <1>1 DEF Placed, BatchIsOurs, OutcomeIsOpen, PublishedOrAlarmed, RowsOf
<1>4. Fresh'
  BY Shed DEF Fresh
<1>. QED
  BY <1>2, <1>3, <1>4

(* A run that ends forgets its work. *)
LEMMA Ends ==
  ASSUME RunInv, End, at # "idle",
         published' \subseteq Ours, pushes' \in 0 .. 1, alarm' \in BOOLEAN,
         alarm' => pushes' = 0
  PROVE  RunInv'
<1> USE DEF RunInv, End, NoWork
<1>1. batch' \in [Key -> 0 .. MaxScore] /\ wrote' \in [Key -> 0 .. 2] /\ RowsOf(batch') = {}
  BY Nothing
<1>2. RunTypes'
  <2>1. excess' \in Nat /\ attempt' \in 0 .. MaxRetries /\ pushes' \in 0 .. 2
    BY Nothing
  <2>. QED
    BY <1>1, <2>1 DEF RunTypes, Points
<1>3. Placed' /\ BatchIsOurs' /\ OutcomeIsOpen' /\ Fresh'
  BY <1>1 DEF Placed, BatchIsOurs, RowsOf, OutcomeIsOpen, Fresh
<1>4. PublishedOrAlarmed'
  BY DEF PublishedOrAlarmed
<1>. QED
  BY <1>2, <1>3, <1>4

LEMMA CollectEnds ==
  ASSUME RunInv, Sheds, EndCollect, run = "collect"
  PROVE  RunInv'
<1> USE DEF RunInv, EndCollect, NoWork, ghosts, outcome
<1>1. batch' \in [Key -> 0 .. MaxScore] /\ RowsOf(batch') = {}
  BY Nothing
<1>2. RunTypes'
  BY <1>1, Nothing DEF RunTypes, Points, RowsOf
<1>3. Placed' /\ BatchIsOurs' /\ OutcomeIsOpen' /\ PublishedOrAlarmed'
  BY <1>1 DEF Placed, BatchIsOurs, RowsOf, OutcomeIsOpen, PublishedOrAlarmed
<1>4. Fresh'
  BY Shed DEF Fresh
<1>. QED
  BY <1>2, <1>3, <1>4

LEMMA Fails ==
  ASSUME RunInv, Sheds, Failed, at # "idle"
  PROVE  RunInv'
<1>0. /\ pushes = 0 /\ ~alarm /\ alarm \in BOOLEAN
      /\ published \subseteq Ours /\ attempt \in 0 .. MaxRetries /\ excess \in Nat
  BY DEF Failed, RunInv, RunTypes, Placed, OutcomeIsOpen
<1>1. CASE run = "push" /\ EndRun
  BY <1>0, <1>1, Ends DEF EndRun, outcome
<1>2. CASE /\ run = "after" /\ attempt < MaxRetries
           /\ at' = "read" /\ attempt' = attempt + 1
           /\ batch' = NoBatch /\ unwritten' = {}
           /\ UNCHANGED <<run, excess, ghosts, outcome>>
  <2>1. excess' \in Nat /\ attempt' \in 0 .. MaxRetries
    BY <1>0, <1>2, RunAssumption
  <2>. QED
    BY <1>2, <2>1, GoesOn DEF Points, BeforeWriting, CollectPoints
<1>3. CASE run = "after" /\ End /\ alarm' = TRUE /\ UNCHANGED <<published, pushes>>
  BY <1>0, <1>3, Ends
<1>. QED
  BY <1>1, <1>2, <1>3 DEF Failed

(* A run begins with nothing done. *)
LEMMA Starts ==
  ASSUME RunInv, CollectDue \/ PushDue
  PROVE  RunInv'
<1>1. /\ \/ run' = "collect" /\ at' \in {"fetched nothing", "purge"}
         \/ run' = "push" /\ at' = "read"
      /\ UNCHANGED <<batch, unwritten, excess, attempt>>
  BY DEF CollectDue, PushDue, Start, work
<1>2. wrote' = NoBatch /\ rewritten' = {} /\ published' = {}
  BY DEF CollectDue, PushDue, Start
<1>3. disturbed' = FALSE /\ pushes' = 0 /\ alarm' = FALSE
  BY DEF CollectDue, PushDue, Start
<1>4. RunTypes'
  <2>1. wrote' \in [Key -> 0 .. 2] /\ rewritten' \subseteq Ours /\ published' \subseteq Ours
    BY <1>2, Nothing
  <2>2. disturbed' \in BOOLEAN /\ alarm' \in BOOLEAN
    BY <1>3
  <2>3. pushes' \in 0 .. 2
    BY <1>3
  <2>4. batch' \in [Key -> 0 .. MaxScore] /\ unwritten' \subseteq RowsOf(batch')
    BY <1>1 DEF RunInv, RunTypes
  <2>5. excess' \in Nat /\ attempt' \in 0 .. MaxRetries
    BY <1>1 DEF RunInv, RunTypes
  <2>6. run' \in {"nothing", "collect", "after", "push"} /\ at' \in Points
    BY <1>1 DEF Points
  <2>. QED
    BY <2>1, <2>2, <2>3, <2>4, <2>5, <2>6 DEF RunTypes
<1>5. Placed' /\ BatchIsOurs' /\ OutcomeIsOpen'
  BY <1>1, <1>3 DEF RunInv, Placed, BatchIsOurs, RowsOf, OutcomeIsOpen
<1>6. PublishedOrAlarmed'
  BY <1>3 DEF PublishedOrAlarmed
<1>7. Fresh'
  <2>1. ASSUME NEW k \in Key PROVE wrote'[k] <= 1 /\ ~(wrote'[k] > 0)
    <3>1. wrote'[k] = 0
      BY <1>2 DEF NoBatch
    <3>. QED
      BY <3>1
  <2>. QED
    BY <1>1, <1>2, <2>1 DEF Fresh, KeysOf
<1>. QED
  BY <1>4, <1>5, <1>6, <1>7 DEF RunInv

LEMMA MeasuredShape ==
  ASSUME NEW ips, NEW b \in Measured(ips)
  PROVE  b \in [Key -> 0 .. MaxScore] /\ RowsOf(b) \subseteq ips
BY DEF Measured, RowsOf

(* A run takes what it has measured: nothing it has written before. *)
LEMMA Takes ==
  ASSUME RunInv, Sheds, at # "idle", NEW b \in [Key -> 0 .. MaxScore], RowsOf(b) \subseteq Ours,
         at' = "write", Take(b),
         run \in {"collect", "after"} /\ ~disturbed => \A k \in RowsOf(b) : wrote[k] = 0
  PROVE  RunInv'
<1> USE DEF RunInv, Take, ghosts, outcome
<1>1. RunTypes'
  BY DEF RunTypes, Points, RowsOf
<1>2. Placed' /\ BatchIsOurs' /\ OutcomeIsOpen'
  BY DEF Placed, BatchIsOurs, RowsOf, OutcomeIsOpen
<1>3. PublishedOrAlarmed'
  BY DEF PublishedOrAlarmed
<1>4. Fresh'
  BY Shed DEF Fresh
<1>. QED
  BY <1>1, <1>2, <1>3, <1>4

LEMMA SelectRuns ==
  ASSUME StoreInv, RunInv, Select
  PROVE  RunInv'
<1>1. Sheds /\ run = "collect" /\ at # "idle"
  BY DropSheds DEF Select, RunInv, Placed
<1>2. ASSUME NEW where \in {"report", "cleanup"}, Continue(where) PROVE RunInv'
  <2>1. excess \in Nat /\ attempt \in 0 .. MaxRetries
    BY DEF RunInv, RunTypes
  <2>. QED
    BY <1>1, <1>2, <2>1, GoesOn DEF Continue, work, Points, BeforeWriting, CollectPoints, PushPoints
<1>3. ASSUME at' = "write", NEW b \in Measured(Ours), Take(b) PROVE RunInv'
  <2>1. ~disturbed => \A k \in RowsOf(b) : wrote[k] = 0
    BY <1>1 DEF Select, RunInv, Fresh, RowsOf, NoBatch
  <2>. QED
    BY <1>1, <1>3, <2>1, MeasuredShape, Takes
<1>. QED
  BY <1>1, <1>2, <1>3, CollectEnds DEF Select

LEMMA ReadIPsRuns ==
  ASSUME StoreInv, RunInv, ReadIPs
  PROVE  RunInv'
<1>1. Sheds /\ run \in {"after", "push"} /\ at # "idle"
  BY DropSheds DEF ReadIPs, RunInv, Placed
<1>2. CASE EndRun
  <2>1. pushes = 0 /\ ~alarm /\ alarm \in BOOLEAN /\ published \subseteq Ours
    BY <1>1 DEF RunInv, RunTypes, OutcomeIsOpen
  <2>. QED
    BY <1>1, <1>2, <2>1, Ends DEF EndRun, outcome
<1>3. ASSUME at' = "write", NEW b \in Measured(Retested), Take(b) PROVE RunInv'
  <2>1. RowsOf(b) \subseteq Retested /\ b \in [Key -> 0 .. MaxScore]
    BY <1>3, MeasuredShape
  <2>2. Retested \subseteq Ours
    BY DEF Retested
  <2>3. ASSUME run = "after", ~disturbed, NEW k \in RowsOf(b) PROVE wrote[k] = 0
    <3>1. k \in KeysOf(rows) /\ ~rows[k].new
      BY <2>1, <2>3 DEF Retested
    <3>2. wrote[k] \in 0 .. 2 /\ ~(wrote[k] > 0)
      BY <2>3, <3>1 DEF RunInv, RunTypes, Fresh, KeysOf
    <3>. QED
      BY <3>2
  <2>. QED
    BY <1>1, <1>3, <2>1, <2>2, <2>3, Takes
<1>. QED
  BY <1>1, <1>2, <1>3, Fails DEF ReadIPs

(* What a transaction writes is new and has not been written before. *)
LEMMA ChunkKeeps ==
  ASSUME StoreInv, RunInv, WriteChunk
  PROVE  StoreInv' /\ RunInv'
<1> USE DEF RunInv
<1>1. PICK c \in Best(BatchSize, unwritten) :
        /\ Write([k \in Key |-> IF k \in c THEN [score |-> batch[k], new |-> TRUE] ELSE rows[k]])
        /\ unwritten' = unwritten \ c
        /\ wrote' = [k \in Key |-> IF k \in c /\ ~disturbed THEN Lesser(wrote[k] + 1, 2)
                                                           ELSE wrote[k]]
        /\ rewritten' = IF run = "collect" \/ disturbed THEN rewritten ELSE rewritten \cup c
  BY DEF WriteChunk
<1> DEFINE t == [k \in Key |-> IF k \in c THEN [score |-> batch[k], new |-> TRUE] ELSE rows[k]]
<1>2. UNCHANGED <<run, at, batch, excess, attempt, disturbed, outcome>> /\ at = "write"
  BY DEF WriteChunk
<1>3. c \subseteq unwritten /\ c \subseteq Ours /\ c \subseteq Key
  BY DEF Best, RunTypes, BatchIsOurs, Ours
<1>4. t \in Table
  <2>1. ASSUME NEW k \in c PROVE batch[k] \in 1 .. MaxScore
    <3>1. batch[k] \in 0 .. MaxScore /\ batch[k] # 0
      BY <1>3 DEF RunTypes, RowsOf
    <3>. QED
      BY <3>1, StoreAssumption
  <2>. QED
    BY <2>1 DEF Table, Row, StoreInv, StoreTypeOK
<1>5. StoreInv' /\ rows' = t
  BY <1>1, <1>4, WriteStores DEF Write, Commit
<1> HIDE DEF t
<1>6. \A k \in Key : /\ wrote'[k] \in 0 .. 2
                     /\ wrote'[k] = IF k \in c /\ ~disturbed THEN Lesser(wrote[k] + 1, 2)
                                                             ELSE wrote[k]
  BY <1>1 DEF RunTypes, Lesser
<1>7. RunTypes'
  BY <1>1, <1>2, <1>3, <1>6 DEF RunTypes, RowsOf, outcome
<1>8. Placed' /\ BatchIsOurs' /\ OutcomeIsOpen'
  BY <1>2 DEF Placed, BatchIsOurs, RowsOf, OutcomeIsOpen, outcome
<1>9. PublishedOrAlarmed'
  BY <1>2 DEF PublishedOrAlarmed, outcome
<1>10. ASSUME run \in {"collect", "after"}, ~disturbed
       PROVE  /\ \A k \in Key : wrote'[k] <= 1
              /\ \A k \in KeysOf(rows)' : wrote'[k] > 0 => rows'[k].new
              /\ \A k \in unwritten' : wrote'[k] = 0
  <2>1. \A k \in c : wrote[k] = 0 /\ wrote'[k] = 1 /\ rows'[k].new
    BY <1>2, <1>3, <1>5, <1>6, <1>10 DEF Fresh, Lesser, t
  <2>2. \A k \in Key \ c : wrote'[k] = wrote[k] /\ rows'[k] = rows[k]
    BY <1>5, <1>6 DEF t
  <2>3. unwritten \subseteq Key
    BY DEF RunTypes, RowsOf
  <2>4. \A k \in Key \ c : wrote[k] <= 1 /\ (k \in KeysOf(rows) /\ wrote[k] > 0 => rows[k].new)
    BY <1>10 DEF Fresh
  <2>5. \A k \in Key : wrote'[k] <= 1
    BY <2>1, <2>2, <2>4
  <2>6. \A k \in KeysOf(rows)' : wrote'[k] > 0 => rows'[k].new
    <3>1. TAKE k \in KeysOf(rows)'
    <3>2. k \in Key /\ rows'[k] # NoRow
      BY DEF KeysOf
    <3>3. CASE k \in c
      BY <2>1, <3>3
    <3>4. CASE k \notin c
      BY <2>2, <2>4, <3>2, <3>4 DEF KeysOf
    <3>. QED
      BY <3>3, <3>4
  <2>7. \A k \in unwritten' : wrote'[k] = 0
    BY <1>1, <1>2, <1>10, <2>2, <2>3 DEF Fresh
  <2>. QED
    BY <2>5, <2>6, <2>7
<1>11. Fresh'
  BY <1>2, <1>10 DEF Fresh
<1>. QED
  BY <1>5, <1>7, <1>8, <1>9, <1>11

(* The statements that go on to another one, whatever they delete *)
LEMMA ContinueRuns ==
  ASSUME RunInv, Sheds, at # "idle", NEW where, Continue(where),
         where \in Points \ {"idle", "write"},
         where \in CollectPoints => run = "collect",
         where \in PushPoints => run \in {"after", "push"},
         where \in BeforeWriting => at \in BeforeWriting
  PROVE  RunInv'
<1>1. excess \in Nat /\ attempt \in 0 .. MaxRetries
  BY DEF RunInv, RunTypes
<1>. QED
  BY <1>1, GoesOn DEF Continue, work

LEMMA CollectStepRuns ==
  ASSUME StoreInv, RunInv,
         FetchedNothing \/ Purge \/ VerifyPorts \/ PurgeAgain \/ CleanupOld \/ Report
  PROVE  RunInv'
<1> USE DEF Points, BeforeWriting, CollectPoints, PushPoints
<1>1. run = "collect" /\ at # "idle"
  BY DEF FetchedNothing, Purge, VerifyPorts, PurgeAgain, CleanupOld, Report, RunInv, Placed
<1>2. Sheds
  BY DropSheds DEF FetchedNothing, Purge, VerifyPorts, PurgeAgain, CleanupOld, Report
<1>3. \/ EndCollect
      \/ \E where \in {"verify", "select", "purge again"} : Continue(where) /\ at \in BeforeWriting
      \/ Continue("report")
  BY DEF FetchedNothing, Purge, VerifyPorts, PurgeAgain, CleanupOld, Report
<1>. QED
  BY <1>1, <1>2, <1>3, CollectEnds, ContinueRuns

LEMMA CountRuns ==
  ASSUME StoreInv, RunInv, CountRows
  PROVE  RunInv'
<1>1. Sheds /\ at # "idle" /\ run \in {"collect", "after", "push"}
  BY DropSheds DEF CountRows, RunInv, RunTypes, Placed
<1>2. Cardinality(KeysOf(rows)) \in Nat
  BY FS_Subset, FS_CardinalityType, StoreAssumption DEF KeysOf
<1>3. MaxDBSize \in Nat
  BY RunAssumption
<1>4. CASE /\ Cardinality(KeysOf(rows)) > MaxDBSize
           /\ excess' = Cardinality(KeysOf(rows)) - MaxDBSize
           /\ at' = "trim" /\ UNCHANGED <<run, batch, unwritten, attempt, ghosts, outcome>>
  <2>1. excess' \in Nat
    BY <1>2, <1>3, <1>4
  <2>2. attempt' \in 0 .. MaxRetries
    BY <1>4 DEF RunInv, RunTypes
  <2>. QED
    BY <1>1, <1>4, <2>1, <2>2, GoesOn DEF Points, BeforeWriting, CollectPoints, PushPoints
<1>5. CASE Continue(IF run = "collect" THEN "cleanup" ELSE "publish")
  BY <1>1, <1>5, ContinueRuns DEF Points, BeforeWriting, CollectPoints, PushPoints
<1>. QED
  BY <1>4, <1>5 DEF CountRows

LEMMA WriteStepRuns ==
  ASSUME StoreInv, RunInv, Written \/ WriteFails \/ Trim
  PROVE  RunInv'
<1> USE DEF Points, BeforeWriting, CollectPoints, PushPoints
<1>1. at # "idle" /\ run \in {"collect", "after", "push"}
  BY DEF Written, WriteFails, Trim, RunInv, RunTypes, Placed
<1>2. Sheds
  BY DropSheds DEF Written, WriteFails, Trim
<1>3. \/ Continue("count")
      \/ Failed
      \/ Continue(IF run = "collect" THEN "cleanup" ELSE "publish")
  BY DEF Written, WriteFails, Trim
<1>. QED
  BY <1>1, <1>2, <1>3, Fails, ContinueRuns

LEMMA PushStepRuns ==
  ASSUME StoreInv, RunInv, CheckCount \/ Publish
  PROVE  RunInv'
<1>0. /\ pushes = 0 /\ ~alarm /\ alarm \in BOOLEAN /\ published \subseteq Ours
      /\ excess \in Nat /\ at # "idle" /\ run \in {"after", "push"}
  BY DEF CheckCount, Publish, RunInv, RunTypes, Placed, OutcomeIsOpen
<1>1. Sheds
  BY DropSheds DEF CheckCount, Publish
<1>2. CASE CheckCount
  <2>1. CASE EndRun
    BY <1>0, <2>1, Ends DEF EndRun, outcome
  <2>2. CASE /\ at' = "read" /\ attempt' = 1
             /\ UNCHANGED <<run, batch, unwritten, excess, ghosts, outcome>>
    <3>1. 1 \in 0 .. MaxRetries
      BY RunAssumption
    <3>. QED
      BY <1>0, <1>1, <2>2, <3>1, GoesOn DEF Points, BeforeWriting, CollectPoints, PushPoints
  <2>. QED
    BY <1>2, <2>1, <2>2 DEF CheckCount
<1>3. CASE Publish
  <2>1. published' \subseteq Ours
    BY <1>3 DEF Publish, Best, RunInv, BatchIsOurs
  <2>2. pushes' = 1
    BY <1>0, <1>3 DEF Publish, Lesser
  <2>3. End /\ ~alarm' /\ alarm' \in BOOLEAN
    BY <1>0, <1>3 DEF Publish
  <2>. QED
    BY <1>0, <2>1, <2>2, <2>3, Ends
<1>. QED
  BY <1>2, <1>3

(* Every statement of a run keeps the database as it should be. *)
LEMMA RunStores ==
  ASSUME StoreInv, RunInv, RunStep
  PROVE  StoreInv'
<1>1. CASE CollectDue \/ PushDue
  BY <1>1, TimeStores DEF CollectDue, PushDue, Start
<1>2. CASE WriteChunk
  BY <1>2, ChunkKeeps
<1>3. CASE Purge \/ PurgeAgain \/ Trim \/ CleanupOld
  <2>1. Read \/ \E gone : Write(Drop(rows, gone))
    BY <1>3 DEF Purge, PurgeAgain, Trim, CleanupOld
  <2>. QED
    BY <2>1, ReadStores, WriteStores, DropSheds
<1>4. CASE FetchedNothing \/ VerifyPorts \/ Select \/ Written \/ WriteFails \/ CountRows
           \/ Report \/ CheckCount \/ ReadIPs \/ Publish
  BY <1>4, ReadStores DEF FetchedNothing, VerifyPorts, Select, Written, WriteFails, CountRows,
                          Report, CheckCount, ReadIPs, Publish
<1>. QED
  BY <1>1, <1>2, <1>3, <1>4 DEF RunStep

LEMMA RunRuns ==
  ASSUME StoreInv, RunInv, RunStep
  PROVE  RunInv'
BY Starts, CollectStepRuns, SelectRuns, ChunkKeeps, WriteStepRuns, CountRuns, PushStepRuns,
   ReadIPsRuns
   DEF RunStep

LEMMA DashboardKeeps ==
  ASSUME StoreInv, RunInv, Dashboard
  PROVE  StoreInv' /\ RunInv'
<1>1. StoreInv'
  <2>1. ASSUME NEW c \in SUBSET Ours, NEW scores \in [c -> 1 .. MaxScore],
               Write([k \in Key |->
                        IF k \in c THEN [score |-> scores[k], new |-> TRUE] ELSE rows[k]])
        PROVE  StoreInv'
    <3> DEFINE t == [k \in Key |-> IF k \in c THEN [score |-> scores[k], new |-> TRUE] ELSE rows[k]]
    <3>1. t \in Table
      BY DEF Table, Row, StoreInv, StoreTypeOK
    <3>. QED
      BY <2>1, <3>1, WriteStores
  <2>. QED
    BY <2>1, StepStores DEF Dashboard, JobWrites
<1> USE DEF RunInv
<1>2. /\ UNCHANGED <<run, at, batch, unwritten, excess, attempt, published, pushes, alarm>>
      /\ disturbed' = (disturbed \/ rows' # rows)
  BY DEF Dashboard, work, outcome
<1>3. /\ disturbed' \in BOOLEAN
      /\ ~disturbed' => ~disturbed /\ rows' = rows
  BY <1>2
<1>4. /\ wrote' \in {NoBatch, wrote} /\ rewritten' \in {{}, rewritten}
      /\ ~disturbed' => wrote' = wrote
  BY DEF Dashboard
<1>5. wrote' \in [Key -> 0 .. 2] /\ rewritten' \subseteq Ours
  BY <1>4, Nothing DEF RunTypes
<1>6. RunTypes'
  BY <1>2, <1>3, <1>5 DEF RunTypes, RowsOf
<1>7. Placed' /\ BatchIsOurs' /\ OutcomeIsOpen'
  BY <1>2 DEF Placed, BatchIsOurs, RowsOf, OutcomeIsOpen
<1>8. PublishedOrAlarmed'
  BY <1>2 DEF PublishedOrAlarmed
<1>9. Fresh'
  BY <1>2, <1>3, <1>4 DEF Fresh, KeysOf
<1>. QED
  BY <1>1, <1>6, <1>7, <1>8, <1>9

-----------------------------------------------------------------------------
LEMMA InitIInv == Init => IInv
<1> SUFFICES ASSUME Init PROVE IInv
  OBVIOUS
<1>1. StoreTypeOK
  <2>1. rows \in Table
    BY DEF Init, StoreInit, Table, Row
  <2>. QED
    BY <2>1, StoreAssumption DEF Init, StoreInit, StoreTypeOK, Second
<1>2. (\A h \in Handler : CapturedBy(h)) /\ ClearIsRecoverable
  BY DEF Init, StoreInit, CapturedBy, ClearIsRecoverable
<1>3. RunTypes
  <2>1. wrote \in [Key -> 0 .. 2] /\ batch \in [Key -> 0 .. MaxScore]
    BY Nothing DEF Init
  <2>2. excess \in Nat /\ attempt \in 0 .. MaxRetries /\ pushes \in 0 .. 2
    BY Nothing DEF Init
  <2>3. disturbed \in BOOLEAN /\ alarm \in BOOLEAN
    BY DEF Init
  <2>. QED
    BY <2>1, <2>2, <2>3 DEF Init, RunTypes, Points
<1>4. Placed /\ BatchIsOurs /\ OutcomeIsOpen /\ Fresh
  BY Nothing DEF Init, Placed, BatchIsOurs, OutcomeIsOpen, Fresh
<1>5. PublishedOrAlarmed
  BY DEF Init, PublishedOrAlarmed
<1>. QED
  BY <1>1, <1>2, <1>3, <1>4, <1>5 DEF IInv, StoreInv, RunInv

LEMMA NextIInv == IInv /\ [Next]_vars => IInv'
<1> SUFFICES ASSUME IInv, [Next]_vars PROVE IInv'
  OBVIOUS
<1> USE DEF IInv
<1>1. CASE RunStep
  BY <1>1, RunStores, RunRuns
<1>2. CASE Dashboard
  BY <1>2, DashboardKeeps
<1>3. CASE UNCHANGED vars
  <2>1. StoreInv'
    BY <1>3 DEF vars, storeVars, store, files, handler, StoreInv, StoreTypeOK, CapturedBy,
                ClearIsRecoverable
  <2>2. RunInv'
    BY <1>3 DEF vars, storeVars, store, runVars, work, outcome, ghosts, RunInv, RunTypes, RowsOf,
                Placed, BatchIsOurs, OutcomeIsOpen, PublishedOrAlarmed, Fresh, KeysOf
  <2>. QED
    BY <2>1, <2>2
<1>. QED
  BY <1>1, <1>2, <1>3 DEF Next

THEOREM Inductive == Spec => []IInv
BY InitIInv, NextIInv, PTL DEF Spec

-----------------------------------------------------------------------------
(* Every variable of the runs and of the database keeps to its type. *)
THEOREM TypeCorrect == Spec => []TypeOK
<1>1. IInv => TypeOK
  BY DEF IInv, StoreInv, RunInv, RunTypes, Placed, TypeOK
<1>. QED
  BY <1>1, Inductive, PTL

(***************************************************************************)
(* A run publishes once at most, whatever it tries again, and an alarm     *)
(* means that it has published nothing, for any number of retries.         *)
(***************************************************************************)
THEOREM PublishedOnce == Spec => []PublishedOrAlarmed
<1>1. IInv => PublishedOrAlarmed
  BY DEF IInv, RunInv
<1>. QED
  BY <1>1, Inductive, PTL

(***************************************************************************)
(* From the start of a collection to the end of its push no row is written *)
(* twice, for any set of addresses, any size of a batch and any number of  *)
(* retries.                                                                *)
(***************************************************************************)
THEOREM NothingTwice == Spec => []WrittenOnce
<1>1. IInv => WrittenOnce
  BY DEF IInv, RunInv, Fresh, WrittenOnce
<1>. QED
  BY <1>1, Inductive, PTL

(***************************************************************************)
(* A clear that nobody has interfered with has left a backup of every row  *)
(* it deleted, for any number of requests at a time.                       *)
(***************************************************************************)
THEOREM Recoverable == Spec => []ClearIsRecoverable
<1>1. IInv => ClearIsRecoverable
  BY DEF IInv, StoreInv
<1>. QED
  BY <1>1, Inductive, PTL
=============================================================================
