-------------------------- MODULE SlidingWindowProofs --------------------------
(*****************************************************************************)
(* What the proofs about the retry budget and the breaker need to know of    *)
(* their rings of buckets: what a sum over a finite set computes, and where  *)
(* in the ring a time falls.                                                 *)
(*                                                                           *)
(* The library defines a sum as a fold, a recursive function on the subsets  *)
(* of the index set.  Each fact about it is proved by induction on subsets,  *)
(* which SubsetInduction draws from the strict subset order being            *)
(* well-founded.                                                             *)
(*****************************************************************************)
EXTENDS SlidingWindow, FiniteSetTheorems, TLAPS

Chosen(S) == CHOOSE x \in S : TRUE

\* g is the recursive function whose value at S is the sum of f over S.
SumsOn(f, S, g) ==
  g = [T \in SUBSET S |->
         IF T = {} THEN 0 ELSE f[Chosen(T)] + g[T \ {Chosen(T)}]]

-------------------------------------------------------------------------------
(* The recursive function exists. *)

\* Induction over the subsets of a finite set: what is in Good as soon as its
\* strict subsets are, is in Good.
LEMMA SubsetInduction ==
  ASSUME NEW S, IsFiniteSet(S), NEW Good,
         \A T \in SUBSET S :
           (\A U \in SUBSET T : U # T => U \in Good) => T \in Good
  PROVE  \A T \in SUBSET S : T \in Good
<1> DEFINE Bad == {T \in SUBSET S : T \notin Good}
<1>1. SUFFICES ASSUME Bad # {} PROVE FALSE
  OBVIOUS
<1>2. IsWellFoundedOn(StrictSubsetOrdering(S), SUBSET S)
  BY FS_StrictSubsetOrderingWellFounded, FS_FiniteSubsetsOfFinite
<1>3. Bad \subseteq SUBSET S
  OBVIOUS
<1>4. PICK T \in Bad : \A U \in Bad : <<U, T>> \notin StrictSubsetOrdering(S)
  <2> HIDE DEF Bad
  <2> QED BY <1>1, <1>2, <1>3, WFMin
<1>5. ASSUME NEW U \in SUBSET T, U # T PROVE U \in Good
  <2>1. <<U, T>> \in (SUBSET S) \X (SUBSET S)
    BY <1>5
  <2>2. <<U, T>> \in StrictSubsetOrdering(S)
    BY <1>5, <2>1 DEF StrictSubsetOrdering
  <2> QED BY <1>4, <1>5, <2>1, <2>2
<1> QED BY <1>4, <1>5

LEMMA SumUnfold ==
  ASSUME NEW f, NEW S
  PROVE  SumFunctionOnSet(f, S) = (CHOOSE g : SumsOn(f, S, g))[S]
BY DEF SumFunctionOnSet, FoldFunctionOnSet, MapThenFoldSet, SumsOn, Chosen

LEMMA ChosenIn == \A S : S # {} => Chosen(S) \in S
BY DEF Chosen

LEMMA SumsOnUnique ==
  ASSUME NEW f, NEW S, NEW T, IsFiniteSet(S),
         NEW g, SumsOn(f, S, g), NEW h, SumsOn(f, T, h),
         NEW U, U \subseteq S, U \subseteq T
  PROVE  g[U] = h[U]
<1> DEFINE Good == {V \in SUBSET (S \cap T) : g[V] = h[V]}
<1>1. IsFiniteSet(S \cap T)
  BY FS_Subset
<1>2. ASSUME NEW V \in SUBSET (S \cap T),
             \A W \in SUBSET V : W # V => W \in Good
      PROVE  V \in Good
  <2>1. CASE V = {}
    BY <2>1 DEF SumsOn
  <2>2. CASE V # {}
    <3>1. V \ {Chosen(V)} \in Good
      BY <1>2, <2>2, ChosenIn
    <3>2. g[V] = f[Chosen(V)] + g[V \ {Chosen(V)}]
      BY <2>2 DEF SumsOn
    <3>3. h[V] = f[Chosen(V)] + h[V \ {Chosen(V)}]
      BY <2>2 DEF SumsOn
    <3> QED BY <3>1, <3>2, <3>3
  <2> QED BY <2>1, <2>2
<1>3. \A V \in SUBSET (S \cap T) : V \in Good
  <2> HIDE DEF Good
  <2> QED BY <1>1, <1>2, SubsetInduction
<1> QED BY <1>3

LEMMA SumsOnExists ==
  ASSUME NEW f, NEW S, IsFiniteSet(S)
  PROVE  \E g : SumsOn(f, S, g)
<1> DEFINE Good == {T \in SUBSET S : \E g : SumsOn(f, T, g)}
<1>1. ASSUME NEW T \in SUBSET S,
             \A R \in SUBSET T : R # T => R \in Good
      PROVE  T \in Good
  <2> DEFINE Sm(U) == SumFunctionOnSet(f, U)
             g == [U \in SUBSET T |->
                     IF U = {} THEN 0 ELSE f[Chosen(U)] + Sm(U \ {Chosen(U)})]
             h(U) == CHOOSE k : SumsOn(f, U, k)
  <2>1. ASSUME NEW U \in SUBSET T, U # {}
        PROVE  g[U \ {Chosen(U)}] = Sm(U \ {Chosen(U)})
    <3> DEFINE W == U \ {Chosen(U)}
    <3>1. W \in SUBSET T /\ W # T /\ IsFiniteSet(W)
      BY <2>1, ChosenIn, FS_Subset
    <3>2. SumsOn(f, W, h(W)) /\ Sm(W) = h(W)[W]
      BY <1>1, <3>1, SumUnfold
    <3>3. CASE W = {}
      <4>1. h(W)[W] = 0
        BY <3>2, <3>3 DEF SumsOn
      <4> QED BY <4>1, <3>1, <3>2, <3>3
    <3>4. CASE W # {}
      <4> DEFINE X == W \ {Chosen(W)}
      <4>1. X \in SUBSET T /\ X # T /\ X \subseteq W
        BY <3>1
      <4>2. SumsOn(f, X, h(X)) /\ Sm(X) = h(X)[X]
        BY <1>1, <4>1, SumUnfold
      <4>3. h(W)[X] = h(X)[X]
        BY <3>1, <3>2, <4>1, <4>2, SumsOnUnique
      <4>4. h(W)[W] = f[Chosen(W)] + h(W)[X]
        BY <3>2, <3>4 DEF SumsOn
      <4>5. g[W] = f[Chosen(W)] + Sm(X)
        BY <3>1, <3>4
      <4> QED BY <3>2, <4>2, <4>3, <4>4, <4>5
    <3> QED BY <3>3, <3>4
  <2>2. SumsOn(f, T, g)
    BY <2>1 DEF SumsOn
  <2> QED BY <2>2
<1>2. \A T \in SUBSET S : T \in Good
  <2> HIDE DEF Good
  <2> QED BY <1>1, SubsetInduction
<1> QED BY <1>2

\* A sum over a finite set is 0, or one member's value and the sum of the rest.
LEMMA SumRec ==
  ASSUME NEW f, NEW S, IsFiniteSet(S)
  PROVE  SumFunctionOnSet(f, S) =
           IF S = {} THEN 0
           ELSE f[Chosen(S)] + SumFunctionOnSet(f, S \ {Chosen(S)})
<1> DEFINE h(U) == CHOOSE k : SumsOn(f, U, k)
           W == S \ {Chosen(S)}
<1>1. SumsOn(f, S, h(S)) /\ SumsOn(f, W, h(W))
  BY SumsOnExists, FS_Subset
<1>2. h(S)[W] = h(W)[W]
  BY <1>1, SumsOnUnique
<1>3. h(S)[S] = IF S = {} THEN 0 ELSE f[Chosen(S)] + h(S)[W]
  BY <1>1 DEF SumsOn
<1>4. SumFunctionOnSet(f, S) = h(S)[S] /\ SumFunctionOnSet(f, W) = h(W)[W]
  BY SumUnfold
<1> QED BY <1>2, <1>3, <1>4

-------------------------------------------------------------------------------
(* Sums of integers.  f is a function, or a record, with integer values on S. *)

LEMMA SumEmpty == \A f : SumFunctionOnSet(f, {}) = 0
BY SumRec, FS_EmptySet

LEMMA SumType ==
  ASSUME NEW f, NEW S, IsFiniteSet(S), \A x \in S : f[x] \in Int
  PROVE  SumFunctionOnSet(f, S) \in Int
<1> DEFINE Good == {T \in SUBSET S : SumFunctionOnSet(f, T) \in Int}
<1>1. ASSUME NEW T \in SUBSET S,
             \A R \in SUBSET T : R # T => R \in Good
      PROVE  T \in Good
  <2>1. CASE T = {}
    BY <2>1, SumEmpty
  <2>2. CASE T # {}
    <3>1. Chosen(T) \in T /\ T \ {Chosen(T)} \in Good
      BY <1>1, <2>2, ChosenIn
    <3>2. SumFunctionOnSet(f, T)
            = f[Chosen(T)] + SumFunctionOnSet(f, T \ {Chosen(T)})
      BY <2>2, SumRec, FS_Subset
    <3> QED BY <3>1, <3>2
  <2> QED BY <2>1, <2>2
<1>2. \A T \in SUBSET S : T \in Good
  <2> HIDE DEF Good
  <2> QED BY <1>1, SubsetInduction
<1> QED BY <1>2

\* The order in which the fold takes the members does not matter.
LEMMA SumPick ==
  ASSUME NEW f, NEW S, IsFiniteSet(S), \A x \in S : f[x] \in Int,
         NEW x \in S
  PROVE  SumFunctionOnSet(f, S) = f[x] + SumFunctionOnSet(f, S \ {x})
<1> DEFINE Sm(T) == SumFunctionOnSet(f, T)
           Good == {T \in SUBSET S : \A y \in T : Sm(T) = f[y] + Sm(T \ {y})}
<1>1. ASSUME NEW T \in SUBSET S,
             \A R \in SUBSET T : R # T => R \in Good
      PROVE  T \in Good
  <2> SUFFICES ASSUME NEW y \in T PROVE Sm(T) = f[y] + Sm(T \ {y})
    OBVIOUS
  <2> DEFINE c == Chosen(T)
  <2>1. c \in T
    BY ChosenIn
  <2>2. Sm(T) = f[c] + Sm(T \ {c})
    BY SumRec, FS_Subset
  <2>3. CASE y # c
    <3>1. T \ {c} \in Good /\ T \ {y} \in Good
      BY <1>1, <2>1
    <3>2. Sm(T \ {c}) = f[y] + Sm((T \ {c}) \ {y})
      BY <2>3, <3>1
    <3>3. Sm(T \ {y}) = f[c] + Sm((T \ {y}) \ {c})
      BY <2>1, <2>3, <3>1
    <3>4. (T \ {c}) \ {y} = (T \ {y}) \ {c}
      OBVIOUS
    <3>5. Sm((T \ {c}) \ {y}) \in Int /\ f[y] \in Int /\ f[c] \in Int
      BY <2>1, SumType, FS_Subset
    <3>6. Sm(T) = f[c] + (f[y] + Sm((T \ {c}) \ {y}))
      BY <2>2, <3>2
    <3>7. Sm(T \ {y}) = f[c] + Sm((T \ {c}) \ {y})
      BY <3>3, <3>4
    <3>8. \A a, b, s \in Int : a + (b + s) = b + (a + s)
      OBVIOUS
    <3> HIDE DEF Sm, Good, c
    <3> QED BY <3>5, <3>6, <3>7, <3>8
  <2> QED BY <2>2, <2>3
<1>2. \A T \in SUBSET S : T \in Good
  <2> HIDE DEF Good
  <2> QED BY <1>1, SubsetInduction
<1> QED BY <1>2

\* A sum depends on the values at the members alone, and grows with them.
LEMMA SumMonotone ==
  ASSUME NEW f, NEW g, NEW S, IsFiniteSet(S),
         \A x \in S : f[x] \in Int /\ g[x] \in Int /\ f[x] <= g[x]
  PROVE  SumFunctionOnSet(f, S) <= SumFunctionOnSet(g, S)
<1> DEFINE F(T) == SumFunctionOnSet(f, T)
           G(T) == SumFunctionOnSet(g, T)
           Good == {T \in SUBSET S : F(T) <= G(T)}
<1>1. ASSUME NEW T \in SUBSET S,
             \A R \in SUBSET T : R # T => R \in Good
      PROVE  T \in Good
  <2>1. CASE T = {}
    BY <2>1, SumEmpty
  <2>2. CASE T # {}
    <3> DEFINE c == Chosen(T)
    <3>1. c \in T /\ T \ {c} \in Good
      BY <1>1, <2>2, ChosenIn
    <3>2. F(T) = f[c] + F(T \ {c}) /\ G(T) = g[c] + G(T \ {c})
      BY <2>2, SumRec, FS_Subset
    <3>3. F(T \ {c}) \in Int /\ G(T \ {c}) \in Int
      BY SumType, FS_Subset
    <3>4. F(T \ {c}) <= G(T \ {c}) /\ f[c] \in Int /\ g[c] \in Int /\ f[c] <= g[c]
      BY <3>1
    <3> HIDE DEF F, G, c
    <3>5. F(T) <= G(T)
      BY <3>2, <3>3, <3>4
    <3> QED BY <3>5
  <2> QED BY <2>1, <2>2
<1>2. \A T \in SUBSET S : T \in Good
  <2> HIDE DEF Good
  <2> QED BY <1>1, SubsetInduction
<1> QED BY <1>2

LEMMA SumEqual ==
  ASSUME NEW f, NEW g, NEW S, IsFiniteSet(S),
         \A x \in S : f[x] \in Int /\ f[x] = g[x]
  PROVE  SumFunctionOnSet(f, S) = SumFunctionOnSet(g, S)
<1>1. SumFunctionOnSet(f, S) <= SumFunctionOnSet(g, S)
  BY SumMonotone
<1>2. SumFunctionOnSet(g, S) <= SumFunctionOnSet(f, S)
  BY SumMonotone
<1>3. SumFunctionOnSet(f, S) \in Int /\ SumFunctionOnSet(g, S) \in Int
  BY SumType
<1> QED BY <1>1, <1>2, <1>3

\* A constant 0 sums to 0.
LEMMA SumZero ==
  ASSUME NEW f, NEW S, IsFiniteSet(S), \A x \in S : f[x] = 0
  PROVE  SumFunctionOnSet(f, S) = 0
<1> DEFINE Good == {T \in SUBSET S : SumFunctionOnSet(f, T) = 0}
<1>1. ASSUME NEW T \in SUBSET S,
             \A R \in SUBSET T : R # T => R \in Good
      PROVE  T \in Good
  <2>1. CASE T = {}
    BY <2>1, SumEmpty
  <2>2. CASE T # {}
    <3>1. Chosen(T) \in T /\ T \ {Chosen(T)} \in Good
      BY <1>1, <2>2, ChosenIn
    <3>2. SumFunctionOnSet(f, T)
            = f[Chosen(T)] + SumFunctionOnSet(f, T \ {Chosen(T)})
      BY <2>2, SumRec, FS_Subset
    <3> QED BY <3>1, <3>2
  <2> QED BY <2>1, <2>2
<1>2. \A T \in SUBSET S : T \in Good
  <2> HIDE DEF Good
  <2> QED BY <1>1, SubsetInduction
<1> QED BY <1>2

\* The sum of two disjoint sets.
LEMMA SumUnion ==
  ASSUME NEW f, NEW S, NEW T, IsFiniteSet(S), IsFiniteSet(T), S \cap T = {},
         \A x \in S \cup T : f[x] \in Int
  PROVE  SumFunctionOnSet(f, S \cup T)
           = SumFunctionOnSet(f, S) + SumFunctionOnSet(f, T)
<1> DEFINE Sm(U) == SumFunctionOnSet(f, U)
           Good == {U \in SUBSET S : Sm(U \cup T) = Sm(U) + Sm(T)}
<1>0. Sm(T) \in Int
  BY SumType
<1>1. ASSUME NEW U \in SUBSET S,
             \A V \in SUBSET U : V # U => V \in Good
      PROVE  U \in Good
  <2>1. CASE U = {}
    <3>1. Sm(U) = 0 /\ U \cup T = T
      BY <2>1, SumEmpty
    <3> HIDE DEF Sm
    <3> QED BY <1>0, <3>1
  <2>2. CASE U # {}
    <3> DEFINE c == Chosen(U)
    <3>1. c \in U /\ U \ {c} \in Good /\ c \notin T /\ f[c] \in Int
      BY <1>1, <2>2, ChosenIn
    <3>2. Sm(U) = f[c] + Sm(U \ {c})
      BY <2>2, SumRec, FS_Subset
    <3>3. IsFiniteSet(U \cup T)
      BY FS_Subset, FS_Union
    <3>4. Sm(U \cup T) = f[c] + Sm((U \cup T) \ {c})
      <4> HIDE DEF c
      <4> QED BY <3>1, <3>3, SumPick
    <3>5. (U \cup T) \ {c} = (U \ {c}) \cup T
      BY <3>1
    <3>6. Sm(U \ {c}) \in Int
      BY SumType, FS_Subset
    <3>7. Sm((U \ {c}) \cup T) = Sm(U \ {c}) + Sm(T)
      BY <3>1
    <3>8. \A a, r, t \in Int : a + (r + t) = (a + r) + t
      OBVIOUS
    <3>9. Sm(U \cup T) = Sm(U) + Sm(T)
      <4>1. Sm(U \cup T) = f[c] + (Sm(U \ {c}) + Sm(T))
        BY <3>4, <3>5, <3>7
      <4> HIDE DEF Sm, c, Good
      <4> QED BY <1>0, <3>1, <3>2, <3>6, <3>8, <4>1
    <3> QED BY <3>9
  <2> QED BY <2>1, <2>2
<1>2. \A U \in SUBSET S : U \in Good
  <2> HIDE DEF Good
  <2> QED BY <1>1, SubsetInduction
<1> QED BY <1>2

LEMMA SumNat ==
  ASSUME NEW f, NEW S, IsFiniteSet(S), \A x \in S : f[x] \in Nat
  PROVE  SumFunctionOnSet(f, S) \in Nat
<1> DEFINE z == [x \in S |-> 0]
<1>1. SumFunctionOnSet(z, S) = 0
  BY SumZero
<1>2. SumFunctionOnSet(z, S) <= SumFunctionOnSet(f, S)
  BY SumMonotone
<1>3. SumFunctionOnSet(f, S) \in Int
  BY SumType
<1> HIDE DEF z
<1> QED BY <1>1, <1>2, <1>3

\* Counting fewer events counts no more of them.
LEMMA SumSubset ==
  ASSUME NEW f, NEW S, NEW T, IsFiniteSet(S), T \subseteq S,
         \A x \in S : f[x] \in Nat
  PROVE  SumFunctionOnSet(f, T) <= SumFunctionOnSet(f, S)
<1>1. IsFiniteSet(T) /\ IsFiniteSet(S \ T) /\ T \cap (S \ T) = {}
  BY FS_Subset
<1>2. SumFunctionOnSet(f, T) \in Nat /\ SumFunctionOnSet(f, S \ T) \in Nat
  BY <1>1, SumNat
<1>3. T \cup (S \ T) = S
  OBVIOUS
<1>4. SumFunctionOnSet(f, T \cup (S \ T))
        = SumFunctionOnSet(f, T) + SumFunctionOnSet(f, S \ T)
  BY <1>1, SumUnion
<1>5. SumFunctionOnSet(f, S)
        = SumFunctionOnSet(f, T) + SumFunctionOnSet(f, S \ T)
  BY <1>3, <1>4, Zenon
<1> QED BY <1>2, <1>5

\* A member of value 0 may be left out.
LEMMA SumSupport ==
  ASSUME NEW f, NEW S, NEW T, IsFiniteSet(S), T \subseteq S,
         \A x \in S : f[x] \in Int, \A x \in S \ T : f[x] = 0
  PROVE  SumFunctionOnSet(f, S) = SumFunctionOnSet(f, T)
<1>1. IsFiniteSet(T) /\ IsFiniteSet(S \ T) /\ T \cap (S \ T) = {}
  BY FS_Subset
<1>2. SumFunctionOnSet(f, T) \in Int
  BY <1>1, SumType
<1>3. SumFunctionOnSet(f, S \ T) = 0
  BY <1>1, SumZero
<1>4. T \cup (S \ T) = S
  OBVIOUS
<1>5. SumFunctionOnSet(f, T \cup (S \ T))
        = SumFunctionOnSet(f, T) + SumFunctionOnSet(f, S \ T)
  BY <1>1, SumUnion
<1>6. SumFunctionOnSet(f, S)
        = SumFunctionOnSet(f, T) + SumFunctionOnSet(f, S \ T)
  BY <1>4, <1>5, Zenon
<1> QED BY <1>2, <1>3, <1>6

\* One more event at x is one more in every sum that counts x.
LEMMA SumBump ==
  ASSUME NEW f, NEW g, NEW S, IsFiniteSet(S), NEW x \in S, NEW k \in Int,
         \A y \in S : f[y] \in Int /\ g[y] \in Int,
         g[x] = f[x] + k, \A y \in S \ {x} : g[y] = f[y]
  PROVE  SumFunctionOnSet(g, S) = SumFunctionOnSet(f, S) + k
<1>1. SumFunctionOnSet(g, S) = g[x] + SumFunctionOnSet(g, S \ {x})
  BY SumPick
<1>2. SumFunctionOnSet(f, S) = f[x] + SumFunctionOnSet(f, S \ {x})
  BY SumPick
<1>3. IsFiniteSet(S \ {x})
  BY FS_Subset
<1>4. SumFunctionOnSet(g, S \ {x}) = SumFunctionOnSet(f, S \ {x})
  BY <1>3, SumEqual
<1>5. SumFunctionOnSet(f, S \ {x}) \in Int
  BY <1>3, SumType
<1> QED BY <1>1, <1>2, <1>4, <1>5

\* Counting bucket by bucket: when C gives each member of S the part of the
\* domain it stands for, and these parts are disjoint, summing the parts' sums
\* sums their union.
LEMMA SumFamily ==
  ASSUME NEW f, NEW D, IsFiniteSet(D), \A x \in D : f[x] \in Int,
         NEW S, IsFiniteSet(S), NEW C, \A i \in S : C[i] \subseteq D,
         \A i, j \in S : i # j => C[i] \cap C[j] = {},
         NEW g, \A i \in S : g[i] = SumFunctionOnSet(f, C[i]),
         NEW U, U = UNION {C[i] : i \in S}
  PROVE  SumFunctionOnSet(g, S) = SumFunctionOnSet(f, U)
<1> DEFINE Parts(T) == UNION {C[i] : i \in T}
           Good == {T \in SUBSET S : SumFunctionOnSet(g, T)
                                       = SumFunctionOnSet(f, Parts(T))}
<1>0. \A T \in SUBSET S : IsFiniteSet(T) /\ Parts(T) \subseteq D
                            /\ IsFiniteSet(Parts(T))
  <2> SUFFICES ASSUME NEW T \in SUBSET S
               PROVE  IsFiniteSet(T) /\ Parts(T) \subseteq D
                        /\ IsFiniteSet(Parts(T))
    OBVIOUS
  <2>1. Parts(T) \subseteq D
    OBVIOUS
  <2> HIDE DEF Parts
  <2> QED BY <2>1, FS_Subset
<1>1. ASSUME NEW T \in SUBSET S,
             \A R \in SUBSET T : R # T => R \in Good
      PROVE  T \in Good
  <2>1. CASE T = {}
    <3>1. Parts(T) = {}
      BY <2>1
    <3> QED BY <2>1, <3>1, SumEmpty
  <2>2. CASE T # {}
    <3> DEFINE c == Chosen(T)
    <3>1. c \in T /\ T \ {c} \in Good
      BY <1>1, <2>2, ChosenIn
    <3>2. SumFunctionOnSet(g, T) = g[c] + SumFunctionOnSet(g, T \ {c})
      BY <1>0, <2>2, SumRec
    <3>3. Parts(T) = C[c] \cup Parts(T \ {c}) /\ C[c] \cap Parts(T \ {c}) = {}
      BY <3>1
    <3>4. IsFiniteSet(C[c]) /\ IsFiniteSet(Parts(T \ {c}))
      <4>1. C[c] \subseteq D
        BY <3>1
      <4>2. T \ {c} \in SUBSET S
        BY <3>1
      <4> QED BY <1>0, <4>1, <4>2, FS_Subset
    <3>5. \A x \in C[c] \cup Parts(T \ {c}) : f[x] \in Int
      BY <3>1
    <3>6. SumFunctionOnSet(f, C[c] \cup Parts(T \ {c}))
            = SumFunctionOnSet(f, C[c]) + SumFunctionOnSet(f, Parts(T \ {c}))
      <4> HIDE DEF Parts, c
      <4> QED BY <3>3, <3>4, <3>5, SumUnion
    <3>7. g[c] = SumFunctionOnSet(f, C[c])
      BY <3>1
    <3>8. SumFunctionOnSet(g, T \ {c}) = SumFunctionOnSet(f, Parts(T \ {c}))
      BY <3>1
    <3>9. SumFunctionOnSet(g, T) = SumFunctionOnSet(f, Parts(T))
      <4> HIDE DEF Parts, c
      <4> QED BY <3>2, <3>3, <3>6, <3>7, <3>8
    <3> QED BY <3>9
  <2> QED BY <2>1, <2>2
<1>2. \A T \in SUBSET S : T \in Good
  <2> HIDE DEF Good
  <2> QED BY <1>1, SubsetInduction
<1> QED BY <1>2

-------------------------------------------------------------------------------
(* Where a time falls in the ring. *)

\* Integer division, for Width and for the ring's number of slots.
LEMMA DivMod ==
  \A a \in Int, b \in Nat \ {0} :
    a = b * (a \div b) + (a % b) /\ a % b \in 0 .. b - 1 /\ a \div b \in Int
OBVIOUS

LEMMA TimesStep == \A w \in Nat, a, b \in Int : a + 1 <= b => w * a + w <= w * b
<1> SUFFICES ASSUME NEW w \in Nat, NEW a \in Int, NEW b \in Int, a + 1 <= b
             PROVE  w * a + w <= w * b
  OBVIOUS
<1>1. PICK d \in Nat : b = a + 1 + d
  <2>1. b - a - 1 \in Nat
    OBVIOUS
  <2> QED BY <2>1
<1>2. w * b = w * a + w + w * d
  BY <1>1
<1>3. w * d \in Nat
  OBVIOUS
<1> QED BY <1>2, <1>3

LEMMA WidthType == Width \in Nat \ {0} /\ NumBuckets * Width <= WindowLen
<1>1. WindowLen = NumBuckets * (WindowLen \div NumBuckets)
                    + (WindowLen % NumBuckets)
  /\ WindowLen % NumBuckets \in 0 .. NumBuckets - 1
  /\ WindowLen \div NumBuckets \in Int
  BY DivMod, WindowAssumption
<1> QED BY <1>1, WindowAssumption DEF Width

LEMMA RingFinite == IsFiniteSet(Slots)
BY FS_Interval, WindowAssumption DEF Slots

\* A time falls in a slot of the ring, less than one bucket after its start.
LEMMA SlotAndStart ==
  ASSUME NEW t \in Int
  PROVE  /\ SlotOf(t) \in Slots
         /\ StartOf(t) \in Int
         /\ t - Width < StartOf(t) /\ StartOf(t) <= t
<1>1. t \div Width \in Int /\ (t + EpochShift) % Width \in 0 .. Width - 1
  BY DivMod, WidthType, WindowAssumption
<1>2. (t \div Width) % NumBuckets \in 0 .. NumBuckets - 1
  BY <1>1, DivMod, WindowAssumption
<1> QED BY <1>1, <1>2, WidthType DEF SlotOf, StartOf, Slots

\* Buckets start in the order of their times.
LEMMA StartMonotone ==
  ASSUME NEW s \in Int, NEW t \in Int, s <= t
  PROVE  StartOf(s) <= StartOf(t)
<1> DEFINE a == (s + EpochShift) \div Width
           b == (t + EpochShift) \div Width
<1>1. /\ a \in Int /\ b \in Int
      /\ StartOf(s) = Width * a - EpochShift
      /\ StartOf(t) = Width * b - EpochShift
      /\ Width * b - EpochShift \in Int
      /\ StartOf(s) <= s /\ t < StartOf(t) + Width
  <2>1. s + EpochShift \in Int /\ t + EpochShift \in Int
    BY WindowAssumption
  <2>2. s + EpochShift = Width * a + ((s + EpochShift) % Width) /\ a \in Int
    BY <2>1, DivMod, WidthType
  <2>3. t + EpochShift = Width * b + ((t + EpochShift) % Width) /\ b \in Int
    BY <2>1, DivMod, WidthType
  <2>4. Width * a \in Int /\ Width * b \in Int
    BY <2>2, <2>3, WidthType
  <2> QED BY <2>1, <2>2, <2>3, <2>4, SlotAndStart, WindowAssumption, WidthType
          DEF StartOf
<1>2. a <= b
  <2> SUFFICES ASSUME b + 1 <= a PROVE FALSE
    BY <1>1
  <2>1. Width * b + Width <= Width * a
    BY <1>1, TimesStep, WidthType
  <2> HIDE DEF a, b
  <2> QED BY <1>1, <2>1, WidthType, WindowAssumption
<1>3. Width * a <= Width * b
  <2>1. CASE a = b
    BY <2>1, <1>1, WidthType
  <2>2. CASE a + 1 <= b
    <3>1. Width * a + Width <= Width * b
      BY <1>1, <2>2, TimesStep, WidthType
    <3>2. Width * a \in Int /\ Width * b \in Int
      BY <1>1, WidthType
    <3> HIDE DEF a, b
    <3> QED BY <3>1, <3>2, WidthType
  <2> QED BY <1>1, <1>2, <2>1, <2>2
<1>4. Width * a \in Int /\ Width * b \in Int
  BY <1>1, WidthType
<1> HIDE DEF a, b
<1> QED BY <1>1, <1>3, <1>4, WindowAssumption

LEMMA StartInPast ==
  ASSUME EpochShift = 0, NEW t \in Nat
  PROVE  StartOf(t) \in 0 .. t
<1>1. StartOf(0) = 0
  <2>1. 0 % Width = 0
    BY WidthType
  <2> QED BY <2>1 DEF StartOf
<1>2. StartOf(0) <= StartOf(t)
  BY StartMonotone
<1> QED BY <1>1, <1>2, SlotAndStart

\* The zero time lies before the bucket of any tick and in no window.
LEMMA ZeroTimeIsEarlier ==
  /\ ZeroTime \in Int
  /\ \A t \in Nat : ZeroTime < StartOf(t) /\ ~InWindow(ZeroTime, t)
<1>1. Width <= NumBuckets * Width
  <2>1. PICK k \in Nat : NumBuckets = 1 + k
    <3>1. NumBuckets - 1 \in Nat
      BY WindowAssumption
    <3> QED BY <3>1, WindowAssumption
  <2>2. NumBuckets * Width = Width + k * Width /\ k * Width \in Nat
    BY <2>1, WidthType
  <2> QED BY <2>2, WidthType
<1>2. ZeroTime \in Int /\ ZeroTime <= -Width
  <2>1. NumBuckets * Width \in Int
    BY WidthType, WindowAssumption
  <2> QED BY <1>1, <2>1, WidthType, WindowAssumption DEF ZeroTime
<1>3. \A t \in Nat : StartOf(t) \in Int /\ -Width < StartOf(t)
  BY SlotAndStart, WidthType
<1>4. \A t \in Nat : ~InWindow(ZeroTime, t)
  BY WindowAssumption DEF ZeroTime, InWindow
<1> QED BY <1>2, <1>3, <1>4, WidthType

\* When the slots and the starts count from the same zero, a later bucket in
\* the same slot starts at least a whole turn of the ring later.
LEMMA WholeTurn ==
  ASSUME EpochShift = 0, NEW s \in Int, NEW t \in Int,
         SlotOf(s) = SlotOf(t), StartOf(s) < StartOf(t)
  PROVE  StartOf(s) + NumBuckets * Width <= StartOf(t)
<1> DEFINE a == s \div Width
           b == t \div Width
           c == a \div NumBuckets
           d == b \div NumBuckets
<1>1. /\ a \in Int /\ b \in Int
      /\ StartOf(s) = Width * a /\ StartOf(t) = Width * b
  <2>1. s = Width * a + (s % Width) /\ s % Width \in 0 .. Width - 1
         /\ a \in Int
    BY DivMod, WidthType
  <2>2. t = Width * b + (t % Width) /\ t % Width \in 0 .. Width - 1
         /\ b \in Int
    BY DivMod, WidthType
  <2>3. Width * a \in Int /\ Width * b \in Int
    BY <2>1, <2>2, WidthType
  <2>4. StartOf(s) = s - (s % Width) /\ StartOf(t) = t - (t % Width)
    BY DEF StartOf
  <2> QED BY <2>1, <2>2, <2>3, <2>4
<1>2. a < b
  <2> SUFFICES ASSUME b <= a PROVE FALSE
    BY <1>1
  <2>1. CASE b = a
    BY <1>1, <2>1, WidthType
  <2>2. CASE b + 1 <= a
    <3>1. Width * b + Width <= Width * a
      BY <1>1, <2>2, TimesStep, WidthType
    <3>2. Width * a \in Int /\ Width * b \in Int
      BY <1>1, WidthType
    <3> HIDE DEF a, b
    <3> QED BY <1>1, <3>1, <3>2, WidthType
  <2> QED BY <1>1, <2>1, <2>2
<1>3. /\ a = NumBuckets * c + (a % NumBuckets) /\ a % NumBuckets \in Int
      /\ b = NumBuckets * d + (b % NumBuckets)
      /\ a % NumBuckets = b % NumBuckets
      /\ c \in Int /\ d \in Int
  <2> HIDE DEF a, b
  <2>1. a % NumBuckets = b % NumBuckets
    BY DEF SlotOf, a, b
  <2> QED BY <1>1, <2>1, DivMod, WindowAssumption
<1> HIDE DEF c, d
<1>4. c + 1 <= d
  <2> SUFFICES ASSUME d <= c PROVE FALSE
    BY <1>3
  <2>1. NumBuckets * d <= NumBuckets * c
    <3>1. CASE d = c
      BY <3>1, <1>3, WindowAssumption
    <3>2. CASE d + 1 <= c
      <4>1. NumBuckets * d + NumBuckets <= NumBuckets * c
        BY <1>3, <3>2, TimesStep, WindowAssumption
      <4>2. NumBuckets * d \in Int /\ NumBuckets * c \in Int
        BY <1>3, WindowAssumption
      <4> QED BY <4>1, <4>2, WindowAssumption
    <3> QED BY <1>3, <3>1, <3>2
  <2>2. NumBuckets * d \in Int /\ NumBuckets * c \in Int
    BY <1>3, WindowAssumption
  <2> HIDE DEF a, b
  <2> QED BY <1>1, <1>2, <1>3, <2>1, <2>2
<1>5. a + NumBuckets <= b
  <2>1. NumBuckets * c + NumBuckets <= NumBuckets * d
    BY <1>3, <1>4, TimesStep, WindowAssumption
  <2>2. NumBuckets * d \in Int /\ NumBuckets * c \in Int
    BY <1>3, WindowAssumption
  <2> HIDE DEF a, b
  <2> QED BY <1>1, <1>3, <2>1, <2>2, WindowAssumption
<1>6. PICK e \in Nat : b = a + NumBuckets + e
  <2>1. b - a - NumBuckets \in Nat
    BY <1>1, <1>5, WindowAssumption
  <2> QED BY <1>1, <2>1, WindowAssumption
<1> HIDE DEF a, b
<1>7. Width * b = Width * a + NumBuckets * Width + Width * e
  BY <1>1, <1>6, WidthType, WindowAssumption
<1>8. Width * e \in Nat /\ Width * a \in Int /\ NumBuckets * Width \in Int
  BY <1>1, <1>6, WidthType, WindowAssumption
<1> QED BY <1>1, <1>7, <1>8

-------------------------------------------------------------------------------
(* A counter. *)

LEMMA AddType ==
  ASSUME NEW ring \in Counter, NEW t \in Int
  PROVE  Add(ring, t) \in Counter
BY SlotAndStart DEF Add, Expired, Counter

LEMMA EmptyCounterType == EmptyCounter \in Counter
BY ZeroTimeIsEarlier DEF EmptyCounter, Counter

LEMMA SumNatural ==
  ASSUME NEW ring \in Counter, NEW t
  PROVE  Sum(ring, t) \in Nat
<1> DEFINE g == [i \in Slots |->
                   IF InWindow(ring[i].start, t) THEN ring[i].value ELSE 0]
<1>1. \A i \in Slots : g[i] \in Nat
  BY DEF Counter
<1>2. SumFunctionOnSet(g, Slots) \in Nat
  <2> HIDE DEF g
  <2> QED BY <1>1, RingFinite, SumNat
<1> QED BY <1>2 DEF Sum, WindowSum, SumFunction

\* As time passes, buckets leave the window and none enters it.
LEMMA SumShrinks ==
  ASSUME NEW ring \in Counter, NEW t \in Int
  PROVE  Sum(ring, t + 1) <= Sum(ring, t)
<1> DEFINE g(u) == [i \in Slots |->
                      IF InWindow(ring[i].start, u) THEN ring[i].value ELSE 0]
<1>1. \A i \in Slots :
        /\ g(t + 1)[i] \in Int /\ g(t)[i] \in Int
        /\ g(t + 1)[i] <= g(t)[i]
  BY WindowAssumption DEF Counter, InWindow
<1>2. SumFunctionOnSet(g(t + 1), Slots) <= SumFunctionOnSet(g(t), Slots)
  <2> HIDE DEF g
  <2> QED BY <1>1, RingFinite, SumMonotone
<1> QED BY <1>2 DEF Sum, WindowSum, SumFunction
================================================================================
