----------------------------- MODULE DataLemmas -----------------------------
(***************************************************************************)
(* Facts about SumFunction, the operator every total of this project is    *)
(* written with: the sum over no row is zero, adding, changing or removing *)
(* one row adds, changes or removes its value, and a sum of naturals is at *)
(* least the sum of any part of it.  SumFunction folds over a set by       *)
(* choosing its elements in an unspecified order; the lemmas show that the *)
(* order does not matter.  And the least and greatest number of a set.     *)
(***************************************************************************)
EXTENDS Integers, FiniteSets, FiniteSetsExt, Functions, FiniteSetTheorems, WellFoundedInduction,
        TLAPS

(* Induction over the subsets of a finite set, with a set instead of a     *)
(* predicate.                                                              *)
LEMMA FiniteSetInduction ==
  ASSUME NEW S, IsFiniteSet(S), NEW Q, {} \in Q,
         \A T \in SUBSET S : (T # {} /\ \A x \in T : T \ {x} \in Q) => T \in Q
  PROVE  SUBSET S \subseteq Q
<1> DEFINE Bad == (SUBSET S) \ Q
<1>1. SUFFICES ASSUME Bad # {} PROVE FALSE
  OBVIOUS
<1>2. Bad \subseteq FiniteSubsetsOf(S)
  BY FS_Subset DEF FiniteSubsetsOf
<1>3. PICK T \in Bad : \A U \in Bad : <<U, T>> \notin StrictSubsetOrdering(S)
  <2> HIDE DEF Bad
  <2> QED BY <1>1, <1>2, FS_StrictSubsetOrderingWellFounded, WFMin
<1>4. ASSUME NEW x \in T PROVE T \ {x} \in Q
  <2>1. T \in SUBSET S /\ T \ {x} \in SUBSET S
    BY <1>3
  <2>2. <<T \ {x}, T>> \in StrictSubsetOrdering(S)
    <3>1. T \ {x} # T
      BY <1>4
    <3> QED BY <2>1, <3>1 DEF StrictSubsetOrdering
  <2> QED BY <1>3, <2>1, <2>2
<1> QED BY <1>3, <1>4

-----------------------------------------------------------------------------
(* The fold behind SumFunction, as a fixed point.                          *)

FoldStep(f, S, h) ==
  [s \in SUBSET S |->
     IF s = {} THEN 0
     ELSE LET x == CHOOSE y \in s : TRUE IN f[x] + h[s \ {x}]]

IsFold(f, S, h) == h = FoldStep(f, S, h)

LEMMA SumUnfold ==
  ASSUME NEW f
  PROVE  SumFunction(f) = (CHOOSE h : IsFold(f, DOMAIN f, h))[DOMAIN f]
  BY SMT DEF SumFunction, SumFunctionOnSet, FoldFunctionOnSet, MapThenFoldSet,
             FoldStep, IsFold

(* Values outside a set do not matter, so a fold over S is a fold over each *)
(* of its subsets.                                                         *)
LEMMA FoldUnique ==
  ASSUME NEW S, IsFiniteSet(S), NEW R \in SUBSET S, NEW f, NEW e,
         \A x \in R : f[x] = e[x],
         NEW g, IsFold(f, S, g), NEW h, IsFold(e, R, h)
  PROVE  \A s \in SUBSET R : g[s] = h[s]
<1> DEFINE Q == {s \in SUBSET R : g[s] = h[s]}
<1>1. IsFiniteSet(R)
  BY FS_Subset
<1>2. \A s \in SUBSET S : g[s] = IF s = {} THEN 0
        ELSE f[CHOOSE y \in s : TRUE] + g[s \ {CHOOSE y \in s : TRUE}]
  BY DEF IsFold, FoldStep
<1>3. \A s \in SUBSET R : h[s] = IF s = {} THEN 0
        ELSE e[CHOOSE y \in s : TRUE] + h[s \ {CHOOSE y \in s : TRUE}]
  BY DEF IsFold, FoldStep
<1>4. {} \in Q
  BY <1>2, <1>3
<1>5. ASSUME NEW T \in SUBSET R, T # {}, \A x \in T : T \ {x} \in Q
      PROVE  T \in Q
  <2> DEFINE c == CHOOSE y \in T : TRUE
  <2>1. c \in T
    BY <1>5
  <2> HIDE DEF c
  <2>2. g[T \ {c}] = h[T \ {c}] /\ f[c] = e[c]
    BY <1>5, <2>1
  <2>3. g[T] = f[c] + g[T \ {c}] /\ h[T] = e[c] + h[T \ {c}]
    BY <1>2, <1>3, <1>5 DEF c
  <2> QED BY <2>2, <2>3
<1>6. SUBSET R \subseteq Q
  <2> HIDE DEF Q
  <2> QED BY <1>1, <1>4, <1>5, FiniteSetInduction
<1> QED BY <1>6

LEMMA FoldRestrict ==
  ASSUME NEW S, NEW R \in SUBSET S, NEW f, NEW g, IsFold(f, S, g)
  PROVE  \E h : IsFold(f, R, h) /\ \A s \in SUBSET R : h[s] = g[s]
<1> DEFINE h == [s \in SUBSET R |-> g[s]]
<1>1. \A s \in SUBSET S : g[s] = IF s = {} THEN 0
        ELSE f[CHOOSE y \in s : TRUE] + g[s \ {CHOOSE y \in s : TRUE}]
  BY DEF IsFold, FoldStep
<1>2. ASSUME NEW s \in SUBSET R
      PROVE  h[s] = IF s = {} THEN 0
        ELSE f[CHOOSE y \in s : TRUE] + h[s \ {CHOOSE y \in s : TRUE}]
  <2>1. s \in SUBSET S /\ s \ {CHOOSE y \in s : TRUE} \in SUBSET R
    OBVIOUS
  <2> QED BY <1>1, <2>1
<1> HIDE DEF h
<1>3. h = FoldStep(f, R, h)
  <2>1. h = [s \in SUBSET R |-> h[s]]
    BY DEF h
  <2> QED BY <1>2, <2>1 DEF FoldStep
<1>4. \A s \in SUBSET R : h[s] = g[s]
  BY DEF h
<1> QED BY <1>3, <1>4 DEF IsFold

(* A fold exists on every finite set, so the CHOOSE of SumUnfold picks one. *)
LEMMA FoldExists ==
  ASSUME NEW S, IsFiniteSet(S), NEW f
  PROVE  \E h : IsFold(f, S, h)
<1> DEFINE Q == {T \in SUBSET S : \E h : IsFold(f, T, h)}
           G(s) == (CHOOSE h : IsFold(f, s, h))[s]
<1>1. {} \in Q
  <2> DEFINE z == [s \in SUBSET {} |-> 0]
  <2>1. IsFold(f, {}, z)
    BY DEF IsFold, FoldStep
  <2> QED BY <2>1
<1>2. ASSUME NEW T \in SUBSET S, NEW k, IsFold(f, T, k), NEW s \in SUBSET T
      PROVE  G(s) = k[s]
  <2> HIDE DEF Q, G
  <2>1. \E h : IsFold(f, s, h)
    BY <1>2, FoldRestrict
  <2>2. IsFold(f, s, CHOOSE h : IsFold(f, s, h))
    BY <2>1
  <2>3. IsFiniteSet(T)
    BY FS_Subset
  <2>4. \A t \in SUBSET s : k[t] = (CHOOSE h : IsFold(f, s, h))[t]
    BY <1>2, <2>2, <2>3, FoldUnique
  <2> QED BY <2>4 DEF G
<1>3. ASSUME NEW T \in SUBSET S, T # {}, \A x \in T : T \ {x} \in Q
      PROVE  T \in Q
  <2> DEFINE c == CHOOSE y \in T : TRUE
             h == [s \in SUBSET T |->
                     IF s = T THEN f[c] + G(T \ {c}) ELSE G(s)]
             d(s) == CHOOSE y \in s : TRUE
  <2>1. c \in T
    BY <1>3
  <2>2. ASSUME NEW s \in SUBSET T, s # T
        PROVE  h[s] = IF s = {} THEN 0 ELSE f[d(s)] + h[s \ {d(s)}]
    <3>1. PICK x \in T : x \notin s
      BY <2>2
    <3>2. PICK k : IsFold(f, T \ {x}, k)
      BY <1>3, <3>1
    <3>3. s \in SUBSET (T \ {x}) /\ T \ {x} \in SUBSET S
      BY <3>1
    <3>4. k[s] = IF s = {} THEN 0 ELSE f[d(s)] + k[s \ {d(s)}]
      BY <3>2, <3>3 DEF IsFold, FoldStep
    <3>5. G(s) = k[s] /\ G(s \ {d(s)}) = k[s \ {d(s)}]
      <4>1. s \ {d(s)} \in SUBSET (T \ {x})
        BY <3>3
      <4> HIDE DEF G, d
      <4> QED BY <1>2, <3>2, <3>3, <4>1
    <3>6. h[s] = G(s) /\ h[s \ {d(s)}] = G(s \ {d(s)})
      BY <2>2, <3>1
    <3> HIDE DEF G, d, h
    <3> QED BY <3>4, <3>5, <3>6
  <2>3. h[T] = IF T = {} THEN 0 ELSE f[d(T)] + h[T \ {d(T)}]
    <3>1. T \ {c} # T /\ T \ {c} \in SUBSET T
      BY <2>1
    <3> HIDE DEF G
    <3> QED BY <1>3, <3>1
  <2>4. h = FoldStep(f, T, h)
    <3> HIDE DEF G
    <3>1. h = [s \in SUBSET T |-> h[s]]
      OBVIOUS
    <3> HIDE DEF h, c
    <3>2. \A s \in SUBSET T : h[s] = IF s = {} THEN 0 ELSE f[d(s)] + h[s \ {d(s)}]
      BY <2>2, <2>3
    <3> QED BY <3>1, <3>2 DEF FoldStep
  <2> QED BY <2>4 DEF IsFold
<1>4. SUBSET S \subseteq Q
  <2> HIDE DEF Q
  <2> QED BY <1>1, <1>3, FiniteSetInduction
<1> QED BY <1>4

LEMMA SumIsFold ==
  ASSUME NEW S, IsFiniteSet(S), NEW e, NEW g, IsFold(e, S, g),
         NEW f, DOMAIN f \subseteq S, \A x \in DOMAIN f : f[x] = e[x]
  PROVE  SumFunction(f) = g[DOMAIN f]
<1>1. IsFiniteSet(DOMAIN f)
  BY FS_Subset
<1>2. PICK h : IsFold(f, DOMAIN f, h) /\ SumFunction(f) = h[DOMAIN f]
  BY <1>1, FoldExists, SumUnfold
<1>3. \A s \in SUBSET DOMAIN f : g[s] = h[s]
  BY <1>2, FoldUnique
<1> QED BY <1>2, <1>3

LEMMA FoldType ==
  ASSUME NEW S, IsFiniteSet(S), NEW f, \A x \in S : f[x] \in Int,
         NEW g, IsFold(f, S, g)
  PROVE  \A s \in SUBSET S : g[s] \in Int
<1> DEFINE Q == {s \in SUBSET S : g[s] \in Int}
<1>1. \A s \in SUBSET S : g[s] = IF s = {} THEN 0
        ELSE f[CHOOSE y \in s : TRUE] + g[s \ {CHOOSE y \in s : TRUE}]
  BY DEF IsFold, FoldStep
<1>2. {} \in Q
  BY <1>1
<1>3. ASSUME NEW T \in SUBSET S, T # {}, \A x \in T : T \ {x} \in Q
      PROVE  T \in Q
  <2> DEFINE c == CHOOSE y \in T : TRUE
  <2>1. c \in T
    BY <1>3
  <2>2. g[T] = f[c] + g[T \ {c}]
    BY <1>1, <1>3
  <2> HIDE DEF c
  <2>3. g[T \ {c}] \in Int /\ f[c] \in Int
    BY <1>3, <2>1
  <2> QED BY <2>2, <2>3
<1>4. SUBSET S \subseteq Q
  <2> HIDE DEF Q
  <2> QED BY <1>2, <1>3, FiniteSetInduction
<1> QED BY <1>4

(* The order does not matter: any element may be taken out first.          *)
LEMMA FoldOrder ==
  ASSUME NEW S, IsFiniteSet(S), NEW f, \A x \in S : f[x] \in Int,
         NEW g, IsFold(f, S, g)
  PROVE  \A s \in SUBSET S : \A x \in s : g[s] = f[x] + g[s \ {x}]
<1> DEFINE Q == {s \in SUBSET S : \A x \in s : g[s] = f[x] + g[s \ {x}]}
<1>1. \A s \in SUBSET S : g[s] = IF s = {} THEN 0
        ELSE f[CHOOSE y \in s : TRUE] + g[s \ {CHOOSE y \in s : TRUE}]
  BY DEF IsFold, FoldStep
<1>2. {} \in Q
  OBVIOUS
<1>3. ASSUME NEW T \in SUBSET S, T # {}, \A x \in T : T \ {x} \in Q
      PROVE  T \in Q
  <2> DEFINE c == CHOOSE y \in T : TRUE
  <2>1. c \in T
    BY <1>3
  <2>2. g[T] = f[c] + g[T \ {c}]
    BY <1>1, <1>3
  <2> HIDE DEF c
  <2>3. ASSUME NEW x \in T, x # c
        PROVE  g[T] = f[x] + g[T \ {x}]
    <3>1. g[T \ {c}] = f[x] + g[(T \ {c}) \ {x}]
      BY <1>3, <2>1, <2>3
    <3>2. g[T \ {x}] = f[c] + g[(T \ {x}) \ {c}]
      BY <1>3, <2>1, <2>3
    <3>3. (T \ {c}) \ {x} = (T \ {x}) \ {c}
      OBVIOUS
    <3>4. f[x] \in Int /\ f[c] \in Int /\ g[(T \ {x}) \ {c}] \in Int
      <4>1. (T \ {x}) \ {c} \in SUBSET S /\ x \in S /\ c \in S
        BY <2>1
      <4>2. \A s \in SUBSET S : g[s] \in Int
        BY FoldType
      <4> QED BY <4>1, <4>2
    <3>5. g[T \ {c}] = f[x] + g[(T \ {x}) \ {c}]
      BY <3>1, <3>3
    <3> HIDE DEF Q
    <3> QED BY <2>2, <3>2, <3>4, <3>5
  <2> QED BY <2>1, <2>2, <2>3
<1>4. SUBSET S \subseteq Q
  <2> HIDE DEF Q
  <2> QED BY <1>2, <1>3, FiniteSetInduction
<1> QED BY <1>4

-----------------------------------------------------------------------------
(* What the rest of the project uses.                                      *)

(* The sum over no row is zero.                                            *)
LEMMA SumOfNothing ==
  ASSUME NEW f, DOMAIN f = {}
  PROVE  SumFunction(f) = 0
<1>1. PICK g : IsFold(f, {}, g)
  BY FoldExists, FS_EmptySet
<1>2. SumFunction(f) = g[{}]
  BY <1>1, SumIsFold, FS_EmptySet
<1> QED BY <1>1, <1>2 DEF IsFold, FoldStep

LEMMA SumType ==
  ASSUME NEW S, IsFiniteSet(S), NEW f \in [S -> Int]
  PROVE  SumFunction(f) \in Int
<1>1. PICK g : IsFold(f, S, g)
  BY FoldExists
<1>2. SumFunction(f) = g[S]
  BY <1>1, SumIsFold
<1> QED BY <1>1, <1>2, FoldType

(* Taking one row out of a sum takes its value out.                        *)
LEMMA SumWithout ==
  ASSUME NEW S, IsFiniteSet(S), NEW f \in [S -> Int], NEW x \in S,
         NEW R, R = S \ {x}, NEW e, DOMAIN e = R, \A y \in R : e[y] = f[y]
  PROVE  SumFunction(f) = f[x] + SumFunction(e)
<1>1. PICK g : IsFold(f, S, g)
  BY FoldExists
<1>2. SumFunction(f) = g[S]
  BY <1>1, SumIsFold
<1>3. SumFunction(e) = g[S \ {x}]
  BY <1>1, SumIsFold
<1>4. g[S] = f[x] + g[S \ {x}]
  BY <1>1, FoldOrder
<1> QED BY <1>2, <1>3, <1>4

(* A sum of naturals is at least the sum of any part of it.                *)
LEMMA SumOfPart ==
  ASSUME NEW S, IsFiniteSet(S), NEW f \in [S -> Nat], NEW R \in SUBSET S,
         NEW e, DOMAIN e = R, \A y \in R : e[y] = f[y]
  PROVE  /\ SumFunction(f) \in Nat
         /\ SumFunction(e) \in Nat
         /\ SumFunction(e) <= SumFunction(f)
<1>1. PICK g : IsFold(f, S, g)
  BY FoldExists
<1>2. SumFunction(f) = g[S] /\ SumFunction(e) = g[R]
  BY <1>1, SumIsFold
<1> DEFINE Q == {s \in SUBSET S : /\ g[s] \in Nat /\ g[s \cap R] \in Nat
                                 /\ g[s \cap R] <= g[s]}
<1>3. g[{}] = 0
  BY <1>1 DEF IsFold, FoldStep
<1>4. {} \in Q
  BY <1>3
<1>5. ASSUME NEW T \in SUBSET S, T # {}, \A x \in T : T \ {x} \in Q
      PROVE  T \in Q
  <2>1. PICK x \in T : TRUE
    BY <1>5
  <2>2. T \ {x} \in Q
    BY <1>5, <2>1
  <2>3. g[T] = f[x] + g[T \ {x}] /\ f[x] \in Nat
    BY <1>1, FoldOrder
  <2>4. CASE x \in R
    <3>1. g[T \cap R] = f[x] + g[(T \cap R) \ {x}]
      BY <1>1, <2>4, FoldOrder
    <3>2. (T \cap R) \ {x} = (T \ {x}) \cap R
      OBVIOUS
    <3>3. g[T \cap R] = f[x] + g[(T \ {x}) \cap R]
      BY <3>1, <3>2
    <3> QED BY <2>2, <2>3, <3>3
  <2>5. CASE x \notin R
    <3>1. T \cap R = (T \ {x}) \cap R
      BY <2>5
    <3> QED BY <2>2, <2>3, <3>1
  <2> QED BY <2>4, <2>5
<1>6. SUBSET S \subseteq Q
  <2> HIDE DEF Q
  <2> QED BY <1>4, <1>5, FiniteSetInduction
<1>7. S \in Q /\ S \cap R = R
  BY <1>6
<1> QED BY <1>2, <1>7

(* One function gives the sums over all parts of a set, and any row may be *)
(* taken out of them first.                                                *)
AreSums(f, S, g) ==
  /\ g[{}] = 0
  /\ \A s \in SUBSET S : g[s] \in Int
  /\ \A s \in SUBSET S : \A x \in s : g[s] = f[x] + g[s \ {x}]
  /\ \A e : DOMAIN e \subseteq S /\ (\A x \in DOMAIN e : e[x] = f[x])
              => SumFunction(e) = g[DOMAIN e]

LEMMA SumsExist ==
  ASSUME NEW S, IsFiniteSet(S), NEW f \in [S -> Int]
  PROVE  \E g : AreSums(f, S, g)
<1>1. PICK g : IsFold(f, S, g)
  BY FoldExists
<1>2. \A x \in S : f[x] \in Int
  OBVIOUS
<1>3. g[{}] = 0
  BY <1>1 DEF IsFold, FoldStep
<1>4. \A s \in SUBSET S : g[s] \in Int
  BY <1>1, <1>2, FoldType
<1>5. ASSUME NEW s \in SUBSET S, NEW x \in s PROVE g[s] = f[x] + g[s \ {x}]
  BY <1>1, <1>2, FoldOrder
<1>6. \A e : DOMAIN e \subseteq S /\ (\A x \in DOMAIN e : e[x] = f[x])
               => SumFunction(e) = g[DOMAIN e]
  BY <1>1, SumIsFold
<1> QED BY <1>3, <1>4, <1>5, <1>6 DEF AreSums

(* A sum is the sum of its two halves.                                     *)
Halves(S, f, a, b) ==
  /\ IsFiniteSet(S) /\ f \in [S -> Int]
  /\ DOMAIN a \subseteq S /\ DOMAIN b \subseteq S
  /\ \A x \in S : x \in DOMAIN a <=> x \notin DOMAIN b
  /\ \A x \in DOMAIN a : a[x] = f[x]
  /\ \A x \in DOMAIN b : b[x] = f[x]

LEMMA SumSplit ==
  ASSUME NEW S, NEW f, NEW a, NEW b, Halves(S, f, a, b)
  PROVE  SumFunction(f) = SumFunction(a) + SumFunction(b)
<1> DEFINE A == DOMAIN a
           B == DOMAIN b
<1>a. IsFiniteSet(S) /\ f \in [S -> Int]
  BY DEF Halves
<1>b. A \in SUBSET S /\ B \in SUBSET S /\ \A x \in S : x \in A <=> x \notin B
  BY DEF Halves
<1>c. (\A x \in A : a[x] = f[x]) /\ (\A x \in B : b[x] = f[x])
  BY DEF Halves
<1>1. PICK g : AreSums(f, S, g)
  BY <1>a, SumsExist
<1>2. SumFunction(f) = g[S] /\ SumFunction(a) = g[A] /\ SumFunction(b) = g[B]
  BY <1>1, <1>a, <1>b, <1>c DEF AreSums
<1> HIDE DEF A, B
<1> DEFINE Q == {s \in SUBSET S : g[s] = g[s \cap A] + g[s \cap B]}
<1>3. {} \in Q
  BY <1>1 DEF AreSums
<1>4. ASSUME NEW T \in SUBSET S, T # {}, \A x \in T : T \ {x} \in Q
      PROVE  T \in Q
  <2>1. PICK x \in T : TRUE
    BY <1>4
  <2> DEFINE R == T \ {x}
  <2>2. g[R] = g[R \cap A] + g[R \cap B]
    BY <1>4, <2>1
  <2>3. g[T] = f[x] + g[R] /\ f[x] \in Int
    BY <1>1, <1>a DEF AreSums
  <2>4. g[R \cap A] \in Int /\ g[R \cap B] \in Int
    BY <1>1, <1>b DEF AreSums
  <2>5. ASSUME NEW U \in SUBSET S, x \in U PROVE g[U] = f[x] + g[U \ {x}]
    BY <1>1, <2>5 DEF AreSums
  <2>6. CASE x \in A
    <3>1. T \cap A \in SUBSET S /\ x \in T \cap A
      BY <1>b, <2>6
    <3>2. (T \cap A) \ {x} = R \cap A /\ T \cap B = R \cap B
      BY <1>b, <2>6
    <3>3. g[T \cap A] = f[x] + g[(T \cap A) \ {x}]
      BY <2>5, <3>1
    <3>4. g[T \cap A] = f[x] + g[R \cap A] /\ g[T \cap B] = g[R \cap B]
      BY <3>2, <3>3
    <3>5. g[T] = g[T \cap A] + g[T \cap B]
      BY <2>2, <2>3, <2>4, <3>4
    <3> QED BY <3>5
  <2>7. CASE x \in B
    <3>1. T \cap B \in SUBSET S /\ x \in T \cap B /\ x \notin A
      BY <1>b, <2>7
    <3>2. (T \cap B) \ {x} = R \cap B /\ T \cap A = R \cap A
      BY <3>1
    <3>3. g[T \cap B] = f[x] + g[(T \cap B) \ {x}]
      BY <2>5, <3>1
    <3>4. g[T \cap B] = f[x] + g[R \cap B] /\ g[T \cap A] = g[R \cap A]
      BY <3>2, <3>3
    <3>5. g[T] = g[T \cap A] + g[T \cap B]
      BY <2>2, <2>3, <2>4, <3>4
    <3> QED BY <3>5
  <2> QED BY <1>b, <2>6, <2>7
<1>5. SUBSET S \subseteq Q
  <2> HIDE DEF Q
  <2> QED BY <1>a, <1>3, <1>4, FiniteSetInduction
<1>6. S \in Q /\ S \cap A = A /\ S \cap B = B
  BY <1>5, <1>b
<1> QED BY <1>2, <1>6

(* Adding up what the rows of each key add up to is adding up all rows.    *)
LEMMA SumByKey ==
  ASSUME NEW S, IsFiniteSet(S), NEW f \in [S -> Int],
         NEW K, IsFiniteSet(K), NEW key, \A x \in S : key[x] \in K,
         NEW g, DOMAIN g = K,
         \A k \in K : g[k] = SumFunction([x \in {y \in S : key[y] = k} |-> f[x]])
  PROVE  SumFunction(f) = SumFunction([k \in K |-> g[k]])
<1> DEFINE Of(L) == {x \in S : key[x] \in L}
           G(L) == [k \in L |-> g[k]]
           F(L) == [x \in Of(L) |-> f[x]]
           Q == {L \in SUBSET K : SumFunction(F(L)) = SumFunction(G(L))}
<1>1. {} \in Q
  <2>1. DOMAIN F({}) = {} /\ DOMAIN G({}) = {}
    OBVIOUS
  <2> QED BY <2>1, SumOfNothing
<1>2. ASSUME NEW k \in K PROVE g[k] \in Int
  <2> DEFINE Own == {y \in S : key[y] = k}
             own == [x \in Own |-> f[x]]
  <2>1. IsFiniteSet(Own)
    BY FS_Subset
  <2>2. own \in [Own -> Int]
    OBVIOUS
  <2>3. g[k] = SumFunction(own)
    OBVIOUS
  <2> HIDE DEF Own, own
  <2> QED BY <2>1, <2>2, <2>3, SumType
<1>3. ASSUME NEW T \in SUBSET K, T # {}, \A k \in T : T \ {k} \in Q
      PROVE  T \in Q
  <2>1. PICK k \in T : TRUE
    BY <1>3
  <2> DEFINE R == T \ {k}
             Own == {y \in S : key[y] = k}
             own == [x \in Own |-> f[x]]
  <2>2. SumFunction(F(R)) = SumFunction(G(R))
    BY <1>3, <2>1
  <2>3. SumFunction(G(T)) = G(T)[k] + SumFunction(G(R))
    <3> DEFINE g1 == G(T)
               g2 == G(R)
    <3>1. IsFiniteSet(T) /\ g1 \in [T -> Int]
      BY <1>2, FS_Subset
    <3>2. DOMAIN g2 = R /\ \A y \in R : g2[y] = g1[y]
      OBVIOUS
    <3>3. R = T \ {k}
      OBVIOUS
    <3> HIDE DEF g1, g2, R, Q
    <3>4. SumFunction(g1) = g1[k] + SumFunction(g2)
      BY <2>1, <3>1, <3>2, <3>3, SumWithout
    <3> QED BY <3>4 DEF g1, g2
  <2>4. SumFunction(F(T)) = SumFunction(own) + SumFunction(F(R))
    <3> DEFINE all == Of(T)
               rest == Of(R)
               f1 == F(T)
               f2 == F(R)
    <3>1. IsFiniteSet(all)
      BY FS_Subset
    <3>2. f1 \in [all -> Int]
      OBVIOUS
    <3>3. Own \in SUBSET all /\ rest \in SUBSET all /\ \A x \in all : x \in Own <=> x \notin rest
      BY <2>1
    <3>4. DOMAIN own = Own /\ \A x \in Own : own[x] = f1[x]
      BY <2>1
    <3>5. DOMAIN f2 = rest /\ \A x \in rest : f2[x] = f1[x]
      BY <2>1
    <3> HIDE DEF all, rest, f1, f2, own, Own, R, Q
    <3>6. SumFunction(f1) = SumFunction(own) + SumFunction(f2)
      <4>1. Halves(all, f1, own, f2)
        BY <3>1, <3>2, <3>3, <3>4, <3>5 DEF Halves
      <4> QED BY <4>1, SumSplit
    <3> QED BY <3>6 DEF f1, f2
  <2>5. SumFunction(own) = G(T)[k]
    BY <2>1
  <2> HIDE DEF F, G, own, R
  <2> QED BY <2>2, <2>3, <2>4, <2>5
<1>4. SUBSET K \subseteq Q
  <2> HIDE DEF Q
  <2> QED BY <1>1, <1>3, FiniteSetInduction
<1>5. K \in Q
  BY <1>4
<1>6. Of(K) = S
  OBVIOUS
<1>7. F(K) = f
  BY <1>6
<1> QED BY <1>5, <1>7

(* A sum of differences is the difference of the sums.                     *)
LEMMA SumMinus ==
  ASSUME NEW S, IsFiniteSet(S), NEW f \in [S -> Int], NEW g \in [S -> Int],
         NEW h \in [S -> Int], \A x \in S : h[x] = f[x] - g[x]
  PROVE  SumFunction(h) = SumFunction(f) - SumFunction(g)
<1>1. PICK u : IsFold(f, S, u)
  BY FoldExists
<1>2. PICK v : IsFold(g, S, v)
  BY FoldExists
<1>3. PICK w : IsFold(h, S, w)
  BY FoldExists
<1>4. SumFunction(f) = u[S] /\ SumFunction(g) = v[S] /\ SumFunction(h) = w[S]
  BY <1>1, <1>2, <1>3, SumIsFold
<1>5. \A s \in SUBSET S : u[s] \in Int /\ v[s] \in Int /\ w[s] \in Int
  BY <1>1, <1>2, <1>3, FoldType
<1> DEFINE Q == {s \in SUBSET S : w[s] = u[s] - v[s]}
<1>6. {} \in Q
  BY <1>1, <1>2, <1>3 DEF IsFold, FoldStep
<1>7. ASSUME NEW T \in SUBSET S, T # {}, \A x \in T : T \ {x} \in Q
      PROVE  T \in Q
  <2>1. PICK x \in T : TRUE
    BY <1>7
  <2>2. w[T \ {x}] = u[T \ {x}] - v[T \ {x}]
    BY <1>7, <2>1
  <2>3. u[T] = f[x] + u[T \ {x}]
    BY <1>1, FoldOrder
  <2>4. v[T] = g[x] + v[T \ {x}]
    BY <1>2, FoldOrder
  <2>5. w[T] = h[x] + w[T \ {x}]
    BY <1>3, FoldOrder
  <2>6. T \ {x} \in SUBSET S /\ f[x] \in Int /\ g[x] \in Int /\ h[x] = f[x] - g[x]
    OBVIOUS
  <2>7. w[T] = u[T] - v[T]
    BY <1>5, <2>2, <2>3, <2>4, <2>5, <2>6
  <2> QED BY <2>7
<1>8. SUBSET S \subseteq Q
  <2> HIDE DEF Q
  <2> QED BY <1>6, <1>7, FiniteSetInduction
<1>9. S \in Q
  BY <1>8
<1> QED BY <1>4, <1>9

(* Rows that count nothing may be left out of a sum.                       *)
LEMMA SumOfRest ==
  ASSUME NEW S, IsFiniteSet(S), NEW f \in [S -> Int], NEW R \in SUBSET S,
         \A x \in S \ R : f[x] = 0,
         NEW e, DOMAIN e = R, \A x \in R : e[x] = f[x]
  PROVE  SumFunction(e) = SumFunction(f)
<1>1. PICK g : IsFold(f, S, g)
  BY FoldExists
<1>2. SumFunction(f) = g[S] /\ SumFunction(e) = g[R]
  BY <1>1, SumIsFold
<1>3. \A s \in SUBSET S : g[s] \in Int
  BY <1>1, FoldType
<1> DEFINE Q == {s \in SUBSET S : g[s] = g[s \cap R]}
<1>5. {} \in Q
  OBVIOUS
<1>6. ASSUME NEW T \in SUBSET S, T # {}, \A x \in T : T \ {x} \in Q
      PROVE  T \in Q
  <2>1. PICK x \in T : TRUE
    BY <1>6
  <2>2. g[T \ {x}] = g[(T \ {x}) \cap R] /\ g[T] = f[x] + g[T \ {x}]
    BY <1>1, <1>6, <2>1, FoldOrder
  <2>3. CASE x \in R
    <3>1. g[T \cap R] = f[x] + g[(T \cap R) \ {x}]
      BY <1>1, <2>3, FoldOrder
    <3>2. (T \cap R) \ {x} = (T \ {x}) \cap R
      OBVIOUS
    <3> QED BY <2>2, <3>1, <3>2
  <2>4. CASE x \notin R
    <3>1. T \cap R = (T \ {x}) \cap R /\ f[x] = 0 /\ g[T \ {x}] \in Int
      BY <1>3, <2>4
    <3> QED BY <2>2, <3>1
  <2> QED BY <2>3, <2>4
<1>7. SUBSET S \subseteq Q
  <2> HIDE DEF Q
  <2> QED BY <1>5, <1>6, FiniteSetInduction
<1>8. S \in Q /\ S \cap R = R
  BY <1>7
<1> QED BY <1>2, <1>8

-----------------------------------------------------------------------------
(* Least and greatest numbers.                                             *)

(* Induction, as the least member of a set of naturals.                    *)
LEMMA LeastNatural ==
  ASSUME NEW S, S \subseteq Nat, S # {}
  PROVE  \E m \in S : \A n \in S : m <= n
<1>1. PICK m \in S : \A n \in S : <<n, m>> \notin OpToRel(<, Nat)
  BY NatLessThanWellFounded, WFMin
<1>2. \A a, b \in Nat : a < b => <<a, b>> \in OpToRel(<, Nat)
  BY DEF OpToRel
<1>3. \A n \in S : n \in Nat /\ m \in Nat /\ ~(n < m)
  BY <1>1, <1>2
<1> QED BY <1>3

LEMMA MinOfNaturals ==
  ASSUME NEW S, S \subseteq Nat, S # {}
  PROVE  Min(S) \in S /\ \A y \in S : Min(S) <= y
BY LeastNatural DEF Min

(* A finite set of numbers has a greatest element.                         *)
LEMMA MaxInSet ==
  ASSUME NEW S, IsFiniteSet(S), S \subseteq Int, S # {}
  PROVE  Max(S) \in S /\ \A y \in S : Max(S) >= y
<1> DEFINE Q == {T \in SUBSET S : T # {} => \E m \in T : \A y \in T : m >= y}
<1>1. ASSUME NEW T \in SUBSET S, T # {}, \A x \in T : T \ {x} \in Q
      PROVE  T \in Q
  <2>1. PICK x \in T : TRUE
    BY <1>1
  <2>2. CASE T \ {x} = {}
    BY <2>1, <2>2
  <2>3. CASE T \ {x} # {}
    <3>1. PICK m \in T \ {x} : \A y \in T \ {x} : m >= y
      BY <1>1, <2>1, <2>3
    <3>2. x \in Int /\ m \in Int /\ \A y \in T : y \in Int
      BY <1>1, <3>1
    <3>3. CASE x >= m
      BY <2>1, <3>1, <3>2, <3>3
    <3>4. CASE m >= x
      BY <2>1, <3>1, <3>2, <3>4
    <3> QED BY <3>2, <3>3, <3>4
  <2> QED BY <2>2, <2>3
<1>2. {} \in Q
  OBVIOUS
<1>3. SUBSET S \subseteq Q
  <2> HIDE DEF Q
  <2> QED BY <1>1, <1>2, FiniteSetInduction
<1>4. \E m \in S : \A y \in S : m >= y
  BY <1>3
<1> QED BY <1>4 DEF Max

\* Where a function on a finite set is greatest.
LEMMA GreatestAt ==
  ASSUME NEW S, IsFiniteSet(S), NEW f, \A x \in S : f[x] \in Int, S # {}
  PROVE  \E m \in S : \A y \in S : f[m] >= f[y]
<1> DEFINE Q == {T \in SUBSET S : T # {} => \E m \in T : \A y \in T : f[m] >= f[y]}
<1>1. ASSUME NEW T \in SUBSET S, T # {}, \A x \in T : T \ {x} \in Q
      PROVE  T \in Q
  <2>1. PICK x \in T : TRUE
    BY <1>1
  <2>2. CASE T \ {x} = {}
    BY <2>1, <2>2
  <2>3. CASE T \ {x} # {}
    <3>1. PICK m \in T \ {x} : \A y \in T \ {x} : f[m] >= f[y]
      BY <1>1, <2>1, <2>3
    <3>2. f[x] \in Int /\ f[m] \in Int /\ \A y \in T : f[y] \in Int
      BY <1>1, <3>1
    <3>3. CASE f[x] >= f[m]
      BY <2>1, <3>1, <3>2, <3>3
    <3>4. CASE f[m] >= f[x]
      BY <2>1, <3>1, <3>2, <3>4
    <3> QED BY <3>2, <3>3, <3>4
  <2> QED BY <2>2, <2>3
<1>2. {} \in Q
  OBVIOUS
<1>3. SUBSET S \subseteq Q
  <2> HIDE DEF Q
  <2> QED BY <1>1, <1>2, FiniteSetInduction
<1> QED BY <1>3

(* Ranks in a finite set under a strict total order: the number of those   *)
(* before it orders an element, and the ranks are 0, 1, 2 and so on.  So a *)
(* list cut at a limit holds that many, unless there were no more.         *)
RankedBy(D, before, rank) ==
  /\ IsFiniteSet(D)
  /\ \A j, k \in D : <<j, k>> \in before => <<k, j>> \notin before
  /\ \A i, j, k \in D : <<i, j>> \in before /\ <<j, k>> \in before => <<i, k>> \in before
  /\ \A j, k \in D : j # k => <<j, k>> \in before \/ <<k, j>> \in before
  /\ rank = [k \in D |-> Cardinality({j \in D : <<j, k>> \in before})]

LEMMA RanksInOrder ==
  ASSUME NEW D, NEW before, NEW rank, RankedBy(D, before, rank)
  PROVE  /\ \A k \in D : rank[k] \in 0..(Cardinality(D) - 1)
         /\ \A j, k \in D : <<j, k>> \in before => rank[j] < rank[k]
<1> DEFINE A(k) == {j \in D : <<j, k>> \in before}
<1>1. IsFiniteSet(D) /\ Cardinality(D) \in Nat
  BY FS_CardinalityType DEF RankedBy
<1>2. ASSUME NEW k \in D
      PROVE  /\ A(k) \in SUBSET D /\ k \notin A(k) /\ IsFiniteSet(A(k))
             /\ Cardinality(A(k)) \in Nat /\ rank[k] = Cardinality(A(k))
  <2>1. A(k) \in SUBSET D /\ k \notin A(k) /\ rank[k] = Cardinality(A(k))
    BY DEF RankedBy
  <2> QED BY <1>1, <2>1, FS_Subset, FS_CardinalityType
<1>3. ASSUME NEW k \in D PROVE rank[k] \in 0..(Cardinality(D) - 1)
  <2>1. A(k) # D
    BY <1>2
  <2>2. Cardinality(A(k)) <= Cardinality(D) /\ Cardinality(A(k)) # Cardinality(D)
    <3> HIDE DEF A
    <3> QED BY <1>1, <1>2, <2>1, FS_Subset
  <2> HIDE DEF A
  <2> QED BY <1>1, <1>2, <2>2
<1>4. ASSUME NEW j \in D, NEW k \in D, <<j, k>> \in before PROVE rank[j] < rank[k]
  <2>1. A(j) \in SUBSET A(k) /\ j \in A(k)
    BY <1>4 DEF RankedBy
  <2>2. A(j) # A(k)
    BY <1>2, <2>1
  <2>3. Cardinality(A(j)) <= Cardinality(A(k)) /\ Cardinality(A(j)) # Cardinality(A(k))
    <3> HIDE DEF A
    <3> QED BY <1>2, <2>1, <2>2, FS_Subset
  <2> HIDE DEF A
  <2> QED BY <1>2, <2>3
<1> QED BY <1>3, <1>4

LEMMA FirstOfRanked ==
  ASSUME NEW D, NEW before, NEW rank, RankedBy(D, before, rank), NEW limit \in Nat \ {0},
         NEW K, K = {k \in D : rank[k] < limit}
  PROVE  /\ IsFiniteSet(K) /\ Cardinality(K) \in Nat /\ Cardinality(K) <= limit
         /\ \A j \in D \ K : Cardinality(K) = limit
<1> DEFINE n == Cardinality(D)
           r == [k \in K |-> rank[k]]
<1>1. IsFiniteSet(D) /\ n \in Nat /\ DOMAIN rank = D
  BY FS_CardinalityType DEF RankedBy
<1>2. \A k \in D : rank[k] \in 0..(n - 1)
  BY RanksInOrder
<1>3. \A j, k \in D : rank[j] = rank[k] => j = k
  <2>1. \A j, k \in D : j # k => rank[j] < rank[k] \/ rank[k] < rank[j]
    <3>1. \A j, k \in D : j # k => <<j, k>> \in before \/ <<k, j>> \in before
      BY DEF RankedBy
    <3>2. \A j, k \in D : <<j, k>> \in before => rank[j] < rank[k]
      BY RanksInOrder
    <3> QED BY <3>1, <3>2
  <2> HIDE DEF n
  <2> QED BY <1>2, <2>1
<1>4. K \in SUBSET D /\ IsFiniteSet(K) /\ Cardinality(K) \in Nat
  BY <1>1, FS_Subset, FS_CardinalityType
<1> HIDE DEF n
<1>5. r \in Injection(K, 0..(limit - 1))
  <2>1. r \in [K -> 0..(limit - 1)]
    BY <1>1, <1>2, <1>4
  <2>2. \A j, k \in K : r[j] = r[k] => j = k
    BY <1>3, <1>4
  <2> HIDE DEF r
  <2> QED BY <2>1, <2>2 DEF Injection, IsInjective
<1>6. IsFiniteSet(0..(limit - 1)) /\ Cardinality(0..(limit - 1)) = limit
  <2>1. 0 \in Int /\ limit - 1 \in Int /\ ~(0 > limit - 1) /\ (limit - 1) - 0 + 1 = limit
    OBVIOUS
  <2> QED BY <2>1, FS_Interval
<1>7. Cardinality(K) <= limit
  BY <1>5, <1>6, FS_Injection
<1>8. ASSUME NEW j \in D \ K PROVE Cardinality(K) = limit
  <2>1. rank \in Injection(D, 0..(n - 1))
    <3>1. rank = [k \in D |-> rank[k]]
      BY <1>1 DEF RankedBy
    <3>2. rank \in [D -> 0..(n - 1)]
      BY <1>2, <3>1
    <3> QED BY <1>3, <3>2 DEF Injection, IsInjective
  <2>2. n > 0 /\ limit <= n - 1
    BY <1>1, <1>2, <1>8
  <2>3. IsFiniteSet(0..(n - 1)) /\ Cardinality(0..(n - 1)) = n
    <3>1. 0 \in Int /\ n - 1 \in Int /\ ~(0 > n - 1) /\ (n - 1) - 0 + 1 = n
      BY <1>1, <2>2
    <3> QED BY <3>1, FS_Interval
  <2>4. rank \in Surjection(D, 0..(n - 1))
    BY <2>1, <2>3, FS_Injection DEF n
  <2>5. \A i \in 0..(limit - 1) : \E k \in K : r[k] = i
    <3>1. \A i \in 0..(n - 1) : \E k \in D : rank[k] = i
      BY <2>4 DEF Surjection
    <3> QED BY <1>1, <2>2, <3>1
  <2>6. r \in Surjection(K, 0..(limit - 1))
    <3>1. r \in [K -> 0..(limit - 1)]
      BY <1>5 DEF Injection
    <3> HIDE DEF r
    <3> QED BY <2>5, <3>1 DEF Surjection
  <2> HIDE DEF r
  <2> QED BY <1>5, <1>6, <2>6, FS_Injection
<1> QED BY <1>4, <1>7, <1>8
=============================================================================
