-------------------------------- MODULE Sums --------------------------------
(***************************************************************************)
(* Lemmas about SumFunctionOnSet, the sum of a function over a finite set: *)
(* it can be taken in any order, so it can be taken apart.  The balance of *)
(* a wallet, what the provider holds and what is open are such sums.       *)
(***************************************************************************)
EXTENDS Integers, FiniteSets, Functions, FiniteSetTheorems,
        WellFoundedInduction, TLAPS

Pick(S) == CHOOSE x \in S : TRUE

\* One step of the recursion by which the sum of f is defined, and a function
\* g that obeys it on the subsets of S.
Unfold(f, g, S) == IF S = {} THEN 0 ELSE f[Pick(S)] + g[S \ {Pick(S)}]

SumsBelow(g, f, S) == g = [T \in SUBSET S |-> Unfold(f, g, T)]

LEMMA SumIsSolution ==
  ASSUME NEW f, NEW S
  PROVE  SumFunctionOnSet(f, S) = (CHOOSE g : SumsBelow(g, f, S))[S]
BY DEF SumFunctionOnSet, FoldFunctionOnSet, MapThenFoldSet, SumsBelow, Unfold,
       Pick

(* A collection of subsets of a finite set has a smallest one: induction.  *)
LEMMA SmallestSubset ==
  ASSUME NEW S, IsFiniteSet(S), NEW B, B \subseteq SUBSET S, B # {}
  PROVE  \E T \in B : \A U \in SUBSET T : U # T => U \notin B
<1> DEFINE R == StrictSubsetOrdering(S)
<1>1. IsWellFoundedOn(R, SUBSET S)
  BY FS_StrictSubsetOrderingWellFounded, FS_FiniteSubsetsOfFinite
<1>2. PICK T \in B : \A U \in B : ~ (<<U, T>> \in R)
  <2> HIDE DEF R
  <2>1. QED BY <1>1, WFMin
<1>3. ASSUME NEW U \in SUBSET T, U # T, U \in B PROVE FALSE
  <2>1. <<U, T>> \in R BY <1>3 DEF StrictSubsetOrdering
  <2>2. QED BY <2>1, <1>2, <1>3
<1>4. QED BY <1>3

(* Two functions that obey the recursion agree.                            *)
LEMMA SolutionsAgree ==
  ASSUME NEW f, NEW S, IsFiniteSet(S), NEW T, NEW g, NEW h,
         SumsBelow(g, f, S), SumsBelow(h, f, T),
         NEW U, U \subseteq S, U \subseteq T
  PROVE  g[U] = h[U]
<1> DEFINE B == {V \in SUBSET S : V \subseteq T /\ g[V] # h[V]}
<1>1. ASSUME B # {} PROVE FALSE
  <2>1. PICK V \in B : \A W \in SUBSET V : W # V => W \notin B
    <3>1. B \subseteq SUBSET S OBVIOUS
    <3> HIDE DEF B
    <3>2. QED BY <3>1, <1>1, SmallestSubset
  <2>2. g[V] = Unfold(f, g, V) /\ h[V] = Unfold(f, h, V) BY DEF SumsBelow
  <2>3. CASE V = {} BY <2>2, <2>3 DEF Unfold
  <2>4. CASE V # {}
    <3> DEFINE W == V \ {Pick(V)}
    <3>1. Pick(V) \in V BY <2>4 DEF Pick
    <3>2. W \in SUBSET V /\ W # V BY <3>1
    <3>3. g[W] = h[W] BY <3>2, <2>1
    <3>4. QED BY <2>2, <2>4, <3>3 DEF Unfold
  <2>5. QED BY <2>3, <2>4
<1>2. QED BY <1>1

(* There is one: what the CHOOSE of the definition chooses obeys it.       *)
LEMMA SolutionExists ==
  ASSUME NEW f, NEW S, IsFiniteSet(S)
  PROVE  \E g : SumsBelow(g, f, S)
<1> DEFINE B == {T \in SUBSET S : ~ \E g : SumsBelow(g, f, T)}
<1>1. ASSUME B # {} PROVE FALSE
  <2>1. PICK T \in B : \A U \in SUBSET T : U # T => U \notin B
    <3>1. B \subseteq SUBSET S OBVIOUS
    <3> HIDE DEF B
    <3>2. QED BY <3>1, <1>1, SmallestSubset
  <2> DEFINE G(U) == CHOOSE g : SumsBelow(g, f, U)
             g == [U \in SUBSET T |-> IF U = {} THEN 0
                     ELSE f[Pick(U)] + G(U \ {Pick(U)})[U \ {Pick(U)}]]
  <2>2. ASSUME NEW U \in SUBSET T, U # T PROVE SumsBelow(G(U), f, U)
    <3>1. \E k : SumsBelow(k, f, U) BY <2>1, <2>2
    <3>2. QED BY <3>1
  <2>3. ASSUME NEW U \in SUBSET T, U # T PROVE g[U] = G(U)[U]
    <3>1. G(U)[U] = Unfold(f, G(U), U)
      <4>1. SumsBelow(G(U), f, U) BY <2>2, <2>3
      <4> HIDE DEF G
      <4>2. QED BY <4>1 DEF SumsBelow
    <3>2. CASE U = {} BY <3>1, <3>2 DEF Unfold
    <3>3. CASE U # {}
      <4> DEFINE W == U \ {Pick(U)}
      <4>1. Pick(U) \in U BY <3>3 DEF Pick
      <4>2. W \subseteq U /\ W \in SUBSET T /\ W # T BY <4>1
      <4>3. SumsBelow(G(W), f, W) /\ SumsBelow(G(U), f, U) BY <4>2, <2>2, <2>3
      <4>4. IsFiniteSet(U) BY FS_Subset
      <4> HIDE DEF G, W
      <4>5. G(U)[W] = G(W)[W] BY <4>2, <4>3, <4>4, SolutionsAgree
      <4>6. QED BY <3>1, <3>3, <4>5 DEF Unfold, W
    <3>4. QED BY <3>2, <3>3
  <2>4. ASSUME NEW U \in SUBSET T PROVE g[U] = Unfold(f, g, U)
    <3>1. CASE U = {} BY <3>1 DEF Unfold
    <3>2. CASE U # {}
      <4> DEFINE W == U \ {Pick(U)}
      <4>1. Pick(U) \in U BY <3>2 DEF Pick
      <4>2. W \in SUBSET T /\ W # T BY <4>1
      <4>3. g[W] = G(W)[W] BY <4>2, <2>3
      <4>4. g[U] = f[Pick(U)] + G(W)[W] BY <3>2
      <4>5. QED BY <3>2, <4>3, <4>4 DEF Unfold
    <3>3. QED BY <3>1, <3>2
  <2>5. SumsBelow(g, f, T)
    <3>1. g = [U \in SUBSET T |-> g[U]] OBVIOUS
    <3> HIDE DEF g
    <3>2. QED BY <2>4, <3>1 DEF SumsBelow
  <2>6. QED BY <2>5
<1>2. QED BY <1>1

(* So the recursion may be unfolded ...                                    *)
LEMMA SumUnfold ==
  ASSUME NEW f, NEW S, IsFiniteSet(S)
  PROVE  SumFunctionOnSet(f, S) =
           IF S = {} THEN 0
           ELSE f[Pick(S)] + SumFunctionOnSet(f, S \ {Pick(S)})
<1> DEFINE G(T) == CHOOSE g : SumsBelow(g, f, T)
           W == S \ {Pick(S)}
<1>1. ASSUME NEW T \in SUBSET S PROVE SumsBelow(G(T), f, T)
  <2>1. IsFiniteSet(T) BY FS_Subset
  <2>2. \E g : SumsBelow(g, f, T) BY <2>1, SolutionExists
  <2>3. QED BY <2>2
<1>2. SumFunctionOnSet(f, S) = G(S)[S] /\ SumFunctionOnSet(f, W) = G(W)[W]
  BY SumIsSolution
<1>3. SumsBelow(G(S), f, S) /\ SumsBelow(G(W), f, W) BY <1>1
<1>4. G(S)[S] = Unfold(f, G(S), S) BY <1>3 DEF SumsBelow
<1> HIDE DEF G
<1>5. G(S)[W] = G(W)[W] BY <1>3, SolutionsAgree
<1>6. QED BY <1>2, <1>4, <1>5 DEF Unfold

(* ... at any element,                                                     *)
LEMMA SumOut ==
  ASSUME NEW S, IsFiniteSet(S), NEW f, \A x \in S : f[x] \in Int
  PROVE  /\ SumFunctionOnSet(f, S) \in Int
         /\ \A x \in S :
              SumFunctionOnSet(f, S) = f[x] + SumFunctionOnSet(f, S \ {x})
<1> DEFINE Good(T) ==
             /\ SumFunctionOnSet(f, T) \in Int
             /\ \A x \in T :
                  SumFunctionOnSet(f, T) = f[x] + SumFunctionOnSet(f, T \ {x})
           B == {T \in SUBSET S : ~ Good(T)}
<1>1. ASSUME B # {} PROVE FALSE
  <2>1. PICK T \in B : \A U \in SUBSET T : U # T => U \notin B
    <3>1. B \subseteq SUBSET S OBVIOUS
    <3> HIDE DEF B
    <3>2. QED BY <3>1, <1>1, SmallestSubset
  <2>2. ASSUME NEW U \in SUBSET T, U # T PROVE Good(U)
    BY <2>1, <2>2
  <2>3. IsFiniteSet(T) /\ ~ Good(T) /\ T \in SUBSET S BY FS_Subset
  <2>4. CASE T = {}
    <3>1. SumFunctionOnSet(f, T) = 0 BY <2>3, <2>4, SumUnfold
    <3>2. QED BY <3>1, <2>3, <2>4
  <2>5. CASE T # {}
    <3> DEFINE p == Pick(T)
               W == T \ {p}
    <3>1. p \in T BY <2>5 DEF Pick
    <3>2. SumFunctionOnSet(f, T) = f[p] + SumFunctionOnSet(f, W)
      BY <2>3, <2>5, SumUnfold
    <3>3. Good(W) /\ f[p] \in Int BY <3>1, <2>2, <2>3
    <3>4. SumFunctionOnSet(f, T) \in Int BY <3>2, <3>3
    <3>5. ASSUME NEW x \in T
          PROVE  SumFunctionOnSet(f, T) = f[x] + SumFunctionOnSet(f, T \ {x})
      <4>1. CASE x = p BY <4>1, <3>2
      <4>2. CASE x # p
        <5> DEFINE V == T \ {x}
                   Z == T \ {x, p}
        <5>1. x \in W /\ p \in V /\ W \ {x} = Z /\ V \ {p} = Z
          BY <3>1, <4>2
        <5>2. Good(V) /\ Good(Z) BY <2>2, <5>1, <3>1
        <5>3. SumFunctionOnSet(f, W) = f[x] + SumFunctionOnSet(f, Z)
          BY <3>3, <5>1
        <5>4. SumFunctionOnSet(f, V) = f[p] + SumFunctionOnSet(f, Z)
          BY <5>2, <5>1
        <5>5. f[x] \in Int /\ SumFunctionOnSet(f, Z) \in Int BY <2>3, <5>2
        <5>6. QED BY <3>2, <3>3, <5>3, <5>4, <5>5
      <4>3. QED BY <4>1, <4>2
    <3>6. QED BY <3>4, <3>5, <2>3
  <2>6. QED BY <2>4, <2>5
<1>2. Good(S)
  <2>1. S \notin B BY <1>1
  <2> HIDE DEF Good
  <2>2. QED BY <2>1
<1>3. QED BY <1>2

(* Nothing adds up to nothing.                                             *)
LEMMA SumEmpty == ASSUME NEW f PROVE SumFunctionOnSet(f, {}) = 0
BY SumUnfold, FS_EmptySet

(* ... or put together.                                                    *)
LEMMA SumAdd ==
  ASSUME NEW S, IsFiniteSet(S), NEW x, x \notin S,
         NEW f, \A y \in S \cup {x} : f[y] \in Int
  PROVE  SumFunctionOnSet(f, S \cup {x}) = SumFunctionOnSet(f, S) + f[x]
<1> DEFINE T == S \cup {x}
<1>1. IsFiniteSet(T) BY FS_AddElement
<1>2. T \ {x} = S /\ x \in T OBVIOUS
<1>3. SumFunctionOnSet(f, S) \in Int /\ f[x] \in Int BY SumOut
<1> HIDE DEF T
<1>4. \A y \in T : f[y] \in Int BY DEF T
<1>5. SumFunctionOnSet(f, T) = f[x] + SumFunctionOnSet(f, T \ {x})
  BY <1>1, <1>2, <1>4, SumOut
<1>6. SumFunctionOnSet(f, T \ {x}) = SumFunctionOnSet(f, S) BY <1>2
<1>7. QED BY <1>3, <1>5, <1>6 DEF T

(* One and two terms.                                                      *)
LEMMA SumOne ==
  ASSUME NEW f, NEW x, f[x] \in Int
  PROVE  SumFunctionOnSet(f, {x}) = f[x]
<1>1. IsFiniteSet({}) /\ x \notin {} BY FS_EmptySet
<1>2. SumFunctionOnSet(f, {} \cup {x}) = SumFunctionOnSet(f, {}) + f[x]
  BY <1>1, SumAdd
<1>3. {} \cup {x} = {x} OBVIOUS
<1>4. SumFunctionOnSet(f, {x}) = SumFunctionOnSet(f, {}) + f[x]
  BY <1>2, <1>3
<1>5. QED BY <1>4, SumEmpty

LEMMA SumTwo ==
  ASSUME NEW f, NEW x, NEW y, x # y, f[x] \in Int, f[y] \in Int
  PROVE  SumFunctionOnSet(f, {x, y}) = f[x] + f[y]
<1>1. IsFiniteSet({x}) /\ y \notin {x} BY FS_Singleton
<1>2. SumFunctionOnSet(f, {x} \cup {y}) = SumFunctionOnSet(f, {x}) + f[y]
  BY <1>1, SumAdd
<1>3. {x} \cup {y} = {x, y} OBVIOUS
<1>4. SumFunctionOnSet(f, {x, y}) = SumFunctionOnSet(f, {x}) + f[y]
  BY <1>2, <1>3
<1>5. QED BY <1>4, SumOne

(* Only the values on the set count.                                       *)
LEMMA SumAgree ==
  ASSUME NEW S, IsFiniteSet(S), NEW f, NEW g,
         \A x \in S : f[x] \in Int /\ g[x] = f[x]
  PROVE  SumFunctionOnSet(g, S) = SumFunctionOnSet(f, S)
<1> DEFINE B == {T \in SUBSET S :
                   SumFunctionOnSet(g, T) # SumFunctionOnSet(f, T)}
<1>1. ASSUME B # {} PROVE FALSE
  <2>1. PICK T \in B : \A U \in SUBSET T : U # T => U \notin B
    <3>1. B \subseteq SUBSET S OBVIOUS
    <3> HIDE DEF B
    <3>2. QED BY <3>1, <1>1, SmallestSubset
  <2>2. IsFiniteSet(T) BY FS_Subset
  <2>3. CASE T = {} BY <2>2, <2>3, SumUnfold
  <2>4. CASE T # {}
    <3> DEFINE W == T \ {Pick(T)}
    <3>1. Pick(T) \in T BY <2>4 DEF Pick
    <3>2. SumFunctionOnSet(g, W) = SumFunctionOnSet(f, W) BY <3>1, <2>1
    <3>3. SumFunctionOnSet(g, T) = g[Pick(T)] + SumFunctionOnSet(g, W)
      BY <2>2, <2>4, SumUnfold
    <3>4. SumFunctionOnSet(f, T) = f[Pick(T)] + SumFunctionOnSet(f, W)
      BY <2>2, <2>4, SumUnfold
    <3>5. g[Pick(T)] = f[Pick(T)] BY <3>1
    <3>6. QED BY <3>2, <3>3, <3>4, <3>5
  <2>5. QED BY <2>3, <2>4
<1>2. QED BY <1>1

(* A sum of what is not negative is not, nor less than each of its parts.  *)
LEMMA SumNotNegative ==
  ASSUME NEW S, IsFiniteSet(S), NEW f, \A x \in S : f[x] \in Nat
  PROVE  SumFunctionOnSet(f, S) \in Nat
<1> DEFINE B == {T \in SUBSET S : SumFunctionOnSet(f, T) \notin Nat}
<1>1. ASSUME B # {} PROVE FALSE
  <2>1. PICK T \in B : \A U \in SUBSET T : U # T => U \notin B
    <3>1. B \subseteq SUBSET S OBVIOUS
    <3> HIDE DEF B
    <3>2. QED BY <3>1, <1>1, SmallestSubset
  <2>2. IsFiniteSet(T) BY FS_Subset
  <2>3. CASE T = {}
    <3>1. SumFunctionOnSet(f, T) = 0 BY <2>2, <2>3, SumUnfold
    <3>2. QED BY <3>1, <2>1
  <2>4. CASE T # {}
    <3> DEFINE W == T \ {Pick(T)}
    <3>1. Pick(T) \in T BY <2>4 DEF Pick
    <3>2. SumFunctionOnSet(f, W) \in Nat /\ f[Pick(T)] \in Nat BY <3>1, <2>1
    <3>3. SumFunctionOnSet(f, T) = f[Pick(T)] + SumFunctionOnSet(f, W)
      BY <2>2, <2>4, SumUnfold
    <3>4. QED BY <3>2, <3>3, <2>1
  <2>5. QED BY <2>3, <2>4
<1>2. QED BY <1>1

-----------------------------------------------------------------------------
(* A collection that has the empty set and is closed under adding an       *)
(* element of S has S.                                                     *)
LEMMA GrowTo ==
  ASSUME NEW S, IsFiniteSet(S), NEW B, {} \in B,
         \A T \in SUBSET S : T \in B => \A x \in S \ T : T \cup {x} \in B
  PROVE  S \in B
<1> DEFINE C == (SUBSET S) \ B
<1>1. ASSUME C # {} PROVE FALSE
  <2>1. PICK T \in C : \A U \in SUBSET T : U # T => U \notin C
    <3>1. C \subseteq SUBSET S OBVIOUS
    <3> HIDE DEF C
    <3>2. QED BY <3>1, <1>1, SmallestSubset
  <2>2. PICK x \in T : TRUE BY <2>1
  <2>3. T \ {x} \in B /\ (T \ {x}) \cup {x} = T BY <2>1
  <2>4. T \in B BY <2>3, <2>1, <2>2
  <2>5. QED BY <2>1, <2>4
<1>2. QED BY <1>1

(* The sum over two sets that do not meet.                                 *)
LEMMA SumUnion ==
  ASSUME NEW S, IsFiniteSet(S), NEW T, IsFiniteSet(T), S \cap T = {},
         NEW f, \A x \in S \cup T : f[x] \in Int
  PROVE  SumFunctionOnSet(f, S \cup T)
           = SumFunctionOnSet(f, S) + SumFunctionOnSet(f, T)
<1> DEFINE B == {U \in SUBSET T : SumFunctionOnSet(f, S \cup U)
                   = SumFunctionOnSet(f, S) + SumFunctionOnSet(f, U)}
<1>1. {} \in B
  <2>1. SumFunctionOnSet(f, S) \in Int BY SumOut
  <2>2. SumFunctionOnSet(f, {}) = 0 BY SumEmpty
  <2>3. S \cup {} = S OBVIOUS
  <2>4. SumFunctionOnSet(f, S \cup {}) = SumFunctionOnSet(f, S) BY <2>3
  <2>5. QED BY <2>1, <2>2, <2>4
<1>2. ASSUME NEW U \in SUBSET T, U \in B, NEW x \in T \ U
      PROVE  U \cup {x} \in B
  <2>1. IsFiniteSet(U) /\ IsFiniteSet(S \cup U) BY FS_Subset, FS_Union
  <2>2. SumFunctionOnSet(f, U \cup {x}) = SumFunctionOnSet(f, U) + f[x]
    BY <2>1, SumAdd
  <2>3. SumFunctionOnSet(f, (S \cup U) \cup {x})
          = SumFunctionOnSet(f, S \cup U) + f[x]
    BY <2>1, SumAdd
  <2>4. (S \cup U) \cup {x} = S \cup (U \cup {x}) OBVIOUS
  <2>5. /\ SumFunctionOnSet(f, S) \in Int /\ SumFunctionOnSet(f, U) \in Int
        /\ f[x] \in Int
    BY <2>1, SumOut
  <2>6. SumFunctionOnSet(f, S \cup (U \cup {x}))
          = SumFunctionOnSet(f, S \cup U) + f[x]
    BY <2>3, <2>4
  <2>7. QED BY <1>2, <2>2, <2>5, <2>6
<1> HIDE DEF B
<1>3. T \in B BY <1>1, <1>2, GrowTo
<1>4. QED BY <1>3 DEF B

(* The sum of pointwise sums.                                              *)
LEMMA SumPlus ==
  ASSUME NEW S, IsFiniteSet(S), NEW f, NEW g, NEW h,
         \A x \in S : f[x] \in Int /\ g[x] \in Int /\ h[x] = f[x] + g[x]
  PROVE  SumFunctionOnSet(h, S)
           = SumFunctionOnSet(f, S) + SumFunctionOnSet(g, S)
<1> DEFINE B == {U \in SUBSET S : SumFunctionOnSet(h, U)
                   = SumFunctionOnSet(f, U) + SumFunctionOnSet(g, U)}
<1>1. {} \in B BY SumEmpty
<1>2. ASSUME NEW U \in SUBSET S, U \in B, NEW x \in S \ U
      PROVE  U \cup {x} \in B
  <2>1. IsFiniteSet(U) BY FS_Subset
  <2>2. /\ SumFunctionOnSet(f, U \cup {x}) = SumFunctionOnSet(f, U) + f[x]
        /\ SumFunctionOnSet(g, U \cup {x}) = SumFunctionOnSet(g, U) + g[x]
    BY <2>1, SumAdd
  <2>3. \A y \in U \cup {x} : h[y] \in Int OBVIOUS
  <2>4. SumFunctionOnSet(h, U \cup {x}) = SumFunctionOnSet(h, U) + h[x]
    BY <2>1, <2>3, SumAdd
  <2>5. /\ SumFunctionOnSet(f, U) \in Int /\ SumFunctionOnSet(g, U) \in Int
        /\ f[x] \in Int /\ g[x] \in Int /\ h[x] = f[x] + g[x]
    BY <2>1, SumOut
  <2>6. SumFunctionOnSet(h, U)
          = SumFunctionOnSet(f, U) + SumFunctionOnSet(g, U)
    BY <1>2
  <2>7. SumFunctionOnSet(h, U \cup {x})
          = SumFunctionOnSet(f, U \cup {x}) + SumFunctionOnSet(g, U \cup {x})
    BY <2>2, <2>4, <2>5, <2>6
  <2>8. QED BY <2>7
<1> HIDE DEF B
<1>3. S \in B BY <1>1, <1>2, GrowTo
<1>4. QED BY <1>3 DEF B

(* The sum of what is nothing everywhere.                                  *)
LEMMA SumZero ==
  ASSUME NEW S, IsFiniteSet(S), NEW f, \A x \in S : f[x] = 0
  PROVE  SumFunctionOnSet(f, S) = 0
<1> DEFINE B == {U \in SUBSET S : SumFunctionOnSet(f, U) = 0}
<1>1. {} \in B BY SumEmpty
<1>2. ASSUME NEW U \in SUBSET S, U \in B, NEW x \in S \ U
      PROVE  U \cup {x} \in B
  <2>1. IsFiniteSet(U) BY FS_Subset
  <2>2. SumFunctionOnSet(f, U \cup {x}) = SumFunctionOnSet(f, U) + f[x]
    <3>1. \A y \in U \cup {x} : f[y] \in Int OBVIOUS
    <3>2. QED BY <2>1, <3>1, SumAdd
  <2>3. QED BY <2>2, <1>2
<1> HIDE DEF B
<1>3. S \in B BY <1>1, <1>2, GrowTo
<1>4. QED BY <1>3 DEF B

(* The sum of opposites.                                                   *)
LEMMA SumMinus ==
  ASSUME NEW S, IsFiniteSet(S), NEW f, NEW g,
         \A x \in S : f[x] \in Int /\ g[x] = - f[x]
  PROVE  SumFunctionOnSet(g, S) = - SumFunctionOnSet(f, S)
<1> DEFINE h == [x \in S |-> 0]
<1>1. \A x \in S : g[x] \in Int /\ h[x] = f[x] + g[x] OBVIOUS
<1>2. SumFunctionOnSet(h, S) = 0 BY SumZero
<1> HIDE DEF h
<1>3. SumFunctionOnSet(h, S)
        = SumFunctionOnSet(f, S) + SumFunctionOnSet(g, S)
  BY <1>1, SumPlus
<1>4. SumFunctionOnSet(f, S) \in Int /\ SumFunctionOnSet(g, S) \in Int
  BY <1>1, SumOut
<1>5. QED BY <1>2, <1>3, <1>4

(* The sum of a constant.                                                  *)
LEMMA SumConstant ==
  ASSUME NEW S, IsFiniteSet(S), NEW c \in Int, NEW f, \A x \in S : f[x] = c
  PROVE  SumFunctionOnSet(f, S) = c * Cardinality(S)
<1> DEFINE B == {U \in SUBSET S : SumFunctionOnSet(f, U) = c * Cardinality(U)}
<1>1. {} \in B
  <2>1. Cardinality({}) = 0 BY FS_EmptySet
  <2>2. QED BY <2>1, SumEmpty
<1>2. ASSUME NEW U \in SUBSET S, U \in B, NEW x \in S \ U
      PROVE  U \cup {x} \in B
  <2>1. IsFiniteSet(U) BY FS_Subset
  <2>2. SumFunctionOnSet(f, U \cup {x}) = SumFunctionOnSet(f, U) + c
    <3>1. \A y \in U \cup {x} : f[y] \in Int OBVIOUS
    <3>2. f[x] = c OBVIOUS
    <3>3. QED BY <2>1, <3>1, <3>2, SumAdd
  <2>3. Cardinality(U) \in Nat /\ Cardinality(U \cup {x}) = Cardinality(U) + 1
    BY <2>1, FS_CardinalityType, FS_AddElement
  <2>4. SumFunctionOnSet(f, U) = c * Cardinality(U) BY <1>2
  <2>5. \A n \in Nat : c * (n + 1) = c * n + c OBVIOUS
  <2>6. QED BY <2>2, <2>3, <2>4, <2>5
<1> HIDE DEF B
<1>3. S \in B BY <1>1, <1>2, GrowTo
<1>4. QED BY <1>3 DEF B

(* The sum of what is nowhere more.                                        *)
LEMMA SumAtMost ==
  ASSUME NEW S, IsFiniteSet(S), NEW f, NEW g,
         \A x \in S : f[x] \in Int /\ g[x] \in Int /\ f[x] <= g[x]
  PROVE  SumFunctionOnSet(f, S) <= SumFunctionOnSet(g, S)
<1> DEFINE h == [x \in S |-> g[x] - f[x]]
<1>1. \A x \in S : h[x] \in Nat /\ g[x] = f[x] + h[x] OBVIOUS
<1> HIDE DEF h
<1>2. SumFunctionOnSet(h, S) \in Nat BY <1>1, SumNotNegative
<1>3. SumFunctionOnSet(g, S)
        = SumFunctionOnSet(f, S) + SumFunctionOnSet(h, S)
  BY <1>1, SumPlus
<1>4. SumFunctionOnSet(f, S) \in Int BY SumOut
<1>5. QED BY <1>2, <1>3, <1>4

(* What a change at one place does to a sum: others may only shrink.       *)
LEMMA SumMoves ==
  ASSUME NEW S, IsFiniteSet(S), NEW x \in S, NEW c \in Int, NEW f, NEW g,
         \A y \in S : f[y] \in Int /\ g[y] \in Int,
         \A y \in S \ {x} : g[y] <= f[y], g[x] <= f[x] + c
  PROVE  SumFunctionOnSet(g, S) <= SumFunctionOnSet(f, S) + c
<1> DEFINE R == S \ {x}
<1>1. IsFiniteSet(R)
  BY FS_Subset
<1>2. SumFunctionOnSet(g, R) <= SumFunctionOnSet(f, R)
  BY <1>1, SumAtMost
<1>3. SumFunctionOnSet(f, R) \in Int /\ SumFunctionOnSet(g, R) \in Int
  BY <1>1, SumOut
<1>4. /\ SumFunctionOnSet(f, S) = f[x] + SumFunctionOnSet(f, R)
      /\ SumFunctionOnSet(g, S) = g[x] + SumFunctionOnSet(g, R)
  BY SumOut
<1>5. QED BY <1>2, <1>3, <1>4

(* The sum over S, group by group: k says to which group of R each is.     *)
Group(k, S, r) == {x \in S : k[x] = r}

LEMMA SumByGroup ==
  ASSUME NEW S, IsFiniteSet(S), NEW f, \A x \in S : f[x] \in Int,
         NEW R, IsFiniteSet(R), NEW k, \A x \in S : k[x] \in R,
         NEW g, \A r \in R :
                  g[r] = SumFunctionOnSet(f, Group(k, S, r))
  PROVE  SumFunctionOnSet(f, S) = SumFunctionOnSet(g, R)
<1> DEFINE In(Q) == {x \in S : k[x] \in Q}
           B == {Q \in SUBSET R :
                   SumFunctionOnSet(f, In(Q)) = SumFunctionOnSet(g, Q)}
<1>1. {} \in B
  <2>1. In({}) = {} OBVIOUS
  <2> HIDE DEF In
  <2>2. QED BY <2>1, SumEmpty
<1>2. ASSUME NEW Q \in SUBSET R, Q \in B, NEW r \in R \ Q
      PROVE  Q \cup {r} \in B
  <2> DEFINE G == Group(k, S, r)
  <2>1. IsFiniteSet(Q) /\ IsFiniteSet(In(Q)) /\ IsFiniteSet(G)
    BY FS_Subset DEF Group
  <2>2. In(Q \cup {r}) = In(Q) \cup G /\ In(Q) \cap G = {} BY DEF Group
  <2>3. \A x \in In(Q) \cup G : f[x] \in Int BY DEF Group
  <2>4. g[r] = SumFunctionOnSet(f, G) OBVIOUS
  <2>5. \A s \in R : g[s] \in Int
    <3> TAKE s \in R
    <3>1. IsFiniteSet(Group(k, S, s)) /\ Group(k, S, s) \subseteq S
      BY FS_Subset DEF Group
    <3>2. SumFunctionOnSet(f, Group(k, S, s)) \in Int BY <3>1, SumOut
    <3>3. QED BY <3>2
  <2>6. SumFunctionOnSet(f, In(Q)) = SumFunctionOnSet(g, Q) BY <1>2
  <2> HIDE DEF In, G
  <2>7. SumFunctionOnSet(f, In(Q) \cup G)
          = SumFunctionOnSet(f, In(Q)) + SumFunctionOnSet(f, G)
    BY <2>1, <2>2, <2>3, SumUnion
  <2>8. SumFunctionOnSet(g, Q \cup {r}) = SumFunctionOnSet(g, Q) + g[r]
    BY <2>1, <2>5, SumAdd
  <2>9. SumFunctionOnSet(f, In(Q \cup {r})) = SumFunctionOnSet(g, Q \cup {r})
    BY <2>2, <2>4, <2>6, <2>7, <2>8
  <2>10. QED BY <2>9
<1>3. R \in B
  <2> HIDE DEF B
  <2>1. QED BY <1>1, <1>2, GrowTo
<1>4. In(R) = S OBVIOUS
<1>5. QED BY <1>3, <1>4
=============================================================================
