---- MODULE SumTheorems ----
(***************************************************************************)
(* Sums over finite sets.  The models add up rows with SumFunctionOnSet;   *)
(* the lemmas here say what such a sum is when one row is added, removed   *)
(* or changed.  They rest on the well-foundedness of strict inclusion of   *)
(* finite sets: a statement about every subset of a finite set is proved   *)
(* by looking at a smallest subset for which it fails.                     *)
(***************************************************************************)
EXTENDS Integers, FiniteSetsExt, FiniteSetTheorems, TLAPS

LEMMA SmallestSubset ==
  ASSUME NEW S, IsFiniteSet(S), NEW X \in SUBSET SUBSET S, X # {}
  PROVE  \E T \in X : \A U \in SUBSET T : U \in X => U = T
  <1>1. IsWellFoundedOn(StrictSubsetOrdering(S), SUBSET S)
    BY FS_StrictSubsetOrderingWellFounded, FS_FiniteSubsetsOfFinite
  <1>2. PICK T \in X : \A U \in X : <<U, T>> \notin StrictSubsetOrdering(S)
    BY <1>1, WFMin
  <1> QED
    BY <1>2 DEF StrictSubsetOrdering

(***************************************************************************)
(* The recursion behind SumFunctionOnSet: Iter(F, S, g) says that g adds   *)
(* up F over every subset of S, one chosen element at a time.              *)
(***************************************************************************)
Some(s) == CHOOSE x \in s : TRUE

Iter(F, S, g) ==
    g = [s \in SUBSET S |-> IF s = {} THEN 0 ELSE F[Some(s)] + g[s \ {Some(s)}]]

IterOf(F, S) == CHOOSE g : Iter(F, S, g)

LEMMA SomeIn == \A s : s # {} => Some(s) \in s
  BY DEF Some

LEMMA SumIsIter == \A F, S : SumFunctionOnSet(F, S) = IterOf(F, S)[S]
  BY DEF SumFunctionOnSet, FoldFunctionOnSet, MapThenFoldSet, IterOf, Iter, Some

LEMMA IterAt ==
  ASSUME NEW F, NEW S, NEW g, Iter(F, S, g), NEW s \in SUBSET S
  PROVE  g[s] = IF s = {} THEN 0 ELSE F[Some(s)] + g[s \ {Some(s)}]
  BY DEF Iter

\* two such functions agree where both are defined
LEMMA IterAgree ==
  ASSUME NEW F, NEW S, IsFiniteSet(S), NEW g, Iter(F, S, g),
         NEW T, NEW h, Iter(F, T, h)
  PROVE  \A s \in SUBSET S : s \subseteq T => g[s] = h[s]
  <1> DEFINE X == {s \in SUBSET S : s \subseteq T /\ g[s] # h[s]}
  <1>1. SUFFICES ASSUME X # {} PROVE FALSE
    OBVIOUS
  <1>0. X \in SUBSET SUBSET S
    OBVIOUS
  <1>2. PICK s \in X : \A u \in SUBSET s : u \in X => u = s
    <2> HIDE DEF X
    <2> QED
      BY <1>0, <1>1, SmallestSubset
  <1>3. s # {}
    BY IterAt
  <1>4. Some(s) \in s
    BY <1>3, SomeIn
  <1>5. s \ {Some(s)} \notin X
    BY <1>2, <1>4
  <1>6. g[s \ {Some(s)}] = h[s \ {Some(s)}]
    BY <1>5
  <1> QED
    BY <1>3, <1>6, IterAt

\* and there is one for every finite set
LEMMA IterExists ==
  ASSUME NEW F, NEW S, IsFiniteSet(S)
  PROVE  Iter(F, S, IterOf(F, S))
  <1> DEFINE X == {T \in SUBSET S : ~ \E g : Iter(F, T, g)}
  <1>1. SUFFICES ASSUME X # {} PROVE FALSE
    BY DEF IterOf
  <1>0. X \in SUBSET SUBSET S
    OBVIOUS
  <1>2. PICK T \in X : \A U \in SUBSET T : U \in X => U = T
    <2> HIDE DEF X
    <2> QED
      BY <1>0, <1>1, SmallestSubset
  <1>3. \A U \in SUBSET T : U # T => Iter(F, U, IterOf(F, U))
    BY <1>2 DEF IterOf
  <1>4. \A U \in SUBSET T : IsFiniteSet(U)
    BY FS_Subset
  <1> DEFINE rest(s) == s \ {Some(s)}
             sum(U) == IterOf(F, U)[U]
             h == [s \in SUBSET T |-> IF s = {} THEN 0 ELSE F[Some(s)] + sum(rest(s))]
  <1>5. ASSUME NEW U \in SUBSET T, U # T, U # {}
        PROVE  sum(U) = F[Some(U)] + sum(rest(U))
    <2>1. rest(U) \in SUBSET U /\ rest(U) # T
      BY <1>5, SomeIn
    <2>2. Iter(F, U, IterOf(F, U)) /\ Iter(F, rest(U), IterOf(F, rest(U)))
      BY <1>3, <1>5, <2>1
    <2>3. IterOf(F, U)[rest(U)] = IterOf(F, rest(U))[rest(U)]
      BY <1>4, <2>1, <2>2, IterAgree
    <2> QED
      BY <1>5, <2>2, <2>3, IterAt
  <1>6. sum({}) = 0 \/ T = {}
    BY <1>3, IterAt
  <1>7. \A U \in SUBSET T : U # T => h[U] = sum(U)
    BY <1>5, <1>6
  <1>8. \A s \in SUBSET T : s # {} => rest(s) \in SUBSET T /\ rest(s) # T
    BY SomeIn
  <1>9. Iter(F, T, h)
    <2>1. \A s \in SUBSET T : s # {} => h[rest(s)] = sum(rest(s))
      BY <1>7, <1>8
    <2>2. \A s \in SUBSET T : h[s] = IF s = {} THEN 0 ELSE F[Some(s)] + h[rest(s)]
      BY <2>1
    <2> HIDE DEF h
    <2>3. h = [s \in SUBSET T |-> h[s]]
      BY DEF h
    <2> QED
      BY <2>2, <2>3 DEF Iter
  <1> QED
    BY <1>2, <1>9

----------------------------------------------------------------------------
LEMMA SumEmpty == \A F : SumFunctionOnSet(F, {}) = 0
  BY IterExists, IterAt, SumIsIter, FS_EmptySet

LEMMA SumSome ==
  ASSUME NEW F, NEW S, IsFiniteSet(S), S # {}
  PROVE  SumFunctionOnSet(F, S) = F[Some(S)] + SumFunctionOnSet(F, S \ {Some(S)})
  <1> DEFINE R == S \ {Some(S)}
  <1>1. IsFiniteSet(R) /\ R \in SUBSET S
    BY FS_Subset
  <1>2. Iter(F, S, IterOf(F, S)) /\ Iter(F, R, IterOf(F, R))
    BY <1>1, IterExists
  <1>3. IterOf(F, S)[R] = IterOf(F, R)[R]
    BY <1>1, <1>2, IterAgree
  <1>4. IterOf(F, S)[S] = F[Some(S)] + IterOf(F, S)[R]
    BY <1>2, IterAt
  <1> QED
    BY <1>3, <1>4, SumIsIter

(***************************************************************************)
(* A sum of integers is an integer.                                        *)
(***************************************************************************)
LEMMA SumType ==
  ASSUME NEW F, NEW S, IsFiniteSet(S), \A x \in S : F[x] \in Int
  PROVE  SumFunctionOnSet(F, S) \in Int
  <1> DEFINE X == {T \in SUBSET S : SumFunctionOnSet(F, T) \notin Int}
  <1>1. SUFFICES ASSUME X # {} PROVE FALSE
    OBVIOUS
  <1>0. X \in SUBSET SUBSET S
    OBVIOUS
  <1>2. PICK T \in X : \A U \in SUBSET T : U \in X => U = T
    <2> HIDE DEF X
    <2> QED
      BY <1>0, <1>1, SmallestSubset
  <1>3. T # {}
    BY SumEmpty
  <1>4. Some(T) \in T /\ IsFiniteSet(T)
    BY <1>3, SomeIn, FS_Subset
  <1>5. SumFunctionOnSet(F, T \ {Some(T)}) \in Int
    BY <1>2, <1>4
  <1> QED
    BY <1>3, <1>4, <1>5, SumSome

(***************************************************************************)
(* Any element may be taken out first.                                     *)
(***************************************************************************)
LEMMA SumRemove ==
  ASSUME NEW F, NEW S, IsFiniteSet(S), \A x \in S : F[x] \in Int, NEW a \in S
  PROVE  SumFunctionOnSet(F, S) = F[a] + SumFunctionOnSet(F, S \ {a})
  <1> DEFINE sum(T) == SumFunctionOnSet(F, T)
             X == {T \in SUBSET S : \E x \in T : sum(T) # F[x] + sum(T \ {x})}
  <1>1. SUFFICES ASSUME X # {} PROVE FALSE
    OBVIOUS
  <1>0. X \in SUBSET SUBSET S
    OBVIOUS
  <1>2. PICK T \in X : \A U \in SUBSET T : U \in X => U = T
    <2> HIDE DEF X
    <2> QED
      BY <1>0, <1>1, SmallestSubset
  <1>3. PICK x \in T : sum(T) # F[x] + sum(T \ {x})
    OBVIOUS
  <1> DEFINE y == Some(T)
             R == T \ {x, y}
  <1>4. y \in T /\ IsFiniteSet(T) /\ \A U \in SUBSET T : IsFiniteSet(U)
    BY <1>3, SomeIn, FS_Subset
  <1>5. sum(T) = F[y] + sum(T \ {y})
    BY <1>3, <1>4, SumSome
  <1>6. x # y
    BY <1>3, <1>5
  <1>7. T \ {y} \notin X /\ T \ {x} \notin X
    BY <1>2, <1>3, <1>4
  <1>8. (T \ {y}) \ {x} = R /\ (T \ {x}) \ {y} = R
    OBVIOUS
  <1>9. sum(T \ {y}) = F[x] + sum(R)
    BY <1>3, <1>6, <1>7, <1>8
  <1>10. sum(T \ {x}) = F[y] + sum(R)
    BY <1>4, <1>6, <1>7, <1>8
  <1>11. F[x] \in Int /\ F[y] \in Int /\ sum(R) \in Int
    BY <1>4, SumType
  <1> HIDE DEF sum, y, R
  <1> QED
    BY <1>3, <1>5, <1>9, <1>10, <1>11

(***************************************************************************)
(* One element more.                                                       *)
(***************************************************************************)
LEMMA SumAdd ==
  ASSUME NEW F, NEW S, IsFiniteSet(S), NEW a, a \notin S,
         \A x \in S \cup {a} : F[x] \in Int
  PROVE  SumFunctionOnSet(F, S \cup {a}) = F[a] + SumFunctionOnSet(F, S)
  <1>1. IsFiniteSet(S \cup {a}) /\ (S \cup {a}) \ {a} = S
    BY FS_AddElement
  <1> QED
    BY <1>1, SumRemove

(***************************************************************************)
(* Functions that agree on a set have the same sum over it.                *)
(***************************************************************************)
LEMMA SumEqual ==
  ASSUME NEW F, NEW G, NEW S, IsFiniteSet(S), \A x \in S : F[x] = G[x]
  PROVE  SumFunctionOnSet(F, S) = SumFunctionOnSet(G, S)
  <1> DEFINE X == {T \in SUBSET S : SumFunctionOnSet(F, T) # SumFunctionOnSet(G, T)}
  <1>1. SUFFICES ASSUME X # {} PROVE FALSE
    OBVIOUS
  <1>0. X \in SUBSET SUBSET S
    OBVIOUS
  <1>2. PICK T \in X : \A U \in SUBSET T : U \in X => U = T
    <2> HIDE DEF X
    <2> QED
      BY <1>0, <1>1, SmallestSubset
  <1>3. T # {}
    BY SumEmpty
  <1>4. Some(T) \in T /\ IsFiniteSet(T)
    BY <1>3, SomeIn, FS_Subset
  <1>5. SumFunctionOnSet(F, T \ {Some(T)}) = SumFunctionOnSet(G, T \ {Some(T)})
    BY <1>2, <1>4
  <1> QED
    BY <1>3, <1>4, <1>5, SumSome

(***************************************************************************)
(* A sum of what is not negative is not negative.                          *)
(***************************************************************************)
LEMMA SumNat ==
  ASSUME NEW F, NEW S, IsFiniteSet(S), \A x \in S : F[x] \in Nat
  PROVE  SumFunctionOnSet(F, S) \in Nat
  <1> DEFINE X == {T \in SUBSET S : SumFunctionOnSet(F, T) \notin Nat}
  <1>1. SUFFICES ASSUME X # {} PROVE FALSE
    OBVIOUS
  <1>0. X \in SUBSET SUBSET S
    OBVIOUS
  <1>2. PICK T \in X : \A U \in SUBSET T : U \in X => U = T
    <2> HIDE DEF X
    <2> QED
      BY <1>0, <1>1, SmallestSubset
  <1>3. T # {}
    BY SumEmpty
  <1>4. Some(T) \in T /\ IsFiniteSet(T)
    BY <1>3, SomeIn, FS_Subset
  <1>5. SumFunctionOnSet(F, T \ {Some(T)}) \in Nat
    BY <1>2, <1>4
  <1> QED
    BY <1>3, <1>4, <1>5, SumSome

(***************************************************************************)
(* What a step of a model does to a sum: the row of a joins the set, the   *)
(* row of a leaves it, or the row of a changes; the others keep theirs.    *)
(***************************************************************************)
LEMMA SumJoin ==
  ASSUME NEW F, NEW G, NEW S, IsFiniteSet(S), NEW a, a \notin S, G[a] \in Int,
         \A x \in S : F[x] \in Int, \A x \in S : G[x] = F[x],
         NEW T, T = S \cup {a}
  PROVE  SumFunctionOnSet(G, T) = SumFunctionOnSet(F, S) + G[a]
  <1>1. SumFunctionOnSet(G, S \cup {a}) = G[a] + SumFunctionOnSet(G, S)
    BY SumAdd
  <1>2. SumFunctionOnSet(G, S) = SumFunctionOnSet(F, S)
    BY SumEqual
  <1>3. SumFunctionOnSet(F, S) \in Int
    BY SumType
  <1> QED
    BY <1>1, <1>2, <1>3

LEMMA SumLeave ==
  ASSUME NEW F, NEW G, NEW S, IsFiniteSet(S), NEW a, a \in S,
         \A x \in S : F[x] \in Int, NEW T, T = S \ {a}, \A x \in T : G[x] = F[x]
  PROVE  SumFunctionOnSet(G, T) = SumFunctionOnSet(F, S) - F[a]
  <1>1. SumFunctionOnSet(F, S) = F[a] + SumFunctionOnSet(F, S \ {a})
    BY SumRemove
  <1>2. IsFiniteSet(T) /\ \A x \in T : F[x] \in Int /\ G[x] = F[x]
    BY FS_Subset
  <1>3. SumFunctionOnSet(G, T) = SumFunctionOnSet(F, T)
    BY <1>2, SumEqual
  <1>4. SumFunctionOnSet(F, T) \in Int
    BY <1>2, SumType
  <1> QED
    BY <1>1, <1>3, <1>4

LEMMA SumSingleton ==
  ASSUME NEW F, NEW a, F[a] \in Int
  PROVE  SumFunctionOnSet(F, {a}) = F[a]
  <1>1. IsFiniteSet({}) /\ {} \cup {a} = {a}
    BY FS_EmptySet
  <1>2. SumFunctionOnSet(F, {} \cup {a}) = SumFunctionOnSet(F, {}) + F[a]
    BY <1>1, SumJoin
  <1> QED
    BY <1>1, <1>2, SumEmpty

(***************************************************************************)
(* Part of a sum of what is not negative.                                  *)
(***************************************************************************)
LEMMA SumMonotone ==
  ASSUME NEW F, NEW S, IsFiniteSet(S), \A x \in S : F[x] \in Nat, NEW P \in SUBSET S
  PROVE  SumFunctionOnSet(F, P) <= SumFunctionOnSet(F, S)
  <1> DEFINE sum(T) == SumFunctionOnSet(F, T)
             X == {T \in SUBSET S : ~(sum(P \cap T) <= sum(T))}
  <1>1. SUFFICES ASSUME X # {} PROVE FALSE
    <2>1. P \cap S = P /\ S \in SUBSET S
      OBVIOUS
    <2> QED
      BY <2>1
  <1>0. X \in SUBSET SUBSET S
    OBVIOUS
  <1>2. PICK T \in X : \A U \in SUBSET T : U \in X => U = T
    <2> HIDE DEF X
    <2> QED
      BY <1>0, <1>1, SmallestSubset
  <1>3. T # {}
    <2>1. ASSUME T = {} PROVE P \cap T = T
      BY <2>1
    <2>2. ASSUME T = {} PROVE sum(T) = 0
      BY <2>2, SumEmpty
    <2>3. ~(sum(P \cap T) <= sum(T))
      OBVIOUS
    <2> HIDE DEF sum, X
    <2> QED
      BY <2>1, <2>2, <2>3
  <1> DEFINE y == Some(T)
             R == T \ {y}
  <1>4. y \in T /\ IsFiniteSet(T) /\ \A U \in SUBSET T : IsFiniteSet(U)
    BY <1>3, SomeIn, FS_Subset
  <1>5. sum(P \cap R) <= sum(R)
    BY <1>2, <1>4
  <1>6. F[y] \in Nat /\ \A x \in T : F[x] \in Int
    BY <1>4
  <1>7. sum(T) = F[y] + sum(R)
    BY <1>3, <1>4, SumSome
  <1>8. sum(R) \in Int /\ sum(P \cap R) \in Int
    BY <1>4, <1>6, SumType
  <1>9. sum(P \cap T) = IF y \in P THEN F[y] + sum(P \cap R) ELSE sum(P \cap R)
    <2>1. CASE y \in P
      <3>1. y \in P \cap T /\ (P \cap T) \ {y} = P \cap R
        BY <1>4, <2>1
      <3>2. IsFiniteSet(P \cap T) /\ \A x \in P \cap T : F[x] \in Int
        BY <1>4, <1>6
      <3> HIDE DEF y, R
      <3>3. SumFunctionOnSet(F, P \cap T) = F[y] + SumFunctionOnSet(F, (P \cap T) \ {y})
        BY <3>1, <3>2, SumRemove
      <3> QED
        BY <2>1, <3>1, <3>3
    <2>2. CASE y \notin P
      <3>1. P \cap T = P \cap R
        BY <2>2
      <3> QED
        BY <2>2, <3>1
    <2> QED
      BY <2>1, <2>2
  <1>10. sum(P \cap T) <= sum(T)
    <2> HIDE DEF sum, y, R
    <2> QED
      BY <1>5, <1>6, <1>7, <1>8, <1>9
  <1> QED
    BY <1>2, <1>10

(***************************************************************************)
(* Two sets without a common element are added up one after the other.     *)
(***************************************************************************)
LEMMA SumUnion ==
  ASSUME NEW F, NEW S, NEW R, IsFiniteSet(S), IsFiniteSet(R), S \cap R = {},
         \A x \in S : F[x] \in Int, \A x \in R : F[x] \in Int
  PROVE  SumFunctionOnSet(F, S \cup R) = SumFunctionOnSet(F, S) + SumFunctionOnSet(F, R)
  <1> DEFINE sum(T) == SumFunctionOnSet(F, T)
             X == {T \in SUBSET R : sum(S \cup T) # sum(S) + sum(T)}
  <1>1. SUFFICES ASSUME X # {} PROVE FALSE
    OBVIOUS
  <1>0. X \in SUBSET SUBSET R
    OBVIOUS
  <1>2. PICK T \in X : \A U \in SUBSET T : U \in X => U = T
    <2> HIDE DEF X
    <2> QED
      BY <1>0, <1>1, SmallestSubset
  <1>3. sum(S) \in Int
    BY SumType
  <1>4. T # {}
    <2>1. sum({}) = 0 /\ S \cup {} = S
      BY SumEmpty
    <2>2. sum(S \cup T) # sum(S) + sum(T)
      OBVIOUS
    <2> HIDE DEF sum, X
    <2>3. ASSUME T = {} PROVE FALSE
      <3>1. sum(S \cup T) = sum(S) /\ sum(T) = 0
        BY <2>1, <2>3
      <3> QED
        BY <1>3, <2>2, <3>1
    <2> QED
      BY <2>3
  <1> DEFINE y == Some(T)
             Q == T \ {y}
  <1>5. y \in T /\ y \notin S /\ F[y] \in Int /\ IsFiniteSet(T) /\ IsFiniteSet(Q)
    BY <1>4, SomeIn, FS_Subset
  <1>6. sum(S \cup Q) = sum(S) + sum(Q)
    BY <1>2, <1>5
  <1>7. sum(T) = F[y] + sum(Q)
    BY <1>4, <1>5, SumSome
  <1>8. sum(Q) \in Int
    BY <1>5, SumType
  <1>9. sum(S \cup T) = F[y] + sum(S \cup Q)
    <2>1. y \in S \cup T /\ (S \cup T) \ {y} = S \cup Q
      BY <1>5
    <2>2. IsFiniteSet(S \cup T) /\ \A x \in S \cup T : F[x] \in Int
      BY <1>5, FS_Union
    <2> HIDE DEF y, Q
    <2> QED
      BY <2>1, <2>2, SumRemove
  <1>10. sum(S \cup T) = sum(S) + sum(T)
    <2> HIDE DEF sum, y, Q
    <2> QED
      BY <1>3, <1>5, <1>6, <1>7, <1>8, <1>9
  <1> QED
    BY <1>2, <1>10

LEMMA FiniteImage ==
  ASSUME NEW S, IsFiniteSet(S), NEW name
  PROVE  IsFiniteSet({name[x] : x \in S})
  <1>1. [x \in S |-> name[x]] \in Surjection(S, {name[x] : x \in S})
    BY DEF Surjection
  <1> QED
    BY <1>1, FS_Surjection

(***************************************************************************)
(* The rows may go by other names.                                         *)
(***************************************************************************)
LEMMA SumRenamed ==
  ASSUME NEW F, NEW G, NEW S, IsFiniteSet(S), NEW name,
         \A x, y \in S : name[x] = name[y] => x = y,
         \A x \in S : F[x] \in Int, \A x \in S : G[name[x]] = F[x]
  PROVE  SumFunctionOnSet(G, {name[x] : x \in S}) = SumFunctionOnSet(F, S)
  <1> DEFINE img(T) == {name[x] : x \in T}
             X == {T \in SUBSET S : SumFunctionOnSet(G, img(T)) # SumFunctionOnSet(F, T)}
  <1>1. SUFFICES ASSUME X # {} PROVE FALSE
    OBVIOUS
  <1>0. X \in SUBSET SUBSET S
    OBVIOUS
  <1>2. PICK T \in X : \A U \in SUBSET T : U \in X => U = T
    <2> HIDE DEF X
    <2> QED
      BY <1>0, <1>1, SmallestSubset
  <1>3. T # {}
    BY SumEmpty
  <1> DEFINE y == Some(T)
             Q == T \ {y}
  <1>4. y \in T /\ IsFiniteSet(T) /\ IsFiniteSet(Q)
    BY <1>3, SomeIn, FS_Subset
  <1>5. SumFunctionOnSet(G, img(Q)) = SumFunctionOnSet(F, Q)
    BY <1>2, <1>4
  <1>6. SumFunctionOnSet(F, T) = F[y] + SumFunctionOnSet(F, Q)
    BY <1>3, <1>4, SumSome
  <1>7. SumFunctionOnSet(G, img(T)) = G[name[y]] + SumFunctionOnSet(G, img(Q))
    <2>1. name[y] \in img(T) /\ img(T) \ {name[y]} = img(Q)
      BY <1>4
    <2>2. IsFiniteSet(img(T))
      BY <1>4, FiniteImage
    <2>3. \A x \in img(T) : G[x] \in Int
      OBVIOUS
    <2> HIDE DEF y, Q, img
    <2> QED
      BY <2>1, <2>2, <2>3, SumRemove
  <1> QED
    BY <1>2, <1>4, <1>5, <1>6, <1>7

LEMMA SumNegated ==
  ASSUME NEW F, NEW G, NEW S, IsFiniteSet(S), \A x \in S : F[x] \in Int,
         \A x \in S : G[x] = -F[x]
  PROVE  SumFunctionOnSet(G, S) = -SumFunctionOnSet(F, S)
  <1> DEFINE right(T) == SumFunctionOnSet(G, T) = -SumFunctionOnSet(F, T)
             X == {T \in SUBSET S : ~right(T)}
  <1>1. SUFFICES ASSUME X # {} PROVE FALSE
    OBVIOUS
  <1>0. X \in SUBSET SUBSET S
    OBVIOUS
  <1>2. PICK T \in X : \A U \in SUBSET T : U \in X => U = T
    <2> HIDE DEF X
    <2> QED
      BY <1>0, <1>1, SmallestSubset
  <1>3. T # {}
    BY SumEmpty
  <1> DEFINE y == Some(T)
             R == T \ {y}
  <1>4. y \in T /\ IsFiniteSet(T) /\ IsFiniteSet(R) /\ T \in SUBSET S
    BY <1>3, SomeIn, FS_Subset
  <1>5. right(R)
    BY <1>2, <1>4
  <1>6. SumFunctionOnSet(F, T) = F[y] + SumFunctionOnSet(F, R)
    BY <1>3, <1>4, SumSome
  <1>7. SumFunctionOnSet(G, T) = G[y] + SumFunctionOnSet(G, R)
    BY <1>3, <1>4, SumSome
  <1>8. SumFunctionOnSet(F, R) \in Int /\ F[y] \in Int /\ G[y] = -F[y]
    BY <1>4, SumType
  <1>9. ~right(T)
    BY <1>2
  <1> HIDE DEF y, R, X
  <1> QED
    BY <1>5, <1>6, <1>7, <1>8, <1>9

\* Rows of nothing add up to nothing.
LEMMA SumZero ==
  ASSUME NEW F, NEW S, IsFiniteSet(S), \A x \in S : F[x] = 0
  PROVE  SumFunctionOnSet(F, S) = 0
  <1>1. SumFunctionOnSet(F, S) \in Int
    BY SumType
  <1>2. SumFunctionOnSet(F, S) = -SumFunctionOnSet(F, S)
    BY SumNegated
  <1> QED
    BY <1>1, <1>2

(***************************************************************************)
(* One row changes.                                                        *)
(***************************************************************************)
LEMMA SumOneChanged ==
  ASSUME NEW F, NEW G, NEW S, IsFiniteSet(S), NEW a \in S, G[a] \in Int,
         \A x \in S : F[x] \in Int, \A x \in S : x # a => G[x] = F[x]
  PROVE  SumFunctionOnSet(G, S) = SumFunctionOnSet(F, S) - F[a] + G[a]
  <1> DEFINE R == S \ {a}
  <1>1. SumFunctionOnSet(F, S) = F[a] + SumFunctionOnSet(F, R)
    BY SumRemove
  <1>2. \A x \in S : G[x] \in Int
    OBVIOUS
  <1>3. SumFunctionOnSet(G, S) = G[a] + SumFunctionOnSet(G, R)
    BY <1>2, SumRemove
  <1>4. IsFiniteSet(R) /\ \A x \in R : F[x] \in Int /\ F[x] = G[x]
    BY FS_Subset
  <1>5. SumFunctionOnSet(F, R) = SumFunctionOnSet(G, R)
    BY <1>4, SumEqual
  <1>6. SumFunctionOnSet(F, R) \in Int
    BY <1>4, SumType
  <1> QED
    BY <1>1, <1>3, <1>5, <1>6

(***************************************************************************)
(* A finite set that is strictly ordered has a last element.               *)
(***************************************************************************)
LEMMA LastElement ==
  ASSUME NEW S, IsFiniteSet(S), NEW R,
         \A x \in S : <<x, x>> \notin R,
         \A x, y, z \in S : <<x, y>> \in R /\ <<y, z>> \in R => <<x, z>> \in R
  PROVE  \A T \in SUBSET S : T # {} => \E x \in T : \A y \in T : <<x, y>> \notin R
  <1> DEFINE last(T) == \E x \in T : \A y \in T : <<x, y>> \notin R
             X == {T \in SUBSET S : T # {} /\ ~last(T)}
  <1>1. SUFFICES ASSUME X # {} PROVE FALSE
    OBVIOUS
  <1>0. X \in SUBSET SUBSET S
    OBVIOUS
  <1>2. PICK T \in X : \A U \in SUBSET T : U \in X => U = T
    <2> HIDE DEF X
    <2> QED
      BY <1>0, <1>1, SmallestSubset
  <1>3. PICK a \in T : TRUE
    OBVIOUS
  <1>4. T \ {a} # {}
    OBVIOUS
  <1>5. last(T \ {a})
    <2>1. T \ {a} \in SUBSET T /\ T \ {a} # T /\ T \ {a} \in SUBSET S
      BY <1>3
    <2>2. T \ {a} \notin X
      <3> HIDE DEF X
      <3> QED
        BY <1>2, <2>1
    <2> HIDE DEF last
    <2> QED
      BY <1>4, <2>1, <2>2
  <1>6. PICK m \in T \ {a} : \A y \in T \ {a} : <<m, y>> \notin R
    BY <1>5
  <1>7. <<m, a>> \in R
    BY <1>6
  <1>8. \A y \in T : <<a, y>> \notin R
    BY <1>6, <1>7
  <1> QED
    BY <1>8

\* Smaller rows have a smaller sum.
LEMMA SumBelow ==
  ASSUME NEW F, NEW G, NEW S, IsFiniteSet(S),
         \A x \in S : F[x] \in Int /\ G[x] \in Int /\ F[x] <= G[x]
  PROVE  SumFunctionOnSet(F, S) <= SumFunctionOnSet(G, S)
  <1> DEFINE right(T) == SumFunctionOnSet(F, T) <= SumFunctionOnSet(G, T)
             X == {T \in SUBSET S : ~right(T)}
  <1>1. SUFFICES ASSUME X # {} PROVE FALSE
    OBVIOUS
  <1>0. X \in SUBSET SUBSET S
    OBVIOUS
  <1>2. PICK T \in X : \A U \in SUBSET T : U \in X => U = T
    <2> HIDE DEF X
    <2> QED
      BY <1>0, <1>1, SmallestSubset
  <1>3. T # {}
    BY SumEmpty
  <1> DEFINE y == Some(T)
             R == T \ {y}
  <1>4. y \in T /\ IsFiniteSet(T) /\ IsFiniteSet(R) /\ T \in SUBSET S
    BY <1>3, SomeIn, FS_Subset
  <1>5. right(R)
    BY <1>2, <1>4
  <1>6. SumFunctionOnSet(F, T) = F[y] + SumFunctionOnSet(F, R)
    BY <1>3, <1>4, SumSome
  <1>7. SumFunctionOnSet(G, T) = G[y] + SumFunctionOnSet(G, R)
    BY <1>3, <1>4, SumSome
  <1>8. /\ SumFunctionOnSet(F, R) \in Int /\ SumFunctionOnSet(G, R) \in Int
        /\ F[y] \in Int /\ G[y] \in Int /\ F[y] <= G[y]
    BY <1>4, SumType
  <1>9. ~right(T)
    BY <1>2
  <1> HIDE DEF y, R, X
  <1> QED
    BY <1>5, <1>6, <1>7, <1>8, <1>9

\* Multiplication distributes over addition.
LEMMA Distributes == \A a, x, y \in Int : a * (x + y) = a * x + a * y
  OBVIOUS

\* A multiple of the rows has that multiple of the sum.
LEMMA SumScaled ==
  ASSUME NEW F, NEW G, NEW S, IsFiniteSet(S), NEW a \in Int,
         \A x \in S : F[x] \in Int /\ G[x] = a * F[x]
  PROVE  SumFunctionOnSet(G, S) = a * SumFunctionOnSet(F, S)
  <1> DEFINE right(T) == SumFunctionOnSet(G, T) = a * SumFunctionOnSet(F, T)
             X == {T \in SUBSET S : ~right(T)}
  <1>1. SUFFICES ASSUME X # {} PROVE FALSE
    OBVIOUS
  <1>0. X \in SUBSET SUBSET S
    OBVIOUS
  <1>2. PICK T \in X : \A U \in SUBSET T : U \in X => U = T
    <2> HIDE DEF X
    <2> QED
      BY <1>0, <1>1, SmallestSubset
  <1>3. T # {}
    <2>1. a * 0 = 0
      OBVIOUS
    <2>2. right({})
      BY <2>1, SumEmpty
    <2> QED
      BY <1>2, <2>2
  <1> DEFINE y == Some(T)
             R == T \ {y}
  <1>4. y \in T /\ IsFiniteSet(T) /\ IsFiniteSet(R) /\ T \in SUBSET S
    BY <1>3, SomeIn, FS_Subset
  <1>5. right(R)
    BY <1>2, <1>4
  <1>6. SumFunctionOnSet(F, T) = F[y] + SumFunctionOnSet(F, R)
    BY <1>3, <1>4, SumSome
  <1>7. SumFunctionOnSet(G, T) = G[y] + SumFunctionOnSet(G, R)
    BY <1>3, <1>4, SumSome
  <1>8. SumFunctionOnSet(F, R) \in Int /\ F[y] \in Int /\ G[y] = a * F[y]
    BY <1>4, SumType
  <1>9. ~right(T)
    BY <1>2
  <1>10. a * (F[y] + SumFunctionOnSet(F, R)) = a * F[y] + a * SumFunctionOnSet(F, R)
    BY <1>8, Distributes
  <1> HIDE DEF y, R, X
  <1> QED
    BY <1>5, <1>6, <1>7, <1>8, <1>9, <1>10

====
