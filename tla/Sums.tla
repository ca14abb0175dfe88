-------------------------------- MODULE Sums --------------------------------
(***************************************************************************)
(* Facts about SumFunctionOnSet(f, S), the sum of f[x] over a finite set S, *)
(* for the proofs about quantities the code accumulates: lovelace, tokens,  *)
(* events, requests.  They rest on two statements that replace induction:   *)
(* every nonempty set of finite sets has a minimal member, and a family of  *)
(* subsets that holds {} and is closed under adding an element holds every  *)
(* finite set.                                                              *)
(***************************************************************************)
EXTENDS Integers, FiniteSets, Functions, FiniteSetTheorems, WellFoundedInduction, TLAPS

(* A nonempty family of finite sets has a member minimal for inclusion.     *)
LEMMA MinimalSet ==
  ASSUME NEW S, NEW F, F \subseteq FiniteSubsetsOf(S), F # {}
  PROVE  \E U \in F : \A V \in F : ~(V \subseteq U /\ V # U)
<1>1. \E U \in F : \A V \in F : <<V, U>> \notin StrictSubsetOrdering(S)
  BY WFMin, FS_StrictSubsetOrderingWellFounded
<1> QED BY <1>1 DEF StrictSubsetOrdering, FiniteSubsetsOf

(* A family that holds {} and is closed under adding an element of S holds  *)
(* S, when S is finite: induction over S, with the family for a predicate.  *)
LEMMA SetInduction ==
  ASSUME NEW S, IsFiniteSet(S), NEW F, {} \in F,
         \A T \in SUBSET S : \A x \in S \ T : T \in F => T \cup {x} \in F
  PROVE  S \in F
<1> DEFINE Bad == {T \in SUBSET S : T \notin F}
<1> SUFFICES ASSUME S \notin F PROVE FALSE
  OBVIOUS
<1>1. Bad \subseteq FiniteSubsetsOf(S) /\ Bad # {}
  BY FS_Subset DEF FiniteSubsetsOf
<1>2. PICK U \in Bad : \A V \in Bad : ~(V \subseteq U /\ V # U)
  <2> HIDE DEF Bad
  <2> QED BY <1>1, MinimalSet
<1>3. PICK x \in U : TRUE
  BY <1>2
<1>4. U \ {x} \in F
  BY <1>2, <1>3
<1>5. U = (U \ {x}) \cup {x} /\ U \ {x} \in SUBSET S /\ x \in S \ (U \ {x})
  BY <1>2, <1>3
<1> QED BY <1>2, <1>4, <1>5

(* A nonempty set of naturals has a least element.                          *)
LEMMA LeastNatural ==
  ASSUME NEW S, S \subseteq Nat, S # {}
  PROVE  \E n \in S : \A m \in S : n <= m
<1> DEFINE F == {0 .. n : n \in S}
<1>1. F \subseteq FiniteSubsetsOf(Nat) /\ F # {}
  <2>1. \A n \in S : 0 .. n \subseteq Nat /\ IsFiniteSet(0 .. n)
    <3> SUFFICES ASSUME NEW n \in S PROVE 0 .. n \subseteq Nat /\ IsFiniteSet(0 .. n)
      OBVIOUS
    <3>1. n \in Int /\ 0 \in Int
      OBVIOUS
    <3> QED BY <3>1, FS_Interval
  <2> QED BY <2>1 DEF FiniteSubsetsOf
<1>2. PICK U \in F : \A V \in F : ~(V \subseteq U /\ V # U)
  <2> HIDE DEF F
  <2> QED BY <1>1, MinimalSet
<1>3. PICK n \in S : U = 0 .. n
  BY <1>2
<1>4. ASSUME NEW m \in S, m < n PROVE FALSE
  <2>1. 0 .. m \subseteq 0 .. n /\ n \in 0 .. n /\ n \notin 0 .. m
    BY <1>4
  <2> QED BY <1>2, <1>3, <2>1
<1> QED BY <1>4

-----------------------------------------------------------------------------
(* The equation that defines the sum, as the fold of the library states it. *)

Chosen(s) == CHOOSE x \in s : TRUE

Solves(g, f, S) ==
  g = [s \in SUBSET S |-> IF s = {} THEN 0 ELSE f[Chosen(s)] + g[s \ {Chosen(s)}]]

(* The library's sum is a solution of that equation, at its own set.        *)
LEMMA SumIsSolution ==
  ASSUME NEW f, NEW S
  PROVE  SumFunctionOnSet(f, S) = (CHOOSE g : Solves(g, f, S))[S]
BY DEF SumFunctionOnSet, FoldFunctionOnSet, MapThenFoldSet, Solves, Chosen

(* The element the fold takes first is one of the set.                      *)
LEMMA ChosenInSet ==
  ASSUME NEW s, s # {}
  PROVE  Chosen(s) \in s
BY DEF Chosen

(* Two solutions agree on every set both are defined on.                    *)
LEMMA SolutionsAgree ==
  ASSUME NEW f, NEW S, NEW T, IsFiniteSet(S), S \subseteq T,
         NEW g, NEW h, Solves(g, f, S), Solves(h, f, T)
  PROVE  g[S] = h[S]
<1> DEFINE Bad == {s \in SUBSET S : g[s] # h[s]}
<1> SUFFICES ASSUME Bad # {} PROVE FALSE
  OBVIOUS
<1>1. Bad \subseteq FiniteSubsetsOf(S)
  BY FS_Subset DEF FiniteSubsetsOf
<1>2. PICK s \in Bad : \A r \in Bad : ~(r \subseteq s /\ r # s)
  <2> HIDE DEF Bad
  <2> QED BY <1>1, MinimalSet
<1>3. /\ g[s] = IF s = {} THEN 0 ELSE f[Chosen(s)] + g[s \ {Chosen(s)}]
      /\ h[s] = IF s = {} THEN 0 ELSE f[Chosen(s)] + h[s \ {Chosen(s)}]
  BY <1>2 DEF Solves
<1>4. s # {}
  BY <1>2, <1>3
<1>5. Chosen(s) \in s
  BY <1>4, ChosenInSet
<1>6. g[s \ {Chosen(s)}] = h[s \ {Chosen(s)}]
  BY <1>2, <1>5
<1> QED BY <1>2, <1>3, <1>4, <1>6

(* The equation has a solution on every finite set.                         *)
LEMMA SolutionExists ==
  ASSUME NEW f, NEW S, IsFiniteSet(S)
  PROVE  \E g : Solves(g, f, S)
<1> DEFINE Bad == {s \in SUBSET S : ~ \E g : Solves(g, f, s)}
<1> SUFFICES ASSUME Bad # {} PROVE FALSE
  OBVIOUS
<1>1. Bad \subseteq FiniteSubsetsOf(S)
  BY FS_Subset DEF FiniteSubsetsOf
<1>2. PICK T \in Bad : \A r \in Bad : ~(r \subseteq T /\ r # T)
  <2> HIDE DEF Bad
  <2> QED BY <1>1, MinimalSet
<1>3. IsFiniteSet(T) /\ T \subseteq S
  BY <1>1, <1>2 DEF FiniteSubsetsOf
<1> DEFINE G(r) == CHOOSE g : Solves(g, f, r)
           V(r) == G(r)[r]
           h == [s \in SUBSET T |-> IF s = {} THEN 0 ELSE f[Chosen(s)] + V(s \ {Chosen(s)})]
<1>4. \A r \in SUBSET T : r # T => Solves(G(r), f, r)
  BY <1>2, <1>3
<1>5. ASSUME NEW r \in SUBSET T, r # T PROVE V(r) = h[r]
  <2>1. Solves(G(r), f, r)
    BY <1>4, <1>5
  <2>2. V(r) = IF r = {} THEN 0 ELSE f[Chosen(r)] + G(r)[r \ {Chosen(r)}]
    BY <2>1 DEF Solves
  <2>3. CASE r # {}
    <3> DEFINE q == r \ {Chosen(r)}
    <3>1. q \subseteq r /\ q \in SUBSET T /\ q # T /\ Chosen(r) \in r
      BY <2>3, ChosenInSet
    <3>2. IsFiniteSet(q)
      BY <3>1, <1>3, FS_Subset
    <3>3. Solves(G(q), f, q)
      BY <3>1, <1>4
    <3>4. G(q)[q] = G(r)[q]
      <4> HIDE DEF q, G
      <4> QED BY <2>1, <3>1, <3>2, <3>3, SolutionsAgree
    <3> QED BY <2>2, <2>3, <3>4
  <2>4. CASE r = {}
    BY <2>2, <2>4
  <2> QED BY <2>3, <2>4
<1>6. ASSUME NEW s \in SUBSET T, s # {}
      PROVE  V(s \ {Chosen(s)}) = h[s \ {Chosen(s)}]
  <2>1. Chosen(s) \in s
    BY <1>6, ChosenInSet
  <2>2. s \ {Chosen(s)} \in SUBSET T /\ s \ {Chosen(s)} # T
    BY <2>1
  <2> HIDE DEF V, h
  <2> QED BY <1>5, <2>2
<1>7. Solves(h, f, T)
  <2>1. \A s \in SUBSET T : (IF s = {} THEN 0 ELSE f[Chosen(s)] + V(s \ {Chosen(s)}))
                          = (IF s = {} THEN 0 ELSE f[Chosen(s)] + h[s \ {Chosen(s)}])
    <3> HIDE DEF V, h
    <3> QED BY <1>6
  <2>2. h = [s \in SUBSET T |-> IF s = {} THEN 0 ELSE f[Chosen(s)] + h[s \ {Chosen(s)}]]
    <3> HIDE DEF V
    <3>1. h = [s \in SUBSET T |-> IF s = {} THEN 0 ELSE f[Chosen(s)] + V(s \ {Chosen(s)})]
      OBVIOUS
    <3> HIDE DEF h
    <3> QED BY <2>1, <3>1
  <2> QED BY <2>2 DEF Solves
<1> QED BY <1>2, <1>7

(* The sum over a finite set, one element at a time.                        *)
LEMMA SumUnfold ==
  ASSUME NEW f, NEW S, IsFiniteSet(S)
  PROVE  SumFunctionOnSet(f, S) =
           IF S = {} THEN 0 ELSE f[Chosen(S)] + SumFunctionOnSet(f, S \ {Chosen(S)})
<1> DEFINE g == CHOOSE h : Solves(h, f, S)
           R == S \ {Chosen(S)}
           k == CHOOSE h : Solves(h, f, R)
<1>1. Solves(g, f, S)
  BY SolutionExists
<1>2. IsFiniteSet(R) /\ R \subseteq S
  BY FS_Subset
<1>3. Solves(k, f, R)
  <2> HIDE DEF R
  <2> QED BY <1>2, SolutionExists
<1>4. k[R] = g[R]
  <2> HIDE DEF R, k, g
  <2> QED BY <1>1, <1>2, <1>3, SolutionsAgree
<1>5. SumFunctionOnSet(f, S) = g[S] /\ SumFunctionOnSet(f, R) = k[R]
  BY SumIsSolution
<1>6. g[S] = IF S = {} THEN 0 ELSE f[Chosen(S)] + g[R]
  <2> HIDE DEF g
  <2> QED BY <1>1 DEF Solves
<1> QED BY <1>4, <1>5, <1>6

(* The sum over the empty set is 0.                                         *)
LEMMA SumEmpty == ASSUME NEW f PROVE SumFunctionOnSet(f, {}) = 0
BY SumUnfold, FS_EmptySet

(* A sum of integers is an integer.                                         *)
LEMMA SumInt ==
  ASSUME NEW f, NEW S, IsFiniteSet(S), \A x \in S : f[x] \in Int
  PROVE  SumFunctionOnSet(f, S) \in Int
<1> DEFINE Bad == {T \in SUBSET S : SumFunctionOnSet(f, T) \notin Int}
<1> SUFFICES ASSUME Bad # {} PROVE FALSE
  OBVIOUS
<1>1. Bad \subseteq FiniteSubsetsOf(S)
  BY FS_Subset DEF FiniteSubsetsOf
<1>2. PICK T \in Bad : \A r \in Bad : ~(r \subseteq T /\ r # T)
  <2> HIDE DEF Bad
  <2> QED BY <1>1, MinimalSet
<1>3. IsFiniteSet(T) /\ T \subseteq S
  BY <1>1, <1>2 DEF FiniteSubsetsOf
<1>4. T # {}
  <2>1. SumFunctionOnSet(f, {}) \in Int
    BY SumEmpty
  <2>2. SumFunctionOnSet(f, T) \notin Int
    BY <1>2
  <2> QED BY <2>1, <2>2
<1>5. Chosen(T) \in T /\ SumFunctionOnSet(f, T) = f[Chosen(T)] + SumFunctionOnSet(f, T \ {Chosen(T)})
  BY <1>3, <1>4, SumUnfold, ChosenInSet
<1>6. SumFunctionOnSet(f, T \ {Chosen(T)}) \in Int
  BY <1>2, <1>3, <1>5
<1> QED BY <1>2, <1>3, <1>5, <1>6

(* Any element may be the one taken out first.                              *)
LEMMA SumRemove ==
  ASSUME NEW f, NEW S, IsFiniteSet(S), \A x \in S : f[x] \in Int, NEW y \in S
  PROVE  SumFunctionOnSet(f, S) = f[y] + SumFunctionOnSet(f, S \ {y})
<1> DEFINE Good(T) == \A x \in T : SumFunctionOnSet(f, T) = f[x] + SumFunctionOnSet(f, T \ {x})
           Bad == {T \in SUBSET S : ~Good(T)}
<1> SUFFICES ASSUME Bad # {} PROVE FALSE
  OBVIOUS
<1>1. Bad \subseteq FiniteSubsetsOf(S)
  BY FS_Subset DEF FiniteSubsetsOf
<1>2. PICK T \in Bad : \A r \in Bad : ~(r \subseteq T /\ r # T)
  <2> HIDE DEF Bad
  <2> QED BY <1>1, MinimalSet
<1>3. IsFiniteSet(T) /\ T \subseteq S
  BY <1>1, <1>2 DEF FiniteSubsetsOf
<1>4. PICK x \in T : SumFunctionOnSet(f, T) # f[x] + SumFunctionOnSet(f, T \ {x})
  BY <1>2
<1> DEFINE c == Chosen(T)
<1>5. c \in T /\ SumFunctionOnSet(f, T) = f[c] + SumFunctionOnSet(f, T \ {c})
  BY <1>3, <1>4, SumUnfold, ChosenInSet
<1>6. c # x
  BY <1>4, <1>5
<1>7. Good(T \ {c}) /\ Good(T \ {x})
  <2>1. T \ {c} \in SUBSET S /\ T \ {c} \subseteq T /\ T \ {c} # T
    BY <1>3, <1>5
  <2>2. T \ {x} \in SUBSET S /\ T \ {x} \subseteq T /\ T \ {x} # T
    BY <1>3, <1>4
  <2>3. \A r \in SUBSET S : r \subseteq T /\ r # T => Good(r)
    <3> SUFFICES ASSUME NEW r \in SUBSET S, r \subseteq T, r # T, ~Good(r) PROVE FALSE
      OBVIOUS
    <3>1. r \in Bad
      OBVIOUS
    <3> HIDE DEF Bad, Good
    <3> QED BY <1>2, <3>1
  <2> HIDE DEF Good
  <2> QED BY <2>1, <2>2, <2>3
<1>8. /\ SumFunctionOnSet(f, T \ {c}) = f[x] + SumFunctionOnSet(f, (T \ {c}) \ {x})
      /\ SumFunctionOnSet(f, T \ {x}) = f[c] + SumFunctionOnSet(f, (T \ {x}) \ {c})
  BY <1>4, <1>5, <1>6, <1>7
<1>9. (T \ {c}) \ {x} = (T \ {x}) \ {c}
  OBVIOUS
<1>10. SumFunctionOnSet(f, (T \ {c}) \ {x}) \in Int
  <2>1. IsFiniteSet((T \ {c}) \ {x}) /\ (T \ {c}) \ {x} \subseteq S
    BY <1>3, FS_Subset
  <2> QED BY <2>1, SumInt
<1>11. f[c] \in Int /\ f[x] \in Int
  BY <1>3, <1>4, <1>5
<1> DEFINE r == SumFunctionOnSet(f, (T \ {c}) \ {x})
<1>12. f[c] + (f[x] + r) = f[x] + (f[c] + r)
  <2> HIDE DEF r, c
  <2> QED BY <1>10, <1>11 DEF r
<1>13. SumFunctionOnSet(f, T) = f[c] + (f[x] + r)
  BY <1>5, <1>8
<1>14. f[x] + SumFunctionOnSet(f, T \ {x}) = f[x] + (f[c] + r)
  BY <1>8, <1>9
<1> QED BY <1>4, <1>12, <1>13, <1>14

(* One element more.                                                        *)
LEMMA SumAdd ==
  ASSUME NEW f, NEW S, IsFiniteSet(S), NEW y, y \notin S,
         \A x \in S \cup {y} : f[x] \in Int
  PROVE  SumFunctionOnSet(f, S \cup {y}) = f[y] + SumFunctionOnSet(f, S)
<1>1. IsFiniteSet(S \cup {y}) /\ (S \cup {y}) \ {y} = S
  BY FS_AddElement
<1> QED BY <1>1, SumRemove

(* A sum of natural numbers is a natural number.                            *)
LEMMA SumNat ==
  ASSUME NEW f, NEW S, IsFiniteSet(S), \A x \in S : f[x] \in Nat
  PROVE  SumFunctionOnSet(f, S) \in Nat
<1> DEFINE F == {T \in SUBSET S : SumFunctionOnSet(f, T) \in Nat}
<1>1. {} \in F
  BY SumEmpty
<1>2. ASSUME NEW T \in SUBSET S, NEW x \in S \ T, T \in F PROVE T \cup {x} \in F
  <2>1. IsFiniteSet(T)
    BY FS_Subset
  <2>2. SumFunctionOnSet(f, T \cup {x}) = f[x] + SumFunctionOnSet(f, T)
    BY <2>1, <1>2, SumAdd
  <2> QED BY <1>2, <2>2
<1>3. S \in F
  <2> HIDE DEF F
  <2> QED BY <1>1, <1>2, SetInduction
<1> QED BY <1>3

(* The sum depends on the values over the set only.                         *)
LEMMA SumCongruence ==
  ASSUME NEW f, NEW g, NEW S, IsFiniteSet(S),
         \A x \in S : f[x] = g[x] /\ f[x] \in Int
  PROVE  SumFunctionOnSet(f, S) = SumFunctionOnSet(g, S)
<1> DEFINE F == {T \in SUBSET S : SumFunctionOnSet(f, T) = SumFunctionOnSet(g, T)}
<1>1. {} \in F
  BY SumEmpty
<1>2. ASSUME NEW T \in SUBSET S, NEW x \in S \ T, T \in F PROVE T \cup {x} \in F
  <2>1. IsFiniteSet(T)
    BY FS_Subset
  <2>2. /\ SumFunctionOnSet(f, T \cup {x}) = f[x] + SumFunctionOnSet(f, T)
        /\ SumFunctionOnSet(g, T \cup {x}) = g[x] + SumFunctionOnSet(g, T)
    BY <2>1, <1>2, SumAdd
  <2> QED BY <1>2, <2>2
<1>3. S \in F
  <2> HIDE DEF F
  <2> QED BY <1>1, <1>2, SetInduction
<1> QED BY <1>3

(* Two sets with nothing in common.                                         *)
LEMMA SumDisjoint ==
  ASSUME NEW f, NEW S, NEW T, IsFiniteSet(S), IsFiniteSet(T), S \cap T = {},
         \A x \in S \cup T : f[x] \in Int
  PROVE  SumFunctionOnSet(f, S \cup T) = SumFunctionOnSet(f, S) + SumFunctionOnSet(f, T)
<1> DEFINE F == {U \in SUBSET T : SumFunctionOnSet(f, S \cup U) =
                                  SumFunctionOnSet(f, S) + SumFunctionOnSet(f, U)}
<1>0. SumFunctionOnSet(f, S) \in Int
  BY SumInt
<1>1. {} \in F
  <2>1. S \cup {} = S
    OBVIOUS
  <2> QED BY <1>0, <2>1, SumEmpty
<1>2. ASSUME NEW U \in SUBSET T, NEW x \in T \ U, U \in F PROVE U \cup {x} \in F
  <2>1. IsFiniteSet(U) /\ IsFiniteSet(S \cup U)
    BY FS_Subset, FS_Union
  <2>2. SumFunctionOnSet(f, U \cup {x}) = f[x] + SumFunctionOnSet(f, U)
    BY <2>1, <1>2, SumAdd
  <2>3. SumFunctionOnSet(f, (S \cup U) \cup {x}) = f[x] + SumFunctionOnSet(f, S \cup U)
    BY <2>1, <1>2, SumAdd
  <2>4. (S \cup U) \cup {x} = S \cup (U \cup {x})
    OBVIOUS
  <2>5. SumFunctionOnSet(f, U) \in Int /\ f[x] \in Int
    BY <2>1, <1>2, SumInt
  <2>6. SumFunctionOnSet(f, S \cup (U \cup {x})) =
          f[x] + (SumFunctionOnSet(f, S) + SumFunctionOnSet(f, U))
    BY <1>2, <2>3, <2>4
  <2>7. SumFunctionOnSet(f, S \cup (U \cup {x})) =
          SumFunctionOnSet(f, S) + SumFunctionOnSet(f, U \cup {x})
    BY <1>0, <2>2, <2>5, <2>6
  <2> QED BY <2>7
<1>3. T \in F
  <2> HIDE DEF F
  <2> QED BY <1>1, <1>2, SetInduction
<1> QED BY <1>3

(* A subset of natural numbers sums to no more.                             *)
LEMMA SumMonotone ==
  ASSUME NEW f, NEW S, NEW T, IsFiniteSet(T), S \subseteq T, \A x \in T : f[x] \in Nat
  PROVE  SumFunctionOnSet(f, S) <= SumFunctionOnSet(f, T)
<1>1. IsFiniteSet(S) /\ IsFiniteSet(T \ S)
  BY FS_Subset
<1>2. S \cup (T \ S) = T /\ S \cap (T \ S) = {}
  OBVIOUS
<1>3. SumFunctionOnSet(f, T) = SumFunctionOnSet(f, S) + SumFunctionOnSet(f, T \ S)
  <2>1. \A x \in S \cup (T \ S) : f[x] \in Int
    OBVIOUS
  <2> QED BY <1>1, <1>2, <2>1, SumDisjoint
<1>4. SumFunctionOnSet(f, S) \in Nat /\ SumFunctionOnSet(f, T \ S) \in Nat
  BY <1>1, SumNat
<1> QED BY <1>3, <1>4

(* Values no larger sum to no more.                                         *)
LEMMA SumPointwise ==
  ASSUME NEW f, NEW g, NEW S, IsFiniteSet(S),
         \A x \in S : f[x] \in Int /\ g[x] \in Int /\ f[x] <= g[x]
  PROVE  SumFunctionOnSet(f, S) <= SumFunctionOnSet(g, S)
<1> DEFINE F == {T \in SUBSET S : SumFunctionOnSet(f, T) <= SumFunctionOnSet(g, T)}
<1>1. {} \in F
  BY SumEmpty
<1>2. ASSUME NEW T \in SUBSET S, NEW x \in S \ T, T \in F PROVE T \cup {x} \in F
  <2>1. IsFiniteSet(T)
    BY FS_Subset
  <2>2. /\ SumFunctionOnSet(f, T \cup {x}) = f[x] + SumFunctionOnSet(f, T)
        /\ SumFunctionOnSet(g, T \cup {x}) = g[x] + SumFunctionOnSet(g, T)
    BY <2>1, <1>2, SumAdd
  <2>3. SumFunctionOnSet(f, T) \in Int /\ SumFunctionOnSet(g, T) \in Int
    BY <2>1, SumInt
  <2> QED BY <1>2, <2>2, <2>3
<1>3. S \in F
  <2> HIDE DEF F
  <2> QED BY <1>1, <1>2, SetInduction
<1> QED BY <1>3

(* Two functions that differ at one point only.                             *)
LEMMA SumChange ==
  ASSUME NEW f, NEW g, NEW S, IsFiniteSet(S), NEW y \in S,
         \A x \in S : f[x] \in Int /\ g[x] \in Int /\ (x # y => f[x] = g[x])
  PROVE  SumFunctionOnSet(g, S) = SumFunctionOnSet(f, S) + g[y] - f[y]
<1>1. IsFiniteSet(S \ {y})
  BY FS_Subset
<1>2. SumFunctionOnSet(f, S \ {y}) = SumFunctionOnSet(g, S \ {y})
  BY <1>1, SumCongruence
<1>3. /\ SumFunctionOnSet(f, S) = f[y] + SumFunctionOnSet(f, S \ {y})
      /\ SumFunctionOnSet(g, S) = g[y] + SumFunctionOnSet(g, S \ {y})
  BY SumRemove
<1>4. SumFunctionOnSet(f, S \ {y}) \in Int
  BY <1>1, SumInt
<1> QED BY <1>2, <1>3, <1>4

(* No value above m: the sum is at most m for each element.                 *)
LEMMA SumAtMost ==
  ASSUME NEW f, NEW S, IsFiniteSet(S), NEW m \in Nat,
         \A x \in S : f[x] \in Int /\ f[x] <= m
  PROVE  SumFunctionOnSet(f, S) <= m * Cardinality(S)
<1> DEFINE F == {T \in SUBSET S : SumFunctionOnSet(f, T) <= m * Cardinality(T)}
<1>1. {} \in F
  <2>1. m * Cardinality({}) = 0 /\ SumFunctionOnSet(f, {}) = 0
    BY SumEmpty, FS_EmptySet
  <2> QED BY <2>1
<1>2. ASSUME NEW T \in SUBSET S, NEW x \in S \ T, T \in F PROVE T \cup {x} \in F
  <2>1. IsFiniteSet(T)
    BY FS_Subset
  <2>2. SumFunctionOnSet(f, T \cup {x}) = f[x] + SumFunctionOnSet(f, T)
    BY <2>1, <1>2, SumAdd
  <2>3. SumFunctionOnSet(f, T) \in Int /\ Cardinality(T) \in Nat
    BY <2>1, SumInt, FS_CardinalityType
  <2>4. Cardinality(T \cup {x}) = Cardinality(T) + 1
    BY <2>1, FS_AddElement
  <2>5. m * (Cardinality(T) + 1) = m * Cardinality(T) + m
    BY <2>3
  <2>6. m * Cardinality(T) \in Int
    BY <2>3
  <2> QED BY <1>2, <2>2, <2>3, <2>4, <2>5, <2>6
<1>3. S \in F
  <2> HIDE DEF F
  <2> QED BY <1>1, <1>2, SetInduction
<1> QED BY <1>3

(* No value below m: the sum is at least m for each element.                *)
LEMMA SumAtLeast ==
  ASSUME NEW f, NEW S, IsFiniteSet(S), NEW m \in Nat,
         \A x \in S : f[x] \in Int /\ m <= f[x]
  PROVE  m * Cardinality(S) <= SumFunctionOnSet(f, S)
<1> DEFINE F == {T \in SUBSET S : m * Cardinality(T) <= SumFunctionOnSet(f, T)}
<1>1. {} \in F
  <2>1. m * Cardinality({}) = 0 /\ SumFunctionOnSet(f, {}) = 0
    BY SumEmpty, FS_EmptySet
  <2> QED BY <2>1
<1>2. ASSUME NEW T \in SUBSET S, NEW x \in S \ T, T \in F PROVE T \cup {x} \in F
  <2>1. IsFiniteSet(T)
    BY FS_Subset
  <2>2. SumFunctionOnSet(f, T \cup {x}) = f[x] + SumFunctionOnSet(f, T)
    BY <2>1, <1>2, SumAdd
  <2>3. SumFunctionOnSet(f, T) \in Int /\ Cardinality(T) \in Nat
    BY <2>1, SumInt, FS_CardinalityType
  <2>4. Cardinality(T \cup {x}) = Cardinality(T) + 1
    BY <2>1, FS_AddElement
  <2>5. m * (Cardinality(T) + 1) = m * Cardinality(T) + m
    BY <2>3
  <2>6. m * Cardinality(T) \in Int
    BY <2>3
  <2> QED BY <1>2, <2>2, <2>3, <2>4, <2>5, <2>6
<1>3. S \in F
  <2> HIDE DEF F
  <2> QED BY <1>1, <1>2, SetInduction
<1> QED BY <1>3

(* Fewer and smaller: a set with no more elements, each worth no more than  *)
(* any element of the other set, sums to no more.                           *)
LEMMA SumExchange ==
  ASSUME NEW f, NEW A, NEW B, IsFiniteSet(A), IsFiniteSet(B),
         Cardinality(A) <= Cardinality(B),
         \A x \in A \cup B : f[x] \in Nat,
         \A x \in A : \A y \in B : f[x] <= f[y]
  PROVE  SumFunctionOnSet(f, A) <= SumFunctionOnSet(f, B)
<1>1. Cardinality(A) \in Nat /\ Cardinality(B) \in Nat
  BY FS_CardinalityType
<1>2. CASE B = {}
  <2>1. Cardinality(A) = 0
    BY <1>1, <1>2, FS_EmptySet
  <2>2. A = {}
    BY <2>1, FS_EmptySet
  <2>3. SumFunctionOnSet(f, {}) = 0
    BY SumEmpty
  <2> QED BY <1>2, <2>2, <2>3
<1>3. CASE B # {}
  <2>1. PICK m \in {f[y] : y \in B} : \A k \in {f[y] : y \in B} : m <= k
    <3> DEFINE R == {f[y] : y \in B}
    <3>1. R \subseteq Nat /\ R # {}
      BY <1>3
    <3> HIDE DEF R
    <3>2. \E n \in R : \A k \in R : n <= k
      BY <3>1, LeastNatural
    <3> QED BY <3>2 DEF R
  <2>2. m \in Nat /\ \A y \in B : m <= f[y]
    BY <2>1
  <2>3. \A x \in A : f[x] <= m
    BY <2>1
  <2>4. SumFunctionOnSet(f, A) <= m * Cardinality(A)
    BY <2>2, <2>3, SumAtMost
  <2>5. m * Cardinality(B) <= SumFunctionOnSet(f, B)
    BY <2>2, SumAtLeast
  <2>6. m * Cardinality(A) <= m * Cardinality(B)
    BY <1>1, <2>2
  <2>7. SumFunctionOnSet(f, A) \in Int /\ SumFunctionOnSet(f, B) \in Int
    BY SumInt
  <2>8. m * Cardinality(A) \in Int /\ m * Cardinality(B) \in Int
    BY <1>1, <2>2
  <2> QED BY <2>4, <2>5, <2>6, <2>7, <2>8
<1> QED BY <1>2, <1>3

(* The largest elements of a set have the largest sum among as many.        *)
LEMMA SumTop ==
  ASSUME NEW f, NEW S, IsFiniteSet(S), \A x \in S : f[x] \in Nat,
         NEW Q \in SUBSET S, \A x \in Q, y \in S \ Q : f[x] >= f[y],
         NEW T \in SUBSET S, Cardinality(T) <= Cardinality(Q)
  PROVE  SumFunctionOnSet(f, T) <= SumFunctionOnSet(f, Q)
<1>1. /\ IsFiniteSet(T) /\ IsFiniteSet(Q) /\ IsFiniteSet(T \ Q) /\ IsFiniteSet(Q \ T)
      /\ IsFiniteSet(T \cap Q)
  BY FS_Subset
<1>2. Cardinality(T \ Q) <= Cardinality(Q \ T)
  <2>1. Cardinality(T \ Q) = Cardinality(T) - Cardinality(T \cap Q)
    BY <1>1, FS_Difference
  <2>2. Cardinality(Q \ T) = Cardinality(Q) - Cardinality(T \cap Q)
    <3>1. Cardinality(Q \ T) = Cardinality(Q) - Cardinality(Q \cap T)
      BY <1>1, FS_Difference
    <3>2. Q \cap T = T \cap Q
      OBVIOUS
    <3> QED BY <3>1, <3>2
  <2>3. Cardinality(T) \in Nat /\ Cardinality(Q) \in Nat /\ Cardinality(T \cap Q) \in Nat
    BY <1>1, FS_CardinalityType
  <2> DEFINE t == Cardinality(T)
             q == Cardinality(Q)
             m == Cardinality(T \cap Q)
  <2>4. t - m <= q - m
    <3>1. t <= q
      OBVIOUS
    <3> HIDE DEF t, q, m
    <3> QED BY <2>3, <3>1 DEF t, q, m
  <2> QED BY <2>1, <2>2, <2>4
<1>3. SumFunctionOnSet(f, T \ Q) <= SumFunctionOnSet(f, Q \ T)
  <2>1. \A x \in (T \ Q) \cup (Q \ T) : f[x] \in Nat
    OBVIOUS
  <2>2. \A x \in T \ Q : \A y \in Q \ T : f[x] <= f[y]
    BY <2>1
  <2> QED BY <1>1, <1>2, <2>1, <2>2, SumExchange
<1>4. ASSUME NEW A \in SUBSET S, NEW B \in SUBSET S
      PROVE  SumFunctionOnSet(f, A) = SumFunctionOnSet(f, A \ B) + SumFunctionOnSet(f, A \cap B)
  <2>1. IsFiniteSet(A \ B) /\ IsFiniteSet(A \cap B)
    BY FS_Subset
  <2>2. (A \ B) \cap (A \cap B) = {} /\ (A \ B) \cup (A \cap B) = A
    OBVIOUS
  <2>3. \A x \in (A \ B) \cup (A \cap B) : f[x] \in Int
    OBVIOUS
  <2>4. SumFunctionOnSet(f, (A \ B) \cup (A \cap B)) =
          SumFunctionOnSet(f, A \ B) + SumFunctionOnSet(f, A \cap B)
    BY <2>1, <2>2, <2>3, SumDisjoint
  <2> QED BY <2>2, <2>4
<1>5. /\ SumFunctionOnSet(f, T) = SumFunctionOnSet(f, T \ Q) + SumFunctionOnSet(f, T \cap Q)
      /\ SumFunctionOnSet(f, Q) = SumFunctionOnSet(f, Q \ T) + SumFunctionOnSet(f, Q \cap T)
  BY <1>4
<1>6. Q \cap T = T \cap Q
  OBVIOUS
<1>7. /\ SumFunctionOnSet(f, T \ Q) \in Nat /\ SumFunctionOnSet(f, Q \ T) \in Nat
      /\ SumFunctionOnSet(f, T \cap Q) \in Nat
  BY <1>1, SumNat
<1> QED BY <1>3, <1>5, <1>6, <1>7

(* A nonempty finite set of integers has a least element and a greatest.    *)
LEMMA LeastInteger ==
  ASSUME NEW S, IsFiniteSet(S), S \subseteq Int, S # {}
  PROVE  \E n \in S : \A m \in S : n <= m
<1> DEFINE F == {T \in SUBSET S : T = {} \/ \E n \in T : \A m \in T : n <= m}
<1>1. {} \in F
  OBVIOUS
<1>2. ASSUME NEW T \in SUBSET S, NEW x \in S \ T, T \in F
      PROVE  T \cup {x} \in F
  <2>1. CASE T = {}
    BY <2>1
  <2>2. CASE T # {}
    <3>1. PICK n \in T : \A m \in T : n <= m
      BY <1>2, <2>2
    <3>2. CASE n <= x
      BY <3>1, <3>2
    <3>3. CASE ~(n <= x)
      <4>1. \A m \in T \cup {x} : x <= m
        BY <3>1, <3>3
      <4> QED BY <4>1
    <3> QED BY <3>2, <3>3
  <2> QED BY <2>1, <2>2
<1> HIDE DEF F
<1>3. S \in F
  BY <1>1, <1>2, SetInduction
<1> QED BY <1>3 DEF F

(* Likewise a greatest.                                                     *)
LEMMA GreatestInteger ==
  ASSUME NEW S, IsFiniteSet(S), S \subseteq Int, S # {}
  PROVE  \E n \in S : \A m \in S : n >= m
<1> DEFINE F == {T \in SUBSET S : T = {} \/ \E n \in T : \A m \in T : n >= m}
<1>1. {} \in F
  OBVIOUS
<1>2. ASSUME NEW T \in SUBSET S, NEW x \in S \ T, T \in F
      PROVE  T \cup {x} \in F
  <2>1. CASE T = {}
    BY <2>1
  <2>2. CASE T # {}
    <3>1. PICK n \in T : \A m \in T : n >= m
      BY <1>2, <2>2
    <3>2. CASE n >= x
      BY <3>1, <3>2
    <3>3. CASE ~(n >= x)
      <4>1. \A m \in T \cup {x} : x >= m
        BY <3>1, <3>3
      <4> QED BY <4>1
    <3> QED BY <3>2, <3>3
  <2> QED BY <2>1, <2>2
<1> HIDE DEF F
<1>3. S \in F
  BY <1>1, <1>2, SetInduction
<1> QED BY <1>3 DEF F

(* The values a function takes on a finite set are finite, and no more.     *)
LEMMA ImageIsFinite ==
  ASSUME NEW S, IsFiniteSet(S), NEW f
  PROVE  /\ IsFiniteSet({f[x] : x \in S})
         /\ Cardinality({f[x] : x \in S}) <= Cardinality(S)
<1> DEFINE T == {f[x] : x \in S}
           g == [x \in S |-> f[x]]
<1>1. g \in Surjection(S, T)
  BY DEF Surjection
<1> HIDE DEF g
<1>2. IsFiniteSet(T) /\ Cardinality(T) <= Cardinality(S)
  <2> HIDE DEF T
  <2> QED BY <1>1, FS_Surjection
<1> QED BY <1>2

(* A union has no more elements than its members have together.             *)
LEMMA UnionAtMost ==
  ASSUME NEW D, IsFiniteSet(D), NEW A, \A i \in D : IsFiniteSet(A[i]),
         NEW f, \A i \in D : f[i] = Cardinality(A[i])
  PROVE  /\ IsFiniteSet(UNION {A[i] : i \in D})
         /\ Cardinality(UNION {A[i] : i \in D}) <= SumFunctionOnSet(f, D)
<1> DEFINE U(T) == UNION {A[i] : i \in T}
           F == {T \in SUBSET D : IsFiniteSet(U(T)) /\ Cardinality(U(T)) <= SumFunctionOnSet(f, T)}
<1>0. \A i \in D : f[i] \in Nat
  BY FS_CardinalityType
<1>1. {} \in F
  <2>1. U({}) = {}
    OBVIOUS
  <2>2. IsFiniteSet({}) /\ Cardinality({}) = 0 /\ SumFunctionOnSet(f, {}) = 0
    BY SumEmpty, FS_EmptySet
  <2> HIDE DEF U
  <2> QED BY <2>1, <2>2
<1>2. ASSUME NEW T \in SUBSET D, NEW x \in D \ T, T \in F PROVE T \cup {x} \in F
  <2>1. U(T \cup {x}) = U(T) \cup A[x]
    OBVIOUS
  <2> HIDE DEF U
  <2>2. IsFiniteSet(T) /\ IsFiniteSet(A[x]) /\ IsFiniteSet(U(T))
    BY <1>2, FS_Subset
  <2>3. SumFunctionOnSet(f, T \cup {x}) = f[x] + SumFunctionOnSet(f, T)
    BY <2>2, <1>0, SumAdd
  <2>4. /\ IsFiniteSet(U(T) \cup A[x])
        /\ Cardinality(U(T) \cup A[x]) =
             Cardinality(U(T)) + Cardinality(A[x]) - Cardinality(U(T) \cap A[x])
    BY <2>2, FS_Union
  <2>5. IsFiniteSet(U(T) \cap A[x])
    BY <2>2, FS_Subset
  <2>6. /\ Cardinality(U(T) \cap A[x]) \in Nat /\ Cardinality(U(T)) \in Nat
        /\ Cardinality(A[x]) \in Nat /\ SumFunctionOnSet(f, T) \in Int
    BY <2>2, <2>5, <1>0, SumInt, FS_CardinalityType
  <2>7. Cardinality(U(T)) <= SumFunctionOnSet(f, T) /\ f[x] = Cardinality(A[x])
    BY <1>2
  <2>8. Cardinality(U(T \cup {x})) <= SumFunctionOnSet(f, T \cup {x})
    <3>1. Cardinality(U(T \cup {x})) = Cardinality(U(T) \cup A[x])
      BY <2>1
    <3>2. Cardinality(U(T) \cup A[x]) <= f[x] + SumFunctionOnSet(f, T)
      BY <2>4, <2>6, <2>7
    <3> QED BY <2>3, <3>1, <3>2
  <2> QED BY <2>1, <2>4, <2>8
<1>3. D \in F
  <2> HIDE DEF F
  <2> QED BY <1>1, <1>2, SetInduction
<1> QED BY <1>3
=============================================================================
