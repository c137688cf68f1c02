--------------------------- MODULE QueriesProofs ---------------------------
(***************************************************************************)
(* Theorems about Queries, for every set of owners, coin types, limits and *)
(* transactions of the ledger.                                             *)
(***************************************************************************)
EXTENDS Queries, OverlayProofs, FiniteSetTheorems, WellFoundedInduction

-----------------------------------------------------------------------------
(* Sums.  SumFunctionOnSet is a recursive function on the subsets of a set; *)
(* what it computes follows by taking a minimal subset for which it does    *)
(* not, which a finite set has.                                             *)

\* A nonempty collection of subsets of a finite set has a minimal member.
LEMMA MinimalSubset ==
    ASSUME NEW S, IsFiniteSet(S), NEW Bad \in SUBSET SUBSET S, Bad # {}
    PROVE  \E T \in Bad : \A U \in Bad : U \subseteq T => U = T
<1>1. IsWellFoundedOn(StrictSubsetOrdering(S), SUBSET S)
  BY FS_StrictSubsetOrderingWellFounded, FS_FiniteSubsetsOfFinite
<1>2. PICK T \in Bad : \A U \in Bad : ~(<<U, T>> \in StrictSubsetOrdering(S))
  BY <1>1, WFMin
<1>3. \A U \in Bad : U \subseteq T => U = T
  BY <1>2 DEF StrictSubsetOrdering
<1>. QED BY <1>3

\* The element a fold takes next.
Pick(s) == CHOOSE x \in s : TRUE

\* g is what SumFunctionOnSet(f, S) computes on every subset of S.
Sums(g, f, S) ==
    g = [s \in SUBSET S |-> IF s = {} THEN 0 ELSE f[Pick(s)] + g[s \ {Pick(s)}]]

\* What Pick picks is a member.
LEMMA PickIn ==
    ASSUME NEW S, S # {}
    PROVE  Pick(S) \in S
BY DEF Pick

\* What a table of partial sums says of one subset.
LEMMA SumsAt ==
    ASSUME NEW f, NEW S, NEW g, Sums(g, f, S), NEW s \in SUBSET S
    PROVE  g[s] = IF s = {} THEN 0 ELSE f[Pick(s)] + g[s \ {Pick(s)}]
BY Zenon DEF Sums

\* Two tables of partial sums agree on the whole set.
LEMMA SumsUnique ==
    ASSUME NEW f, NEW S, IsFiniteSet(S), NEW g, Sums(g, f, S), NEW h, Sums(h, f, S)
    PROVE  g[S] = h[S]
<1>. DEFINE Bad == {s \in SUBSET S : g[s] # h[s]}
<1>. SUFFICES ASSUME Bad # {} PROVE FALSE
  OBVIOUS
<1>0. Bad \in SUBSET SUBSET S
  OBVIOUS
<1>1. PICK T \in Bad : \A U \in Bad : U \subseteq T => U = T
  <2>. HIDE DEF Bad
  <2>. QED BY <1>0, MinimalSubset
<1>2. T # {} /\ T \in SUBSET S
  <2>1. g[{}] = 0 /\ h[{}] = 0
    BY SumsAt
  <2>. QED BY <1>1, <2>1
<1>3. Pick(T) \in T
  BY <1>2, PickIn
<1>4. T \ {Pick(T)} \in SUBSET S /\ T \ {Pick(T)} \notin Bad
  BY <1>1, <1>3
<1>5. g[T] = f[Pick(T)] + g[T \ {Pick(T)}] /\ h[T] = f[Pick(T)] + h[T \ {Pick(T)}]
  BY <1>2, SumsAt
<1>. QED BY <1>4, <1>5

\* A table of partial sums restricted to a subset is one of that subset.
LEMMA SumsRestrict ==
    ASSUME NEW f, NEW S, NEW g, Sums(g, f, S), NEW T \in SUBSET S
    PROVE  Sums([s \in SUBSET T |-> g[s]], f, T)
<1>. DEFINE h == [s \in SUBSET T |-> g[s]]
<1>1. ASSUME NEW s \in SUBSET T
      PROVE  h[s] = IF s = {} THEN 0 ELSE f[Pick(s)] + h[s \ {Pick(s)}]
  <2>1. g[s] = IF s = {} THEN 0 ELSE f[Pick(s)] + g[s \ {Pick(s)}]
    BY SumsAt
  <2>2. s \ {Pick(s)} \in SUBSET T
    OBVIOUS
  <2>. QED BY <2>1, <2>2
<1>2. h = [s \in SUBSET T |-> h[s]]
  OBVIOUS
<1>. HIDE DEF h
<1>3. h = [s \in SUBSET T |-> IF s = {} THEN 0 ELSE f[Pick(s)] + h[s \ {Pick(s)}]]
  BY <1>1, <1>2
<1>. QED BY <1>3 DEF Sums, h

\* Every finite set has a table of partial sums.
LEMMA SumsExist ==
    ASSUME NEW f, NEW S, IsFiniteSet(S)
    PROVE  \E g : Sums(g, f, S)
<1>. DEFINE Bad == {s \in SUBSET S : ~\E g : Sums(g, f, s)}
<1>. SUFFICES ASSUME Bad # {} PROVE FALSE
  OBVIOUS
<1>0. Bad \in SUBSET SUBSET S
  OBVIOUS
<1>1. PICK T \in Bad : \A U \in Bad : U \subseteq T => U = T
  <2>. HIDE DEF Bad
  <2>. QED BY <1>0, MinimalSubset
<1>. DEFINE Best(U) == CHOOSE g : Sums(g, f, U)
            g == [s \in SUBSET T |->
                    IF s = {} THEN 0
                    ELSE f[Pick(s)] + Best(s \ {Pick(s)})[s \ {Pick(s)}]]
<1>2. \A U \in SUBSET T : U # T => Sums(Best(U), f, U)
  <2>. SUFFICES ASSUME NEW U \in SUBSET T, U # T PROVE Sums(Best(U), f, U)
    OBVIOUS
  <2>1. \E h : Sums(h, f, U)
    BY <1>1
  <2>. QED BY <2>1
<1>3. \A U \in SUBSET T : IsFiniteSet(U)
  BY FS_Subset
<1>. HIDE DEF Best
<1>4. ASSUME NEW U \in SUBSET T, U # T
      PROVE  g[U] = Best(U)[U]
  <2>. DEFINE W == U \ {Pick(U)}
  <2>1. Sums(Best(U), f, U)
    BY <1>2, <1>4
  <2>2. Best(U)[U] = IF U = {} THEN 0 ELSE f[Pick(U)] + Best(U)[W]
    BY <2>1, SumsAt
  <2>3. g[U] = IF U = {} THEN 0 ELSE f[Pick(U)] + Best(W)[W]
    OBVIOUS
  <2>4. W \in SUBSET U /\ W \in SUBSET T /\ W # T
    BY <1>4
  <2>. HIDE DEF W, g
  <2>5. Best(U)[W] = Best(W)[W]
    <3>. DEFINE h == [s \in SUBSET W |-> Best(U)[s]]
    <3>1. Sums(h, f, W)
      BY <2>1, <2>4, SumsRestrict
    <3>2. h[W] = Best(U)[W]
      OBVIOUS
    <3>. HIDE DEF h
    <3>3. Sums(Best(W), f, W) /\ IsFiniteSet(W)
      BY <1>2, <1>3, <2>4
    <3>4. h[W] = Best(W)[W]
      BY <3>1, <3>3, SumsUnique
    <3>. QED BY <3>2, <3>4
  <2>. QED BY <2>2, <2>3, <2>5
<1>5. ASSUME NEW s \in SUBSET T
      PROVE  g[s] = IF s = {} THEN 0 ELSE f[Pick(s)] + g[s \ {Pick(s)}]
  <2>1. CASE s = {}
    BY <2>1
  <2>2. CASE s # {}
    <3>. DEFINE W == s \ {Pick(s)}
    <3>1. W \in SUBSET T /\ W # T
      BY <2>2, PickIn
    <3>2. g[s] = f[Pick(s)] + Best(W)[W]
      BY <2>2
    <3>. HIDE DEF W, g
    <3>3. g[W] = Best(W)[W]
      BY <1>4, <3>1
    <3>. QED BY <2>2, <3>2, <3>3 DEF W
  <2>. QED BY <2>1, <2>2
<1>6. g = [s \in SUBSET T |-> g[s]]
  OBVIOUS
<1>. HIDE DEF g
<1>7. g = [s \in SUBSET T |-> IF s = {} THEN 0 ELSE f[Pick(s)] + g[s \ {Pick(s)}]]
  BY <1>5, <1>6
<1>8. Sums(g, f, T)
  BY <1>7 DEF Sums
<1>. QED BY <1>1, <1>8

\* The library's sum is what any table of partial sums says it is.
LEMMA SumIs ==
    ASSUME NEW f, NEW S, IsFiniteSet(S), NEW g, Sums(g, f, S)
    PROVE  SumFunctionOnSet(f, S) = g[S]
<1>. DEFINE G == CHOOSE h : Sums(h, f, S)
<1>1. Sums(G, f, S)
  OBVIOUS
<1>2. SumFunctionOnSet(f, S) = G[S]
  BY DEF SumFunctionOnSet, FoldFunctionOnSet, MapThenFoldSet, Sums, Pick
<1>. HIDE DEF G
<1>. QED BY <1>1, <1>2, SumsUnique

\* The sum over a set is one element's value and the sum over the others.
LEMMA SumPick ==
    ASSUME NEW f, NEW S, IsFiniteSet(S)
    PROVE  SumFunctionOnSet(f, S) =
              IF S = {} THEN 0 ELSE f[Pick(S)] + SumFunctionOnSet(f, S \ {Pick(S)})
<1>. DEFINE W == S \ {Pick(S)}
            h(g) == [s \in SUBSET W |-> g[s]]
<1>1. PICK g : Sums(g, f, S)
  BY SumsExist
<1>2. W \in SUBSET S /\ IsFiniteSet(W)
  BY FS_RemoveElement
<1>. HIDE DEF W
<1>3. Sums(h(g), f, W)
  BY <1>1, <1>2, SumsRestrict
<1>4. h(g)[W] = g[W]
  OBVIOUS
<1>. HIDE DEF h
<1>5. SumFunctionOnSet(f, W) = g[W]
  BY <1>2, <1>3, <1>4, SumIs
<1>6. SumFunctionOnSet(f, S) = g[S]
  BY <1>1, SumIs
<1>7. g[S] = IF S = {} THEN 0 ELSE f[Pick(S)] + g[W]
  BY <1>1, SumsAt DEF W
<1>. QED BY <1>5, <1>6, <1>7 DEF W

\* The sum over no index is 0.
LEMMA SumEmpty ==
    ASSUME NEW f
    PROVE  SumFunctionOnSet(f, {}) = 0
BY SumPick, FS_EmptySet

\* A sum of naturals is a natural.
LEMMA SumNat ==
    ASSUME NEW f, NEW S, IsFiniteSet(S), \A x \in S : f[x] \in Nat
    PROVE  SumFunctionOnSet(f, S) \in Nat
<1>. DEFINE Bad == {s \in SUBSET S : SumFunctionOnSet(f, s) \notin Nat}
<1>. SUFFICES ASSUME Bad # {} PROVE FALSE
  OBVIOUS
<1>0. Bad \in SUBSET SUBSET S
  OBVIOUS
<1>1. PICK T \in Bad : \A U \in Bad : U \subseteq T => U = T
  <2>. HIDE DEF Bad
  <2>. QED BY <1>0, MinimalSubset
<1>2. T # {} /\ IsFiniteSet(T)
  <2>1. T \in SUBSET S
    BY <1>0
  <2>2. SumFunctionOnSet(f, {}) = 0
    BY SumEmpty
  <2>3. SumFunctionOnSet(f, T) \notin Nat
    BY <1>1
  <2>4. T # {}
    BY <2>2, <2>3
  <2>. QED BY <2>1, <2>4, FS_Subset
<1>3. Pick(T) \in T
  BY <1>2, PickIn
<1>4. T \ {Pick(T)} \in SUBSET S /\ T \ {Pick(T)} \notin Bad
  BY <1>1, <1>3
<1>5. SumFunctionOnSet(f, T) = f[Pick(T)] + SumFunctionOnSet(f, T \ {Pick(T)})
  BY <1>2, SumPick
<1>. QED BY <1>3, <1>4, <1>5

\* Any element will do.
LEMMA SumTake ==
    ASSUME NEW f, NEW S, IsFiniteSet(S), \A x \in S : f[x] \in Nat, NEW x \in S
    PROVE  SumFunctionOnSet(f, S) = f[x] + SumFunctionOnSet(f, S \ {x})
<1>. DEFINE Bad == {s \in SUBSET S : \E y \in s :
                       SumFunctionOnSet(f, s) # f[y] + SumFunctionOnSet(f, s \ {y})}
<1>. SUFFICES ASSUME Bad # {} PROVE FALSE
  OBVIOUS
<1>0. Bad \in SUBSET SUBSET S
  OBVIOUS
<1>1. PICK T \in Bad : \A U \in Bad : U \subseteq T => U = T
  <2>. HIDE DEF Bad
  <2>. QED BY <1>0, MinimalSubset
<1>2. PICK y \in T :
         SumFunctionOnSet(f, T) # f[y] + SumFunctionOnSet(f, T \ {y})
  BY <1>1
<1>. DEFINE p == Pick(T)
<1>3. p \in T /\ IsFiniteSet(T)
  BY <1>2, PickIn, FS_Subset
<1>4. SumFunctionOnSet(f, T) = f[p] + SumFunctionOnSet(f, T \ {p})
  BY <1>2, <1>3, SumPick
<1>. HIDE DEF p
<1>5. p # y
  BY <1>2, <1>4
<1>6. /\ T \ {p} \in SUBSET S /\ T \ {p} \notin Bad /\ y \in T \ {p}
      /\ T \ {y} \in SUBSET S /\ T \ {y} \notin Bad /\ p \in T \ {y}
  BY <1>1, <1>3, <1>5
<1>7. /\ SumFunctionOnSet(f, T \ {p}) = f[y] + SumFunctionOnSet(f, (T \ {p}) \ {y})
      /\ SumFunctionOnSet(f, T \ {y}) = f[p] + SumFunctionOnSet(f, (T \ {y}) \ {p})
  BY <1>6
<1>8. (T \ {p}) \ {y} = (T \ {y}) \ {p}
  OBVIOUS
<1>9. f[p] \in Nat /\ f[y] \in Nat /\ SumFunctionOnSet(f, (T \ {p}) \ {y}) \in Nat
  <2>. DEFINE W == (T \ {p}) \ {y}
  <2>1. W \in SUBSET S /\ p \in S /\ y \in S
    BY <1>6, <1>3, <1>2, <1>0
  <2>. HIDE DEF Bad, W
  <2>2. IsFiniteSet(W) /\ \A z \in W : f[z] \in Nat
    BY <2>1, FS_Subset
  <2>3. SumFunctionOnSet(f, W) \in Nat
    BY <2>2, SumNat
  <2>. QED BY <2>1, <2>3 DEF W
<1>. HIDE DEF Bad
<1>10. SumFunctionOnSet(f, (T \ {y}) \ {p}) = SumFunctionOnSet(f, (T \ {p}) \ {y})
  BY <1>8
<1>. QED BY <1>2, <1>4, <1>7, <1>9, <1>10

\* A new index adds its value to the sum.
LEMMA SumAdd ==
    ASSUME NEW f, NEW S, IsFiniteSet(S), NEW x, x \notin S,
           \A y \in S \cup {x} : f[y] \in Nat
    PROVE  SumFunctionOnSet(f, S \cup {x}) = f[x] + SumFunctionOnSet(f, S)
<1>. DEFINE T == S \cup {x}
<1>1. IsFiniteSet(T) /\ x \in T /\ T \ {x} = S
  BY FS_AddElement
<1>2. \A y \in T : f[y] \in Nat
  OBVIOUS
<1>. HIDE DEF T
<1>3. SumFunctionOnSet(f, T) = f[x] + SumFunctionOnSet(f, T \ {x})
  BY <1>1, <1>2, SumTake
<1>. QED BY <1>1, <1>3 DEF T

\* Two functions that agree have the same sum.
LEMMA SumSame ==
    ASSUME NEW f, NEW g, NEW S, IsFiniteSet(S), \A x \in S : f[x] = g[x]
    PROVE  SumFunctionOnSet(f, S) = SumFunctionOnSet(g, S)
<1>. DEFINE Bad == {s \in SUBSET S : SumFunctionOnSet(f, s) # SumFunctionOnSet(g, s)}
<1>. SUFFICES ASSUME Bad # {} PROVE FALSE
  OBVIOUS
<1>0. Bad \in SUBSET SUBSET S
  OBVIOUS
<1>1. PICK T \in Bad : \A U \in Bad : U \subseteq T => U = T
  <2>. HIDE DEF Bad
  <2>. QED BY <1>0, MinimalSubset
<1>2. T # {} /\ IsFiniteSet(T)
  <2>1. T \in SUBSET S
    BY <1>0
  <2>2. T # {}
    BY <1>1, SumEmpty
  <2>. QED BY <2>1, <2>2, FS_Subset
<1>3. Pick(T) \in T
  BY <1>2, PickIn
<1>4. T \ {Pick(T)} \in SUBSET S /\ T \ {Pick(T)} \notin Bad
  BY <1>1, <1>3
<1>5. /\ SumFunctionOnSet(f, T) = f[Pick(T)] + SumFunctionOnSet(f, T \ {Pick(T)})
      /\ SumFunctionOnSet(g, T) = g[Pick(T)] + SumFunctionOnSet(g, T \ {Pick(T)})
  BY <1>2, SumPick
<1>. QED BY <1>3, <1>4, <1>5

\* Parts that have nothing in common add up.
LEMMA SumParts ==
    ASSUME NEW f, NEW S, IsFiniteSet(S), NEW R, IsFiniteSet(R), S \cap R = {},
           \A x \in S \cup R : f[x] \in Nat
    PROVE  SumFunctionOnSet(f, S \cup R) = SumFunctionOnSet(f, S) + SumFunctionOnSet(f, R)
<1>. DEFINE Bad == {s \in SUBSET R : SumFunctionOnSet(f, S \cup s)
                       # SumFunctionOnSet(f, S) + SumFunctionOnSet(f, s)}
<1>. SUFFICES ASSUME Bad # {} PROVE FALSE
  OBVIOUS
<1>0. Bad \in SUBSET SUBSET R
  OBVIOUS
<1>1. PICK T \in Bad : \A U \in Bad : U \subseteq T => U = T
  <2>. HIDE DEF Bad
  <2>. QED BY <1>0, MinimalSubset
<1>2. SumFunctionOnSet(f, S) \in Nat
  BY SumNat
<1>3. T # {}
  <2>1. S \cup {} = S /\ SumFunctionOnSet(f, {}) = 0
    BY SumEmpty
  <2>2. SumFunctionOnSet(f, S \cup T) # SumFunctionOnSet(f, S) + SumFunctionOnSet(f, T)
    BY <1>1
  <2>. HIDE DEF Bad
  <2>. SUFFICES ASSUME T = {} PROVE FALSE
    OBVIOUS
  <2>3. SumFunctionOnSet(f, S \cup T) = SumFunctionOnSet(f, S) /\ SumFunctionOnSet(f, T) = 0
    BY <2>1
  <2>. QED BY <1>2, <2>2, <2>3
<1>4. PICK x : x \in T
  BY <1>3
<1>. DEFINE W == T \ {x}
<1>5. W \in SUBSET R /\ W \notin Bad /\ T \in SUBSET R
  BY <1>1, <1>4
<1>6. SumFunctionOnSet(f, S \cup W) = SumFunctionOnSet(f, S) + SumFunctionOnSet(f, W)
  BY <1>5
<1>7. SumFunctionOnSet(f, S \cup T) # SumFunctionOnSet(f, S) + SumFunctionOnSet(f, T)
  BY <1>1
<1>. HIDE DEF Bad
<1>8. IsFiniteSet(W) /\ IsFiniteSet(S \cup W) /\ x \notin W /\ x \notin S \cup W
      /\ W \cup {x} = T /\ (S \cup W) \cup {x} = S \cup T
  BY <1>4, <1>5, FS_Subset, FS_Union
<1>9. (\A y \in T : f[y] \in Nat) /\ (\A y \in S \cup T : f[y] \in Nat)
  BY <1>5
<1>. HIDE DEF W
<1>10. SumFunctionOnSet(f, T) = f[x] + SumFunctionOnSet(f, W)
  BY <1>8, <1>9, SumAdd
<1>11. SumFunctionOnSet(f, S \cup T) = f[x] + SumFunctionOnSet(f, S \cup W)
  BY <1>8, <1>9, SumAdd
<1>12. f[x] \in Nat /\ SumFunctionOnSet(f, W) \in Nat
  BY <1>4, <1>8, <1>9, SumNat
<1>. QED BY <1>2, <1>6, <1>7, <1>10, <1>11, <1>12

\* A sum may be taken over the images of a one-to-one function.
LEMMA SumImage ==
    ASSUME NEW f, NEW g, NEW S, IsFiniteSet(S), NEW T, NEW h \in Bijection(S, T),
           \A x \in S : f[x] \in Nat /\ g[h[x]] = f[x]
    PROVE  SumFunctionOnSet(f, S) = SumFunctionOnSet(g, T)
<1>. DEFINE Im(s) == {h[x] : x \in s}
            Bad == {s \in SUBSET S : SumFunctionOnSet(f, s) # SumFunctionOnSet(g, Im(s))}
<1>0. Im(S) = T
  BY DEF Bijection, Surjection
<1>. SUFFICES ASSUME Bad # {} PROVE FALSE
  BY <1>0
<1>. HIDE DEF Im
<1>a. Bad \in SUBSET SUBSET S
  OBVIOUS
<1>1. PICK U \in Bad : \A V \in Bad : V \subseteq U => V = U
  <2>. HIDE DEF Bad
  <2>. QED BY <1>a, MinimalSubset
<1>2. U # {}
  <2>1. Im({}) = {}
    BY DEF Im
  <2>. QED BY <2>1, SumEmpty
<1>3. PICK x : x \in U
  BY <1>2
<1>. DEFINE W == U \ {x}
<1>4. W \in SUBSET S /\ W \notin Bad /\ U \in SUBSET S
  BY <1>1, <1>3
<1>5. /\ SumFunctionOnSet(f, W) = SumFunctionOnSet(g, Im(W))
      /\ SumFunctionOnSet(f, U) # SumFunctionOnSet(g, Im(U))
  BY <1>1, <1>4
<1>. HIDE DEF Bad
<1>6. IsFiniteSet(W) /\ x \notin W /\ W \cup {x} = U /\ IsFiniteSet(U)
  BY <1>3, <1>4, FS_Subset
<1>7. \A y \in S, z \in S : h[y] = h[z] => y = z
  BY DEF Bijection, Injection, IsInjective
<1>8. h[x] \notin Im(W) /\ Im(W) \cup {h[x]} = Im(U)
  BY <1>3, <1>4, <1>7 DEF Im
<1>9. \A y \in Im(U) : g[y] \in Nat
  BY <1>4 DEF Im
<1>10. IsFiniteSet(Im(W))
  <2>. DEFINE k == [y \in W |-> h[y]]
  <2>1. k \in Surjection(W, Im(W))
    BY DEF Surjection, Im
  <2>. HIDE DEF k
  <2>. QED BY <1>6, <2>1, FS_Surjection
<1>. HIDE DEF W
<1>11. SumFunctionOnSet(f, U) = f[x] + SumFunctionOnSet(f, W)
  BY <1>4, <1>6, SumAdd
<1>12. SumFunctionOnSet(g, Im(U)) = g[h[x]] + SumFunctionOnSet(g, Im(W))
  BY <1>8, <1>9, <1>10, SumAdd
<1>. QED BY <1>3, <1>4, <1>5, <1>11, <1>12


\* A sum of zeros is 0.
LEMMA SumZeros ==
    ASSUME NEW f, NEW S, IsFiniteSet(S), \A x \in S : f[x] = 0
    PROVE  SumFunctionOnSet(f, S) = 0
<1>. DEFINE Bad == {s \in SUBSET S : SumFunctionOnSet(f, s) # 0}
<1>. SUFFICES ASSUME Bad # {} PROVE FALSE
  OBVIOUS
<1>0. Bad \in SUBSET SUBSET S
  OBVIOUS
<1>1. PICK T \in Bad : \A U \in Bad : U \subseteq T => U = T
  <2>. HIDE DEF Bad
  <2>. QED BY <1>0, MinimalSubset
<1>2. T # {} /\ IsFiniteSet(T)
  <2>1. T \in SUBSET S /\ SumFunctionOnSet(f, T) # 0
    BY <1>1
  <2>2. SumFunctionOnSet(f, {}) = 0
    BY SumEmpty
  <2>3. T # {}
    BY <2>1, <2>2
  <2>. QED BY <2>1, <2>3, FS_Subset
<1>3. Pick(T) \in T
  BY <1>2, PickIn
<1>4. T \ {Pick(T)} \in SUBSET S /\ T \ {Pick(T)} \notin Bad
  BY <1>1, <1>3
<1>5. SumFunctionOnSet(f, T) = f[Pick(T)] + SumFunctionOnSet(f, T \ {Pick(T)})
  BY <1>2, SumPick
<1>. QED BY <1>1, <1>3, <1>4, <1>5

\* Where a function is 0 it adds nothing.
LEMMA SumSupport ==
    ASSUME NEW f, NEW S, IsFiniteSet(S), NEW T \in SUBSET S,
           \A x \in S : f[x] \in Nat, \A x \in S \ T : f[x] = 0
    PROVE  SumFunctionOnSet(f, S) = SumFunctionOnSet(f, T)
<1>. DEFINE R == S \ T
<1>1. IsFiniteSet(T) /\ IsFiniteSet(R)
  <2>1. R \in SUBSET S
    OBVIOUS
  <2>. HIDE DEF R
  <2>. QED BY <2>1, FS_Subset
<1>2. T \cup R = S /\ T \cap R = {} /\ \A x \in T \cup R : f[x] \in Nat
  OBVIOUS
<1>3. \A x \in R : f[x] = 0
  OBVIOUS
<1>. HIDE DEF R
<1>4. SumFunctionOnSet(f, T \cup R) = SumFunctionOnSet(f, T) + SumFunctionOnSet(f, R)
  BY <1>1, <1>2, SumParts
<1>5. SumFunctionOnSet(f, R) = 0
  BY <1>1, <1>3, SumZeros
<1>6. SumFunctionOnSet(f, T) \in Nat
  <2>1. \A x \in T : f[x] \in Nat
    OBVIOUS
  <2>. QED BY <1>1, <2>1, SumNat
<1>7. T \cup R = S
  BY <1>2
<1>8. SumFunctionOnSet(f, S) = SumFunctionOnSet(f, T) + SumFunctionOnSet(f, R)
  BY ONLY <1>4, <1>7
<1>. QED BY ONLY <1>5, <1>6, <1>8

\* Two functions that agree but at one element.
LEMMA SumOneChange ==
    ASSUME NEW S, IsFiniteSet(S), NEW f, NEW g,
           \A x \in S : f[x] \in Nat, \A x \in S : g[x] \in Nat,
           NEW x \in S, \A y \in S \ {x} : f[y] = g[y]
    PROVE  SumFunctionOnSet(f, S) + g[x] = SumFunctionOnSet(g, S) + f[x]
<1>. DEFINE R == S \ {x}
<1>1. /\ SumFunctionOnSet(f, S) = f[x] + SumFunctionOnSet(f, R)
      /\ SumFunctionOnSet(g, S) = g[x] + SumFunctionOnSet(g, R)
  BY SumTake
<1>2. IsFiniteSet(R) /\ (\A y \in R : f[y] \in Nat) /\ (\A y \in R : f[y] = g[y])
  <2>1. R \in SUBSET S
    OBVIOUS
  <2>2. IsFiniteSet(R)
    BY <2>1, FS_Subset
  <2>. QED BY <2>2
<1>. HIDE DEF R
<1>3. SumFunctionOnSet(f, R) = SumFunctionOnSet(g, R) /\ SumFunctionOnSet(f, R) \in Nat
  BY <1>2, SumSame, SumNat
<1>4. f[x] \in Nat /\ g[x] \in Nat
  OBVIOUS
<1>. QED BY <1>1, <1>3, <1>4

\* No element is more than the sum.
LEMMA SumAtLeast ==
    ASSUME NEW S, IsFiniteSet(S), NEW f, \A x \in S : f[x] \in Nat, NEW x \in S
    PROVE  f[x] =< SumFunctionOnSet(f, S)
<1>. DEFINE R == S \ {x}
<1>1. SumFunctionOnSet(f, S) = f[x] + SumFunctionOnSet(f, R)
  BY SumTake
<1>2. IsFiniteSet(R) /\ \A y \in R : f[y] \in Nat
  <2>1. R \in SUBSET S
    OBVIOUS
  <2>2. IsFiniteSet(R)
    BY <2>1, FS_Subset
  <2>. QED BY <2>2
<1>. HIDE DEF R
<1>3. SumFunctionOnSet(f, R) \in Nat
  BY <1>2, SumNat
<1>. QED BY <1>1, <1>3

-----------------------------------------------------------------------------
(* The ledger. *)

\* The overlay and its snapshot file objects under their ids.
LedgerKeyed == KeyedById(state) /\ (saved # None => KeyedById(saved))

Touched == overlay_touched_ids(state)

\* What any transaction does to the overlay.
LEMMA CommitStep ==
    ASSUME NEW objects, NEW deleted, NEW events, KeyedById(state),
           CommitEffects(objects, deleted, events)
    PROVE  KeyedById(state') /\ Touched \subseteq Touched'
<1>. DEFINE e == TransactionEffects(objects, deleted, events)
<1>1. \A id \in ObjectID : e.written[id] # None => e.written[id].id = id
  BY DEF TransactionEffects
<1>. HIDE DEF e
<1>2. PICK info \in Info : state' = commit(state, e, writes + 1, info)
  BY DEF CommitEffects, e
<1>. QED BY <1>1, <1>2, CommitKeyed, CommitTouches DEF Touched

\* A transaction keeps the overlay keyed by identifier and touched ones touched.
LEMMA TransactStep ==
    ASSUME KeyedById(state), Transact
    PROVE  KeyedById(state') /\ Touched \subseteq Touched'
<1>1. CASE Transfer
  BY <1>1, CommitStep DEF Transfer
<1>2. CASE Deposit
  BY <1>2, CommitStep DEF Deposit
<1>3. CASE Withdraw
  BY <1>3, CommitStep DEF Withdraw
<1>4. CASE Mint
  BY <1>4, CommitStep DEF Mint
<1>5. CASE Burn
  BY <1>5, CommitStep DEF Burn
<1>6. CASE Wrap
  BY <1>6, CommitStep DEF Wrap
<1>. QED BY <1>1, <1>2, <1>3, <1>4, <1>5, <1>6 DEF Transact

\* A write that is no rollback takes nothing away from what was touched.
LEMMA WriteStep ==
    ASSUME LedgerKeyed, Write
    PROVE  LedgerKeyed' /\ (Rollback \/ Touched \subseteq Touched')
<1>1. CASE Transact
  BY <1>1, TransactStep DEF Transact, LedgerKeyed
<1>2. CASE TakeSnapshot
  BY <1>2 DEF TakeSnapshot, LedgerKeyed, Touched
<1>3. CASE Rollback
  <2>1. KeyedById(Default)
    BY DefaultLemma DEF Coherent
  <2>. QED BY <1>3, <2>1 DEF Rollback, LedgerKeyed
<1>. QED BY <1>1, <1>2, <1>3 DEF Write

-----------------------------------------------------------------------------
(* The inductive invariant: at each step of compute_balance, what the      *)
(* overlay's coins are known to be a part of.                              *)

CoinsAccounted ==
    ~rolled =>
        /\ query.pc = "touched" => LocalIds \subseteq Touched
        /\ query.pc = "network_coins" => LocalIds \subseteq query.touched
        /\ query.pc = "address_balance" => LocalIds \cap query.network = {}

QueryShape == DOMAIN query = DOMAIN IdleQuery

Inv == LedgerKeyed /\ QueryShape /\ CoinsAccounted

\* The coins of the overlay are touched.
LEMMA CoinsTouched ==
    ASSUME KeyedById(state), NEW owner, NEW type
    PROVE  \A o \in coins_of(state, owner, type) : o.id \in Touched
<1>1. ASSUME NEW o \in coins_of(state, owner, type)
      PROVE  o.id \in Touched
  <2>1. PICK id \in ObjectID : state.objects[id] = o /\ o # None
    BY DEF coins_of, overlay_objects_of, overlay_objects
  <2>. QED BY <2>1 DEF KeyedById, Touched, overlay_touched_ids
<1>. QED BY <1>1

\* The invariant holds at first.
LEMMA InitInv == Init => Inv
<1>. SUFFICES ASSUME Init PROVE Inv
  OBVIOUS
<1>1. KeyedById(Default)
  BY DefaultLemma DEF Coherent
<1>2. IdleQuery.pc = "idle"
  BY DEF IdleQuery
<1>. QED BY <1>1, <1>2 DEF Init, LedgerInit, Inv, LedgerKeyed, QueryShape, CoinsAccounted

\* A step that only reads, into a query none of whose steps the invariant is
\* about.
LEMMA OtherStep ==
    ASSUME Inv, UNCHANGED ledger, DOMAIN query' = DOMAIN IdleQuery,
           query'.pc \notin {"touched", "network_coins", "address_balance"}
    PROVE  Inv'
BY DEF Inv, LedgerKeyed, QueryShape, CoinsAccounted, ledger

\* compute_balance starts.
LEMMA BeginStep ==
    ASSUME Inv, UNCHANGED ledger, DOMAIN query' = DOMAIN IdleQuery,
           query'.pc = "touched",
           NEW owner, NEW type, query'.local = coins_of(state, owner, type)
    PROVE  Inv'
<1>1. \A o \in query'.local : o.id \in Touched
  BY CoinsTouched DEF Inv, LedgerKeyed
<1>2. Touched' = Touched
  BY DEF ledger, Touched
<1>. QED BY <1>1, <1>2 DEF Inv, LedgerKeyed, QueryShape, CoinsAccounted, ledger, LocalIds

\* Every step preserves the invariant.
LEMMA NextInv == Inv /\ [Next]_vars => Inv'
<1>. SUFFICES ASSUME Inv, [Next]_vars PROVE Inv'
  OBVIOUS
<1>. USE DEF QueryShape
<1>0. /\ DOMAIN query = DOMAIN IdleQuery
      /\ {"pc", "kind", "owner", "type", "limit", "local", "touched", "network",
          "types", "cut", "out"} = DOMAIN IdleQuery
  BY DEF Inv, IdleQuery
<1>1. CASE BeginBalance
  <2>1. PICK owner \in Owner, type \in Type :
           query' = [IdleQuery EXCEPT
              !.pc = "touched", !.kind = "balance", !.owner = owner,
              !.type = type, !.local = coins_of(state, owner, type)]
    BY <1>1 DEF BeginBalance
  <2>2. /\ DOMAIN query' = DOMAIN IdleQuery /\ query'.pc = "touched"
        /\ query'.local = coins_of(state, owner, type)
    BY <2>1 DEF IdleQuery
  <2>. QED BY <1>1, <2>2, BeginStep DEF BeginBalance, Begin
<1>2. CASE ReadTouched
  <2>1. /\ query' = [query EXCEPT !.touched = Touched, !.pc = "network_coins"]
        /\ query.pc = "touched" /\ UNCHANGED <<ledger, rolled>>
    BY <1>2 DEF ReadTouched, Reads, Touched
  <2>2. /\ DOMAIN query' = DOMAIN query /\ query'.pc = "network_coins"
        /\ query'.touched = Touched /\ query'.local = query.local
    BY <1>0, <2>1
  <2>. QED BY <2>1, <2>2 DEF Inv, LedgerKeyed, CoinsAccounted, ledger, LocalIds
<1>3. CASE ReadNetworkCoins
  <2>1. PICK listed \in owned_coin_values(query.owner, query.type) :
           query' = [query EXCEPT !.network = listed \ query.touched,
                                  !.pc = "address_balance"]
    BY <1>3 DEF ReadNetworkCoins
  <2>2. query.pc = "network_coins" /\ UNCHANGED <<ledger, rolled>>
    BY <1>3 DEF ReadNetworkCoins, Reads
  <2>3. /\ DOMAIN query' = DOMAIN query /\ query'.pc = "address_balance"
        /\ query'.network = listed \ query.touched /\ query'.local = query.local
    BY <1>0, <2>1
  <2>. QED BY <2>2, <2>3 DEF Inv, LedgerKeyed, CoinsAccounted, ledger, LocalIds
<1>4. CASE NextType
  <2>1. CASE query' = [query EXCEPT !.pc = "answered"]
    <3>1. DOMAIN query' = DOMAIN query /\ query'.pc = "answered"
      BY <1>0, <2>1
    <3>. QED BY <1>0, <1>4, <3>1, OtherStep DEF NextType, Reads
  <2>2. ASSUME NEW type \in query.types,
               query' = [query EXCEPT
                  !.type = type, !.types = @ \ {type},
                  !.local = coins_of(state, query.owner, type), !.pc = "touched"]
        PROVE  Inv'
    <3>1. /\ DOMAIN query' = DOMAIN query /\ query'.pc = "touched"
          /\ query'.local = coins_of(state, query.owner, type)
      BY <1>0, <2>2
    <3>. QED BY <1>0, <1>4, <3>1, BeginStep DEF NextType, Reads
  <2>. QED BY <1>4, <2>1, <2>2 DEF NextType
<1>5. CASE \/ ReadAddressBalance \/ ReadAddressTypes \/ ReadNetworkTypes
           \/ ReadNetworkInfo \/ ReadNetworkFields
  <2>1. /\ DOMAIN query' = DOMAIN query
        /\ query'.pc \in {"next_type", "answered", "network_types"}
    BY <1>0, <1>5 DEF ReadAddressBalance, ReadAddressTypes, ReadNetworkTypes,
                      ReadNetworkInfo, ReadNetworkFields
  <2>2. UNCHANGED ledger
    BY <1>5 DEF ReadAddressBalance, ReadAddressTypes, ReadNetworkTypes,
                ReadNetworkInfo, ReadNetworkFields, Reads
  <2>. QED BY <1>0, <2>1, <2>2, OtherStep
<1>6. CASE \/ BeginBalances \/ BeginInfo \/ BeginFields \/ NetworkFails \/ Answer
  <2>. DEFINE Starts ==
            /\ DOMAIN query' = DOMAIN IdleQuery
            /\ query'.pc \in {"idle", "address_types", "network_info",
                              "network_fields", "answered"}
  <2>1. Starts
    <3>1. CASE BeginBalances
      BY <3>1 DEF BeginBalances, IdleQuery
    <3>2. CASE BeginInfo
      BY <3>2 DEF BeginInfo, IdleQuery
    <3>3. CASE BeginFields
      <4>1. PICK owner, limit, full, page :
               query' = [IdleQuery EXCEPT
                  !.pc = IF full THEN "answered" ELSE "network_fields",
                  !.kind = "fields", !.owner = owner, !.limit = limit,
                  !.local = page]
        BY <3>3, Zenon DEF BeginFields
      <4>. QED BY <4>1 DEF IdleQuery
    <3>4. CASE NetworkFails \/ Answer
      BY <3>4 DEF NetworkFails, Answer, IdleQuery
    <3>. QED BY <1>6, <3>1, <3>2, <3>3, <3>4
  <2>2. UNCHANGED ledger
    BY <1>6 DEF BeginBalances, BeginInfo, BeginFields, NetworkFails, Answer,
                Begin, Reads
  <2>. QED BY <2>1, <2>2, OtherStep
<1>7. CASE Interfere
  <2>1. LedgerKeyed' /\ (Rollback \/ Touched \subseteq Touched')
    BY <1>7, WriteStep DEF Interfere, Inv
  <2>2. query' = query /\ (rolled' <=> rolled \/ Rollback)
    BY <1>7 DEF Interfere
  <2>. QED BY <2>1, <2>2 DEF Inv, CoinsAccounted, LocalIds
<1>8. CASE UNCHANGED vars
  BY <1>8 DEF vars, ledger, Inv, LedgerKeyed, CoinsAccounted, LocalIds, Touched
<1>. QED BY <1>1, <1>2, <1>3, <1>4, <1>5, <1>6, <1>7, <1>8 DEF Next, Done

\* The invariant holds of every behaviour.
LEMMA SpecInv == Spec => []Inv
BY InitInv, NextInv, PTL DEF Spec

\* Whatever is committed, and however often, between the reads of a balance
\* query, no coin is counted both from the overlay and from the network.
THEOREM CoinsCountedOnce == Spec => []NoCoinCountedTwice
<1>1. Inv => NoCoinCountedTwice
  BY DEF Inv, CoinsAccounted, NoCoinCountedTwice
<1>. QED BY <1>1, SpecInv, PTL

\* The objects of an account that has nothing on mainnet are those the overlay
\* has of it.
THEOREM AccountsAreListed == Spec => []ForkAccountsAreListed
<1>1. LedgerKeyed => ForkAccountsAreListed
  <2>. SUFFICES ASSUME LedgerKeyed, NEW owner \in Owner, Live[owner] = {}
                PROVE  list_owned_objects(state, owner)
                          = {id \in ObjectID : OwnedBy(state, id, owner)}
    BY DEF ForkAccountsAreListed
  <2>1. \A id \in ObjectID : OwnedBy(state, id, owner) <=>
           state.objects[id] # None /\ state.objects[id].data.owner = owner
    <3>. SUFFICES ASSUME NEW id \in ObjectID
                  PROVE  OwnedBy(state, id, owner) <=>
                            /\ state.objects[id] # None
                            /\ state.objects[id].data.owner = owner
      OBVIOUS
    <3>1. ~OwnedBy(Default, id, owner)
      BY DEF Live
    <3>2. Default.objects[id] = None /\ Default.tombstones = {}
      BY DEF Default
    <3>3. Current(Default, id) = Mainnet[id][AtFork]
      BY <3>2, CurrentIs
    <3>. QED BY <3>1, <3>3, CurrentIs DEF OwnedBy, Exists
  <2>2. list_owned_objects(state, owner) =
           {id \in ObjectID : state.objects[id] # None
                              /\ state.objects[id].data.owner = owner}
    BY DEF LedgerKeyed, KeyedById, list_owned_objects, overlay_objects_of, overlay_objects
  <2>. QED BY <2>1, <2>2
<1>2. Inv => LedgerKeyed
  BY DEF Inv
<1>. QED BY <1>1, <1>2, SpecInv, PTL

-----------------------------------------------------------------------------
(* ListDynamicFields.  While nobody writes, what the query found in the     *)
(* overlay is what the overlay has of the parent, each field under its id.  *)

FieldPcs == {"network_fields", "answered"}

\* Only ListDynamicFields reads fields.
OwnSteps == query.kind = "fields" => query.pc \in FieldPcs

AskingNetwork ==
    query.pc = "network_fields" /\ ~changed =>
        /\ query.owner \in Owner /\ query.limit \in Nat
        /\ query.local = overlay_objects_of(state, query.owner)
        /\ Cardinality(query.local) < query.limit

\* A page of fields: those found in the overlay and those the network listed.
FieldsRight(s, owner, limit, ids, network) ==
    LET fields == {id \in ObjectID : OwnedBy(s, id, owner)}
        entries == Cardinality(ids) + Cardinality(network)
    IN  /\ fields \subseteq ids \cup network \/ entries = limit
        /\ entries =< limit
        /\ (ids \cup network) \ fields \subseteq overlay_touched_ids(s)
        /\ ids \cap network \subseteq ObjectFields

PageRight ==
    Answered("fields") /\ ~changed =>
        FieldsRight(state, query.owner, query.limit, LocalIds, query.network)

FieldsInv == OwnSteps /\ AskingNetwork /\ PageRight

\* The smaller of two numbers.
LEMMA MinOfTwo ==
    ASSUME NEW a \in Nat, NEW b \in Nat
    PROVE  Min({a, b}) = IF a =< b THEN a ELSE b
BY DEF Min

\* The larger of two numbers.
LEMMA MaxOfTwo ==
    ASSUME NEW a \in Nat, NEW b \in Nat
    PROVE  Max({a, b}) = IF a >= b THEN a ELSE b
BY DEF Max

\* The page's limit is a natural.
LEMMA ClampedTyped ==
    ASSUME NEW l \in Limits
    PROVE  Clamped(l) \in Nat
<1>1. l \in Nat /\ MAX_LIMIT \in Nat
  BY LimitsAssumption
<1>2. Max({l, 1}) \in Nat
  BY <1>1, MaxOfTwo
<1>. QED BY <1>1, <1>2, MinOfTwo DEF Clamped

\* Objects of the overlay are as many as their ids.
LEMMA AsManyIds ==
    ASSUME KeyedById(state), NEW S \in SUBSET overlay_objects(state)
    PROVE  /\ IsFiniteSet(S) /\ Cardinality(S) \in Nat
           /\ Cardinality({o.id : o \in S}) = Cardinality(S)
<1>. DEFINE T == {o.id : o \in S}
            f == [o \in S |-> o.id]
<1>1. \A o \in S : o.id \in ObjectID /\ o = state.objects[o.id]
  BY DEF overlay_objects, KeyedById
<1>2. T \in SUBSET ObjectID
  BY <1>1
<1>3. f \in Bijection(S, T)
  BY <1>1 DEF Bijection, Injection, Surjection, IsInjective
<1>4. IsFiniteSet(T)
  BY <1>2, IdsAssumption, FS_Subset
<1>. HIDE DEF T, f
<1>5. f \in Injection(S, T) /\ f \in Surjection(S, T)
  BY <1>3 DEF Bijection
<1>6. IsFiniteSet(S) /\ Cardinality(S) = Cardinality(T)
  BY <1>4, <1>5, FS_Injection
<1>7. Cardinality(S) \in Nat
  BY <1>6, FS_CardinalityType
<1>. QED BY <1>6, <1>7 DEF T

\* A step of another query, or one that ends the query.
LEMMA OtherQuery ==
    ASSUME query'.kind # "fields", query'.pc # "network_fields"
    PROVE  FieldsInv'
BY DEF FieldsInv, OwnSteps, AskingNetwork, PageRight, Answered

\* What the overlay has of a parent is the parent's; what mainnet lists of it
\* and the fork did not touch is, too.
LEMMA OwnedByParent ==
    ASSUME KeyedById(state), NEW owner \in Owner, NEW id \in ObjectID
    PROVE  /\ OwnedBy(state, id, owner) =>
                 id \in {o.id : o \in overlay_objects_of(state, owner)} \cup Live[owner]
           /\ id \in {o.id : o \in overlay_objects_of(state, owner)} =>
                 OwnedBy(state, id, owner)
           /\ id \in Live[owner] =>
                 OwnedBy(state, id, owner) \/ id \in overlay_touched_ids(state)
<1>. DEFINE ids == {o.id : o \in overlay_objects_of(state, owner)}
<1>1. id \in ids <=>
         state.objects[id] # None /\ state.objects[id].data.owner = owner
  BY DEF overlay_objects_of, overlay_objects, KeyedById
<1>2. id \in Live[owner] <=> Mainnet[id][AtFork] # None
                             /\ Mainnet[id][AtFork].data.owner = owner
  <2>1. Default.objects[id] = None /\ id \notin Default.tombstones
    BY DEF Default
  <2>. QED BY <2>1, CurrentIs DEF Live, OwnedBy, Exists
<1>3. OwnedBy(state, id, owner) <=>
         \/ state.objects[id] # None /\ state.objects[id].data.owner = owner
         \/ /\ state.objects[id] = None /\ id \notin state.tombstones
            /\ Mainnet[id][AtFork] # None /\ Mainnet[id][AtFork].data.owner = owner
  BY CurrentIs DEF OwnedBy, Exists
<1>4. id \in overlay_touched_ids(state) <=>
         state.objects[id] # None \/ id \in state.tombstones
  BY DEF overlay_touched_ids
<1>. HIDE DEF ids
<1>5. /\ OwnedBy(state, id, owner) => id \in ids \cup Live[owner]
      /\ id \in ids => OwnedBy(state, id, owner)
      /\ id \in Live[owner] =>
            OwnedBy(state, id, owner) \/ id \in overlay_touched_ids(state)
  BY <1>1, <1>2, <1>3, <1>4
<1>. QED BY <1>5 DEF ids

\* The start of ListDynamicFields establishes what is to hold of its answer.
LEMMA BeginFieldsStep ==
    ASSUME Inv, BeginFields
    PROVE  FieldsInv'
<1>. DEFINE Fields(owner) == overlay_objects_of(state, owner)
<1>1. PICK owner \in Owner, limit \in {Clamped(l) : l \in Limits} :
         \E page \in IF Cardinality(Fields(owner)) >= limit
                     THEN kSubset(limit, Fields(owner)) ELSE {Fields(owner)} :
            query' = [IdleQuery EXCEPT
              !.pc = IF Cardinality(Fields(owner)) >= limit
                     THEN "answered" ELSE "network_fields",
              !.kind = "fields", !.owner = owner, !.limit = limit, !.local = page]
  BY DEF BeginFields
<1>. DEFINE fields == Fields(owner)
            full == Cardinality(fields) >= limit
            pc == IF full THEN "answered" ELSE "network_fields"
<1>2. PICK page \in IF full THEN kSubset(limit, fields) ELSE {fields} :
         query' = [IdleQuery EXCEPT !.pc = pc,
              !.kind = "fields", !.owner = owner, !.limit = limit, !.local = page]
  BY <1>1
<1>3. limit \in Nat
  BY ClampedTyped
<1>. HIDE DEF pc
<1>4. /\ query'.pc = pc /\ query'.kind = "fields" /\ query'.owner = owner
      /\ query'.limit = limit /\ query'.local = page /\ query'.network = {}
  BY <1>2 DEF IdleQuery
<1>5. state' = state /\ KeyedById(state)
  BY DEF BeginFields, Begin, ledger, Inv, LedgerKeyed
<1>6. fields \subseteq overlay_objects(state) /\ page \in SUBSET fields
  BY <1>2 DEF kSubset, overlay_objects_of
<1>. HIDE DEF fields
<1>7. OwnSteps'
  BY <1>4 DEF OwnSteps, FieldPcs, pc
<1>8. AskingNetwork'
  <2>. SUFFICES ASSUME ~full
                PROVE  page = fields /\ Cardinality(page) < limit
    BY <1>3, <1>4, <1>5 DEF AskingNetwork, pc, fields
  <2>1. page = fields
    BY <1>2
  <2>2. Cardinality(fields) \in Nat
    BY <1>5, <1>6, AsManyIds
  <2>. QED BY <1>3, <2>1, <2>2
<1>9. PageRight'
  <2>. DEFINE ids == {o.id : o \in page}
  <2>0. LocalIds' = ids
    BY <1>4 DEF LocalIds
  <2>. SUFFICES ASSUME full
                PROVE  FieldsRight(state, owner, limit, ids, {})
    BY <1>4, <1>5, <2>0 DEF PageRight, Answered, pc
  <2>1. Cardinality(page) = limit
    BY <1>2 DEF kSubset
  <2>2. Cardinality(ids) = Cardinality(page)
    BY <1>5, <1>6, AsManyIds
  <2>3. Cardinality({}) = 0
    BY FS_EmptySet
  <2>4. \A id \in ids : id \in ObjectID /\ id \in {o.id : o \in fields}
    BY <1>5, <1>6 DEF overlay_objects, KeyedById
  <2>5. ASSUME NEW id \in ids PROVE OwnedBy(state, id, owner)
    <3>1. id \in ObjectID /\ id \in {o.id : o \in overlay_objects_of(state, owner)}
      BY <2>4 DEF fields
    <3>. QED BY <1>5, <3>1, OwnedByParent
  <2>6. Cardinality(ids) + Cardinality({}) = limit
    BY <1>3, <2>1, <2>2, <2>3
  <2>7. ids \subseteq {id \in ObjectID : OwnedBy(state, id, owner)}
    BY <2>4, <2>5
  <2>. HIDE DEF ids
  <2>. QED BY <1>3, <2>6, <2>7 DEF FieldsRight
<1>. QED BY <1>7, <1>8, <1>9 DEF FieldsInv

\* The network lists fields of the parent as of the fork point, up to the
\* limit; those the overlay has are left out and the page is filled.
LEMMA ReadFieldsStep ==
    ASSUME Inv, FieldsInv, ReadNetworkFields
    PROVE  FieldsInv'
<1>. DEFINE owner == query.owner
            limit == query.limit
            local == query.local
            kept == LocalIds \ ObjectFields
            room == limit - Cardinality(local)
<1>1. PICK listed \in network_fields(owner, limit) :
         \E page \in kSubset(Min({room, Cardinality(listed \ kept)}), listed \ kept) :
            query' = [query EXCEPT !.network = page, !.pc = "answered"]
  BY DEF ReadNetworkFields
<1>. DEFINE others == listed \ kept
<1>2. PICK page \in kSubset(Min({room, Cardinality(others)}), others) :
         query' = [query EXCEPT !.network = page, !.pc = "answered"]
  BY <1>1
<1>3. /\ query.pc = "network_fields" /\ state' = state /\ changed' = changed
      /\ KeyedById(state)
  BY DEF ReadNetworkFields, Reads, ledger, Inv, LedgerKeyed
<1>4. /\ query'.pc = "answered" /\ query'.kind = query.kind /\ query'.owner = owner
      /\ query'.limit = limit /\ query'.local = local /\ query'.network = page
  <2>. HIDE DEF owner, limit, local
  <2>. QED BY <1>2 DEF Inv, QueryShape, IdleQuery, owner, limit, local
<1>5. OwnSteps' /\ AskingNetwork'
  BY <1>4 DEF OwnSteps, FieldPcs, AskingNetwork
<1>6. ASSUME ~changed
      PROVE  /\ \/ {id \in ObjectID : OwnedBy(state, id, owner)} \subseteq LocalIds \cup page
                \/ Cardinality(LocalIds) + Cardinality(page) = limit
             /\ Cardinality(LocalIds) + Cardinality(page) =< limit
             /\ \A id \in LocalIds \cup page : id \in ObjectID
                   /\ (OwnedBy(state, id, owner) \/ id \in overlay_touched_ids(state))
             /\ LocalIds \cap page \subseteq ObjectFields
  <2>1. /\ owner \in Owner /\ limit \in Nat
        /\ local = overlay_objects_of(state, owner)
        /\ Cardinality(local) < limit
    BY <1>3, <1>6 DEF FieldsInv, AskingNetwork
  <2>2. Live[owner] \in SUBSET ObjectID
    BY <2>1 DEF Live
  <2>. HIDE DEF owner, limit
  <2>3. local \in SUBSET overlay_objects(state)
    BY <2>1 DEF overlay_objects_of
  <2>. HIDE DEF local
  <2>4. IsFiniteSet(local) /\ Cardinality(local) \in Nat
        /\ Cardinality(LocalIds) = Cardinality(local)
    BY <1>3, <2>3, AsManyIds DEF LocalIds, local
  <2>5. LocalIds \in SUBSET ObjectID
    BY <1>3, <2>3 DEF LocalIds, local, overlay_objects, KeyedById
  <2>6. /\ IsFiniteSet(Live[owner]) /\ Cardinality(Live[owner]) \in Nat
        /\ IsFiniteSet(LocalIds) /\ IsFiniteSet(kept)
    <3>1. IsFiniteSet(Live[owner]) /\ IsFiniteSet(LocalIds)
      BY <2>2, <2>5, IdsAssumption, FS_Subset
    <3>2. kept \in SUBSET LocalIds
      OBVIOUS
    <3>. QED BY <3>1, <3>2, FS_Subset, FS_CardinalityType
  <2>7. /\ listed \in SUBSET Live[owner]
        /\ Cardinality(listed) = Min({limit, Cardinality(Live[owner])})
    BY <1>1 DEF network_fields, kSubset
  <2>8. IsFiniteSet(listed) /\ IsFiniteSet(others) /\ Cardinality(others) \in Nat
        /\ Cardinality(listed) \in Nat
    <3>1. IsFiniteSet(listed)
      BY <2>6, <2>7, FS_Subset
    <3>2. others \in SUBSET listed
      OBVIOUS
    <3>. QED BY <3>1, <3>2, FS_Subset, FS_CardinalityType
  <2>9. room \in Nat
    BY <2>1, <2>4
  <2>10. page \in SUBSET others
         /\ Cardinality(page) = Min({room, Cardinality(others)})
    BY <1>2 DEF kSubset
  <2>. HIDE DEF room, others
  <2>11. Cardinality(page) = IF room =< Cardinality(others) THEN room
                             ELSE Cardinality(others)
    BY <2>8, <2>9, <2>10, MinOfTwo
  <2>12. Cardinality(LocalIds) + Cardinality(page) =< limit
         /\ (Cardinality(page) = room => Cardinality(LocalIds) + Cardinality(page) = limit)
    BY <2>1, <2>4, <2>8, <2>9, <2>11 DEF room
  <2>13. ASSUME Cardinality(page) # room
         PROVE  {id \in ObjectID : OwnedBy(state, id, owner)} \subseteq LocalIds \cup page
    <3>1. page = others /\ Cardinality(others) < room
      <4>1. Cardinality(others) < room /\ Cardinality(page) = Cardinality(others)
        BY <2>8, <2>9, <2>11, <2>13
      <4>. QED BY <2>8, <2>10, <4>1, FS_Subset
    <3>2. Cardinality(listed) =< Cardinality(others) + Cardinality(LocalIds)
      <4>1. listed \in SUBSET (others \cup LocalIds)
        BY DEF others
      <4>2. /\ IsFiniteSet(others \cup LocalIds)
            /\ Cardinality(others \cup LocalIds)
                  = Cardinality(others) + Cardinality(LocalIds)
                    - Cardinality(others \cap LocalIds)
        BY <2>6, <2>8, FS_Union
      <4>3. others \cap LocalIds \in SUBSET LocalIds
        OBVIOUS
      <4>4. Cardinality(others \cap LocalIds) \in Nat
        BY <2>6, <4>3, FS_Subset, FS_CardinalityType
      <4>5. Cardinality(listed) =< Cardinality(others \cup LocalIds)
        BY <4>1, <4>2, FS_Subset
      <4>6. Cardinality(LocalIds) \in Nat
        BY <2>4
      <4>. QED BY <2>8, <4>2, <4>4, <4>5, <4>6
    <3>3. Cardinality(listed) < limit
      BY <2>1, <2>4, <2>8, <3>1, <3>2 DEF room
    <3>4. listed = Live[owner]
      <4>1. Cardinality(listed) = Cardinality(Live[owner])
        BY <2>1, <2>6, <2>7, <3>3, MinOfTwo
      <4>. QED BY <2>6, <2>7, <4>1, FS_Subset
    <3>5. ASSUME NEW id \in ObjectID, OwnedBy(state, id, owner)
          PROVE  id \in LocalIds \cup page
      <4>1. id \in LocalIds \cup Live[owner]
        BY <1>3, <2>1, <3>5, OwnedByParent DEF LocalIds, local
      <4>. QED BY <3>1, <3>4, <4>1 DEF others
    <3>. QED BY <3>5
  <2>14. ASSUME NEW id \in LocalIds \cup page
         PROVE  id \in ObjectID
                /\ (OwnedBy(state, id, owner) \/ id \in overlay_touched_ids(state))
    <3>1. id \in LocalIds \cup Live[owner] /\ id \in ObjectID
      BY <2>2, <2>5, <2>7, <2>10 DEF others
    <3>. QED BY <1>3, <2>1, <3>1, OwnedByParent DEF LocalIds, local
  <2>15. LocalIds \cap page \subseteq ObjectFields
    BY <2>10 DEF others
  <2>. QED BY <2>12, <2>13, <2>14, <2>15
<1>7. LocalIds' = LocalIds
  BY <1>4 DEF LocalIds
<1>8. PageRight'
  <2>. HIDE DEF owner, limit
  <2>1. ~changed => FieldsRight(state, owner, limit, LocalIds, page)
    BY <1>6 DEF FieldsRight
  <2>. QED BY <1>3, <1>4, <1>7, <2>1 DEF PageRight
<1>. QED BY <1>5, <1>8 DEF FieldsInv

\* Every step preserves the invariant of ListDynamicFields.
LEMMA NextFields == Inv /\ FieldsInv /\ [Next]_vars => FieldsInv'
<1>. SUFFICES ASSUME Inv, FieldsInv, [Next]_vars PROVE FieldsInv'
  OBVIOUS
<1>0. DOMAIN query = {"pc", "kind", "owner", "type", "limit", "local", "touched",
                      "network", "types", "cut", "out"}
  BY DEF Inv, QueryShape, IdleQuery
<1>1. CASE BeginBalance \/ BeginBalances \/ BeginInfo \/ NetworkFails \/ Answer
  <2>1. query'.kind # "fields" /\ query'.pc # "network_fields"
    <3>1. CASE BeginBalance
      BY <3>1 DEF BeginBalance, IdleQuery
    <3>2. CASE BeginBalances
      BY <3>2 DEF BeginBalances, IdleQuery
    <3>3. CASE BeginInfo
      BY <3>3 DEF BeginInfo, IdleQuery
    <3>4. CASE NetworkFails \/ Answer
      BY <3>4 DEF NetworkFails, Answer, IdleQuery
    <3>. QED BY <1>1, <3>1, <3>2, <3>3, <3>4
  <2>. QED BY <2>1, OtherQuery
<1>2. CASE \/ ReadTouched \/ ReadNetworkCoins \/ ReadAddressBalance
           \/ ReadAddressTypes \/ ReadNetworkTypes \/ NextType \/ ReadNetworkInfo
  <2>1. query.pc \notin FieldPcs
    BY <1>2 DEF ReadTouched, ReadNetworkCoins, ReadAddressBalance, ReadAddressTypes,
                ReadNetworkTypes, NextType, ReadNetworkInfo, Reads, FieldPcs
  <2>2. query'.kind = query.kind /\ query'.pc # "network_fields"
    BY <1>0, <1>2 DEF ReadTouched, ReadNetworkCoins, ReadAddressBalance,
                      ReadAddressTypes, ReadNetworkTypes, NextType, ReadNetworkInfo
  <2>. QED BY <2>1, <2>2, OtherQuery DEF FieldsInv, OwnSteps
<1>3. CASE BeginFields
  BY <1>3, BeginFieldsStep
<1>4. CASE ReadNetworkFields
  BY <1>4, ReadFieldsStep
<1>5. CASE Interfere
  <2>1. query' = query /\ (changed' <=> changed \/ state' # state)
    BY <1>5 DEF Interfere
  <2>2. LocalIds' = LocalIds
    BY <2>1 DEF LocalIds
  <2>. QED BY <2>1, <2>2
       DEF FieldsInv, OwnSteps, AskingNetwork, PageRight, Answered
<1>6. CASE UNCHANGED vars
  BY <1>6 DEF vars, ledger, FieldsInv, OwnSteps, AskingNetwork, PageRight, Answered,
              LocalIds
<1>. QED BY <1>1, <1>2, <1>3, <1>4, <1>5, <1>6 DEF Next, Done

\* The answer to ListDynamicFields, when nothing was written while it was put
\* together, has every field or a full page, never more than a page, one the
\* parent does not have only where the fork touched it, and none twice but
\* dynamic object fields.
THEOREM FieldsAreRight == Spec => []FieldsWrongOnlyWhereTouched
<1>1. Init => FieldsInv
  BY DEF Init, IdleQuery, FieldsInv, OwnSteps, AskingNetwork, PageRight, Answered
<1>2. FieldsInv => FieldsWrongOnlyWhereTouched
  BY DEF FieldsInv, PageRight, FieldsRight, FieldsWrongOnlyWhereTouched
<1>. QED BY <1>1, <1>2, SpecInv, NextFields, PTL DEF Spec

-----------------------------------------------------------------------------
(* What a ledger's overlay holds, whatever was committed. *)

GoodData(data) ==
    /\ data \in [kind : {"coin", "cap"}, type : Type, owner : Owner, value : Int]
    /\ data.kind = "coin" => data.value \in Nat

\* Every object of the fork is an asset, no coin is worth less than nothing and
\* no account is overdrawn.
Sound(s) ==
    /\ KeyedById(s)
    /\ \A id \in ObjectID : Exists(s, id) =>
          Current(s, id) \in Asset /\ GoodData(Current(s, id).data)
    /\ \A a \in Account : s.address_balances[a] \in Nat

LedgerSound == Sound(state) /\ (saved # None => Sound(saved))

\* The fork point, as mainnet has it.
LEMMA ForkPoint ==
    /\ \A id \in ObjectID : Current(Default, id) = Mainnet[id][AtFork]
    /\ Sound(Default)
<1>1. ASSUME NEW id \in ObjectID
      PROVE  Current(Default, id) = Mainnet[id][AtFork]
  <2>1. Default.objects[id] = None /\ id \notin Default.tombstones
    BY DEF Default
  <2>. QED BY <2>1, CurrentIs
<1>2. ASSUME NEW id \in ObjectID, Exists(Default, id)
      PROVE  Current(Default, id) \in Asset /\ GoodData(Current(Default, id).data)
  <2>1. Default \in OverlayState
    BY DefaultLemma
  <2>2. Current(Default, id) \in Object
    BY <1>2, <2>1, CurrentTyped DEF Exists, Maybe
  <2>3. PICK o \in Object : Current(Default, id) = o
    BY <2>2
  <2>4. o.data \in [kind : {"coin", "cap"}, type : Type, owner : Owner, value : Nat]
        /\ o.id \in ObjectID /\ o.version \in Nat
        /\ o = [id |-> o.id, version |-> o.version, data |-> o.data]
    BY DataAssumption, VersionAssumption DEF Object
  <2>5. GoodData(o.data)
    BY <2>4 DEF GoodData
  <2>6. o \in Asset
    BY <2>4, <2>5 DEF Asset, GoodData
  <2>. QED BY <2>3, <2>5, <2>6
<1>3. \A a \in Account : Default.address_balances[a] \in Nat
  BY DEF Default
<1>4. KeyedById(Default)
  BY DefaultLemma DEF Coherent
<1>. QED BY <1>1, <1>2, <1>3, <1>4 DEF Sound

GoodEffects(objects, deleted, events) ==
    /\ \A id \in DOMAIN objects : id \in ObjectID /\ GoodData(objects[id])
    /\ \A a \in DOMAIN events : events[a].amount \in Nat

\* The object a transaction leaves at an id.
Left(id, data) ==
    [id |-> id, data |-> data,
     version |-> IF Exists(state, id) THEN Current(state, id).version + 1 ELSE 1]

\* The accumulator write an account is given.
EventOf(events, a) == IF a \in DOMAIN events THEN events[a] ELSE Quiet

\* The overlay after a commit, in the terms of the effects.
LEMMA CommitReads ==
    ASSUME Sound(state), NEW objects, NEW deleted, NEW events,
           GoodEffects(objects, deleted, events),
           CommitEffects(objects, deleted, events)
    PROVE  /\ \A id \in ObjectID : Current(state', id) =
                 IF id \in deleted THEN None
                 ELSE IF id \in DOMAIN objects THEN Left(id, objects[id])
                 ELSE Current(state, id)
           /\ \A id \in DOMAIN objects : Left(id, objects[id]) \in Asset
           /\ \A a \in Account : state'.address_balances[a] =
                 apply_accumulator_event(state.address_balances[a], EventOf(events, a))
           /\ state'.tombstones = (state.tombstones \ DOMAIN objects) \cup deleted
<1>. DEFINE e == TransactionEffects(objects, deleted, events)
<1>1. PICK info \in Info : state' = commit(state, e, writes + 1, info)
  BY DEF CommitEffects
<1>2. ASSUME NEW id \in DOMAIN objects
      PROVE  Left(id, objects[id]) \in Asset
  <2>1. (IF Exists(state, id) THEN Current(state, id).version + 1 ELSE 1) \in Nat
    <3>1. Exists(state, id) => Current(state, id) \in Asset
      BY DEF Sound, GoodEffects
    <3>2. Exists(state, id) => Current(state, id).version \in Nat
      BY <3>1 DEF Asset
    <3>. QED BY <3>2
  <2>. QED BY <2>1 DEF Left, Asset, GoodEffects, GoodData
<1>3. /\ \A id \in ObjectID : e.written[id] =
            IF id \in DOMAIN objects THEN Left(id, objects[id]) ELSE None
      /\ e.deleted = deleted
      /\ \A a \in Account : e.events[a] = EventOf(events, a)
  BY DEF TransactionEffects, Left, EventOf
<1>. HIDE DEF e
<1>4. ASSUME NEW id \in ObjectID
      PROVE  Current(state', id) =
                 IF id \in deleted THEN None
                 ELSE IF id \in DOMAIN objects THEN Left(id, objects[id])
                 ELSE Current(state, id)
  <2>1. Current(state', id) = IF id \in e.deleted THEN None
                              ELSE IF e.written[id] # None THEN e.written[id]
                              ELSE Current(state, id)
    BY <1>1, CommitCurrent
  <2>2. e.written[id] # None <=> id \in DOMAIN objects
    BY <1>2, <1>3, NoAssetAssumption
  <2>. QED BY <1>3, <2>1, <2>2
<1>5. ASSUME NEW a \in Account
      PROVE  state'.address_balances[a] =
                apply_accumulator_event(state.address_balances[a], EventOf(events, a))
  BY <1>1, <1>3 DEF commit
<1>6. state'.tombstones = (state.tombstones \ DOMAIN objects) \cup deleted
  <2>1. state'.tombstones = (state.tombstones \ WrittenIds(e)) \cup deleted
    BY <1>1, <1>3 DEF commit
  <2>2. WrittenIds(e) = DOMAIN objects
    BY <1>2, <1>3, NoAssetAssumption DEF WrittenIds, GoodEffects
  <2>. QED BY <2>1, <2>2
<1>. QED BY <1>2, <1>4, <1>5, <1>6

\* A commit of sound effects leaves the ledger sound.
LEMMA CommitSound ==
    ASSUME Sound(state), NEW objects, NEW deleted, NEW events,
           GoodEffects(objects, deleted, events),
           CommitEffects(objects, deleted, events)
    PROVE  Sound(state')
<1>1. KeyedById(state')
  BY CommitStep DEF Sound
<1>2. ASSUME NEW id \in ObjectID, Exists(state', id)
      PROVE  Current(state', id) \in Asset /\ GoodData(Current(state', id).data)
  <2>1. CASE id \in DOMAIN objects /\ id \notin deleted
    <3>1. Current(state', id) = Left(id, objects[id]) /\ Left(id, objects[id]) \in Asset
      BY <2>1, CommitReads
    <3>2. Left(id, objects[id]).data = objects[id]
      BY DEF Left
    <3>. QED BY <2>1, <3>1, <3>2 DEF GoodEffects
  <2>2. CASE ~(id \in DOMAIN objects /\ id \notin deleted)
    <3>1. Current(state', id) \in {None, Current(state, id)}
      BY <2>2, CommitReads
    <3>2. Current(state', id) = Current(state, id) /\ Exists(state, id)
      BY <1>2, <3>1 DEF Exists
    <3>. QED BY <3>2 DEF Sound
  <2>. QED BY <2>1, <2>2
<1>3. ASSUME NEW a \in Account
      PROVE  state'.address_balances[a] \in Nat
  <2>1. state'.address_balances[a] =
           apply_accumulator_event(state.address_balances[a], EventOf(events, a))
    BY CommitReads
  <2>2. state.address_balances[a] \in Nat /\ EventOf(events, a).amount \in Nat
    BY DEF Sound, EventOf, Quiet, GoodEffects
  <2>. QED BY <2>1, <2>2, MaxBalanceAssumption DEF apply_accumulator_event
<1>. QED BY <1>1, <1>2, <1>3 DEF Sound

\* The objects a transaction touches exist and hold assets.
LEMMA AssetAt ==
    ASSUME Sound(state), NEW id \in Coins(state) \cup Caps(state)
    PROVE  id \in ObjectID /\ Exists(state, id) /\ GoodData(Current(state, id).data)
BY DEF Coins, Caps, IsKind, Sound

\* Effects that write one sound object are sound.
LEMMA OneGood ==
    ASSUME NEW id \in ObjectID, NEW data, GoodData(data), NEW deleted, NEW events,
           \A a \in DOMAIN events : events[a].amount \in Nat
    PROVE  GoodEffects(One(id, data), deleted, events)
BY DEF GoodEffects, One

\* Effects that write nothing are sound.
LEMMA NothingGood ==
    ASSUME NEW deleted, NEW events,
           \A a \in DOMAIN events : events[a].amount \in Nat
    PROVE  GoodEffects(Nothing, deleted, events)
BY DEF GoodEffects, Nothing

\* Effects without balance events have none that is negative.
LEMMA NoEvents == \A a \in DOMAIN Nothing : Nothing[a].amount \in Nat
BY DEF Nothing

\* A coin or a cap of another value or owner.
LEMMA OtherOwner ==
    ASSUME NEW data, GoodData(data), NEW to \in Owner
    PROVE  GoodData([data EXCEPT !.owner = to])
BY DEF GoodData

\* A cap is sound whatever supply it records.
LEMMA OtherSupply ==
    ASSUME NEW data, GoodData(data), data.kind = "cap", NEW value \in Int
    PROVE  GoodData([data EXCEPT !.value = value])
BY DEF GoodData

\* A coin worth a natural is sound.
LEMMA CoinGood ==
    ASSUME NEW type \in Type, NEW owner \in Owner, NEW value \in Nat
    PROVE  GoodData(Coin(type, owner, value))
BY DEF GoodData, Coin

\* Every transaction of the ledger leaves it sound.
LEMMA TransactSound ==
    ASSUME Sound(state), Transact
    PROVE  Sound(state')
<1>1. CASE Transfer
  <2>1. PICK id \in Coins(state) \cup Caps(state), to \in Owner :
           CommitEffects(One(id, [Current(state, id).data EXCEPT !.owner = to]),
                         {}, Nothing)
    BY <1>1 DEF Transfer
  <2>2. GoodEffects(One(id, [Current(state, id).data EXCEPT !.owner = to]), {}, Nothing)
    BY AssetAt, OtherOwner, OneGood, NoEvents
  <2>. QED BY <2>1, <2>2, CommitSound
<1>2. CASE Deposit
  <2>1. PICK id \in Coins(state), to \in Owner :
           CommitEffects(Nothing, {id},
              One(<<to, Current(state, id).data.type>>,
                  [operation |-> "Merge", amount |-> Current(state, id).data.value]))
    BY <1>2 DEF Deposit
  <2>. DEFINE events == One(<<to, Current(state, id).data.type>>,
                  [operation |-> "Merge", amount |-> Current(state, id).data.value])
  <2>2. Current(state, id).data.value \in Nat
    BY AssetAt DEF GoodData, Coins, IsKind
  <2>3. \A a \in DOMAIN events : events[a].amount \in Nat
    BY <2>2 DEF One
  <2>. HIDE DEF events
  <2>4. GoodEffects(Nothing, {id}, events)
    BY <2>3, NothingGood
  <2>. QED BY <2>1, <2>4, CommitSound DEF events
<1>3. CASE Withdraw
  <2>0. PICK id \in Fresh(state), a \in Account :
           \E amount \in 1 .. state.address_balances[a] :
              CommitEffects(One(id, Coin(a[2], a[1], amount)), {},
                 One(a, [operation |-> "Split", amount |-> amount]))
    BY <1>3 DEF Withdraw
  <2>1. PICK amount \in 1 .. state.address_balances[a] :
           CommitEffects(One(id, Coin(a[2], a[1], amount)), {},
              One(a, [operation |-> "Split", amount |-> amount]))
    BY <2>0
  <2>. DEFINE events == One(a, [operation |-> "Split", amount |-> amount])
  <2>2. amount \in Nat /\ id \in ObjectID /\ a[1] \in Owner /\ a[2] \in Type
    BY AccountAssumption DEF Sound, Fresh
  <2>3. \A x \in DOMAIN events : events[x].amount \in Nat
    BY <2>2 DEF One
  <2>. HIDE DEF events
  <2>4. GoodEffects(One(id, Coin(a[2], a[1], amount)), {}, events)
    BY <2>2, <2>3, CoinGood, OneGood
  <2>. QED BY <2>1, <2>4, CommitSound DEF events
<1>4. CASE Mint
  <2>1. PICK cap \in Caps(state), id \in Fresh(state), to \in Owner :
           CommitEffects([x \in {cap, id} |->
              IF x = id THEN Coin(Current(state, cap).data.type, to, 1)
              ELSE [Current(state, cap).data EXCEPT !.value = @ + 1]], {}, Nothing)
    BY <1>4 DEF Mint
  <2>. DEFINE objects == [x \in {cap, id} |->
              IF x = id THEN Coin(Current(state, cap).data.type, to, 1)
              ELSE [Current(state, cap).data EXCEPT !.value = @ + 1]]
  <2>2. /\ GoodData(Current(state, cap).data) /\ Current(state, cap).data.kind = "cap"
        /\ cap \in ObjectID /\ id \in ObjectID
    BY AssetAt DEF Caps, IsKind, Fresh
  <2>3. /\ GoodData(Coin(Current(state, cap).data.type, to, 1))
        /\ GoodData([Current(state, cap).data EXCEPT !.value = @ + 1])
    <3>1. Current(state, cap).data.type \in Type /\ Current(state, cap).data.value + 1 \in Int
      BY <2>2 DEF GoodData
    <3>. QED BY <2>2, <3>1, CoinGood, OtherSupply
  <2>4. GoodEffects(objects, {}, Nothing)
    BY <2>2, <2>3, NoEvents DEF GoodEffects
  <2>. HIDE DEF objects
  <2>. QED BY <2>1, <2>4, CommitSound DEF objects
<1>5. CASE Burn
  <2>1. PICK cap \in Caps(state), id \in Coins(state) :
           CommitEffects(One(cap, [Current(state, cap).data EXCEPT
                                      !.value = @ - Current(state, id).data.value]),
                         {id}, Nothing)
    BY <1>5 DEF Burn
  <2>2. /\ GoodData(Current(state, cap).data) /\ Current(state, cap).data.kind = "cap"
        /\ GoodData(Current(state, id).data) /\ cap \in ObjectID
    BY AssetAt DEF Caps, IsKind
  <2>3. GoodData([Current(state, cap).data EXCEPT
                     !.value = @ - Current(state, id).data.value])
    <3>1. Current(state, cap).data.value - Current(state, id).data.value \in Int
      BY <2>2 DEF GoodData
    <3>. QED BY <2>2, <3>1, OtherSupply
  <2>4. GoodEffects(One(cap, [Current(state, cap).data EXCEPT
                     !.value = @ - Current(state, id).data.value]), {id}, Nothing)
    BY <2>2, <2>3, OneGood, NoEvents
  <2>. QED BY <2>1, <2>4, CommitSound
<1>6. CASE Wrap
  <2>1. PICK cap \in Caps(state) : CommitEffects(Nothing, {cap}, Nothing)
    BY <1>6 DEF Wrap
  <2>. QED BY <2>1, NothingGood, NoEvents, CommitSound
<1>. QED BY <1>1, <1>2, <1>3, <1>4, <1>5, <1>6 DEF Transact

\* Every write leaves the ledger, and the copy saved of it, sound.
LEMMA WriteSound ==
    ASSUME LedgerSound, Write
    PROVE  LedgerSound'
<1>1. CASE Transact
  BY <1>1, TransactSound DEF Transact, LedgerSound
<1>2. CASE TakeSnapshot
  BY <1>2 DEF TakeSnapshot, LedgerSound
<1>3. CASE Rollback
  BY <1>3, ForkPoint DEF Rollback, LedgerSound
<1>. QED BY <1>1, <1>2, <1>3 DEF Write

-----------------------------------------------------------------------------
(* Balances.  What the overlay has of an owner's coins and what the network *)
(* lists of them, less what the overlay touched, are the owner's coins.     *)

\* An object the fork did not touch is as it was at the fork point.
LEMMA UntouchedIsForkPoint ==
    ASSUME NEW s, NEW id \in ObjectID, id \notin overlay_touched_ids(s)
    PROVE  Current(s, id) = Current(Default, id)
<1>1. s.objects[id] = None /\ id \notin s.tombstones
  BY DEF overlay_touched_ids
<1>. QED BY <1>1, CurrentIs, ForkPoint

\* What the network lists for an owner are the owner's objects at the fork point.
LEMMA NetworkData ==
    ASSUME NEW owner \in Owner, NEW id \in Live[owner]
    PROVE  /\ id \in ObjectID /\ Exists(Default, id)
           /\ OnNetwork[id] = Current(Default, id).data
           /\ OnNetwork[id].owner = owner
<1>1. id \in ObjectID /\ OwnedBy(Default, id, owner)
  BY DEF Live
<1>2. id \in UNION Range(Live)
  BY DEF Live, Range
<1>. QED BY <1>1, <1>2 DEF OnNetwork, OwnedBy

\* The owner's coins of a type: those of the overlay, and those of the network
\* the overlay does not touch.
LEMMA TwoParts ==
    ASSUME NEW s, KeyedById(s), NEW owner \in Owner, NEW type \in Type
    PROVE  LET L == {o.id : o \in coins_of(s, owner, type)}
               N == network_coins(owner, type) \ overlay_touched_ids(s)
           IN  /\ CoinsOwned(s, owner, type) = L \cup N
               /\ L \cap N = {}
               /\ \A o \in coins_of(s, owner, type) :
                     o.id \in ObjectID /\ Current(s, o.id) = o
               /\ \A id \in N : Current(s, id).data = OnNetwork[id]
<1>. DEFINE C == coins_of(s, owner, type)
            L == {o.id : o \in C}
            N == network_coins(owner, type) \ overlay_touched_ids(s)
            F == CoinsOwned(s, owner, type)
<1>1. ASSUME NEW o \in C
      PROVE  /\ o.id \in ObjectID /\ s.objects[o.id] = o /\ o # None
             /\ o.data.owner = owner /\ o.data.kind = "coin" /\ o.data.type = type
  BY DEF coins_of, overlay_objects_of, overlay_objects, IsCoin, KeyedById
<1>2. ASSUME NEW o \in C PROVE Current(s, o.id) = o
  BY <1>1, CurrentIs
<1>3. ASSUME NEW id \in N
      PROVE  /\ id \in ObjectID /\ Exists(Default, id)
             /\ Current(s, id) = Current(Default, id)
             /\ Current(s, id).data = OnNetwork[id]
             /\ OnNetwork[id].owner = owner /\ OnNetwork[id].kind = "coin"
             /\ OnNetwork[id].type = type
  <2>1. id \in Live[owner] /\ id \notin overlay_touched_ids(s)
        /\ OnNetwork[id].kind = "coin" /\ OnNetwork[id].type = type
    BY DEF network_coins
  <2>2. /\ id \in ObjectID /\ Exists(Default, id)
        /\ OnNetwork[id] = Current(Default, id).data /\ OnNetwork[id].owner = owner
    BY <2>1, NetworkData
  <2>. QED BY <2>1, <2>2, UntouchedIsForkPoint
<1>4. ASSUME NEW id \in L PROVE id \in F
  <2>1. PICK o \in C : id = o.id
    OBVIOUS
  <2>2. id \in ObjectID /\ Current(s, id) = o /\ o # None /\ o.data.owner = owner
        /\ o.data.kind = "coin" /\ o.data.type = type
    BY <1>1, <1>2, <2>1
  <2>. QED BY <2>2 DEF CoinsOwned, Coins, IsKind, Exists
<1>5. ASSUME NEW id \in N PROVE id \in F
  BY <1>3 DEF CoinsOwned, Coins, IsKind, Exists
<1>6. ASSUME NEW id \in F, id \notin L PROVE id \in N
  <2>1. id \in ObjectID /\ Current(s, id) # None /\ Current(s, id).data.kind = "coin"
        /\ Current(s, id).data.owner = owner /\ Current(s, id).data.type = type
    BY <1>6 DEF CoinsOwned, Coins, IsKind, Exists
  <2>2. CASE s.objects[id] # None
    <3>1. Current(s, id) = s.objects[id] /\ s.objects[id].id = id
      BY <2>1, <2>2, CurrentIs DEF KeyedById
    <3>2. s.objects[id] \in C
      BY <2>1, <2>2, <3>1 DEF coins_of, overlay_objects_of, overlay_objects, IsCoin
    <3>. QED BY <1>6, <3>1, <3>2
  <2>3. CASE s.objects[id] = None
    <3>1. id \notin overlay_touched_ids(s)
      BY <2>1, <2>3, CurrentIs DEF overlay_touched_ids
    <3>2. Current(s, id) = Current(Default, id)
      BY <2>1, <3>1, UntouchedIsForkPoint
    <3>3. id \in Live[owner]
      BY <2>1, <3>2 DEF Live, OwnedBy, Exists
    <3>4. OnNetwork[id] = Current(s, id).data
      BY <3>2, <3>3, NetworkData
    <3>. QED BY <2>1, <3>1, <3>3, <3>4 DEF network_coins
  <2>. QED BY <2>2, <2>3
<1>7. \A id \in L : id \in overlay_touched_ids(s)
  BY <1>1 DEF overlay_touched_ids
<1>8. L \cap N = {}
  BY <1>7
<1>9. \A o \in C : o.id \in ObjectID /\ Current(s, o.id) = o
  BY <1>1, <1>2
<1>10. \A id \in N : Current(s, id).data = OnNetwork[id]
  BY <1>3
<1>. HIDE DEF L, N, F
<1>11. F = L \cup N
  BY <1>4, <1>5, <1>6
<1>. QED BY <1>8, <1>9, <1>10, <1>11 DEF L, N, F, C

\* compute_balance adds up what the owner has, or less when the network does not
\* list all its coins.
LEMMA BalanceAdds ==
    ASSUME NEW s, Sound(s), NEW owner \in Owner, NEW type \in Type,
           NEW listed \in owned_coin_values(owner, type),
           NEW local, local = coins_of(s, owner, type),
           NEW network, network = listed \ overlay_touched_ids(s)
    PROVE  LET total == SumFunction([o \in local |-> o.data.value])
                        + SumFunction([id \in network |-> OnNetwork[id].value])
                        + s.address_balances[<<owner, type>>]
           IN  /\ total \in Nat /\ Owned(s, owner, type) \in Nat
               /\ total =< Owned(s, owner, type)
               /\ ~Truncated(owner, type) => total = Owned(s, owner, type)
<1>. DEFINE F == CoinsOwned(s, owner, type)
            L == {o.id : o \in local}
            N == network_coins(owner, type) \ overlay_touched_ids(s)
            v == [id \in F |-> Current(s, id).data.value]
            f == [o \in local |-> o.data.value]
            w == [id \in network |-> OnNetwork[id].value]
            h == [o \in local |-> o.id]
<1>1. /\ F = L \cup N /\ L \cap N = {}
      /\ \A o \in local : o.id \in ObjectID /\ Current(s, o.id) = o
      /\ \A id \in N : Current(s, id).data = OnNetwork[id]
  BY TwoParts DEF Sound
<1>2. /\ F \in SUBSET ObjectID /\ IsFiniteSet(F)
      /\ L \in SUBSET F /\ IsFiniteSet(L)
      /\ N \in SUBSET F /\ IsFiniteSet(N)
  <2>1. F \in SUBSET ObjectID /\ L \in SUBSET F /\ N \in SUBSET F
    BY <1>1 DEF CoinsOwned, Coins
  <2>. HIDE DEF F, L, N
  <2>. QED BY <2>1, IdsAssumption, FS_Subset
<1>3. \A id \in F : v[id] \in Nat
  BY DEF CoinsOwned, Coins, IsKind, Sound, GoodData
<1>4. network \in SUBSET N /\ (~Truncated(owner, type) => network = N)
  <2>. DEFINE K == network_coins(owner, type)
  <2>1. listed \in SUBSET K /\ Cardinality(listed) = Min({PageCap, Cardinality(K)})
    BY DEF owned_coin_values, kSubset
  <2>2. IsFiniteSet(K) /\ Cardinality(K) \in Nat
    <3>1. K \in SUBSET ObjectID
      BY DEF network_coins, Live
    <3>. HIDE DEF K
    <3>. QED BY <3>1, IdsAssumption, FS_Subset, FS_CardinalityType
  <2>3. ~Truncated(owner, type) => listed = K
    <3>. SUFFICES ASSUME Cardinality(K) =< PageCap
                  PROVE  listed = K
      BY <2>2, LimitsAssumption DEF Truncated
    <3>. HIDE DEF K
    <3>1. Cardinality(listed) = Cardinality(K)
      BY <2>1, <2>2, LimitsAssumption, MinOfTwo
    <3>. QED BY <2>1, <2>2, <3>1, FS_Subset
  <2>. QED BY <2>1, <2>3
<1>5. h \in Bijection(local, L) /\ IsFiniteSet(local)
  <2>1. h \in Bijection(local, L)
    BY <1>1 DEF Bijection, Injection, Surjection, IsInjective
  <2>. HIDE DEF h, L
  <2>. QED BY <1>2, <2>1, FS_Injection DEF Bijection
<1>6. \A o \in local : f[o] \in Nat /\ v[h[o]] = f[o]
  <2>. SUFFICES ASSUME NEW o \in local PROVE f[o] \in Nat /\ v[h[o]] = f[o]
    OBVIOUS
  <2>1. o.id \in F /\ h[o] = o.id
    BY <1>2
  <2>2. v[o.id] = o.data.value /\ f[o] = o.data.value
    BY <1>1, <2>1
  <2>. QED BY <1>3, <2>1, <2>2
<1>7. \A id \in network : w[id] = v[id]
  BY <1>1, <1>2, <1>4
<1>8. /\ SumFunction(f) = SumFunctionOnSet(f, local)
      /\ SumFunction(w) = SumFunctionOnSet(w, network)
      /\ SumFunction(v) = SumFunctionOnSet(v, F)
  BY DEF SumFunction
<1>9. Owned(s, owner, type) = SumFunction(v) + s.address_balances[<<owner, type>>]
  BY DEF Owned
<1>10. s.address_balances[<<owner, type>>] \in Nat
  BY AccountAssumption DEF Sound
<1>11. IsFiniteSet(network) /\ IsFiniteSet(N \ network)
       /\ N = network \cup (N \ network) /\ network \cap (N \ network) = {}
  <2>1. N \ network \in SUBSET N /\ N = network \cup (N \ network)
        /\ network \cap (N \ network) = {}
    BY <1>4
  <2>. HIDE DEF N
  <2>. QED BY <1>2, <1>4, <2>1, FS_Subset
<1>. HIDE DEF F, L, N, v, f, w, h
<1>12. SumFunctionOnSet(f, local) = SumFunctionOnSet(v, L)
  BY <1>5, <1>6, SumImage
<1>13. SumFunctionOnSet(w, network) = SumFunctionOnSet(v, network)
  BY <1>7, <1>11, SumSame
<1>14. SumFunctionOnSet(v, F) = SumFunctionOnSet(v, L) + SumFunctionOnSet(v, N)
  <2>1. \A id \in L \cup N : v[id] \in Nat
    BY <1>1, <1>3
  <2>. QED BY <1>1, <1>2, <2>1, SumParts
<1>15. SumFunctionOnSet(v, N)
          = SumFunctionOnSet(v, network) + SumFunctionOnSet(v, N \ network)
  <2>. DEFINE R == N \ network
  <2>1. \A id \in network \cup R : v[id] \in Nat
    BY <1>2, <1>3, <1>4
  <2>2. IsFiniteSet(R) /\ N = network \cup R /\ network \cap R = {}
    BY <1>11
  <2>. HIDE DEF R
  <2>3. SumFunctionOnSet(v, network \cup R)
           = SumFunctionOnSet(v, network) + SumFunctionOnSet(v, R)
    BY <1>11, <2>1, <2>2, SumParts
  <2>. QED BY <2>2, <2>3 DEF R
<1>16. /\ SumFunctionOnSet(v, L) \in Nat /\ SumFunctionOnSet(v, network) \in Nat
       /\ SumFunctionOnSet(v, N \ network) \in Nat
  <2>1. \A id \in L : v[id] \in Nat
    BY <1>2, <1>3
  <2>2. \A id \in network : v[id] \in Nat
    BY <1>2, <1>3, <1>4
  <2>3. \A id \in N \ network : v[id] \in Nat
    BY <1>2, <1>3
  <2>. QED BY <1>2, <1>11, <2>1, <2>2, <2>3, SumNat
<1>17. ~Truncated(owner, type) => SumFunctionOnSet(v, N \ network) = 0
  <2>. SUFFICES ASSUME ~Truncated(owner, type)
                PROVE  SumFunctionOnSet(v, N \ network) = 0
    OBVIOUS
  <2>1. N \ network = {}
    BY <1>4
  <2>. QED BY <2>1, SumEmpty
<1>. DEFINE total == SumFunction(f) + SumFunction(w) + s.address_balances[<<owner, type>>]
<1>18. /\ total \in Nat /\ Owned(s, owner, type) \in Nat
       /\ total =< Owned(s, owner, type)
       /\ ~Truncated(owner, type) => total = Owned(s, owner, type)
  BY <1>8, <1>9, <1>10, <1>12, <1>13, <1>14, <1>15, <1>16, <1>17
<1>. QED BY <1>18 DEF f, w

\* An owner of something has a coin in the overlay, a coin on the network or an
\* address balance.
LEMMA SomethingOwned ==
    ASSUME NEW s, Sound(s), NEW owner \in Owner, NEW type \in Type,
           Owned(s, owner, type) # 0
    PROVE  \/ coins_of(s, owner, type) # {}
           \/ network_coins(owner, type) # {}
           \/ s.address_balances[<<owner, type>>] > 0
<1>. DEFINE F == CoinsOwned(s, owner, type)
            v == [id \in F |-> Current(s, id).data.value]
<1>1. Owned(s, owner, type)
         = SumFunctionOnSet(v, F) + s.address_balances[<<owner, type>>]
  BY DEF Owned, SumFunction
<1>2. s.address_balances[<<owner, type>>] \in Nat
  BY AccountAssumption DEF Sound
<1>3. F \subseteq {o.id : o \in coins_of(s, owner, type)} \cup network_coins(owner, type)
  BY TwoParts DEF Sound
<1>. SUFFICES ASSUME F = {} PROVE s.address_balances[<<owner, type>>] > 0
  BY <1>3
<1>. HIDE DEF F, v
<1>4. SumFunctionOnSet(v, F) = 0
  BY SumEmpty
<1>. QED BY <1>1, <1>2, <1>4

-----------------------------------------------------------------------------
(* The balance queries, while nobody writes: what each step has read is what *)
(* the overlay has, every balance reported is right, and every type the      *)
(* owner has something of is reported or still to come.                      *)

Summing == {"touched", "network_coins", "address_balance"}

ReadSoFar(s, q) ==
    /\ q.owner \in Owner /\ q.types \subseteq Type
    /\ q.pc \in Summing =>
          q.type \in Type /\ q.local = coins_of(s, q.owner, q.type)
    /\ q.pc = "network_coins" => q.touched = overlay_touched_ids(s)
    /\ q.pc = "address_balance" =>
          \E listed \in owned_coin_values(q.owner, q.type) :
              q.network = listed \ overlay_touched_ids(s)

\* A balance reported.
BalanceRight(s, owner, b) ==
    IF Truncated(owner, b[1]) THEN b[2] =< Owned(s, owner, b[1])
    ELSE b[2] = Owned(s, owner, b[1])

\* What may keep a type out of the answer.
NotListed(q, type) ==
    /\ q.cut \/ Truncated(q.owner, type)
    /\ \E id \in Live[q.owner] : OnNetwork[id].type = type

Covered(s, q, type) ==
    \/ Owned(s, q.owner, type) = 0
    \/ \E b \in q.out : b[1] = type
    \/ type \in q.types
    \/ q.pc \in Summing /\ q.type = type
    \/ NotListed(q, type)

TypesSoFar(s, q) ==
    /\ q.pc \in {"address_types", "network_types"} =>
          \A type \in Type : coins_of(s, q.owner, type) # {} => type \in q.types
    /\ q.pc = "network_types" =>
          \A type \in Type : s.address_balances[<<q.owner, type>>] > 0 => type \in q.types
    /\ q.pc \in {"next_type", "answered"} \cup Summing =>
          \A type \in Type : Covered(s, q, type)
    /\ q.pc = "answered" => q.types = {}

BalancePcs(q) ==
    IF q.kind = "balance" THEN q.pc \in Summing \cup {"answered"}
    ELSE q.pc \in Summing \cup {"address_types", "network_types", "next_type", "answered"}

BalanceOK(s, q) ==
    q.kind \in {"balance", "balances"} =>
        /\ BalancePcs(q)
        /\ ReadSoFar(s, q)
        /\ \A b \in q.out : BalanceRight(s, q.owner, b)
        /\ q.kind = "balances" => TypesSoFar(s, q)

BalanceInv == ~changed => BalanceOK(state, query)

\* A listing that was cut short lists at least one coin of the type.
LEMMA TruncatedOnNetwork ==
    ASSUME NEW owner \in Owner, NEW type, Truncated(owner, type)
    PROVE  \E id \in Live[owner] : OnNetwork[id].type = type
<1>. DEFINE K == network_coins(owner, type)
<1>1. K # {}
  <2>. SUFFICES ASSUME K = {} PROVE FALSE
    OBVIOUS
  <2>1. Cardinality(K) > PageCap
    BY DEF Truncated
  <2>. HIDE DEF K
  <2>2. Cardinality(K) = 0
    BY FS_EmptySet
  <2>. QED BY <2>1, <2>2, LimitsAssumption
<1>2. PICK id : id \in K
  BY <1>1
<1>. QED BY <1>2 DEF network_coins

\* The types of what the overlay has are types.
LEMMA OverlayTypes ==
    ASSUME NEW s, Sound(s), NEW o \in overlay_objects(s)
    PROVE  o.data.type \in Type
<1>1. PICK id \in ObjectID : o = s.objects[id] /\ o # None
  BY DEF overlay_objects
<1>2. Current(s, id) = o
  BY <1>1, CurrentIs
<1>. QED BY <1>1, <1>2 DEF Sound, Exists, GoodData

\* GetBalance starts with the invariant.
LEMMA BeginBalanceOK ==
    ASSUME BeginBalance
    PROVE  BalanceOK(state, query')
<1>1. PICK owner \in Owner, type \in Type :
         query' = [IdleQuery EXCEPT
              !.pc = "touched", !.kind = "balance", !.owner = owner,
              !.type = type, !.local = coins_of(state, owner, type)]
  BY DEF BeginBalance
<1>2. /\ query'.pc = "touched" /\ query'.kind = "balance" /\ query'.owner = owner
      /\ query'.type = type /\ query'.local = coins_of(state, owner, type)
      /\ query'.types = {} /\ query'.out = {}
  BY <1>1 DEF IdleQuery
<1>. QED BY <1>2 DEF BalanceOK, BalancePcs, Summing, ReadSoFar

\* ListBalances starts with the invariant.
LEMMA BeginBalancesOK ==
    ASSUME Sound(state), BeginBalances
    PROVE  BalanceOK(state, query')
<1>. DEFINE held(owner) == {o.data.type :
                  o \in {x \in overlay_objects_of(state, owner) : IsCoin(x)}}
<1>1. PICK owner \in Owner :
         query' = [IdleQuery EXCEPT
              !.pc = "address_types", !.kind = "balances", !.owner = owner,
              !.types = held(owner)]
  BY DEF BeginBalances
<1>2. \A type \in held(owner) : type \in Type
  BY OverlayTypes DEF overlay_objects_of
<1>3. \A type \in Type : coins_of(state, owner, type) # {} => type \in held(owner)
  BY DEF coins_of
<1>. HIDE DEF held
<1>4. /\ query'.pc = "address_types" /\ query'.kind = "balances" /\ query'.owner = owner
      /\ query'.types = held(owner) /\ query'.out = {}
  BY <1>1 DEF IdleQuery
<1>. QED BY <1>2, <1>3, <1>4 DEF BalanceOK, BalancePcs, Summing, ReadSoFar, TypesSoFar

Fields == {"pc", "kind", "owner", "type", "limit", "local", "touched", "network",
           "types", "cut", "out"}

\* A query has its fields.
LEMMA Shape == QueryShape => DOMAIN query = Fields
BY DEF QueryShape, IdleQuery, Fields

\* Reading the touched identifiers preserves the invariant.
LEMMA ReadTouchedOK ==
    ASSUME QueryShape, BalanceOK(state, query), ReadTouched
    PROVE  BalanceOK(state, query')
<1>1. /\ query' = [query EXCEPT !.touched = overlay_touched_ids(state),
                                !.pc = "network_coins"]
      /\ query.pc = "touched"
  BY DEF ReadTouched, Reads
<1>2. /\ query'.pc = "network_coins" /\ query'.touched = overlay_touched_ids(state)
      /\ query'.kind = query.kind /\ query'.owner = query.owner
      /\ query'.type = query.type /\ query'.local = query.local
      /\ query'.types = query.types /\ query'.cut = query.cut
      /\ query'.out = query.out
  BY <1>1, Shape DEF Fields
<1>. QED BY <1>1, <1>2 DEF BalanceOK, BalancePcs, Summing, ReadSoFar, TypesSoFar, Covered, NotListed

\* Reading the network's coins preserves the invariant.
LEMMA ReadNetworkCoinsOK ==
    ASSUME QueryShape, BalanceOK(state, query), ReadNetworkCoins
    PROVE  BalanceOK(state, query')
<1>1. PICK listed \in owned_coin_values(query.owner, query.type) :
         /\ query' = [query EXCEPT !.network = listed \ query.touched,
                                   !.pc = "address_balance"]
         /\ query.pc = "network_coins"
  BY DEF ReadNetworkCoins, Reads
<1>2. /\ query'.pc = "address_balance" /\ query'.network = listed \ query.touched
      /\ query'.kind = query.kind /\ query'.owner = query.owner
      /\ query'.type = query.type /\ query'.local = query.local
      /\ query'.types = query.types /\ query'.cut = query.cut
      /\ query'.out = query.out
  BY <1>1, Shape DEF Fields
<1>. QED BY <1>1, <1>2 DEF BalanceOK, BalancePcs, Summing, ReadSoFar, TypesSoFar, Covered, NotListed

\* Adding the address balance preserves the invariant: the total is the owner's.
LEMMA ReadAddressBalanceOK ==
    ASSUME QueryShape, Sound(state), BalanceOK(state, query), ReadAddressBalance
    PROVE  BalanceOK(state, query')
<1>. DEFINE owner == query.owner
            type == query.type
            total == Total(state.address_balances[<<owner, type>>])
            kept == query.kind = "balances" /\ total = 0
            out == IF kept THEN query.out ELSE query.out \cup {<<type, total>>}
            pc == IF query.kind = "balances" THEN "next_type" ELSE "answered"
<1>1. query' = [query EXCEPT !.out = out, !.pc = pc] /\ query.pc = "address_balance"
  BY DEF ReadAddressBalance, Reads
<1>. SUFFICES ASSUME query.kind \in {"balance", "balances"}
              PROVE  BalanceOK(state, query')
  <2>1. query'.kind = query.kind
    BY <1>1, Shape DEF Fields
  <2>. QED BY <2>1 DEF BalanceOK
<1>2. /\ owner \in Owner /\ type \in Type /\ query.local = coins_of(state, owner, type)
      /\ query.types \subseteq Type
      /\ \A b \in query.out : BalanceRight(state, owner, b)
  BY <1>1 DEF BalanceOK, ReadSoFar, Summing
<1>3. PICK listed \in owned_coin_values(owner, type) :
         query.network = listed \ overlay_touched_ids(state)
  BY <1>1 DEF BalanceOK, ReadSoFar
<1>4. /\ total \in Nat /\ Owned(state, owner, type) \in Nat
      /\ total =< Owned(state, owner, type)
      /\ ~Truncated(owner, type) => total = Owned(state, owner, type)
  <2>. HIDE DEF owner, type
  <2>. QED BY <1>2, <1>3, BalanceAdds DEF Total
<1>. HIDE DEF total, out, pc
<1>5. /\ query'.pc = pc /\ query'.out = out
      /\ query'.kind = query.kind /\ query'.owner = owner
      /\ query'.types = query.types /\ query'.cut = query.cut
  BY <1>1, Shape DEF Fields
<1>. HIDE DEF owner, type
<1>6. \A b \in out : BalanceRight(state, owner, b)
  <2>1. BalanceRight(state, owner, <<type, total>>)
    BY <1>4 DEF BalanceRight
  <2>. QED BY <1>2, <2>1 DEF out
<1>7. ASSUME query.kind = "balances"
      PROVE  \A t \in Type : Covered(state, query', t)
  <2>. SUFFICES ASSUME NEW t \in Type PROVE Covered(state, query', t)
    OBVIOUS
  <2>1. Covered(state, query, t)
    BY <1>1, <1>7 DEF BalanceOK, TypesSoFar, Summing
  <2>2. CASE t # type
    BY <1>5, <2>1, <2>2 DEF Covered, NotListed, out, owner, type
  <2>3. CASE t = type /\ ~kept
    <3>1. <<type, total>> \in query'.out
      BY <1>5, <2>3 DEF out
    <3>2. \E b \in query'.out : b[1] = t
      <4>1. <<type, total>>[1] = t
        BY <2>3
      <4>. QED BY <3>1, <4>1
    <3>. QED BY <3>2 DEF Covered
  <2>4. CASE t = type /\ kept /\ Truncated(owner, type)
    BY <1>2, <1>5, <2>4, TruncatedOnNetwork DEF Covered, NotListed
  <2>5. CASE t = type /\ kept /\ ~Truncated(owner, type)
    BY <1>4, <1>5, <2>5 DEF Covered
  <2>. QED BY <2>2, <2>3, <2>4, <2>5
<1>. QED BY <1>2, <1>5, <1>6, <1>7 DEF BalanceOK, BalancePcs, Summing, ReadSoFar, TypesSoFar, pc

\* Adding the types of the address balances preserves the invariant.
LEMMA ReadAddressTypesOK ==
    ASSUME QueryShape, BalanceOK(state, query), ReadAddressTypes
    PROVE  BalanceOK(state, query')
<1>. DEFINE more == {type \in Type : state.address_balances[<<query.owner, type>>] > 0}
<1>1. /\ query' = [query EXCEPT !.types = @ \cup more, !.pc = "network_types"]
      /\ query.pc = "address_types"
  BY DEF ReadAddressTypes, Reads
<1>. HIDE DEF more
<1>2. /\ query'.pc = "network_types" /\ query'.types = query.types \cup more
      /\ query'.kind = query.kind /\ query'.owner = query.owner
      /\ query'.out = query.out
  BY <1>1, Shape DEF Fields
<1>3. more \subseteq Type
      /\ \A type \in Type : state.address_balances[<<query.owner, type>>] > 0 => type \in more
  BY DEF more
<1>. QED BY <1>1, <1>2, <1>3 DEF BalanceOK, BalancePcs, Summing, ReadSoFar, TypesSoFar

\* Adding the types the network lists preserves the invariant.
LEMMA ReadNetworkTypesOK ==
    ASSUME QueryShape, Sound(state), BalanceOK(state, query), ReadNetworkTypes
    PROVE  BalanceOK(state, query')
<1>. DEFINE more == {OnNetwork[id].type :
                  id \in {x \in Live[query.owner] : OnNetwork[x].kind = "coin"}}
<1>1. /\ \/ query' = [query EXCEPT !.types = @ \cup more, !.pc = "next_type"]
         \/ query' = [query EXCEPT !.cut = TRUE, !.pc = "next_type"]
      /\ query.pc = "network_types"
  BY DEF ReadNetworkTypes, Reads
<1>. SUFFICES ASSUME query.kind \in {"balance", "balances"}
              PROVE  BalanceOK(state, query')
  <2>. HIDE DEF more
  <2>1. query'.kind = query.kind
    BY <1>1, Shape DEF Fields
  <2>. QED BY <2>1 DEF BalanceOK
<1>2. query.kind = "balances" /\ query.owner \in Owner /\ query.types \subseteq Type
  BY <1>1 DEF BalanceOK, BalancePcs, ReadSoFar, Summing
<1>3. \A type \in more : type \in Type
  <2>. SUFFICES ASSUME NEW id \in Live[query.owner] PROVE OnNetwork[id].type \in Type
    OBVIOUS
  <2>1. id \in ObjectID /\ Exists(Default, id) /\ OnNetwork[id] = Current(Default, id).data
    BY <1>2, NetworkData
  <2>. QED BY <2>1, ForkPoint DEF Sound, GoodData
<1>4. \A type \in Type : network_coins(query.owner, type) # {} =>
         type \in more /\ \E id \in Live[query.owner] : OnNetwork[id].type = type
  BY DEF network_coins
<1>5. \A type \in Type : \/ Owned(state, query.owner, type) = 0 \/ type \in query.types
                          \/ network_coins(query.owner, type) # {}
  BY <1>1, <1>2, SomethingOwned DEF BalanceOK, TypesSoFar
<1>. HIDE DEF more
<1>6. /\ query'.pc = "next_type" /\ query'.kind = "balances"
      /\ query'.owner = query.owner /\ query'.out = query.out
      /\ \/ query'.types = query.types \cup more /\ query'.cut = query.cut
         \/ query'.types = query.types /\ query'.cut
  BY <1>1, <1>2, Shape DEF Fields
<1>7. \A type \in Type : Covered(state, query', type)
  BY <1>4, <1>5, <1>6 DEF Covered, NotListed
<1>. QED BY <1>2, <1>3, <1>6, <1>7
     DEF BalanceOK, BalancePcs, Summing, ReadSoFar, TypesSoFar

\* Going on to the next type preserves the invariant.
LEMMA NextTypeOK ==
    ASSUME QueryShape, BalanceOK(state, query), NextType
    PROVE  BalanceOK(state, query')
<1>1. CASE query.types = {} /\ query' = [query EXCEPT !.pc = "answered"]
  <2>1. /\ query'.pc = "answered" /\ query'.types = query.types
        /\ query'.kind = query.kind /\ query'.owner = query.owner
        /\ query'.cut = query.cut /\ query'.out = query.out
    BY <1>1, Shape DEF Fields
  <2>. QED BY <1>1, <2>1
       DEF NextType, Reads, BalanceOK, BalancePcs, Summing, ReadSoFar, TypesSoFar, Covered, NotListed
<1>2. ASSUME NEW type \in query.types,
             query' = [query EXCEPT
                !.type = type, !.types = @ \ {type},
                !.local = coins_of(state, query.owner, type), !.pc = "touched"]
      PROVE  BalanceOK(state, query')
  <2>1. /\ query'.pc = "touched" /\ query'.types = query.types \ {type}
        /\ query'.kind = query.kind /\ query'.owner = query.owner
        /\ query'.type = type /\ query'.local = coins_of(state, query.owner, type)
        /\ query'.cut = query.cut /\ query'.out = query.out
    BY <1>2, Shape DEF Fields
  <2>2. query.pc = "next_type"
    BY DEF NextType, Reads
  <2>. QED BY <1>2, <2>1, <2>2
       DEF BalanceOK, BalancePcs, Summing, ReadSoFar, TypesSoFar, Covered, NotListed
<1>. QED BY <1>1, <1>2 DEF NextType

\* Every step leaves the ledger sound.
LEMMA NextLedger == LedgerSound /\ [Next]_vars => LedgerSound'
<1>. SUFFICES ASSUME LedgerSound, [Next]_vars PROVE LedgerSound'
  OBVIOUS
<1>1. CASE Interfere
  BY <1>1, WriteSound DEF Interfere
<1>2. CASE UNCHANGED ledger
  BY <1>2 DEF ledger, LedgerSound
<1>3. CASE \/ BeginBalance \/ BeginBalances \/ BeginInfo \/ BeginFields
  BY <1>2, <1>3 DEF BeginBalance, BeginBalances, BeginInfo, BeginFields, Begin
<1>4. CASE \/ ReadTouched \/ ReadNetworkCoins \/ ReadAddressBalance
           \/ ReadAddressTypes \/ ReadNetworkTypes \/ NextType
           \/ ReadNetworkInfo \/ ReadNetworkFields \/ NetworkFails \/ Answer
  BY <1>2, <1>4 DEF ReadTouched, ReadNetworkCoins, ReadAddressBalance,
     ReadAddressTypes, ReadNetworkTypes, NextType, ReadNetworkInfo,
     ReadNetworkFields, NetworkFails, Answer, Reads
<1>. QED BY <1>1, <1>2, <1>3, <1>4 DEF Next, Done, vars

\* A step of no balance query.
LEMMA NotABalance ==
    ASSUME query'.kind \notin {"balance", "balances"}
    PROVE  BalanceInv'
BY DEF BalanceInv, BalanceOK

\* Every step preserves the invariant of the balance queries.
LEMMA NextBalance ==
    QueryShape /\ LedgerSound /\ BalanceInv /\ [Next]_vars => BalanceInv'
<1>. SUFFICES ASSUME QueryShape, LedgerSound, BalanceInv, [Next]_vars PROVE BalanceInv'
  OBVIOUS
<1>0. Sound(state) /\ DOMAIN query = Fields
  BY Shape DEF LedgerSound
<1>1. CASE BeginBalance \/ BeginBalances
  <2>1. BalanceOK(state, query') /\ state' = state
    BY <1>0, <1>1, BeginBalanceOK, BeginBalancesOK DEF BeginBalance, BeginBalances, Begin, ledger
  <2>. QED BY <2>1 DEF BalanceInv
<1>2. CASE \/ ReadTouched \/ ReadNetworkCoins \/ ReadAddressBalance
           \/ ReadAddressTypes \/ ReadNetworkTypes \/ NextType
  <2>1. state' = state /\ changed' = changed
    BY <1>2 DEF ReadTouched, ReadNetworkCoins, ReadAddressBalance, ReadAddressTypes,
                ReadNetworkTypes, NextType, Reads, ledger
  <2>2. BalanceOK(state, query) => BalanceOK(state, query')
    BY <1>0, <1>2, ReadTouchedOK, ReadNetworkCoinsOK, ReadAddressBalanceOK,
       ReadAddressTypesOK, ReadNetworkTypesOK, NextTypeOK
  <2>. QED BY <2>1, <2>2 DEF BalanceInv
<1>3. CASE BeginInfo \/ BeginFields \/ NetworkFails \/ Answer
  <2>1. query'.kind \in {"info", "fields", "none"}
    <3>1. CASE BeginInfo
      BY <3>1 DEF BeginInfo, IdleQuery
    <3>2. CASE BeginFields
      <4>1. PICK owner, limit, full, page :
               query' = [IdleQuery EXCEPT
                  !.pc = IF full THEN "answered" ELSE "network_fields",
                  !.kind = "fields", !.owner = owner, !.limit = limit,
                  !.local = page]
        BY <3>2, Zenon DEF BeginFields
      <4>. QED BY <4>1 DEF IdleQuery
    <3>3. CASE NetworkFails \/ Answer
      BY <3>3 DEF NetworkFails, Answer, IdleQuery
    <3>. QED BY <1>3, <3>1, <3>2, <3>3
  <2>. QED BY <2>1, NotABalance
<1>4. CASE ReadNetworkInfo \/ ReadNetworkFields
  <2>1. query'.kind = query.kind /\ query.pc \in {"network_info", "network_fields"}
        /\ changed' = changed
    BY <1>0, <1>4 DEF ReadNetworkInfo, ReadNetworkFields, Reads, Fields
  <2>2. ~changed => query.kind \notin {"balance", "balances"}
    BY <2>1 DEF BalanceInv, BalanceOK, BalancePcs, Summing
  <2>. QED BY <2>1, <2>2 DEF BalanceInv, BalanceOK
<1>5. CASE Interfere
  <2>1. query' = query /\ (changed' <=> changed \/ state' # state)
    BY <1>5 DEF Interfere
  <2>. QED BY <2>1 DEF BalanceInv
<1>6. CASE UNCHANGED vars
  BY <1>6 DEF vars, ledger, BalanceInv
<1>. QED BY <1>1, <1>2, <1>3, <1>4, <1>5, <1>6 DEF Next, Done

\* The ledger stays sound, and the balance queries right.
LEMMA SpecBalance == Spec => [](LedgerSound /\ BalanceInv)
<1>1. Init => LedgerSound /\ BalanceInv
  BY ForkPoint DEF Init, LedgerInit, LedgerSound, BalanceInv, BalanceOK, IdleQuery
<1>2. Inv => QueryShape
  BY DEF Inv
<1>. QED BY <1>1, <1>2, SpecInv, NextLedger, NextBalance, PTL DEF Spec

\* A balance GetBalance or ListBalances reports, when nothing was written while
\* it was computed, is what the owner has on the fork, coins and address
\* balance; or less, when the network does not list all its coins.
THEOREM BalancesAreExact == Spec => []QuietBalancesAreExact
<1>1. BalanceInv => QuietBalancesAreExact
  BY DEF BalanceInv, BalanceOK, BalanceRight, QuietBalancesAreExact, Answered
<1>. QED BY <1>1, SpecBalance, PTL

\* ListBalances, when nothing was written meanwhile, misses no type the owner
\* has something of, unless the network did not list it.
THEOREM BalancesAreComplete == Spec => []QuietBalancesAreComplete
<1>1. BalanceInv => QuietBalancesAreComplete
  BY DEF BalanceInv, BalanceOK, TypesSoFar, Covered, NotListed, Summing,
         QuietBalancesAreComplete, Answered
<1>. QED BY <1>1, SpecBalance, PTL
-----------------------------------------------------------------------------
(* Supply.  What circulates is the worth of every coin and every balance,   *)
(* whoever owns it; a transaction changes one of each at most.              *)

IsCoinOf(s, type, id) ==
    IsKind(s, id, "coin") /\ Current(s, id).data.type = type

Worth(s, type, id) == IF IsCoinOf(s, type, id) THEN Current(s, id).data.value ELSE 0

Worths(s, type) == [id \in ObjectID |-> Worth(s, type, id)]

Balances(s, type) == [owner \in Owner |-> s.address_balances[<<owner, type>>]]

\* What objects and balances are worth are naturals.
LEMMA WorthsTyped ==
    ASSUME NEW s, Sound(s), NEW type \in Type
    PROVE  /\ \A id \in ObjectID : Worths(s, type)[id] \in Nat
           /\ \A owner \in Owner : Balances(s, type)[owner] \in Nat
BY AccountAssumption DEF Worths, Worth, IsCoinOf, IsKind, Sound, GoodData, Balances

\* What circulates of a type is what its coins and its address balances are worth.
LEMMA Circulates ==
    ASSUME NEW s, Sound(s), NEW type \in Type
    PROVE  Circulation(s, type) = SumFunctionOnSet(Worths(s, type), ObjectID)
                                  + SumFunctionOnSet(Balances(s, type), Owner)
<1>. DEFINE v == Worths(s, type)
            bal == Balances(s, type)
            own == [owner \in Owner |-> Owned(s, owner, type)]
            Of(W) == {id \in ObjectID : IsCoinOf(s, type, id)
                                        /\ Current(s, id).data.owner \in W}
<1>1. /\ \A id \in ObjectID : v[id] \in Nat
      /\ \A owner \in Owner : bal[owner] \in Nat
  BY WorthsTyped
<1>2. \A W : Of(W) \in SUBSET ObjectID /\ IsFiniteSet(Of(W))
  <2>. SUFFICES ASSUME NEW W PROVE Of(W) \in SUBSET ObjectID /\ IsFiniteSet(Of(W))
    OBVIOUS
  <2>1. Of(W) \in SUBSET ObjectID
    OBVIOUS
  <2>. HIDE DEF Of
  <2>. QED BY <2>1, IdsAssumption, FS_Subset
<1>3. ASSUME NEW owner \in Owner
      PROVE  /\ own[owner] = SumFunctionOnSet(v, Of({owner})) + bal[owner]
             /\ SumFunctionOnSet(v, Of({owner})) \in Nat
             /\ own[owner] \in Nat
  <2>. DEFINE F == CoinsOwned(s, owner, type)
              w == [id \in F |-> Current(s, id).data.value]
  <2>1. F = Of({owner})
    BY DEF CoinsOwned, Coins, IsCoinOf
  <2>2. own[owner] = SumFunctionOnSet(w, F) + bal[owner]
    BY DEF Owned, SumFunction, Balances
  <2>3. \A id \in F : w[id] = v[id] /\ v[id] \in Nat
    <3>1. \A id \in F : IsCoinOf(s, type, id) /\ id \in ObjectID
      BY DEF CoinsOwned, Coins, IsCoinOf
    <3>. QED BY <1>1, <3>1 DEF Worths, Worth
  <2>4. IsFiniteSet(F)
    BY <1>2, <2>1
  <2>. HIDE DEF F, w, Of, v, bal, own
  <2>5. SumFunctionOnSet(w, F) = SumFunctionOnSet(v, F)
    BY <2>3, <2>4, SumSame
  <2>6. SumFunctionOnSet(v, F) \in Nat
    BY <2>3, <2>4, SumNat
  <2>7. bal[owner] \in Nat
    BY <1>1
  <2>. QED BY <2>1, <2>2, <2>5, <2>6, <2>7
<1>. DEFINE Bad == {W \in SUBSET Owner : SumFunctionOnSet(own, W)
                       # SumFunctionOnSet(v, Of(W)) + SumFunctionOnSet(bal, W)}
<1>4. Bad = {}
  <2>. SUFFICES ASSUME Bad # {} PROVE FALSE
    OBVIOUS
  <2>0. Bad \in SUBSET SUBSET Owner
    OBVIOUS
  <2>1. PICK W \in Bad : \A U \in Bad : U \subseteq W => U = W
    <3>. HIDE DEF Bad
    <3>. QED BY <2>0, IdsAssumption, MinimalSubset
  <2>2. W \in SUBSET Owner
        /\ SumFunctionOnSet(own, W) # SumFunctionOnSet(v, Of(W)) + SumFunctionOnSet(bal, W)
    BY <2>1
  <2>3. W # {}
    <3>. SUFFICES ASSUME W = {} PROVE FALSE
      OBVIOUS
    <3>1. Of(W) = {}
      OBVIOUS
    <3>. HIDE DEF Of, Bad, own, v, bal
    <3>2. /\ SumFunctionOnSet(own, {}) = 0 /\ SumFunctionOnSet(v, {}) = 0
          /\ SumFunctionOnSet(bal, {}) = 0
      BY SumEmpty
    <3>. QED BY <2>2, <3>1, <3>2
  <2>4. PICK x : x \in W
    BY <2>3
  <2>. DEFINE R == W \ {x}
  <2>5. R \in SUBSET Owner /\ R \notin Bad
    BY <2>1, <2>2, <2>4
  <2>6. SumFunctionOnSet(own, R) = SumFunctionOnSet(v, Of(R)) + SumFunctionOnSet(bal, R)
    BY <2>5
  <2>7. Of(W) = Of(R) \cup Of({x}) /\ Of(R) \cap Of({x}) = {}
    BY <2>4
  <2>. HIDE DEF Bad
  <2>8. IsFiniteSet(W) /\ IsFiniteSet(R) /\ x \in Owner
    BY <2>2, <2>4, <2>5, IdsAssumption, FS_Subset
  <2>9. /\ \A y \in W : own[y] \in Nat /\ bal[y] \in Nat
        /\ \A y \in R : own[y] \in Nat /\ bal[y] \in Nat
        /\ own[x] = SumFunctionOnSet(v, Of({x})) + bal[x]
        /\ SumFunctionOnSet(v, Of({x})) \in Nat /\ bal[x] \in Nat
    <3>. HIDE DEF own, v, bal, Of, R
    <3>. QED BY <1>1, <1>3, <2>2, <2>5, <2>8
  <2>10. \A id \in Of(R) \cup Of({x}) : v[id] \in Nat
    BY <1>1
  <2>11. \A id \in Of(R) : v[id] \in Nat
    BY <1>1
  <2>. HIDE DEF own, v, bal, Of
  <2>12. /\ SumFunctionOnSet(own, W) = own[x] + SumFunctionOnSet(own, R)
         /\ SumFunctionOnSet(bal, W) = bal[x] + SumFunctionOnSet(bal, R)
    BY <2>4, <2>8, <2>9, SumTake
  <2>. HIDE DEF R
  <2>13. SumFunctionOnSet(v, Of(R) \cup Of({x}))
            = SumFunctionOnSet(v, Of(R)) + SumFunctionOnSet(v, Of({x}))
    BY <1>2, <2>7, <2>10, SumParts
  <2>14. SumFunctionOnSet(v, Of(R)) \in Nat /\ SumFunctionOnSet(bal, R) \in Nat
    BY <1>2, <2>8, <2>9, <2>11, SumNat
  <2>15. SumFunctionOnSet(v, Of(W))
            = SumFunctionOnSet(v, Of(R)) + SumFunctionOnSet(v, Of({x}))
    BY <2>7, <2>13
  <2>. QED BY <2>2, <2>6, <2>9, <2>12, <2>14, <2>15
<1>5. SumFunctionOnSet(own, Owner)
         = SumFunctionOnSet(v, Of(Owner)) + SumFunctionOnSet(bal, Owner)
  BY <1>4
<1>6. SumFunctionOnSet(v, ObjectID) = SumFunctionOnSet(v, Of(Owner))
  <2>1. \A id \in ObjectID \ Of(Owner) : v[id] = 0
    <3>. SUFFICES ASSUME NEW id \in ObjectID, id \notin Of(Owner) PROVE ~IsCoinOf(s, type, id)
      BY DEF Worths, Worth
    <3>. QED BY DEF IsCoinOf, IsKind, Sound, GoodData
  <2>. HIDE DEF v, Of
  <2>. QED BY <1>1, <1>2, <2>1, IdsAssumption, SumSupport
<1>7. Circulation(s, type) = SumFunctionOnSet(own, Owner)
  BY DEF Circulation, SumFunction
<1>. QED BY <1>5, <1>6, <1>7

\* Where one object and one balance changed, the circulation changed by as much.
LEMMA CirculationChanges ==
    ASSUME NEW s, Sound(s), NEW u, Sound(u), NEW type \in Type,
           NEW id \in ObjectID, NEW owner \in Owner,
           \A i \in ObjectID \ {id} : Worth(u, type, i) = Worth(s, type, i),
           \A o \in Owner \ {owner} : Balances(u, type)[o] = Balances(s, type)[o]
    PROVE  /\ Circulation(s, type) \in Nat
           /\ Worth(s, type, id) \in Nat /\ Worth(u, type, id) \in Nat
           /\ Balances(s, type)[owner] \in Nat /\ Balances(u, type)[owner] \in Nat
           /\ Circulation(u, type) + Worth(s, type, id) + Balances(s, type)[owner]
                 = Circulation(s, type) + Worth(u, type, id) + Balances(u, type)[owner]
           /\ Worth(s, type, id) + Balances(s, type)[owner] =< Circulation(s, type)
<1>. DEFINE v == Worths(s, type)
            w == Worths(u, type)
            b == Balances(s, type)
            c == Balances(u, type)
<1>1. \A i \in ObjectID : v[i] \in Nat /\ w[i] \in Nat
  BY WorthsTyped
<1>2. \A o \in Owner : b[o] \in Nat /\ c[o] \in Nat
  BY WorthsTyped
<1>3. \A i \in ObjectID \ {id} : v[i] = w[i]
  BY DEF Worths
<1>4. v[id] = Worth(s, type, id) /\ w[id] = Worth(u, type, id)
  BY DEF Worths
<1>5. \A o \in Owner \ {owner} : b[o] = c[o]
  OBVIOUS
<1>6. /\ Circulation(s, type) = SumFunctionOnSet(v, ObjectID) + SumFunctionOnSet(b, Owner)
      /\ Circulation(u, type) = SumFunctionOnSet(w, ObjectID) + SumFunctionOnSet(c, Owner)
  BY Circulates
<1>. HIDE DEF v, w, b, c
<1>7. SumFunctionOnSet(v, ObjectID) + w[id] = SumFunctionOnSet(w, ObjectID) + v[id]
  BY <1>1, <1>3, IdsAssumption, SumOneChange
<1>8. SumFunctionOnSet(b, Owner) + c[owner] = SumFunctionOnSet(c, Owner) + b[owner]
  BY <1>2, <1>5, IdsAssumption, SumOneChange
<1>9. v[id] =< SumFunctionOnSet(v, ObjectID) /\ b[owner] =< SumFunctionOnSet(b, Owner)
  BY <1>1, <1>2, IdsAssumption, SumAtLeast
<1>10. /\ SumFunctionOnSet(v, ObjectID) \in Nat /\ SumFunctionOnSet(w, ObjectID) \in Nat
       /\ SumFunctionOnSet(b, Owner) \in Nat /\ SumFunctionOnSet(c, Owner) \in Nat
  BY <1>1, <1>2, IdsAssumption, SumNat
<1>11. v[id] \in Nat /\ w[id] \in Nat /\ b[owner] \in Nat /\ c[owner] \in Nat
  BY <1>1, <1>2
<1>. QED BY <1>4, <1>6, <1>7, <1>8, <1>9, <1>10, <1>11 DEF b, c

\* The fork's caps are mainnet's; a cap that is gone stays gone.
CapsRight(s) ==
    /\ \A id \in Caps(s) : /\ id \in Caps(Default)
                           /\ Current(s, id).data.type = Current(Default, id).data.type
    /\ \A id \in ObjectID : id \in s.tombstones => ~Exists(s, id)
    /\ \A id \in Caps(Default) : id \in Caps(s) \/ id \in s.tombstones

\* A cap counts what circulates, which is no more than w coins were added to.
SupplyRight(s, w) ==
    \A c \in Caps(s) :
        /\ Current(s, c).data.value = Circulation(s, Current(s, c).data.type)
        /\ Current(s, c).data.value =< Current(Default, c).data.value + w

\* What a transaction leaves is of the kind and type it was, or a new coin.
Natural(objects) ==
    \A id \in DOMAIN objects :
        \/ /\ Exists(state, id)
           /\ objects[id].kind = Current(state, id).data.kind
           /\ objects[id].type = Current(state, id).data.type
        \/ id \in Fresh(state) /\ objects[id].kind = "coin"

\* A cap the ledger has was there before the transaction, with the supply it wrote.
LEMMA CapBefore ==
    ASSUME Sound(state), NEW objects, NEW deleted, NEW events,
           GoodEffects(objects, deleted, events),
           CommitEffects(objects, deleted, events), Natural(objects),
           NEW c \in Caps(state')
    PROVE  /\ c \in Caps(state) /\ c \notin deleted
           /\ Current(state', c).data.type = Current(state, c).data.type
           /\ Current(state', c).data.value =
                 IF c \in DOMAIN objects THEN objects[c].value
                 ELSE Current(state, c).data.value
<1>1. c \in ObjectID /\ Current(state', c) # None /\ Current(state', c).data.kind = "cap"
  BY DEF Caps, IsKind, Exists
<1>2. Current(state', c) = IF c \in deleted THEN None
                           ELSE IF c \in DOMAIN objects THEN Left(c, objects[c])
                           ELSE Current(state, c)
  BY <1>1, CommitReads
<1>3. Left(c, objects[c]).data = objects[c]
  BY DEF Left
<1>4. CASE c \in DOMAIN objects
  <2>1. Current(state', c).data = objects[c] /\ c \notin deleted
    BY <1>1, <1>2, <1>3, <1>4
  <2>2. /\ Exists(state, c) /\ objects[c].kind = Current(state, c).data.kind
        /\ objects[c].type = Current(state, c).data.type
    BY <1>1, <1>4, <2>1 DEF Natural
  <2>. QED BY <1>1, <1>4, <2>1, <2>2 DEF Caps, IsKind
<1>5. CASE c \notin DOMAIN objects
  <2>1. Current(state', c) = Current(state, c) /\ c \notin deleted
    BY <1>1, <1>2, <1>5
  <2>. QED BY <1>1, <1>5, <2>1 DEF Caps, IsKind, Exists
<1>. QED BY <1>4, <1>5

\* A commit leaves every cap where it was or none of its type.
LEMMA CommitCaps ==
    ASSUME Sound(state), CapsRight(state), NEW objects, NEW deleted, NEW events,
           GoodEffects(objects, deleted, events),
           CommitEffects(objects, deleted, events), Natural(objects)
    PROVE  CapsRight(state')
<1>1. ASSUME NEW id \in Caps(state')
      PROVE  /\ id \in Caps(Default)
             /\ Current(state', id).data.type = Current(Default, id).data.type
  BY <1>1, CapBefore DEF CapsRight
<1>2. ASSUME NEW id \in ObjectID
      PROVE  Current(state', id) = IF id \in deleted THEN None
                                   ELSE IF id \in DOMAIN objects THEN Left(id, objects[id])
                                   ELSE Current(state, id)
  BY CommitReads
<1>3. state'.tombstones = (state.tombstones \ DOMAIN objects) \cup deleted
  BY CommitReads
<1>4. ASSUME NEW id \in ObjectID, id \in state'.tombstones
      PROVE  ~Exists(state', id)
  <2>1. id \in deleted \/ (id \in state.tombstones /\ id \notin DOMAIN objects)
    BY <1>3, <1>4
  <2>2. id \in state.tombstones => Current(state, id) = None
    BY DEF CapsRight, Exists
  <2>. QED BY <1>2, <2>1, <2>2 DEF Exists
<1>5. ASSUME NEW id \in Caps(Default), id \notin state'.tombstones
      PROVE  id \in Caps(state')
  <2>1. id \in ObjectID /\ id \notin deleted
    BY <1>3, <1>5 DEF Caps
  <2>2. id \in Caps(state)
    <3>1. CASE id \in state.tombstones
      <4>1. id \in DOMAIN objects /\ ~Exists(state, id) /\ id \notin Fresh(state)
        BY <1>3, <1>5, <2>1, <3>1 DEF CapsRight, Fresh
      <4>. QED BY <4>1 DEF Natural
    <3>2. CASE id \notin state.tombstones
      BY <3>2 DEF CapsRight
    <3>. QED BY <3>1, <3>2
  <2>3. Exists(state, id) /\ Current(state, id).data.kind = "cap" /\ id \notin Fresh(state)
    BY <2>2 DEF Caps, IsKind, Fresh
  <2>4. CASE id \in DOMAIN objects
    <3>1. Current(state', id) = Left(id, objects[id]) /\ Left(id, objects[id]) \in Asset
      BY <1>2, <2>1, <2>4, CommitReads
    <3>2. objects[id].kind = "cap"
      BY <2>3, <2>4 DEF Natural
    <3>3. Left(id, objects[id]).data = objects[id]
      BY DEF Left
    <3>. QED BY <2>1, <3>1, <3>2, <3>3, NoAssetAssumption DEF Caps, IsKind, Exists
  <2>5. CASE id \notin DOMAIN objects
    <3>1. Current(state', id) = Current(state, id)
      BY <1>2, <2>1, <2>5
    <3>. QED BY <2>1, <2>3, <3>1 DEF Caps, IsKind, Exists
  <2>. QED BY <2>4, <2>5
<1>. QED BY <1>1, <1>4, <1>5 DEF CapsRight

\* The worth and the balances a commit leaves.
DataWorth(type, data) == IF data.kind = "coin" /\ data.type = type THEN data.value ELSE 0

\* What objects and address balances are worth after a commit.
LEMMA CommitWorth ==
    ASSUME Sound(state), NEW objects, NEW deleted, NEW events,
           GoodEffects(objects, deleted, events),
           CommitEffects(objects, deleted, events), NEW type
    PROVE  /\ \A id \in ObjectID : Worth(state', type, id) =
                 IF id \in deleted THEN 0
                 ELSE IF id \in DOMAIN objects THEN DataWorth(type, objects[id])
                 ELSE Worth(state, type, id)
           /\ type \in Type => \A owner \in Owner : Balances(state', type)[owner] =
                 apply_accumulator_event(Balances(state, type)[owner],
                                         EventOf(events, <<owner, type>>))
<1>1. ASSUME NEW id \in ObjectID
      PROVE  Worth(state', type, id) =
                 IF id \in deleted THEN 0
                 ELSE IF id \in DOMAIN objects THEN DataWorth(type, objects[id])
                 ELSE Worth(state, type, id)
  <2>1. Current(state', id) = IF id \in deleted THEN None
                              ELSE IF id \in DOMAIN objects THEN Left(id, objects[id])
                              ELSE Current(state, id)
    BY CommitReads
  <2>2. CASE id \in deleted
    BY <2>1, <2>2 DEF Worth, IsCoinOf, IsKind, Exists
  <2>3. CASE id \notin deleted /\ id \in DOMAIN objects
    <3>1. Current(state', id) = Left(id, objects[id]) /\ Left(id, objects[id]) # None
      BY <2>1, <2>3, CommitReads, NoAssetAssumption
    <3>2. Left(id, objects[id]).data = objects[id]
      BY DEF Left
    <3>. QED BY <2>3, <3>1, <3>2 DEF Worth, IsCoinOf, IsKind, Exists, DataWorth
  <2>4. CASE id \notin deleted /\ id \notin DOMAIN objects
    BY <2>1, <2>4 DEF Worth, IsCoinOf, IsKind, Exists
  <2>. QED BY <2>2, <2>3, <2>4
<1>2. ASSUME type \in Type, NEW owner \in Owner
      PROVE  Balances(state', type)[owner] =
                 apply_accumulator_event(Balances(state, type)[owner],
                                         EventOf(events, <<owner, type>>))
  <2>1. <<owner, type>> \in Account
    BY <1>2, AccountAssumption
  <2>2. state'.address_balances[<<owner, type>>] =
           apply_accumulator_event(state.address_balances[<<owner, type>>],
                                   EventOf(events, <<owner, type>>))
    BY <2>1, CommitReads
  <2>. QED BY <2>2 DEF Balances
<1>. QED BY <1>1, <1>2

\* A transaction keeps the books of a cap: outside one object and one account
\* nothing changes for its type, and the cap follows what changes there.
Books(u, c, type, id, owner) ==
    /\ \A i \in ObjectID \ {id} : Worth(u, type, i) = Worth(state, type, i)
    /\ \A o \in Owner \ {owner} : Balances(u, type)[o] = Balances(state, type)[o]
    /\ Worth(u, type, id) + Balances(u, type)[owner] + Current(state, c).data.value
          = Worth(state, type, id) + Balances(state, type)[owner] + Current(u, c).data.value
    /\ Current(u, c).data.value =< Current(state, c).data.value + 1

LedgerBooks ==
    /\ Sound(state) /\ CapsRight(state) /\ SupplyRight(state, writes)
    /\ writes \in Nat /\ writes =< MaxWrites

\* The arithmetic of one transaction's books.
LEMMA Bookkeeping ==
    ASSUME NEW c \in Nat, NEW d \in Nat, NEW w \in Nat, NEW x \in Nat,
           NEW b \in Nat, NEW y \in Nat, NEW after \in Int,
           d + w + b = c + x + y, x + y + c = w + b + after
    PROVE  after = d
OBVIOUS

\* A transaction with balanced books keeps every cap's supply right.
LEMMA CommitSupply ==
    ASSUME LedgerBooks, NEW objects, NEW deleted, NEW events,
           GoodEffects(objects, deleted, events),
           CommitEffects(objects, deleted, events), Natural(objects),
           NEW id \in ObjectID, NEW owner \in Owner,
           \A c \in Caps(state') :
               Books(state', c, Current(state, c).data.type, id, owner)
    PROVE  CapsRight(state') /\ SupplyRight(state', writes + 1)
<1>1. CapsRight(state')
  BY CommitCaps DEF LedgerBooks
<1>2. ASSUME NEW c \in Caps(state')
      PROVE  /\ Current(state', c).data.value
                   = Circulation(state', Current(state', c).data.type)
             /\ Current(state', c).data.value =< Current(Default, c).data.value + (writes + 1)
  <2>. DEFINE type == Current(state, c).data.type
              before == Current(state, c).data.value
              after == Current(state', c).data.value
              start == Current(Default, c).data.value
  <2>1. c \in Caps(state) /\ Current(state', c).data.type = type
    BY CapBefore DEF LedgerBooks
  <2>2. Sound(state')
    BY CommitSound DEF LedgerBooks
  <2>3. type \in Type /\ before \in Int
    BY <2>1, AssetAt DEF LedgerBooks, GoodData
  <2>4. after \in Int
    BY <2>2 DEF Sound, Caps, IsKind, GoodData
  <2>5. start \in Int
    BY <1>1, ForkPoint DEF CapsRight, Sound, Caps, IsKind, GoodData
  <2>6. before = Circulation(state, type) /\ before =< start + writes
    BY <2>1 DEF LedgerBooks, SupplyRight
  <2>7. Books(state', c, type, id, owner)
    OBVIOUS
  <2>. HIDE DEF type
  <2>8. /\ Circulation(state, type) \in Nat
        /\ Worth(state, type, id) \in Nat /\ Worth(state', type, id) \in Nat
        /\ Balances(state, type)[owner] \in Nat /\ Balances(state', type)[owner] \in Nat
        /\ Circulation(state', type) + Worth(state, type, id) + Balances(state, type)[owner]
              = Circulation(state, type) + Worth(state', type, id)
                + Balances(state', type)[owner]
    BY <2>2, <2>3, <2>7, CirculationChanges DEF LedgerBooks, Books
  <2>9. /\ Worth(state', type, id) + Balances(state', type)[owner] + before
             = Worth(state, type, id) + Balances(state, type)[owner] + after
        /\ after =< before + 1
    BY <2>7 DEF Books
  <2>10. Circulation(state', type) \in Nat
    <3>1. Circulation(state', type) = SumFunctionOnSet(Worths(state', type), ObjectID)
                                      + SumFunctionOnSet(Balances(state', type), Owner)
      BY <2>2, <2>3, Circulates
    <3>2. /\ \A i \in ObjectID : Worths(state', type)[i] \in Nat
          /\ \A o \in Owner : Balances(state', type)[o] \in Nat
      BY <2>2, <2>3, WorthsTyped
    <3>3. /\ SumFunctionOnSet(Worths(state', type), ObjectID) \in Nat
          /\ SumFunctionOnSet(Balances(state', type), Owner) \in Nat
      BY <3>2, IdsAssumption, SumNat
    <3>. QED BY <3>1, <3>3
  <2>11. writes \in Nat
    BY DEF LedgerBooks
  <2>. HIDE DEF before, after, start
  <2>12. after = Circulation(state', type)
    BY ONLY <2>4, <2>6, <2>8, <2>9, <2>10, Bookkeeping
  <2>13. after =< start + (writes + 1)
    BY ONLY <2>3, <2>4, <2>5, <2>6, <2>9, <2>11
  <2>. QED BY <2>1, <2>12, <2>13 DEF after, start
<1>. QED BY <1>1, <1>2 DEF SupplyRight

\* An address balance has room for what a coin of a cap's type is worth.
LEMMA Room ==
    ASSUME LedgerBooks, NEW c \in Caps(state), NEW id \in ObjectID, NEW owner \in Owner
    PROVE  Worth(state, Current(state, c).data.type, id)
           + Balances(state, Current(state, c).data.type)[owner] =< MaxBalance
<1>. DEFINE type == Current(state, c).data.type
            before == Current(state, c).data.value
            start == Current(Default, c).data.value
<1>1. type \in Type /\ before \in Int
  BY AssetAt DEF LedgerBooks, GoodData
<1>2. start \in Int /\ c \in Caps(Default)
  BY ForkPoint DEF LedgerBooks, CapsRight, Sound, Caps, IsKind, GoodData
<1>3. start + MaxWrites =< MaxBalance
  BY <1>2, SupplyAssumption
<1>4. before = Circulation(state, type) /\ before =< start + writes
  BY DEF LedgerBooks, SupplyRight
<1>. HIDE DEF type
<1>5. /\ Circulation(state, type) \in Nat
      /\ Worth(state, type, id) \in Nat /\ Balances(state, type)[owner] \in Nat
      /\ Worth(state, type, id) + Balances(state, type)[owner] =< Circulation(state, type)
  BY <1>1, CirculationChanges DEF LedgerBooks
<1>6. writes \in Nat /\ writes =< MaxWrites /\ MaxWrites \in Nat /\ MaxBalance \in Nat
  BY WritesAssumption, MaxBalanceAssumption DEF LedgerBooks
<1>. HIDE DEF before, start
<1>7. Worth(state, type, id) + Balances(state, type)[owner] =< MaxBalance
  BY <1>1, <1>2, <1>3, <1>4, <1>5, <1>6
<1>. QED BY <1>7 DEF type

\* Accounts no event names stay as they are.
LEMMA NoEvent ==
    ASSUME NEW events, NEW a, a \notin DOMAIN events, NEW balance
    PROVE  apply_accumulator_event(balance, EventOf(events, a)) = balance
BY DEF EventOf, Quiet, apply_accumulator_event

\* Effects that write nothing name nothing.
LEMMA NothingNamed == DOMAIN Nothing = {}
BY DEF Nothing

\* Effects that write one object name that object.
LEMMA OneNamed ==
    ASSUME NEW x, NEW v
    PROVE  DOMAIN One(x, v) = {x} /\ One(x, v)[x] = v
BY DEF One

\* A transaction without balance events leaves the address balances alone.
LEMMA NoBalance ==
    ASSUME Sound(state), NEW objects, NEW deleted,
           GoodEffects(objects, deleted, Nothing),
           CommitEffects(objects, deleted, Nothing),
           NEW type \in Type, NEW owner \in Owner
    PROVE  Balances(state', type)[owner] = Balances(state, type)[owner]
<1>1. Balances(state', type)[owner] =
         apply_accumulator_event(Balances(state, type)[owner],
                                 EventOf(Nothing, <<owner, type>>))
  BY CommitWorth
<1>2. <<owner, type>> \notin DOMAIN Nothing
  BY NothingNamed
<1>3. apply_accumulator_event(Balances(state, type)[owner],
                              EventOf(Nothing, <<owner, type>>))
         = Balances(state, type)[owner]
  BY <1>2, NoEvent
<1>. QED BY <1>1, <1>3

\* One object is transferred.
LEMMA TransferSupply ==
    ASSUME LedgerBooks, Transfer
    PROVE  CapsRight(state') /\ SupplyRight(state', writes + 1)
<1>1. PICK id \in Coins(state) \cup Caps(state), to \in Owner :
         CommitEffects(One(id, [Current(state, id).data EXCEPT !.owner = to]),
                       {}, Nothing)
  BY DEF Transfer
<1>. DEFINE data == [Current(state, id).data EXCEPT !.owner = to]
            objects == One(id, data)
<1>2. id \in ObjectID /\ Exists(state, id) /\ GoodData(Current(state, id).data)
  BY AssetAt DEF LedgerBooks
<1>3. /\ data.kind = Current(state, id).data.kind /\ data.type = Current(state, id).data.type
      /\ data.value = Current(state, id).data.value /\ GoodData(data)
  BY <1>2, OtherOwner DEF GoodData
<1>. HIDE DEF data
<1>4. DOMAIN objects = {id} /\ objects[id] = data
  BY OneNamed
<1>5. GoodEffects(objects, {}, Nothing)
  BY <1>2, <1>3, OneGood, NoEvents
<1>6. Natural(objects)
  BY <1>2, <1>3, <1>4 DEF Natural
<1>7. CommitEffects(objects, {}, Nothing)
  BY <1>1 DEF data
<1>. HIDE DEF objects
<1>8. ASSUME NEW c \in Caps(state')
      PROVE  Books(state', c, Current(state, c).data.type, id, to)
  <2>. DEFINE type == Current(state, c).data.type
  <2>1. /\ c \in Caps(state)
        /\ Current(state', c).data.value = IF c \in DOMAIN objects THEN objects[c].value
                                           ELSE Current(state, c).data.value
    BY <1>5, <1>6, <1>7, CapBefore DEF LedgerBooks
  <2>2. Current(state', c).data.value = Current(state, c).data.value
    BY <1>3, <1>4, <2>1
  <2>3. type \in Type /\ Current(state, c).data.value \in Int
    BY <2>1, AssetAt DEF LedgerBooks, GoodData
  <2>. HIDE DEF type
  <2>4. \A i \in ObjectID : Worth(state', type, i) =
           IF i \in DOMAIN objects THEN DataWorth(type, objects[i]) ELSE Worth(state, type, i)
    BY <1>5, <1>7, CommitWorth DEF LedgerBooks
  <2>5. DataWorth(type, data) = Worth(state, type, id)
    BY <1>2, <1>3 DEF DataWorth, Worth, IsCoinOf, IsKind
  <2>6. \A i \in ObjectID : Worth(state', type, i) = Worth(state, type, i)
    BY <1>4, <2>4, <2>5
  <2>7. \A o \in Owner : Balances(state', type)[o] = Balances(state, type)[o]
    BY <1>5, <1>7, <2>3, NoBalance DEF LedgerBooks
  <2>8. Books(state', c, type, id, to)
    BY <1>2, <2>2, <2>3, <2>6, <2>7 DEF Books
  <2>. QED BY <2>8 DEF type
<1>. QED BY <1>2, <1>5, <1>6, <1>7, <1>8, CommitSupply

\* A coin becomes part of an address balance: the balance gains what the coin
\* was worth, for a u128 has room for it.
LEMMA DepositSupply ==
    ASSUME LedgerBooks, Deposit
    PROVE  CapsRight(state') /\ SupplyRight(state', writes + 1)
<1>1. PICK id \in Coins(state), to \in Owner :
         CommitEffects(Nothing, {id},
            One(<<to, Current(state, id).data.type>>,
                [operation |-> "Merge", amount |-> Current(state, id).data.value]))
  BY DEF Deposit
<1>. DEFINE value == Current(state, id).data.value
            a == <<to, Current(state, id).data.type>>
            event == [operation |-> "Merge", amount |-> value]
            events == One(a, event)
<1>2. /\ id \in ObjectID /\ Exists(state, id) /\ GoodData(Current(state, id).data)
      /\ Current(state, id).data.kind = "coin" /\ value \in Nat
  BY AssetAt DEF LedgerBooks, GoodData, Coins, IsKind
<1>3. event.amount = value /\ event.operation = "Merge"
  OBVIOUS
<1>. HIDE DEF event
<1>4. DOMAIN events = {a} /\ events[a] = event
  BY OneNamed
<1>5. GoodEffects(Nothing, {id}, events)
  BY <1>2, <1>3, <1>4, NothingGood
<1>6. Natural(Nothing)
  BY NothingNamed DEF Natural
<1>7. CommitEffects(Nothing, {id}, events)
  BY <1>1 DEF event
<1>. HIDE DEF events
<1>8. ASSUME NEW c \in Caps(state')
      PROVE  Books(state', c, Current(state, c).data.type, id, to)
  <2>. DEFINE type == Current(state, c).data.type
  <2>1. /\ c \in Caps(state)
        /\ Current(state', c).data.value = Current(state, c).data.value
    BY <1>5, <1>6, <1>7, CapBefore, NothingNamed DEF LedgerBooks
  <2>2. type \in Type /\ Current(state, c).data.value \in Int
    BY <2>1, AssetAt DEF LedgerBooks, GoodData
  <2>3. Worth(state, type, id) + Balances(state, type)[to] =< MaxBalance
    BY <1>2, <2>1, Room
  <2>4. Worth(state, type, id) = IF Current(state, id).data.type = type THEN value ELSE 0
    BY <1>2 DEF Worth, IsCoinOf, IsKind
  <2>. HIDE DEF type
  <2>5. \A i \in ObjectID : Worth(state', type, i) =
           IF i = id THEN 0 ELSE Worth(state, type, i)
    BY <1>5, <1>7, CommitWorth, NothingNamed DEF LedgerBooks
  <2>6. \A o \in Owner : Balances(state', type)[o] =
           apply_accumulator_event(Balances(state, type)[o], EventOf(events, <<o, type>>))
    BY <1>5, <1>7, <2>2, CommitWorth DEF LedgerBooks
  <2>7. \A o \in Owner : <<o, type>> # a =>
           Balances(state', type)[o] = Balances(state, type)[o]
    <3>. SUFFICES ASSUME NEW o \in Owner, <<o, type>> # a
                  PROVE  Balances(state', type)[o] = Balances(state, type)[o]
      OBVIOUS
    <3>1. <<o, type>> \notin DOMAIN events
      BY <1>4
    <3>2. apply_accumulator_event(Balances(state, type)[o], EventOf(events, <<o, type>>))
             = Balances(state, type)[o]
      BY <3>1, NoEvent
    <3>. QED BY <2>6, <3>2
  <2>8. \A o \in Owner \ {to} : Balances(state', type)[o] = Balances(state, type)[o]
    BY <2>7
  <2>9. Balances(state, type)[to] \in Nat
    BY <2>2, WorthsTyped DEF LedgerBooks
  <2>10. Balances(state', type)[to] = Balances(state, type)[to] + Worth(state, type, id)
    <3>1. CASE Current(state, id).data.type = type
      <4>1. EventOf(events, <<to, type>>) = event
        BY <1>4, <3>1 DEF EventOf
      <4>2. Balances(state', type)[to]
               = apply_accumulator_event(Balances(state, type)[to], event)
        BY <2>6, <4>1
      <4>3. value + Balances(state, type)[to] =< MaxBalance
        BY <2>3, <2>4, <3>1
      <4>. QED BY <1>2, <1>3, <2>4, <2>9, <3>1, <4>2, <4>3, MaxBalanceAssumption
           DEF apply_accumulator_event
    <3>2. CASE Current(state, id).data.type # type
      BY <2>4, <2>7, <2>9, <3>2
    <3>. QED BY <3>1, <3>2
  <2>11. Worth(state, type, id) \in Nat /\ Worth(state', type, id) = 0
    BY <1>2, <2>4, <2>5
  <2>12. Books(state', c, type, id, to)
    BY <2>1, <2>2, <2>5, <2>8, <2>9, <2>10, <2>11 DEF Books
  <2>. QED BY <2>12 DEF type
<1>. QED BY <1>2, <1>5, <1>6, <1>7, <1>8, CommitSupply

\* A coin is made out of a part of an address balance.
LEMMA WithdrawSupply ==
    ASSUME LedgerBooks, Withdraw
    PROVE  CapsRight(state') /\ SupplyRight(state', writes + 1)
<1>0. PICK id \in Fresh(state), a \in Account :
         \E amount \in 1 .. state.address_balances[a] :
            CommitEffects(One(id, Coin(a[2], a[1], amount)), {},
               One(a, [operation |-> "Split", amount |-> amount]))
  BY DEF Withdraw
<1>1. PICK amount \in 1 .. state.address_balances[a] :
         CommitEffects(One(id, Coin(a[2], a[1], amount)), {},
            One(a, [operation |-> "Split", amount |-> amount]))
  BY <1>0
<1>. DEFINE data == Coin(a[2], a[1], amount)
            event == [operation |-> "Split", amount |-> amount]
            objects == One(id, data)
            events == One(a, event)
<1>2. /\ amount \in Nat /\ amount =< state.address_balances[a]
      /\ id \in ObjectID /\ ~Exists(state, id)
      /\ a[1] \in Owner /\ a[2] \in Type /\ a = <<a[1], a[2]>>
  BY AccountAssumption DEF LedgerBooks, Sound, Fresh
<1>3. /\ event.amount = amount /\ event.operation = "Split"
      /\ data.kind = "coin" /\ data.type = a[2] /\ data.value = amount
      /\ GoodData(data)
  BY <1>2, CoinGood DEF Coin
<1>. HIDE DEF event, data
<1>4. /\ DOMAIN events = {a} /\ events[a] = event
      /\ DOMAIN objects = {id} /\ objects[id] = data
  BY OneNamed
<1>5. GoodEffects(objects, {}, events)
  BY <1>2, <1>3, <1>4, OneGood
<1>6. Natural(objects)
  BY <1>3, <1>4 DEF Natural
<1>7. CommitEffects(objects, {}, events)
  BY <1>1 DEF event, data
<1>. HIDE DEF events, objects
<1>8. ASSUME NEW c \in Caps(state')
      PROVE  Books(state', c, Current(state, c).data.type, id, a[1])
  <2>. DEFINE type == Current(state, c).data.type
              owner == a[1]
  <2>1. /\ c \in Caps(state)
        /\ Current(state', c).data.value = IF c \in DOMAIN objects THEN objects[c].value
                                           ELSE Current(state, c).data.value
    BY <1>5, <1>6, <1>7, CapBefore DEF LedgerBooks
  <2>2. Current(state', c).data.value = Current(state, c).data.value
    BY <1>2, <1>4, <2>1 DEF Caps, IsKind
  <2>3. type \in Type /\ Current(state, c).data.value \in Int
    BY <2>1, AssetAt DEF LedgerBooks, GoodData
  <2>. HIDE DEF type
  <2>4. Worth(state, type, id) = 0
    BY <1>2 DEF Worth, IsCoinOf, IsKind
  <2>5. \A i \in ObjectID : Worth(state', type, i) =
           IF i \in DOMAIN objects THEN DataWorth(type, objects[i]) ELSE Worth(state, type, i)
    BY <1>5, <1>7, CommitWorth DEF LedgerBooks
  <2>6. /\ \A i \in ObjectID \ {id} : Worth(state', type, i) = Worth(state, type, i)
        /\ Worth(state', type, id) = IF a[2] = type THEN amount ELSE 0
    BY <1>2, <1>3, <1>4, <2>5 DEF DataWorth
  <2>7. \A o \in Owner : Balances(state', type)[o] =
           apply_accumulator_event(Balances(state, type)[o], EventOf(events, <<o, type>>))
    BY <1>5, <1>7, <2>3, CommitWorth DEF LedgerBooks
  <2>8. \A o \in Owner : <<o, type>> # a =>
           Balances(state', type)[o] = Balances(state, type)[o]
    <3>. SUFFICES ASSUME NEW o \in Owner, <<o, type>> # a
                  PROVE  Balances(state', type)[o] = Balances(state, type)[o]
      OBVIOUS
    <3>1. <<o, type>> \notin DOMAIN events
      BY <1>4
    <3>2. apply_accumulator_event(Balances(state, type)[o], EventOf(events, <<o, type>>))
             = Balances(state, type)[o]
      BY <3>1, NoEvent
    <3>. QED BY <2>7, <3>2
  <2>9. \A o \in Owner \ {owner} : Balances(state', type)[o] = Balances(state, type)[o]
    BY <1>2, <2>8
  <2>10. owner \in Owner /\ Balances(state, type)[owner] \in Nat
    BY <1>2, <2>3, WorthsTyped DEF LedgerBooks
  <2>11. Balances(state', type)[owner] + Worth(state', type, id)
            = Balances(state, type)[owner]
    <3>1. CASE a[2] = type
      <4>1. <<owner, type>> = a
        BY <1>2, <3>1
      <4>2. EventOf(events, <<owner, type>>) = event
        BY <1>4, <4>1 DEF EventOf
      <4>3. Balances(state', type)[owner]
               = apply_accumulator_event(Balances(state, type)[owner], event)
        BY <2>7, <2>10, <4>2
      <4>4. amount =< Balances(state, type)[owner]
        BY <1>2, <2>10, <4>1 DEF Balances
      <4>. QED BY <1>2, <1>3, <2>6, <2>10, <3>1, <4>3, <4>4 DEF apply_accumulator_event
    <3>2. CASE a[2] # type
      BY <1>2, <2>6, <2>8, <2>10, <3>2
    <3>. QED BY <3>1, <3>2
  <2>12. Worth(state', type, id) \in Nat
    BY <1>2, <2>6
  <2>13. Books(state', c, type, id, owner)
    <3>1. Balances(state', type)[owner] \in Int
      <4>1. Sound(state')
        BY <1>5, <1>7, CommitSound DEF LedgerBooks
      <4>. QED BY <2>3, <2>10, <4>1, WorthsTyped
    <3>. QED BY <2>2, <2>3, <2>4, <2>6, <2>9, <2>10, <2>11, <2>12, <3>1 DEF Books
  <2>. QED BY <2>13 DEF type
<1>. QED BY <1>2, <1>5, <1>6, <1>7, <1>8, CommitSupply

\* A type has at most one cap.
LEMMA OneCapOfAType ==
    ASSUME CapsRight(state), NEW c \in Caps(state), NEW k \in Caps(state),
           Current(state, c).data.type = Current(state, k).data.type
    PROVE  c = k
BY SupplyAssumption DEF CapsRight

\* A cap is worth nothing itself, and it is an integer what it counts.
LEMMA CapAt ==
    ASSUME Sound(state), NEW k \in Caps(state), NEW type
    PROVE  /\ k \in ObjectID /\ Exists(state, k) /\ GoodData(Current(state, k).data)
           /\ Current(state, k).data.kind = "cap"
           /\ Current(state, k).data.value \in Int /\ Current(state, k).data.type \in Type
           /\ Worth(state, type, k) = 0
BY AssetAt DEF GoodData, Caps, IsKind, Worth, IsCoinOf

\* A coin is minted, which the cap counts.
LEMMA MintSupply ==
    ASSUME LedgerBooks, Mint
    PROVE  CapsRight(state') /\ SupplyRight(state', writes + 1)
<1>1. PICK k \in Caps(state), id \in Fresh(state), to \in Owner :
         CommitEffects([x \in {k, id} |->
            IF x = id THEN Coin(Current(state, k).data.type, to, 1)
            ELSE [Current(state, k).data EXCEPT !.value = @ + 1]], {}, Nothing)
  BY DEF Mint
<1>. DEFINE treasury == Current(state, k).data
            coin == Coin(treasury.type, to, 1)
            cap == [treasury EXCEPT !.value = @ + 1]
            objects == [x \in {k, id} |-> IF x = id THEN coin ELSE cap]
<1>2. /\ k \in ObjectID /\ Exists(state, k) /\ GoodData(treasury) /\ treasury.kind = "cap"
      /\ treasury.value \in Int /\ treasury.type \in Type
      /\ id \in ObjectID /\ ~Exists(state, id) /\ k # id
  BY CapAt DEF LedgerBooks, Fresh
<1>. HIDE DEF treasury
<1>3. /\ cap.kind = "cap" /\ cap.type = treasury.type /\ cap.value = treasury.value + 1
      /\ GoodData(cap)
      /\ coin.kind = "coin" /\ coin.type = treasury.type /\ coin.value = 1
      /\ GoodData(coin)
  <2>1. GoodData(cap) /\ GoodData(coin)
    BY <1>2, CoinGood, OtherSupply
  <2>. QED BY <1>2, <2>1 DEF Coin, GoodData
<1>. HIDE DEF cap, coin
<1>4. DOMAIN objects = {k, id} /\ objects[k] = cap /\ objects[id] = coin
  BY <1>2
<1>5. GoodEffects(objects, {}, Nothing)
  BY <1>2, <1>3, <1>4, NoEvents DEF GoodEffects
<1>6. Natural(objects)
  BY <1>2, <1>3, <1>4 DEF Natural, treasury
<1>7. CommitEffects(objects, {}, Nothing)
  BY <1>1 DEF cap, coin, treasury
<1>. HIDE DEF objects
<1>8. ASSUME NEW c \in Caps(state')
      PROVE  Books(state', c, Current(state, c).data.type, id, to)
  <2>. DEFINE type == Current(state, c).data.type
  <2>1. /\ c \in Caps(state)
        /\ Current(state', c).data.value = IF c \in DOMAIN objects THEN objects[c].value
                                           ELSE Current(state, c).data.value
    BY <1>5, <1>6, <1>7, CapBefore DEF LedgerBooks
  <2>2. type \in Type /\ Current(state, c).data.value \in Int /\ Exists(state, c)
    BY <2>1, CapAt DEF LedgerBooks
  <2>3. c # id
    BY <1>2, <2>2
  <2>4. IF c = k THEN type = treasury.type ELSE type # treasury.type
    BY <2>1, OneCapOfAType DEF LedgerBooks, treasury
  <2>5. Current(state', c).data.value
           = IF c = k THEN Current(state, c).data.value + 1 ELSE Current(state, c).data.value
    BY <1>3, <1>4, <2>1, <2>3 DEF treasury
  <2>. HIDE DEF type
  <2>6. \A i \in ObjectID : Worth(state', type, i) =
           IF i \in DOMAIN objects THEN DataWorth(type, objects[i]) ELSE Worth(state, type, i)
    BY <1>5, <1>7, CommitWorth DEF LedgerBooks
  <2>7. Worth(state, type, k) = 0 /\ DataWorth(type, cap) = 0
    BY <1>3, CapAt DEF LedgerBooks, DataWorth
  <2>8. Worth(state, type, id) = 0
    BY <1>2 DEF Worth, IsCoinOf, IsKind
  <2>9. /\ \A i \in ObjectID \ {id} : Worth(state', type, i) = Worth(state, type, i)
        /\ Worth(state', type, id) = IF c = k THEN 1 ELSE 0
    BY <1>2, <1>3, <1>4, <2>4, <2>6, <2>7 DEF DataWorth
  <2>10. \A o \in Owner : Balances(state', type)[o] = Balances(state, type)[o]
    BY <1>5, <1>7, <2>2, NoBalance DEF LedgerBooks
  <2>11. Balances(state, type)[to] \in Nat
    BY <2>2, WorthsTyped DEF LedgerBooks
  <2>12. Books(state', c, type, id, to)
    BY <2>2, <2>5, <2>8, <2>9, <2>10, <2>11 DEF Books
  <2>. QED BY <2>12 DEF type
<1>. QED BY <1>2, <1>5, <1>6, <1>7, <1>8, CommitSupply

\* A coin is burned, which the cap counts.
LEMMA BurnSupply ==
    ASSUME LedgerBooks, Burn
    PROVE  CapsRight(state') /\ SupplyRight(state', writes + 1)
<1>1. PICK k \in Caps(state), id \in Coins(state) :
         /\ Current(state, id).data.type = Current(state, k).data.type
         /\ CommitEffects(One(k, [Current(state, k).data EXCEPT
                                     !.value = @ - Current(state, id).data.value]),
                          {id}, Nothing)
  BY DEF Burn
<1>. DEFINE treasury == Current(state, k).data
            value == Current(state, id).data.value
            owner == Current(state, id).data.owner
            cap == [treasury EXCEPT !.value = @ - value]
            objects == One(k, cap)
<1>2. /\ k \in ObjectID /\ Exists(state, k) /\ GoodData(treasury) /\ treasury.kind = "cap"
      /\ treasury.value \in Int /\ treasury.type \in Type
      /\ id \in ObjectID /\ Exists(state, id) /\ Current(state, id).data.kind = "coin"
      /\ value \in Nat /\ owner \in Owner
      /\ Current(state, id).data.type = treasury.type
  <2>1. id \in ObjectID /\ Exists(state, id) /\ Current(state, id).data.kind = "coin"
        /\ GoodData(Current(state, id).data)
    BY AssetAt DEF LedgerBooks, Coins, IsKind
  <2>. QED BY <1>1, <2>1, CapAt DEF LedgerBooks, GoodData
<1>3. k # id
  BY <1>2
<1>. HIDE DEF treasury, value, owner
<1>4. cap.kind = "cap" /\ cap.type = treasury.type /\ cap.value = treasury.value - value
      /\ GoodData(cap)
  <2>1. GoodData(cap)
    BY <1>2, OtherSupply
  <2>. QED BY <1>2, <2>1 DEF GoodData
<1>. HIDE DEF cap
<1>5. DOMAIN objects = {k} /\ objects[k] = cap
  BY OneNamed
<1>6. GoodEffects(objects, {id}, Nothing)
  BY <1>2, <1>4, OneGood, NoEvents
<1>7. Natural(objects)
  BY <1>2, <1>4, <1>5 DEF Natural, treasury
<1>8. CommitEffects(objects, {id}, Nothing)
  BY <1>1 DEF cap, treasury, value
<1>. HIDE DEF objects
<1>9. ASSUME NEW c \in Caps(state')
      PROVE  Books(state', c, Current(state, c).data.type, id, owner)
  <2>. DEFINE type == Current(state, c).data.type
  <2>1. /\ c \in Caps(state)
        /\ Current(state', c).data.value = IF c \in DOMAIN objects THEN objects[c].value
                                           ELSE Current(state, c).data.value
    BY <1>6, <1>7, <1>8, CapBefore DEF LedgerBooks
  <2>2. type \in Type /\ Current(state, c).data.value \in Int
    BY <2>1, CapAt DEF LedgerBooks
  <2>3. IF c = k THEN type = treasury.type ELSE type # treasury.type
    BY <2>1, OneCapOfAType DEF LedgerBooks, treasury
  <2>4. Current(state', c).data.value
           = IF c = k THEN Current(state, c).data.value - value
             ELSE Current(state, c).data.value
    BY <1>4, <1>5, <2>1 DEF treasury
  <2>. HIDE DEF type
  <2>5. \A i \in ObjectID : Worth(state', type, i) =
           IF i \in {id} THEN 0
           ELSE IF i \in DOMAIN objects THEN DataWorth(type, objects[i])
           ELSE Worth(state, type, i)
    BY <1>6, <1>8, CommitWorth DEF LedgerBooks
  <2>6. Worth(state, type, k) = 0 /\ DataWorth(type, cap) = 0
    BY <1>4, CapAt DEF LedgerBooks, DataWorth
  <2>7. Worth(state, type, id) = IF c = k THEN value ELSE 0
    BY <1>2, <2>3 DEF Worth, IsCoinOf, IsKind, value
  <2>8. /\ \A i \in ObjectID \ {id} : Worth(state', type, i) = Worth(state, type, i)
        /\ Worth(state', type, id) = 0
    BY <1>2, <1>5, <2>5, <2>6
  <2>9. \A o \in Owner : Balances(state', type)[o] = Balances(state, type)[o]
    BY <1>6, <1>8, <2>2, NoBalance DEF LedgerBooks
  <2>10. Balances(state, type)[owner] \in Nat
    BY <1>2, <2>2, WorthsTyped DEF LedgerBooks
  <2>11. Books(state', c, type, id, owner)
    BY <1>2, <2>2, <2>4, <2>7, <2>8, <2>9, <2>10 DEF Books
  <2>. QED BY <2>11 DEF type
<1>. QED BY <1>2, <1>6, <1>7, <1>8, <1>9, CommitSupply

\* A cap is wrapped or deleted: the others count what they counted.
LEMMA WrapSupply ==
    ASSUME LedgerBooks, Wrap
    PROVE  CapsRight(state') /\ SupplyRight(state', writes + 1)
<1>1. PICK k \in Caps(state) : CommitEffects(Nothing, {k}, Nothing)
  BY DEF Wrap
<1>. DEFINE owner == Current(state, k).data.owner
<1>2. k \in ObjectID /\ owner \in Owner
  BY CapAt DEF LedgerBooks, GoodData
<1>. HIDE DEF owner
<1>3. GoodEffects(Nothing, {k}, Nothing) /\ Natural(Nothing)
  BY NothingGood, NoEvents, NothingNamed DEF Natural
<1>4. ASSUME NEW c \in Caps(state')
      PROVE  Books(state', c, Current(state, c).data.type, k, owner)
  <2>. DEFINE type == Current(state, c).data.type
  <2>1. /\ c \in Caps(state)
        /\ Current(state', c).data.value = Current(state, c).data.value
    BY <1>1, <1>3, CapBefore, NothingNamed DEF LedgerBooks
  <2>2. type \in Type /\ Current(state, c).data.value \in Int
    BY <2>1, CapAt DEF LedgerBooks
  <2>. HIDE DEF type
  <2>3. \A i \in ObjectID : Worth(state', type, i) =
           IF i \in {k} THEN 0 ELSE Worth(state, type, i)
    BY <1>1, <1>3, CommitWorth, NothingNamed DEF LedgerBooks
  <2>4. Worth(state, type, k) = 0
    BY CapAt DEF LedgerBooks
  <2>5. \A i \in ObjectID : Worth(state', type, i) = Worth(state, type, i)
    BY <2>3, <2>4
  <2>6. \A o \in Owner : Balances(state', type)[o] = Balances(state, type)[o]
    BY <1>1, <1>3, <2>2, NoBalance DEF LedgerBooks
  <2>7. Balances(state, type)[owner] \in Nat
    BY <1>2, <2>2, WorthsTyped DEF LedgerBooks
  <2>8. Books(state', c, type, k, owner)
    BY <1>2, <2>1, <2>2, <2>4, <2>5, <2>6, <2>7 DEF Books
  <2>. QED BY <2>8 DEF type
<1>. QED BY <1>1, <1>2, <1>3, <1>4, CommitSupply

\* A supply within bounds after some writes is within those of more.
LEMMA SupplyLater ==
    ASSUME NEW s, Sound(s), CapsRight(s), NEW w \in Nat, SupplyRight(s, w)
    PROVE  SupplyRight(s, w + 1)
<1>1. ASSUME NEW c \in Caps(s)
      PROVE  Current(s, c).data.value \in Int /\ Current(Default, c).data.value \in Int
  BY ForkPoint DEF CapsRight, Sound, Caps, IsKind, GoodData
<1>. QED BY <1>1 DEF SupplyRight

\* The supplies are right at the fork point.
LEMMA ForkPointSupply ==
    CapsRight(Default) /\ \A w \in Nat : SupplyRight(Default, w)
<1>1. CapsRight(Default)
  BY DEF CapsRight, Default
<1>2. ASSUME NEW w \in Nat, NEW c \in Caps(Default)
      PROVE  /\ Current(Default, c).data.value
                   = Circulation(Default, Current(Default, c).data.type)
             /\ Current(Default, c).data.value =< Current(Default, c).data.value + w
  <2>1. Current(Default, c).data.value \in Int
    BY ForkPoint DEF Sound, Caps, IsKind, GoodData
  <2>. QED BY <2>1, SupplyAssumption
<1>. QED BY <1>1, <1>2 DEF SupplyRight

SupplyInv ==
    /\ LedgerSound
    /\ LedgerBooks
    /\ saved # None => CapsRight(saved) /\ SupplyRight(saved, writes)

\* Every write keeps the supplies right.
LEMMA WriteSupply ==
    ASSUME SupplyInv, Write
    PROVE  SupplyInv'
<1>1. LedgerSound'
  BY WriteSound DEF SupplyInv
<1>2. writes \in Nat /\ writes =< MaxWrites /\ MaxWrites \in Nat
  BY WritesAssumption DEF SupplyInv, LedgerBooks
<1>3. saved # None => SupplyRight(saved, writes + 1)
  BY <1>2, SupplyLater DEF SupplyInv, LedgerSound
<1>4. CASE Transact
  <2>1. CapsRight(state') /\ SupplyRight(state', writes + 1)
    BY <1>4, TransferSupply, DepositSupply, WithdrawSupply, MintSupply, BurnSupply,
       WrapSupply DEF Transact, SupplyInv
  <2>2. writes' = writes + 1 /\ writes' \in Nat /\ writes' =< MaxWrites /\ saved' = saved
    BY <1>2, <1>4 DEF Transact, Restrained
  <2>. QED BY <1>1, <1>3, <2>1, <2>2 DEF SupplyInv, LedgerBooks, LedgerSound
<1>5. CASE TakeSnapshot
  BY <1>1, <1>5 DEF TakeSnapshot, SupplyInv, LedgerBooks, LedgerSound
<1>6. CASE Rollback
  <2>1. writes' = writes + 1 /\ writes' \in Nat /\ writes' =< MaxWrites
    BY <1>2, <1>6 DEF Rollback, Restrained
  <2>. QED BY <1>1, <1>3, <1>6, <2>1, ForkPointSupply
       DEF Rollback, SupplyInv, LedgerBooks, LedgerSound
<1>. QED BY <1>4, <1>5, <1>6 DEF Write

CapsOfOverlay(s, type) ==
    {o \in overlay_objects(s) : ~IsCoin(o) /\ o.data.type = type}

\* The cap of the overlay, or mainnet's where the overlay has none, counts what
\* circulates.
LEMMA InfoAnswer ==
    ASSUME NEW s, Sound(s), CapsRight(s), NEW w, SupplyRight(s, w), NEW type \in Type,
           MainnetCaps(type) \cap s.tombstones = {}
    PROVE  /\ \A o \in CapsOfOverlay(s, type) : o.data.value = Circulation(s, type)
           /\ CapsOfOverlay(s, type) = {} =>
                 \A id \in MainnetCaps(type) : OnNetwork[id].value = Circulation(s, type)
<1>1. ASSUME NEW o \in CapsOfOverlay(s, type)
      PROVE  o.data.value = Circulation(s, type)
  <2>1. PICK id \in ObjectID : o = s.objects[id] /\ o # None
    BY DEF CapsOfOverlay, overlay_objects
  <2>2. Current(s, id) = o
    BY <2>1, CurrentIs
  <2>3. GoodData(o.data) /\ ~IsCoin(o) /\ o.data.type = type
    BY <2>1, <2>2 DEF CapsOfOverlay, Sound, Exists
  <2>4. id \in Caps(s)
    BY <2>1, <2>2, <2>3 DEF Caps, IsKind, Exists, GoodData, IsCoin
  <2>. QED BY <2>2, <2>3, <2>4 DEF SupplyRight
<1>2. ASSUME CapsOfOverlay(s, type) = {}, NEW id \in MainnetCaps(type)
      PROVE  OnNetwork[id].value = Circulation(s, type)
  <2>1. id \in Caps(Default) /\ OnNetwork[id].type = type /\ id \notin s.tombstones
    BY DEF MainnetCaps
  <2>2. id \in Caps(s) /\ Current(s, id).data.type = Current(Default, id).data.type
    BY <2>1 DEF CapsRight
  <2>3. OnNetwork[id] = Current(Default, id).data
    <3>1. id \in ObjectID /\ Exists(Default, id) /\ Current(Default, id).data.owner \in Owner
      BY <2>1, ForkPoint DEF Caps, IsKind, Sound, GoodData
    <3>2. id \in Live[Current(Default, id).data.owner]
      BY <3>1 DEF Live, OwnedBy
    <3>. QED BY <3>1, <3>2, NetworkData
  <2>4. s.objects[id] = None
    <3>. SUFFICES ASSUME s.objects[id] # None PROVE FALSE
      OBVIOUS
    <3>1. Current(s, id) = s.objects[id] /\ id \in ObjectID
      BY <2>1, CurrentIs DEF Caps
    <3>2. s.objects[id] \in CapsOfOverlay(s, type)
      BY <2>1, <2>2, <2>3, <3>1 DEF CapsOfOverlay, overlay_objects, IsCoin, Caps, IsKind
    <3>. QED BY <1>2, <3>2
  <2>5. Current(s, id) = Current(Default, id)
    BY <2>1, <2>4, CurrentIs, ForkPoint DEF Caps
  <2>. QED BY <2>1, <2>2, <2>3, <2>5 DEF SupplyRight
<1>. QED BY <1>1, <1>2

\* GetCoinInfo, while nobody writes.
InfoOK(s, q) ==
    q.kind = "info" =>
        /\ q.pc \in {"network_info", "answered"} /\ q.type \in Type
        /\ q.pc = "network_info" => q.local = CapsOfOverlay(s, q.type)
        /\ q.pc = "answered" /\ MainnetCaps(q.type) \cap s.tombstones = {} =>
              q.out \subseteq {Circulation(s, q.type)}

InfoInv == ~changed => InfoOK(state, query)

\* Answering from the network preserves the invariant of GetCoinInfo.
LEMMA ReadNetworkInfoOK ==
    ASSUME QueryShape, SupplyInv, InfoOK(state, query), ReadNetworkInfo
    PROVE  InfoOK(state, query')
<1>. DEFINE out == IF query.local # {} THEN {o.data.value : o \in query.local}
                   ELSE {OnNetwork[id].value : id \in MainnetCaps(query.type)}
<1>1. query' = [query EXCEPT !.out = out, !.pc = "answered"] /\ query.pc = "network_info"
  BY DEF ReadNetworkInfo, Reads
<1>2. ASSUME query.kind = "info", MainnetCaps(query.type) \cap state.tombstones = {}
      PROVE  \A x \in out : x = Circulation(state, query.type)
  <2>1. query.type \in Type /\ query.local = CapsOfOverlay(state, query.type)
    BY <1>1, <1>2 DEF InfoOK
  <2>2. /\ \A o \in query.local : o.data.value = Circulation(state, query.type)
        /\ query.local = {} => \A id \in MainnetCaps(query.type) :
               OnNetwork[id].value = Circulation(state, query.type)
    BY <1>2, <2>1, InfoAnswer DEF SupplyInv, LedgerBooks
  <2>. QED BY <2>2
<1>. HIDE DEF out
<1>3. /\ query'.out = out /\ query'.pc = "answered" /\ query'.kind = query.kind
      /\ query'.type = query.type
  BY <1>1, Shape DEF Fields
<1>. QED BY <1>1, <1>2, <1>3 DEF InfoOK

\* Every step keeps the supplies, and the answers of GetCoinInfo, right.
LEMMA NextSupply ==
    QueryShape /\ SupplyInv /\ InfoInv /\ [Next]_vars => SupplyInv' /\ InfoInv'
<1>. SUFFICES ASSUME QueryShape, SupplyInv, InfoInv, [Next]_vars
              PROVE  SupplyInv' /\ InfoInv'
  OBVIOUS
<1>0. DOMAIN query = Fields
  BY Shape
<1>1. CASE Interfere
  <2>1. SupplyInv' /\ query' = query /\ (changed' <=> changed \/ state' # state)
    BY <1>1, WriteSupply DEF Interfere
  <2>. QED BY <2>1 DEF InfoInv
<1>2. CASE BeginInfo
  <2>1. PICK type \in Type :
           query' = [IdleQuery EXCEPT
              !.pc = "network_info", !.kind = "info", !.type = type,
              !.local = CapsOfOverlay(state, type)]
    BY <1>2 DEF BeginInfo, CapsOfOverlay
  <2>2. /\ query'.pc = "network_info" /\ query'.kind = "info" /\ query'.type = type
        /\ query'.local = CapsOfOverlay(state, type)
    BY <2>1 DEF IdleQuery
  <2>. QED BY <1>2, <2>2 DEF BeginInfo, Begin, ledger, SupplyInv, LedgerSound, LedgerBooks,
                             InfoInv, InfoOK
<1>3. CASE ReadNetworkInfo
  BY <1>3, ReadNetworkInfoOK DEF ReadNetworkInfo, Reads, ledger, SupplyInv, LedgerSound,
                                 LedgerBooks, InfoInv
<1>4. CASE BeginBalance \/ BeginBalances \/ BeginFields \/ NetworkFails \/ Answer
  <2>1. query'.kind # "info"
    <3>1. CASE BeginBalance
      BY <3>1 DEF BeginBalance, IdleQuery
    <3>2. CASE BeginBalances
      BY <3>2 DEF BeginBalances, IdleQuery
    <3>3. CASE BeginFields
      <4>1. PICK owner, limit, full, page :
               query' = [IdleQuery EXCEPT
                  !.pc = IF full THEN "answered" ELSE "network_fields",
                  !.kind = "fields", !.owner = owner, !.limit = limit,
                  !.local = page]
        BY <3>3, Zenon DEF BeginFields
      <4>. QED BY <4>1 DEF IdleQuery
    <3>4. CASE NetworkFails \/ Answer
      BY <3>4 DEF NetworkFails, Answer, IdleQuery
    <3>. QED BY <1>4, <3>1, <3>2, <3>3, <3>4
  <2>2. UNCHANGED ledger
    BY <1>4 DEF BeginBalance, BeginBalances, BeginFields, NetworkFails, Answer, Begin, Reads
  <2>. QED BY <2>1, <2>2 DEF ledger, SupplyInv, LedgerSound, LedgerBooks, InfoInv, InfoOK
<1>5. CASE \/ ReadTouched \/ ReadNetworkCoins \/ ReadAddressBalance
           \/ ReadAddressTypes \/ ReadNetworkTypes \/ NextType \/ ReadNetworkFields
  <2>1. query'.kind = query.kind
    BY <1>0, <1>5 DEF ReadTouched, ReadNetworkCoins, ReadAddressBalance, ReadAddressTypes,
                      ReadNetworkTypes, NextType, ReadNetworkFields, Fields
  <2>2. query.pc \notin {"network_info", "answered"} /\ UNCHANGED <<ledger, changed>>
    BY <1>5 DEF ReadTouched, ReadNetworkCoins, ReadAddressBalance, ReadAddressTypes,
                ReadNetworkTypes, NextType, ReadNetworkFields, Reads
  <2>. QED BY <2>1, <2>2 DEF ledger, SupplyInv, LedgerSound, LedgerBooks, InfoInv, InfoOK
<1>6. CASE UNCHANGED vars
  BY <1>6 DEF vars, ledger, SupplyInv, LedgerSound, LedgerBooks, InfoInv
<1>. QED BY <1>1, <1>2, <1>3, <1>4, <1>5, <1>6 DEF Next, Done

\* The supply GetCoinInfo reports, when nothing was written meanwhile, is what
\* circulates on the fork, whatever was minted, burned, moved or rolled back.
THEOREM SupplyIsCirculation == Spec => []QuietSupplyIsCirculation
<1>1. Init => SupplyInv /\ InfoInv
  <2>1. 0 \in Nat /\ 0 =< MaxWrites
    BY WritesAssumption
  <2>. QED BY <2>1, ForkPoint, ForkPointSupply
       DEF Init, LedgerInit, SupplyInv, LedgerSound, LedgerBooks, InfoInv, InfoOK, IdleQuery
<1>2. InfoInv => QuietSupplyIsCirculation
  BY DEF InfoInv, InfoOK, QuietSupplyIsCirculation, Answered
<1>3. Inv => QueryShape
  BY DEF Inv
<1>. QED BY <1>1, <1>2, <1>3, SpecInv, NextSupply, PTL DEF Spec
=============================================================================
