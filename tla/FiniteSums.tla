----------------------------- MODULE FiniteSums -----------------------------
(***************************************************************************)
(* Facts about sums over finite sets, SumFunctionOnSet(f, S) of the        *)
(* community module Functions: the totals that the models compare (bytes   *)
(* on their way, bytes counted per connection, shares of the sockets).     *)
(***************************************************************************)
EXTENDS Integers, Functions, FiniteSets, FiniteSetTheorems, WellFoundedInduction, TLAPS

(* Among the subsets of a finite set that are in B there is one that none  *)
(* of its elements can be taken from without leaving B.                    *)
LEMMA MinimalSubset ==
    ASSUME NEW S, IsFiniteSet(S), NEW B \in SUBSET (SUBSET S), B # {}
    PROVE  \E T \in B : \A x \in T : T \ {x} \notin B
  <1>1. B \subseteq FiniteSubsetsOf(S)
    BY FS_Subset DEF FiniteSubsetsOf
  <1>2. PICK T \in B : \A U \in B : <<U, T>> \notin StrictSubsetOrdering(S)
    BY <1>1, FS_StrictSubsetOrderingWellFounded, WFMin
  <1>3. ASSUME NEW x \in T, T \ {x} \in B PROVE FALSE
    <2>1. T \ {x} \subseteq T /\ T \ {x} # T /\ T \ {x} \in SUBSET S /\ T \in SUBSET S
      BY <1>3
    <2>2. <<T \ {x}, T>> \in StrictSubsetOrdering(S)
      BY <2>1 DEF StrictSubsetOrdering
    <2> QED
      BY <1>2, <1>3, <2>2
  <1> QED
    BY <1>2, <1>3

-----------------------------------------------------------------------------
(* The recursive function behind the sum, and the element it takes next.   *)
First(s) == CHOOSE x \in s : TRUE
IsSum(iter, f, S) ==
    iter = [s \in SUBSET S |-> IF s = {} THEN 0 ELSE f[First(s)] + iter[s \ {First(s)}]]

LEMMA SumUnfolded ==
    ASSUME NEW f, NEW S
    PROVE  SumFunctionOnSet(f, S) = (CHOOSE iter : IsSum(iter, f, S))[S]
  BY DEF SumFunctionOnSet, FoldFunctionOnSet, MapThenFoldSet, IsSum, First

LEMMA FirstIn ==
    ASSUME NEW s, s # {}
    PROVE  First(s) \in s
  BY DEF First

(* Two such functions agree where both are defined. *)
LEMMA SumsAgree ==
    ASSUME NEW f, NEW S, IsFiniteSet(S), NEW T \in SUBSET S,
           NEW g, NEW h, IsSum(g, f, S), IsSum(h, f, T)
    PROVE  \A s \in SUBSET T : g[s] = h[s]
  <1> DEFINE B == {s \in SUBSET T : g[s] # h[s]}
  <1> SUFFICES ASSUME B # {} PROVE FALSE
    OBVIOUS
  <1>1. IsFiniteSet(T)
    BY FS_Subset
  <1>2. PICK s \in B : \A x \in s : s \ {x} \notin B
    BY <1>1, MinimalSubset
  <1>3. s \in SUBSET S /\ s \in SUBSET T
    OBVIOUS
  <1>4. s # {}
    BY <1>2, <1>3 DEF IsSum
  <1>5. First(s) \in s
    BY <1>4, FirstIn
  <1>6. g[s \ {First(s)}] = h[s \ {First(s)}]
    BY <1>2, <1>3, <1>5
  <1>7. /\ g[s] = f[First(s)] + g[s \ {First(s)}]
        /\ h[s] = f[First(s)] + h[s \ {First(s)}]
    BY <1>3, <1>4 DEF IsSum
  <1> QED
    BY <1>2, <1>6, <1>7

(* It exists for every finite set. *)
LEMMA SumExists ==
    ASSUME NEW f, NEW S, IsFiniteSet(S)
    PROVE  \E g : IsSum(g, f, S)
  <1> DEFINE B == {T \in SUBSET S : ~ \E g : IsSum(g, f, T)}
             G(T) == CHOOSE g : IsSum(g, f, T)
  <1> SUFFICES ASSUME B # {} PROVE FALSE
    OBVIOUS
  <1>1. PICK T \in B : \A x \in T : T \ {x} \notin B
    BY MinimalSubset
  <1>2. T \in SUBSET S /\ IsFiniteSet(T) /\ ~ \E g : IsSum(g, f, T)
    BY FS_Subset
  <1>3. T # {}
    <2>1. ASSUME T = {} PROVE IsSum([s \in SUBSET T |-> 0], f, T)
      BY <2>1 DEF IsSum
    <2> QED
      BY <1>2, <2>1
  <1> DEFINE U == T \ {First(T)}
  <1>4. First(T) \in T
    BY <1>3, FirstIn
  <1>5. U \in SUBSET S /\ IsFiniteSet(U) /\ T \notin SUBSET U
    BY <1>2, <1>4, FS_Subset
  <1> DEFINE g == [s \in SUBSET T |-> IF s = {} THEN 0 ELSE f[First(s)] + G(s \ {First(s)})[s \ {First(s)}]]
  <1>6. ASSUME NEW s \in SUBSET T, s # T PROVE IsSum(G(s), f, s)
    <2>1. PICK x \in T : x \notin s
      BY <1>6
    <2>2. PICK h : IsSum(h, f, T \ {x})
      BY <1>1, <1>2
    <2> DEFINE k == [r \in SUBSET s |-> h[r]]
    <2>3. IsSum(k, f, s)
      <3>1. SUBSET s \subseteq SUBSET (T \ {x})
        BY <1>6, <2>1
      <3>2. ASSUME NEW r \in SUBSET s
            PROVE  h[r] = IF r = {} THEN 0 ELSE f[First(r)] + k[r \ {First(r)}]
        <4>1. r \in SUBSET (T \ {x}) /\ r \ {First(r)} \in SUBSET s
          BY <3>1
        <4>2. h[r] = IF r = {} THEN 0 ELSE f[First(r)] + h[r \ {First(r)}]
          BY <2>2, <4>1 DEF IsSum
        <4> QED
          BY <4>1, <4>2
      <3> HIDE DEF k
      <3>3. k = [r \in SUBSET s |-> h[r]]
        BY DEF k
      <3> QED
        BY <3>2, <3>3 DEF IsSum
    <2> QED
      BY <2>3
  <1>7. ASSUME NEW s \in SUBSET T, s # {} PROVE s \ {First(s)} \in SUBSET T /\ s \ {First(s)} # T
    BY <1>7, FirstIn
  <1>8. ASSUME NEW s \in SUBSET T, s # T PROVE g[s] = G(s)[s]
    <2>1. CASE s = {}
      <3>1. IsSum(G(s), f, s) /\ s \in SUBSET s
        BY <1>6, <1>8
      <3> HIDE DEF G
      <3> QED
        BY <2>1, <3>1 DEF IsSum
    <2>2. CASE s # {}
      <3> DEFINE r == s \ {First(s)}
      <3>1. r \in SUBSET s /\ r \in SUBSET T /\ r # T
        BY <1>7, <2>2
      <3>2. IsSum(G(s), f, s) /\ IsSum(G(r), f, r)
        BY <1>6, <1>8, <3>1
      <3>3. IsFiniteSet(s)
        BY <1>2, FS_Subset
      <3> HIDE DEF G
      <3> DEFINE gs == G(s)  gr == G(r)
      <3>4. IsSum(gs, f, s) /\ IsSum(gr, f, r)
        BY <3>2
      <3> HIDE DEF gs, gr, r
      <3>a. \A q \in SUBSET r : gs[q] = gr[q]
        BY <3>1, <3>3, <3>4, SumsAgree
      <3>b. gs[r] = gr[r]
        BY <3>a
      <3>5. gs[s] = f[First(s)] + gs[r]
        BY <2>2, <3>4 DEF IsSum, r
      <3> QED
        BY <2>2, <3>b, <3>5 DEF gs, gr, r
    <2> QED
      BY <2>1, <2>2
  <1>9. IsSum(g, f, T)
    <2>1. ASSUME NEW s \in SUBSET T, s # {}
          PROVE  g[s] = f[First(s)] + g[s \ {First(s)}]
      <3>1. s \ {First(s)} \in SUBSET T /\ s \ {First(s)} # T
        BY <1>7, <2>1
      <3>2. g[s \ {First(s)}] = G(s \ {First(s)})[s \ {First(s)}]
        BY <1>8, <3>1
      <3> QED
        BY <2>1, <3>2
    <2>2. ASSUME NEW s \in SUBSET T, s = {} PROVE g[s] = 0
      BY <2>2
    <2>3. DOMAIN g = SUBSET T /\ g = [s \in SUBSET T |-> g[s]]
      OBVIOUS
    <2> HIDE DEF g
    <2> QED
      BY <2>1, <2>2, <2>3 DEF IsSum
  <1> QED
    BY <1>2, <1>9

-----------------------------------------------------------------------------
LEMMA SumIsSum ==
    ASSUME NEW f, NEW S, IsFiniteSet(S), NEW T \in SUBSET S,
           NEW g, IsSum(g, f, S)
    PROVE  SumFunctionOnSet(f, T) = g[T]
  <1>1. IsFiniteSet(T)
    BY FS_Subset
  <1> DEFINE h == CHOOSE iter : IsSum(iter, f, T)
  <1>2. IsSum(h, f, T)
    BY <1>1, SumExists
  <1>3. SumFunctionOnSet(f, T) = h[T]
    BY SumUnfolded
  <1> HIDE DEF h
  <1>4. \A s \in SUBSET T : g[s] = h[s]
    BY <1>2, SumsAgree
  <1> QED
    BY <1>3, <1>4

(* The sum over the empty set. *)
LEMMA SumEmpty ==
    ASSUME NEW f
    PROVE  SumFunctionOnSet(f, {}) = 0
  <1>1. IsFiniteSet({})
    BY FS_EmptySet
  <1>2. PICK g : IsSum(g, f, {})
    BY <1>1, SumExists
  <1>3. {} \in SUBSET {}
    OBVIOUS
  <1>4. SumFunctionOnSet(f, {}) = g[{}]
    BY <1>1, <1>2, <1>3, SumIsSum
  <1> QED
    BY <1>2, <1>3, <1>4 DEF IsSum

LEMMA SumFirst ==
    ASSUME NEW f, NEW S, IsFiniteSet(S), S # {}
    PROVE  /\ First(S) \in S
           /\ SumFunctionOnSet(f, S) = f[First(S)] + SumFunctionOnSet(f, S \ {First(S)})
  <1>1. First(S) \in S
    BY FirstIn
  <1>2. PICK g : IsSum(g, f, S)
    BY SumExists
  <1>3. S \ {First(S)} \in SUBSET S /\ S \in SUBSET S
    OBVIOUS
  <1>4. SumFunctionOnSet(f, S) = g[S] /\ SumFunctionOnSet(f, S \ {First(S)}) = g[S \ {First(S)}]
    BY <1>2, <1>3, SumIsSum
  <1>5. g[S] = f[First(S)] + g[S \ {First(S)}]
    BY <1>2, <1>3 DEF IsSum
  <1> QED
    BY <1>1, <1>4, <1>5

(* Sums of integers and of natural numbers. *)
LEMMA SumInt ==
    ASSUME NEW f, NEW S, IsFiniteSet(S), \A x \in S : f[x] \in Int
    PROVE  SumFunctionOnSet(f, S) \in Int
  <1> DEFINE B == {T \in SUBSET S : SumFunctionOnSet(f, T) \notin Int}
  <1> SUFFICES ASSUME B # {} PROVE FALSE
    OBVIOUS
  <1>1. PICK T \in B : \A x \in T : T \ {x} \notin B
    BY MinimalSubset
  <1>a. T # {}
    <2>1. SumFunctionOnSet(f, {}) = 0
      BY SumEmpty
    <2> QED
      BY <2>1
  <1>2. IsFiniteSet(T) /\ T # {}
    BY <1>a, FS_Subset
  <1>3. First(T) \in T /\ SumFunctionOnSet(f, T) = f[First(T)] + SumFunctionOnSet(f, T \ {First(T)})
    BY <1>2, SumFirst
  <1>4. T \ {First(T)} \in SUBSET S
    OBVIOUS
  <1>5. SumFunctionOnSet(f, T \ {First(T)}) \in Int /\ f[First(T)] \in Int
    BY <1>1, <1>3, <1>4
  <1> QED
    BY <1>3, <1>5

LEMMA SumNat ==
    ASSUME NEW f, NEW S, IsFiniteSet(S), \A x \in S : f[x] \in Nat
    PROVE  SumFunctionOnSet(f, S) \in Nat
  <1> DEFINE B == {T \in SUBSET S : SumFunctionOnSet(f, T) \notin Nat}
  <1> SUFFICES ASSUME B # {} PROVE FALSE
    OBVIOUS
  <1>1. PICK T \in B : \A x \in T : T \ {x} \notin B
    BY MinimalSubset
  <1>a. T # {}
    <2>1. SumFunctionOnSet(f, {}) = 0
      BY SumEmpty
    <2> QED
      BY <2>1
  <1>2. IsFiniteSet(T) /\ T # {}
    BY <1>a, FS_Subset
  <1>3. First(T) \in T /\ SumFunctionOnSet(f, T) = f[First(T)] + SumFunctionOnSet(f, T \ {First(T)})
    BY <1>2, SumFirst
  <1>4. T \ {First(T)} \in SUBSET S
    OBVIOUS
  <1>5. SumFunctionOnSet(f, T \ {First(T)}) \in Nat /\ f[First(T)] \in Nat
    BY <1>1, <1>3, <1>4
  <1> QED
    BY <1>3, <1>5

(* Any element may be taken out first. *)
LEMMA SumRemove ==
    ASSUME NEW f, NEW S, IsFiniteSet(S), \A x \in S : f[x] \in Int, NEW y \in S
    PROVE  SumFunctionOnSet(f, S) = f[y] + SumFunctionOnSet(f, S \ {y})
  <1> DEFINE B == {T \in SUBSET S : \E z \in T :
                    SumFunctionOnSet(f, T) # f[z] + SumFunctionOnSet(f, T \ {z})}
  <1> SUFFICES ASSUME B # {} PROVE FALSE
    OBVIOUS
  <1>1. PICK T \in B : \A x \in T : T \ {x} \notin B
    BY MinimalSubset
  <1>2. PICK z \in T : SumFunctionOnSet(f, T) # f[z] + SumFunctionOnSet(f, T \ {z})
    BY <1>1
  <1> DEFINE x == First(T)
  <1>3. IsFiniteSet(T) /\ T # {}
    BY <1>2, FS_Subset
  <1>4. x \in T /\ SumFunctionOnSet(f, T) = f[x] + SumFunctionOnSet(f, T \ {x})
    BY <1>3, SumFirst
  <1>5. x # z
    BY <1>2, <1>4
  <1> HIDE DEF x
  <1>6. /\ T \ {x} \in SUBSET S /\ T \ {x} \notin B /\ z \in T \ {x}
        /\ T \ {z} \in SUBSET S /\ T \ {z} \notin B /\ x \in T \ {z}
    BY <1>1, <1>4, <1>5
  <1>7. (T \ {x}) \ {z} = (T \ {z}) \ {x}
    OBVIOUS
  <1> DEFINE rest == SumFunctionOnSet(f, (T \ {z}) \ {x})
  <1>8. SumFunctionOnSet(f, T \ {x}) = f[z] + rest
    BY <1>6, <1>7
  <1>9. SumFunctionOnSet(f, T \ {z}) = f[x] + rest
    BY <1>6
  <1>10. f[x] \in Int /\ f[z] \in Int
    BY <1>4
  <1>11. rest \in Int
    <2>1. (T \ {z}) \ {x} \in SUBSET S
      OBVIOUS
    <2> QED
      BY <2>1, FS_Subset, SumInt
  <1> HIDE DEF rest
  <1>12. f[x] + (f[z] + rest) = f[z] + (f[x] + rest)
    BY <1>10, <1>11
  <1> QED
    BY <1>2, <1>4, <1>8, <1>9, <1>12

(* An element that is new to the set adds its value. *)
LEMMA SumInsert ==
    ASSUME NEW f, NEW S, IsFiniteSet(S), NEW y, y \notin S,
           f[y] \in Int, \A x \in S : f[x] \in Int
    PROVE  SumFunctionOnSet(f, S \cup {y}) = f[y] + SumFunctionOnSet(f, S)
  <1> DEFINE T == S \cup {y}
  <1>1. IsFiniteSet(T)
    BY FS_AddElement
  <1>2. y \in T /\ T \ {y} = S /\ \A x \in T : f[x] \in Int
    OBVIOUS
  <1> HIDE DEF T
  <1>3. SumFunctionOnSet(f, T) = f[y] + SumFunctionOnSet(f, T \ {y})
    BY <1>1, <1>2, SumRemove
  <1> QED
    BY <1>2, <1>3 DEF T

-----------------------------------------------------------------------------
(* Only the values on the set count. *)
LEMMA SumEqual ==
    ASSUME NEW f, NEW g, NEW S, IsFiniteSet(S), \A x \in S : f[x] = g[x]
    PROVE  SumFunctionOnSet(f, S) = SumFunctionOnSet(g, S)
  <1> DEFINE B == {T \in SUBSET S : SumFunctionOnSet(f, T) # SumFunctionOnSet(g, T)}
  <1> SUFFICES ASSUME B # {} PROVE FALSE
    OBVIOUS
  <1>1. PICK T \in B : \A x \in T : T \ {x} \notin B
    BY MinimalSubset
  <1>2. IsFiniteSet(T) /\ T # {}
    BY <1>1, FS_Subset, SumEmpty
  <1> DEFINE x == First(T)  U == T \ {x}
  <1>3. /\ x \in T
        /\ SumFunctionOnSet(f, T) = f[x] + SumFunctionOnSet(f, U)
        /\ SumFunctionOnSet(g, T) = g[x] + SumFunctionOnSet(g, U)
    BY <1>2, SumFirst
  <1>4. SumFunctionOnSet(f, U) = SumFunctionOnSet(g, U) /\ f[x] = g[x]
    BY <1>1, <1>3
  <1> QED
    BY <1>3, <1>4

(* A sum of sums, element by element. *)
LEMMA SumPlus ==
    ASSUME NEW f, NEW g, NEW h, NEW S, IsFiniteSet(S),
           \A x \in S : f[x] \in Int /\ g[x] \in Int /\ h[x] = f[x] + g[x]
    PROVE  SumFunctionOnSet(h, S) = SumFunctionOnSet(f, S) + SumFunctionOnSet(g, S)
  <1> DEFINE B == {T \in SUBSET S : SumFunctionOnSet(h, T)
                        # SumFunctionOnSet(f, T) + SumFunctionOnSet(g, T)}
  <1> SUFFICES ASSUME B # {} PROVE FALSE
    OBVIOUS
  <1>1. PICK T \in B : \A x \in T : T \ {x} \notin B
    BY MinimalSubset
  <1>a. T # {}
    <2>1. /\ SumFunctionOnSet(f, {}) = 0 /\ SumFunctionOnSet(g, {}) = 0
          /\ SumFunctionOnSet(h, {}) = 0
      BY SumEmpty
    <2>2. SumFunctionOnSet(h, {}) = SumFunctionOnSet(f, {}) + SumFunctionOnSet(g, {})
      BY <2>1
    <2> QED
      BY <2>2
  <1>2. IsFiniteSet(T) /\ T # {}
    BY <1>a, FS_Subset
  <1> DEFINE x == First(T)  U == T \ {x}
  <1>3. /\ x \in T
        /\ SumFunctionOnSet(f, T) = f[x] + SumFunctionOnSet(f, U)
        /\ SumFunctionOnSet(g, T) = g[x] + SumFunctionOnSet(g, U)
        /\ SumFunctionOnSet(h, T) = h[x] + SumFunctionOnSet(h, U)
    BY <1>2, SumFirst
  <1>4. SumFunctionOnSet(h, U) = SumFunctionOnSet(f, U) + SumFunctionOnSet(g, U)
    BY <1>1, <1>3
  <1>5. f[x] \in Int /\ g[x] \in Int /\ h[x] = f[x] + g[x]
    BY <1>3
  <1>6. SumFunctionOnSet(f, U) \in Int /\ SumFunctionOnSet(g, U) \in Int
    <2>1. IsFiniteSet(U) /\ U \subseteq S
      BY <1>2, FS_Subset
    <2> QED
      BY <2>1, SumInt
  <1> HIDE DEF U, x
  <1> QED
    BY <1>3, <1>4, <1>5, <1>6

(* The same value for every element. *)
LEMMA SumConstant ==
    ASSUME NEW f, NEW k \in Int, NEW S, IsFiniteSet(S), \A x \in S : f[x] = k
    PROVE  SumFunctionOnSet(f, S) = Cardinality(S) * k
  <1> DEFINE B == {T \in SUBSET S : SumFunctionOnSet(f, T) # Cardinality(T) * k}
  <1> SUFFICES ASSUME B # {} PROVE FALSE
    OBVIOUS
  <1>1. PICK T \in B : \A x \in T : T \ {x} \notin B
    BY MinimalSubset
  <1>a. T # {}
    <2>1. SumFunctionOnSet(f, {}) = 0 /\ Cardinality({}) = 0
      BY SumEmpty, FS_EmptySet
    <2>2. SumFunctionOnSet(f, {}) = Cardinality({}) * k
      BY <2>1
    <2> QED
      BY <2>2
  <1>2. IsFiniteSet(T) /\ T # {}
    BY <1>a, FS_Subset
  <1> DEFINE x == First(T)  U == T \ {x}
  <1>3. x \in T /\ SumFunctionOnSet(f, T) = f[x] + SumFunctionOnSet(f, U)
    BY <1>2, SumFirst
  <1>4. SumFunctionOnSet(f, U) = Cardinality(U) * k /\ f[x] = k
    BY <1>1, <1>3
  <1>5. Cardinality(T) \in Nat /\ Cardinality(U) = Cardinality(T) - 1
    BY <1>2, <1>3, FS_RemoveElement, FS_CardinalityType
  <1> HIDE DEF U, x
  <1> DEFINE n == Cardinality(T)
  <1>6. k + (n - 1) * k = n * k
    BY <1>5
  <1> QED
    BY <1>3, <1>4, <1>5, <1>6

(* The value of one element changes. *)
LEMMA SumChange ==
    ASSUME NEW f, NEW g, NEW S, IsFiniteSet(S), NEW y \in S,
           \A x \in S : f[x] \in Int /\ g[x] \in Int,
           \A x \in S \ {y} : g[x] = f[x]
    PROVE  SumFunctionOnSet(g, S) = SumFunctionOnSet(f, S) + g[y] - f[y]
  <1> DEFINE U == S \ {y}
  <1>1. IsFiniteSet(U)
    BY FS_Subset
  <1>2. SumFunctionOnSet(f, U) = SumFunctionOnSet(g, U)
    BY <1>1, SumEqual
  <1>3. SumFunctionOnSet(f, U) \in Int
    BY <1>1, SumInt
  <1>4. /\ SumFunctionOnSet(f, S) = f[y] + SumFunctionOnSet(f, U)
        /\ SumFunctionOnSet(g, S) = g[y] + SumFunctionOnSet(g, U)
    BY SumRemove
  <1> HIDE DEF U
  <1> QED
    BY <1>2, <1>3, <1>4

(* A sum of ones and zeros counts the ones. *)
LEMMA SumCounts ==
    ASSUME NEW f, NEW S, IsFiniteSet(S), NEW R \in SUBSET S,
           \A x \in S : f[x] = IF x \in R THEN 1 ELSE 0
    PROVE  SumFunctionOnSet(f, S) = Cardinality(R)
  <1> DEFINE B == {T \in SUBSET S : SumFunctionOnSet(f, T) # Cardinality(T \cap R)}
  <1>0. SUFFICES ASSUME B # {} PROVE FALSE
    <2>1. S \cap R = R
      OBVIOUS
    <2> QED
      BY <2>1
  <1>1. PICK T \in B : \A x \in T : T \ {x} \notin B
    BY <1>0, MinimalSubset
  <1>2. T # {}
    <2>1. SumFunctionOnSet(f, {}) = 0 /\ Cardinality({}) = 0 /\ {} \cap R = {}
      BY SumEmpty, FS_EmptySet
    <2> QED
      BY <1>1, <2>1
  <1>3. IsFiniteSet(T) /\ T \in SUBSET S /\ IsFiniteSet(T \cap R)
    <2>1. T \cap R \in SUBSET S
      OBVIOUS
    <2> QED
      BY <2>1, FS_Subset
  <1> DEFINE x == First(T)  U == T \ {x}
  <1>4. x \in T /\ SumFunctionOnSet(f, T) = f[x] + SumFunctionOnSet(f, U)
    BY <1>2, <1>3, SumFirst
  <1>5. SumFunctionOnSet(f, U) = Cardinality(U \cap R)
    BY <1>1, <1>3, <1>4
  <1>6. U \cap R = (T \cap R) \ {x} /\ (x \in T \cap R <=> x \in R)
    BY <1>4
  <1>7. /\ Cardinality(T \cap R) \in Nat
        /\ Cardinality(U \cap R) =
             IF x \in R THEN Cardinality(T \cap R) - 1 ELSE Cardinality(T \cap R)
    <2> DEFINE V == T \cap R
    <2>1. IsFiniteSet(V) /\ U \cap R = V \ {x} /\ (x \in V <=> x \in R)
      BY <1>3, <1>6
    <2> HIDE DEF V, U, x
    <2>2. /\ Cardinality(V) \in Nat
          /\ Cardinality(V \ {x}) = IF x \in V THEN Cardinality(V) - 1 ELSE Cardinality(V)
      BY <2>1, FS_RemoveElement, FS_CardinalityType
    <2> QED
      BY <2>1, <2>2 DEF V
  <1>8. f[x] = IF x \in R THEN 1 ELSE 0
    BY <1>3, <1>4
  <1>9. SumFunctionOnSet(f, T) = Cardinality(T \cap R)
    BY <1>4, <1>5, <1>7, <1>8
  <1> QED
    BY <1>1, <1>9

(* No value, no sum. *)
LEMMA SumZero ==
    ASSUME NEW f, NEW S, IsFiniteSet(S), \A x \in S : f[x] = 0
    PROVE  SumFunctionOnSet(f, S) = 0
  <1>1. SumFunctionOnSet(f, S) = Cardinality(S) * 0
    BY SumConstant
  <1> QED
    BY <1>1, FS_CardinalityType

(* Over more elements the sum of natural numbers is no less. *)
LEMMA SumMonotone ==
    ASSUME NEW f, NEW S, IsFiniteSet(S), \A x \in S : f[x] \in Nat, NEW T \in SUBSET S
    PROVE  SumFunctionOnSet(f, T) <= SumFunctionOnSet(f, S)
  <1> DEFINE B == {R \in SUBSET (S \ T) :
                    SumFunctionOnSet(f, T) > SumFunctionOnSet(f, T \cup R)}
  <1>1. SUFFICES ASSUME B # {} PROVE FALSE
    <2>1. S \ T \notin B /\ T \cup (S \ T) = S /\ S \ T \in SUBSET (S \ T)
      BY <1>1
    <2>2. ~ (SumFunctionOnSet(f, T) > SumFunctionOnSet(f, S))
      BY <2>1
    <2>3. IsFiniteSet(T) /\ SumFunctionOnSet(f, S) \in Nat
      BY FS_Subset, SumNat
    <2>4. SumFunctionOnSet(f, T) \in Nat
      BY <2>3, SumNat
    <2>. QED
      BY <2>2, <2>3, <2>4
  <1>2. IsFiniteSet(S \ T)
    BY FS_Subset
  <1>3. PICK R \in B : \A x \in R : R \ {x} \notin B
    BY <1>1, <1>2, MinimalSubset
  <1>4. IsFiniteSet(T) /\ SumFunctionOnSet(f, T) \in Nat
    BY FS_Subset, SumNat
  <1>5. R # {}
    <2>1. ASSUME R = {} PROVE T \cup R = T
      BY <2>1
    <2>. QED
      BY <1>3, <1>4, <2>1
  <1>6. PICK x \in R : TRUE
    BY <1>5
  <1> DEFINE U == T \cup (R \ {x})
  <1>7. U \in SUBSET S /\ x \notin U /\ T \cup R = U \cup {x} /\ f[x] \in Nat
        /\ \A y \in U : f[y] \in Nat
    BY <1>3, <1>6
  <1>8. IsFiniteSet(U)
    BY <1>7, FS_Subset
  <1>9. SumFunctionOnSet(f, U) \in Nat /\ ~ (SumFunctionOnSet(f, T) > SumFunctionOnSet(f, U))
    <2>1. R \ {x} \in SUBSET (S \ T)
      BY <1>3
    <2>. QED
      BY <1>3, <1>6, <1>7, <1>8, <2>1, SumNat
  <1>10. SumFunctionOnSet(f, T) > SumFunctionOnSet(f, T \cup R)
    BY <1>3
  <1> HIDE DEF U, B
  <1>11. SumFunctionOnSet(f, U \cup {x}) = f[x] + SumFunctionOnSet(f, U)
    BY <1>7, <1>8, SumInsert
  <1> DEFINE p == f[x]  q == SumFunctionOnSet(f, U)  r == SumFunctionOnSet(f, T)
             o == SumFunctionOnSet(f, T \cup R)
  <1>12. p \in Nat /\ q \in Nat /\ r \in Nat /\ ~ (r > q) /\ r > o /\ o = p + q
    BY <1>4, <1>7, <1>9, <1>10, <1>11
  <1> HIDE DEF p, q, r, o
  <1>. QED
    BY <1>12

-----------------------------------------------------------------------------
(* Messages in turn: message m goes to the socket (or stream) m % sockets. *)

(* Quotient and remainder. *)
LEMMA DivMod ==
    ASSUME NEW a \in Int, NEW b \in Nat, b > 0
    PROVE  /\ a \div b \in Int /\ a % b \in 0 .. (b - 1)
           /\ a = b * (a \div b) + (a % b)
  OBVIOUS

LEMMA SmallMultiple ==
    ASSUME NEW d \in Int, NEW b \in Nat, d * b < b, -b < d * b
    PROVE  d = 0
  <1>1. b > 0
    <2>1. CASE b = 0
      BY <2>1
    <2> QED
      BY <2>1
  <1>2. CASE d >= 1
    <2>1. (d - 1) * b >= 0 /\ (d - 1) * b = d * b - b
      BY <1>1, <1>2
    <2> QED
      BY <2>1
  <1>3. CASE d <= -1
    <2>1. (-d - 1) * b >= 0 /\ (-d - 1) * b = -(d * b) - b
      BY <1>1, <1>3
    <2> QED
      BY <2>1
  <1> QED
    BY <1>2, <1>3

LEMMA ModUnique ==
    ASSUME NEW a \in Int, NEW b \in Nat, NEW q \in Int, NEW r \in 0 .. (b - 1), a = q * b + r
    PROVE  a % b = r
  <1>1. b > 0
    OBVIOUS
  <1> DEFINE p == a \div b  t == a % b
  <1>2. p \in Int /\ t \in 0 .. (b - 1) /\ a = b * p + t
    BY <1>1, DivMod
  <1> HIDE DEF p, t
  <1>3. (q - p) * b = q * b - p * b /\ b * p = p * b /\ p * b \in Int /\ q * b \in Int
    BY <1>2
  <1> DEFINE d == q - p
  <1>4. d \in Int /\ d * b = t - r
    BY <1>2, <1>3
  <1>5. d = 0
    <2> HIDE DEF d
    <2> QED
      BY <1>2, <1>4, SmallMultiple
  <1> QED
    BY <1>2, <1>4, <1>5 DEF t

(* The next number in turn. *)
LEMMA NextInTurn ==
    ASSUME NEW n \in Nat, NEW b \in Nat, b > 0
    PROVE  (n + 1) % b = ((n % b) + 1) % b
  <1> DEFINE q == n \div b  r == n % b
  <1>1. q \in Int /\ r \in 0 .. (b - 1) /\ n = b * q + r
    BY DivMod
  <1> HIDE DEF q, r
  <1>2. CASE r + 1 < b
    <2>1. n + 1 = q * b + (r + 1) /\ r + 1 = 0 * b + (r + 1) /\ r + 1 \in 0 .. (b - 1)
      BY <1>1, <1>2
    <2>2. (n + 1) % b = r + 1
      BY <2>1, <1>1, ModUnique
    <2>3. (r + 1) % b = r + 1
      BY <2>1, <1>1, ModUnique
    <2> QED
      BY <2>2, <2>3 DEF r
  <1>3. CASE r + 1 = b
    <2>1. (q + 1) * b = q * b + b /\ b * q = q * b /\ q * b \in Int
      BY <1>1
    <2>2. n + 1 = (q + 1) * b + 0 /\ r + 1 = 1 * b + 0 /\ 0 \in 0 .. (b - 1)
      BY <1>1, <1>3, <2>1
    <2>3. (n + 1) % b = 0
      BY <2>2, <1>1, ModUnique
    <2>4. (r + 1) % b = 0
      BY <2>2, <1>1, ModUnique
    <2> QED
      BY <2>3, <2>4 DEF r
  <1> QED
    BY <1>1, <1>2, <1>3

(* A text of `bytes' in messages of `payload' and a rest has `count' of    *)
(* them, none of which starts behind the text.                             *)
LEMMA MessageCount ==
    ASSUME NEW bytes \in Nat, NEW payload \in Nat, payload > 0,
           NEW count, count = (bytes + payload - 1) \div payload
    PROVE  /\ count \in Nat
           /\ count = 0 <=> bytes = 0
           /\ \A i \in 0 .. (count - 1) : i * payload < bytes
  <1> DEFINE a == bytes + payload - 1
  <1>1. /\ a \in Nat /\ count \in Int
        /\ a % payload \in 0 .. (payload - 1)
        /\ a = payload * count + (a % payload)
    BY DivMod
  <1>2. count \in Nat
    <2> HIDE DEF a
    <2>1. a \div payload >= 0
      BY <1>1
    <2> QED
      BY <1>1, <2>1 DEF a
  <1>3. count = 0 => bytes = 0
    <2>1. count = 0 => payload * count = 0
      OBVIOUS
    <2> QED
      BY <1>1, <2>1
  <1>4. bytes = 0 => count = 0
    <2>1. payload * count = count * payload
      BY <1>1
    <2> QED
      BY <1>1, <1>2, <2>1, SmallMultiple
  <1>5. ASSUME NEW i \in 0 .. (count - 1) PROVE i * payload < bytes
    <2>1. (count - 1 - i) * payload >= 0
      BY <1>2
    <2>2. (count - 1 - i) * payload = payload * count - payload - i * payload
      BY <1>2
    <2>3. payload * count \in Int /\ i * payload \in Int
      BY <1>2
    <2> QED
      BY <1>1, <2>1, <2>2, <2>3
  <1> QED
    BY <1>2, <1>3, <1>4, <1>5

(* The size of the next message, and where it ends.                        *)
LEMMA NextMessage ==
    ASSUME NEW bytes \in Nat, NEW payload \in Nat, payload > 0,
           NEW count \in Int, count = (bytes + payload - 1) \div payload,
           NEW i \in 0 .. (count - 1),
           NEW size \in Int,
           size = IF bytes - i * payload < payload THEN bytes - i * payload ELSE payload
    PROVE  /\ i * payload \in Nat /\ i * payload < bytes
           /\ size \in 1 .. payload
           /\ size = IF i = count - 1 THEN bytes - (count - 1) * payload ELSE payload
           /\ i * payload + size = IF i + 1 < count THEN (i + 1) * payload ELSE bytes
  <1> DEFINE a == bytes + payload - 1
  <1>1. a \in Int /\ a % payload \in 0 .. (payload - 1)
        /\ a = payload * count + (a % payload)
    BY DivMod
  <1>2. /\ payload * count = count * payload
        /\ (count - 1) * payload = count * payload - payload
        /\ (i + 1) * payload = i * payload + payload
        /\ count * payload \in Int /\ i * payload \in Int
    OBVIOUS
  <1> DEFINE c == count * payload  p == i * payload
  <1>3. c - payload < bytes /\ bytes <= c
    BY <1>1, <1>2
  <1>4. p >= 0
    OBVIOUS
  <1>5. CASE i = count - 1
    <2>1. p = c - payload
      BY <1>2, <1>5
    <2> QED
      BY <1>2, <1>3, <1>4, <1>5, <2>1
  <1>6. CASE i < count - 1
    <2>1. (count - 2 - i) * payload >= 0
      BY <1>6
    <2>2. (count - 2 - i) * payload = c - payload - payload - p
      OBVIOUS
    <2> QED
      BY <1>2, <1>3, <1>4, <1>6, <2>1, <2>2
  <1> QED
    BY <1>5, <1>6

(* The messages of socket k among the first n. *)
Turns(k, b, n) == {m \in 0 .. (n - 1) : m % b = k}

(* Before the first message nothing has been sent. *)
LEMMA FirstInTurn ==
    ASSUME NEW f, NEW b, NEW k
    PROVE  SumFunctionOnSet(f, Turns(k, b, 0)) = 0
  <1>1. Turns(k, b, 0) = {}
    BY DEF Turns
  <1> QED
    BY <1>1, SumEmpty

(* Message n adds its size to the one socket whose turn it is. *)
LEMMA OneMoreInTurn ==
    ASSUME NEW f, \A m \in Nat : f[m] \in Int, NEW n \in Nat, NEW b, NEW k
    PROVE  SumFunctionOnSet(f, Turns(k, b, n + 1)) =
                IF n % b = k THEN SumFunctionOnSet(f, Turns(k, b, n)) + f[n]
                             ELSE SumFunctionOnSet(f, Turns(k, b, n))
  <1> DEFINE S == {m \in 0 .. (n - 1) : m % b = k}  T == {m \in 0 .. (n + 1 - 1) : m % b = k}
  <1>1. IsFiniteSet(S)
    <2>1. IsFiniteSet(0 .. (n - 1))
      BY FS_Interval
    <2>2. S \in SUBSET (0 .. (n - 1))
      OBVIOUS
    <2> QED
      BY <2>1, <2>2, FS_Subset
  <1>2. \A m \in S : f[m] \in Int
    OBVIOUS
  <1>3. T = IF n % b = k THEN S \cup {n} ELSE S
    OBVIOUS
  <1>4. n \notin S
    OBVIOUS
  <1> HIDE DEF S, T
  <1>5. SumFunctionOnSet(f, S \cup {n}) = f[n] + SumFunctionOnSet(f, S)
    BY <1>1, <1>2, <1>4, SumInsert
  <1>6. f[n] + SumFunctionOnSet(f, S) = SumFunctionOnSet(f, S) + f[n]
    BY <1>1, <1>2, SumInt
  <1>7. SumFunctionOnSet(f, T) = IF n % b = k THEN SumFunctionOnSet(f, S) + f[n]
                                              ELSE SumFunctionOnSet(f, S)
    BY <1>3, <1>5, <1>6
  <1> QED
    BY <1>7 DEF S, T, Turns
=============================================================================
