----------------------------- MODULE FiniteSums -----------------------------
(***************************************************************************)
(* SumFunctionOnSet of the community modules, reasoned about.  It is a     *)
(* function over the subsets of a finite set, defined by recursion: that   *)
(* such a function exists and is unique, and what it sums up to, follows   *)
(* from the well-foundedness of strict inclusion among finite sets, by     *)
(* smallest counterexample.                                                *)
(***************************************************************************)
EXTENDS Integers, FiniteSets, FiniteSetsExt, Functions, FiniteSetTheorems, WellFoundedInduction, TLAPS

\* c picks a member of every non-empty subset of S.
Picks(c, S) == \A s \in SUBSET S : s # {} => c[s] \in s

\* h sums g over every subset of S, in the order c picks.
Sums(h, g, c, S) ==
    h = [s \in SUBSET S |-> IF s = {} THEN 0 ELSE g[c[s]] + h[s \ {c[s]}]]

(* A set of subsets of a finite set has a smallest member. *)
LEMMA Smallest ==
    ASSUME NEW S, IsFiniteSet(S), NEW Bad, Bad \subseteq SUBSET S, Bad # {}
    PROVE  \E x \in Bad : \A y \in Bad : y \subseteq x => y = x
<1>1. Bad \subseteq FiniteSubsetsOf(S)
  BY FS_Subset DEF FiniteSubsetsOf
<1>2. PICK x \in Bad : \A y \in Bad : <<y, x>> \notin StrictSubsetOrdering(S)
  BY <1>1, FS_StrictSubsetOrderingWellFounded, WFMin
<1>3. ASSUME NEW y \in Bad, y \subseteq x, y # x
      PROVE  FALSE
  BY <1>2, <1>3 DEF StrictSubsetOrdering
<1> QED
  BY <1>3

(* A finite, non-empty set of integers has a least member, and Min returns it. *)
LEMMA MinOfFinite ==
    ASSUME NEW S, IsFiniteSet(S), S # {}, \A x \in S : x \in Int
    PROVE  Min(S) \in S /\ \A x \in S : Min(S) <= x
<1>0. ASSUME NEW A, A \subseteq SUBSET S, A # {}
      PROVE  \E u \in A : \A v \in A : v \subseteq u => v = u
  BY <1>0, Smallest
<1> DEFINE Upto(x) == {y \in S : y <= x}
           All == {Upto(x) : x \in S}
<1>1. All \subseteq SUBSET S /\ All # {}
  OBVIOUS
<1>2. PICK u \in All : \A v \in All : v \subseteq u => v = u
  <2> HIDE DEF All, Upto
  <2> QED
    BY <1>0, <1>1
<1>3. PICK m \in S : u = Upto(m)
  OBVIOUS
<1>4. ASSUME NEW x \in S, ~(m <= x)
      PROVE  FALSE
  <2>1. m \in Int /\ x \in Int /\ x < m
    BY <1>4
  <2>2. Upto(x) \subseteq Upto(m)
    <3>1. \A y \in Upto(x) : y \in S /\ y \in Int /\ y <= x
      OBVIOUS
    <3>2. \A y \in Upto(x) : y <= m
      BY <2>1, <3>1
    <3> QED
      BY <3>1, <3>2
  <2>4. m \in Upto(m) /\ m \notin Upto(x)
    BY <2>1
  <2>3. Upto(x) \in All
    OBVIOUS
  <2> QED
    BY <1>2, <1>3, <2>2, <2>3, <2>4
<1>5. \A x \in S : m <= x
  BY <1>4
<1> QED
  BY <1>5 DEF Min

(* The sum of a set is that of the set less what is picked of it. *)
LEMMA SumsStep ==
    ASSUME NEW S, NEW c, NEW g, NEW h, Sums(h, g, c, S),
           NEW s \in SUBSET S
    PROVE  h[s] = IF s = {} THEN 0 ELSE g[c[s]] + h[s \ {c[s]}]
BY DEF Sums

(* Sums over two sets agree where both are defined. *)
LEMMA SumsAgree ==
    ASSUME NEW S, IsFiniteSet(S), NEW c, Picks(c, S), NEW g,
           NEW A \in SUBSET S, NEW B \in SUBSET S, NEW h, NEW k,
           Sums(h, g, c, A), Sums(k, g, c, B),
           NEW s \in SUBSET (A \cap B)
    PROVE  h[s] = k[s]
<1> DEFINE Bad == {t \in SUBSET (A \cap B) : h[t] # k[t]}
<1> SUFFICES ASSUME Bad # {}
             PROVE  FALSE
  OBVIOUS
<1>1. PICK x \in Bad : \A y \in Bad : y \subseteq x => y = x
  <2>1. Bad \subseteq SUBSET S
    OBVIOUS
  <2> HIDE DEF Bad
  <2> QED
    BY <2>1, Smallest
<1>2. x \in SUBSET A /\ x \in SUBSET B /\ x \in SUBSET S /\ h[x] # k[x]
  OBVIOUS
<1>3. /\ h[x] = IF x = {} THEN 0 ELSE g[c[x]] + h[x \ {c[x]}]
      /\ k[x] = IF x = {} THEN 0 ELSE g[c[x]] + k[x \ {c[x]}]
  <2>1. h[x] = IF x = {} THEN 0 ELSE g[c[x]] + h[x \ {c[x]}]
    BY ONLY <1>2, Sums(h, g, c, A) DEF Sums
  <2>2. k[x] = IF x = {} THEN 0 ELSE g[c[x]] + k[x \ {c[x]}]
    BY ONLY <1>2, Sums(k, g, c, B) DEF Sums
  <2> QED
    BY ONLY <2>1, <2>2
<1>4. x # {} /\ c[x] \in x
  BY <1>2, <1>3 DEF Picks
<1>5. h[x] = g[c[x]] + h[x \ {c[x]}] /\ k[x] = g[c[x]] + k[x \ {c[x]}]
  BY <1>3, <1>4
<1>6. h[x \ {c[x]}] = k[x \ {c[x]}]
  BY <1>1, <1>4
<1> QED
  BY <1>5, <1>6

(* There are such sums: a smallest set without any could be given one, by adding
   what is picked to the sum of the rest. *)
LEMMA SumsExist ==
    ASSUME NEW S, IsFiniteSet(S), NEW c, Picks(c, S), NEW g
    PROVE  \E h : Sums(h, g, c, S)
<1> DEFINE Bad == {A \in SUBSET S : ~ \E h : Sums(h, g, c, A)}
<1> SUFFICES ASSUME Bad # {}
             PROVE  FALSE
  OBVIOUS
<1>1. PICK x \in Bad : \A y \in Bad : y \subseteq x => y = x
  <2>1. Bad \subseteq SUBSET S
    OBVIOUS
  <2> HIDE DEF Bad
  <2> QED
    BY <2>1, Smallest
<1> DEFINE H(y) == CHOOSE h : Sums(h, g, c, y)
<1>2. ASSUME NEW y \in SUBSET x, y # x
      PROVE  Sums(H(y), g, c, y)
  <2>1. \E h : Sums(h, g, c, y)
    BY <1>1, <1>2
  <2> HIDE DEF Sums
  <2> QED
    BY <2>1
<1> DEFINE after(s) == s \ {c[s]}
           k == [s \in SUBSET x |-> IF s = {} THEN 0 ELSE g[c[s]] + H(after(s))[after(s)]]
<1>3. ASSUME NEW s \in SUBSET x, s # {}
      PROVE  after(s) \in SUBSET x /\ after(s) # x /\ after(s) \subseteq s /\ c[s] \in s
  BY <1>3 DEF Picks
<1>4. ASSUME NEW s \in SUBSET x, s # {}
      PROVE  k[after(s)] = H(after(s))[after(s)]
  <2> DEFINE t == after(s)
  <2>1. t \in SUBSET x /\ t # x /\ Picks(c, t)
    BY <1>3, <1>4 DEF Picks
  <2> HIDE DEF t, H
  <2>2. Sums(H(t), g, c, t)
    BY <1>2, <2>1
  <2>5. H(t)[t] = IF t = {} THEN 0 ELSE g[c[t]] + H(t)[t \ {c[t]}]
    <3>1. t \in SUBSET t
      OBVIOUS
    <3> HIDE DEF k, after, Bad
    <3> QED
      BY <2>2, <3>1, SumsStep
  <2>3. CASE t = {}
    <3>1. k[t] = 0
      BY <2>1, <2>3
    <3>2. H(t)[t] = 0
      BY <2>3, <2>5
    <3> QED
      BY <3>1, <3>2 DEF t
  <2>4. CASE t # {}
    <3>1. k[t] = g[c[t]] + H(after(t))[after(t)]
      BY <2>1, <2>4
    <3>2. H(t)[t] = g[c[t]] + H(t)[after(t)]
      BY <2>4, <2>5 DEF after
    <3>3. after(t) \in SUBSET x /\ after(t) # x /\ after(t) \subseteq t
      BY <1>3, <2>1, <2>4
    <3>4. Sums(H(after(t)), g, c, after(t))
      BY <1>2, <3>3
    <3>5. t \in SUBSET S /\ after(t) \in SUBSET S /\ after(t) \in SUBSET (t \cap after(t))
      BY <2>1, <3>3
    <3> HIDE DEF after
    <3>6. H(t)[after(t)] = H(after(t))[after(t)]
      BY <2>2, <3>4, <3>5, SumsAgree
    <3> QED
      BY <3>1, <3>2, <3>6 DEF t
  <2> QED
    BY <2>3, <2>4
<1>5. Sums(k, g, c, x)
  <2>1. ASSUME NEW s \in SUBSET x
        PROVE  k[s] = IF s = {} THEN 0 ELSE g[c[s]] + k[after(s)]
    <3>1. CASE s = {}
      BY <3>1
    <3>2. CASE s # {}
      <4>1. k[s] = g[c[s]] + H(after(s))[after(s)]
        BY <3>2
      <4>2. k[after(s)] = H(after(s))[after(s)]
        BY <1>4, <3>2
      <4> HIDE DEF k
      <4> QED
        BY <3>2, <4>1, <4>2
    <3> QED
      BY <3>1, <3>2
  <2>2. k = [s \in SUBSET x |-> k[s]]
    OBVIOUS
  <2> HIDE DEF k, after
  <2>3. [s \in SUBSET x |-> k[s]]
          = [s \in SUBSET x |-> IF s = {} THEN 0 ELSE g[c[s]] + k[after(s)]]
    BY <2>1
  <2> QED
    BY <2>2, <2>3 DEF Sums, after
<1> QED
  BY <1>1, <1>5

(* The order does not matter. *)
LEMMA SumsInAnyOrder ==
    ASSUME NEW S, IsFiniteSet(S), NEW c, Picks(c, S), NEW g, \A x \in S : g[x] \in Int,
           NEW h, Sums(h, g, c, S)
    PROVE  \A s \in SUBSET S : /\ h[s] \in Int
                               /\ \A x \in s : h[s] = g[x] + h[s \ {x}]
<1>0. ASSUME NEW t \in SUBSET S
      PROVE  h[t] = IF t = {} THEN 0 ELSE g[c[t]] + h[t \ {c[t]}]
  BY SumsStep
<1> DEFINE Typed(s) == h[s] \in Int
           Fine(s) == Typed(s) /\ \A x \in s : h[s] = g[x] + h[s \ {x}]
           Bad == {s \in SUBSET S : ~Fine(s)}
<1> SUFFICES ASSUME Bad # {}
             PROVE  FALSE
  OBVIOUS
<1>1. PICK s \in Bad : \A y \in Bad : y \subseteq s => y = s
  <2>1. Bad \subseteq SUBSET S
    OBVIOUS
  <2> HIDE DEF Bad
  <2> QED
    BY <2>1, Smallest
<1>2. s \in SUBSET S
  OBVIOUS
<1>3. ASSUME NEW y \in s
      PROVE  h[s \ {y}] \in Int /\ \A x \in s \ {y} : h[s \ {y}] = g[x] + h[(s \ {y}) \ {x}]
  BY <1>1
<1>8. h[s] = IF s = {} THEN 0 ELSE g[c[s]] + h[s \ {c[s]}]
  BY <1>0, <1>2
<1>4. s # {}
  BY <1>8
<1>5. c[s] \in s /\ h[s] = g[c[s]] + h[s \ {c[s]}]
  BY <1>2, <1>4, <1>8 DEF Picks
<1>6. h[s] \in Int
  <2>1. h[s \ {c[s]}] \in Int /\ g[c[s]] \in Int
    BY <1>2, <1>3, <1>5
  <2> QED
    BY <1>5, <2>1
<1>7. ASSUME NEW x \in s
      PROVE  h[s] = g[x] + h[s \ {x}]
  <2>1. CASE x = c[s]
    BY <1>5, <2>1
  <2>2. CASE x # c[s]
    <3> DEFINE y == c[s]
    <3>1. h[s \ {y}] = g[x] + h[(s \ {y}) \ {x}]
      BY <1>3, <1>5, <2>2
    <3>2. h[s \ {x}] = g[y] + h[(s \ {x}) \ {y}]
      BY <1>3, <1>5, <2>2
    <3>3. (s \ {y}) \ {x} = (s \ {x}) \ {y}
      OBVIOUS
    <3>4. PICK r : r = h[(s \ {x}) \ {y}]
      OBVIOUS
    <3>5. r \in Int
      <4>1. (s \ {x}) \ {y} \in SUBSET S /\ (s \ {x}) \ {y} \subseteq s /\ (s \ {x}) \ {y} # s
        BY <1>2
      <4>2. (s \ {x}) \ {y} \notin Bad
        BY <1>1, <4>1
      <4> QED
        BY <3>4, <4>1, <4>2
    <3>6. g[x] \in Int /\ g[y] \in Int
      BY <1>2, <1>5
    <3>7. h[s] = g[y] + (g[x] + r) /\ h[s \ {x}] = g[y] + r
      BY <1>5, <3>1, <3>2, <3>3, <3>4
    <3> HIDE DEF y
    <3> QED
      BY <3>5, <3>6, <3>7
  <2> QED
    BY <2>1, <2>2
<1> QED
  BY <1>6, <1>7

-----------------------------------------------------------------------------
(* SumFunctionOnSet *)

AnyOf(S) == [s \in SUBSET S |-> CHOOSE x \in s : TRUE]

(* SumFunctionOnSet is such a sum. *)
LEMMA SumIsSums ==
    ASSUME NEW S, IsFiniteSet(S), NEW g
    PROVE  \E h : /\ Picks(AnyOf(S), S) /\ Sums(h, g, AnyOf(S), S)
                  /\ \A s \in SUBSET S : SumFunctionOnSet(g, s) = h[s]
<1>1. Picks(AnyOf(S), S)
  BY DEF Picks, AnyOf
<1>2. PICK h : Sums(h, g, AnyOf(S), S)
  BY <1>1, SumsExist
<1>3. ASSUME NEW s \in SUBSET S
      PROVE  SumFunctionOnSet(g, s) = h[s]
  <2> DEFINE Body(k) == k = [t \in SUBSET s |->
                               IF t = {} THEN 0
                               ELSE g[CHOOSE x \in t : TRUE] + k[t \ {CHOOSE x \in t : TRUE}]]
  <2>1. SumFunctionOnSet(g, s) = (CHOOSE k : Body(k))[s]
    BY DEF SumFunctionOnSet, FoldFunctionOnSet, MapThenFoldSet
  <2>2. ASSUME NEW k
        PROVE  Sums(k, g, AnyOf(S), s) <=> Body(k)
    BY DEF Sums, AnyOf
  <2>3. IsFiniteSet(s) /\ Picks(AnyOf(S), s)
    BY <1>1, FS_Subset DEF Picks
  <2>4. \E k : Body(k)
    <3>1. PICK k : Sums(k, g, AnyOf(S), s)
      BY <2>3, SumsExist
    <3>2. Body(k)
      BY <2>2, <3>1
    <3> HIDE DEF Body
    <3> QED
      BY <3>2
  <2> HIDE DEF Body
  <2>5. Body(CHOOSE k : Body(k))
    BY <2>4
  <2>6. Sums(CHOOSE k : Body(k), g, AnyOf(S), s)
    BY <2>2, <2>5
  <2>7. s \in SUBSET S /\ S \in SUBSET S /\ s \in SUBSET (s \cap S)
    OBVIOUS
  <2> QED
    BY <1>1, <1>2, <2>1, <2>6, <2>7, SumsAgree
<1> QED
  BY <1>1, <1>2, <1>3

(* Nothing sums up to 0. *)
LEMMA SumEmpty == ASSUME NEW g PROVE SumFunctionOnSet(g, {}) = 0
<1>1. IsFiniteSet({}) /\ {} \in SUBSET {}
  BY FS_EmptySet
<1>2. PICK h : /\ Sums(h, g, AnyOf({}), {})
               /\ \A s \in SUBSET {} : SumFunctionOnSet(g, s) = h[s]
  BY <1>1, SumIsSums
<1>3. h[{}] = 0
  BY <1>1, <1>2, SumsStep
<1> QED
  BY <1>1, <1>2, <1>3

(* Any member can be split off. *)
LEMMA SumSplit ==
    ASSUME NEW S, IsFiniteSet(S), NEW g, \A x \in S : g[x] \in Int
    PROVE  \A s \in SUBSET S :
              /\ SumFunctionOnSet(g, s) \in Int
              /\ \A x \in s : SumFunctionOnSet(g, s) = g[x] + SumFunctionOnSet(g, s \ {x})
<1>1. PICK h : /\ Picks(AnyOf(S), S) /\ Sums(h, g, AnyOf(S), S)
               /\ \A s \in SUBSET S : SumFunctionOnSet(g, s) = h[s]
  BY SumIsSums
<1>2. \A s \in SUBSET S : /\ h[s] \in Int
                          /\ \A x \in s : h[s] = g[x] + h[s \ {x}]
  BY <1>1, SumsInAnyOrder
<1>3. \A s \in SUBSET S : \A x \in s : s \ {x} \in SUBSET S
  OBVIOUS
<1> QED
  BY <1>1, <1>2, <1>3

(* Bounds on the values are bounds on the sums. *)
LEMMA SumMonotone ==
    ASSUME NEW S, IsFiniteSet(S), NEW f, NEW g,
           \A x \in S : f[x] \in Int /\ g[x] \in Int,
           NEW p \in Int, NEW q \in Int, NEW e \in Int,
           \A x \in S : p * f[x] <= q * g[x] + e
    PROVE  p * SumFunctionOnSet(f, S) <= q * SumFunctionOnSet(g, S) + e * Cardinality(S)
<1> DEFINE F(s) == SumFunctionOnSet(f, s)
           G(s) == SumFunctionOnSet(g, s)
           Bad == {s \in SUBSET S : ~(p * F(s) <= q * G(s) + e * Cardinality(s))}
<1>1. \A s \in SUBSET S : /\ F(s) \in Int /\ G(s) \in Int
                          /\ \A x \in s : F(s) = f[x] + F(s \ {x}) /\ G(s) = g[x] + G(s \ {x})
  <2>1. \A s \in SUBSET S : F(s) \in Int /\ \A x \in s : F(s) = f[x] + F(s \ {x})
    <3>1. \A x \in S : f[x] \in Int
      OBVIOUS
    <3> QED
      BY <3>1, SumSplit
  <2>2. \A s \in SUBSET S : G(s) \in Int /\ \A x \in s : G(s) = g[x] + G(s \ {x})
    <3>1. \A x \in S : g[x] \in Int
      OBVIOUS
    <3> QED
      BY <3>1, SumSplit
  <2> HIDE DEF F, G
  <2> QED
    BY <2>1, <2>2
<1>2. F({}) = 0 /\ G({}) = 0
  BY SumEmpty
<1>3. Cardinality({}) = 0
  BY FS_EmptySet
<1>4. ASSUME NEW s \in SUBSET S, NEW x \in s
      PROVE  Cardinality(s) = Cardinality(s \ {x}) + 1 /\ Cardinality(s \ {x}) \in Nat
  <2>1. IsFiniteSet(s)
    BY FS_Subset
  <2>2. /\ IsFiniteSet(s \ {x}) /\ Cardinality(s \ {x}) = Cardinality(s) - 1
        /\ Cardinality(s) \in Nat /\ Cardinality(s \ {x}) \in Nat
    BY <2>1, FS_RemoveElement, FS_CardinalityType
  <2> QED
    BY <2>2
<1> HIDE DEF F, G
<1> SUFFICES ASSUME Bad # {}
             PROVE  FALSE
  BY DEF F, G
<1>5. PICK s \in Bad : \A y \in Bad : y \subseteq s => y = s
  <2>1. Bad \subseteq SUBSET S
    OBVIOUS
  <2> HIDE DEF Bad
  <2> QED
    BY <2>1, Smallest
<1>6. s # {}
  BY <1>2, <1>3
<1>7. PICK x \in s : TRUE
  BY <1>6
<1>8. s \in SUBSET S /\ x \in S /\ ~(p * F(s) <= q * G(s) + e * Cardinality(s))
  BY <1>7
<1>9. PICK a \in Int, b \in Int, n \in Nat :
        a = F(s \ {x}) /\ b = G(s \ {x}) /\ n = Cardinality(s \ {x})
  BY <1>1, <1>4, <1>7, <1>8
<1>10. p * a <= q * b + e * n
  <2>1. s \ {x} \in SUBSET S /\ s \ {x} \subseteq s /\ s \ {x} # s
    BY <1>7, <1>8
  <2>2. s \ {x} \notin Bad
    BY <1>5, <2>1
  <2> QED
    BY <1>9, <2>1, <2>2
<1>11. F(s) = f[x] + a /\ G(s) = g[x] + b /\ Cardinality(s) = n + 1
  BY <1>1, <1>4, <1>7, <1>8, <1>9
<1>12. PICK c \in Int, d \in Int : c = f[x] /\ d = g[x] /\ p * c <= q * d + e
  BY <1>8
<1>13. ASSUME NEW a1 \in Int, NEW b1 \in Int, NEW n1 \in Int, NEW c1 \in Int, NEW d1 \in Int,
              p * a1 <= q * b1 + e * n1, p * c1 <= q * d1 + e
       PROVE  p * (c1 + a1) <= q * (d1 + b1) + e * (n1 + 1)
  <2>1. /\ p * (c1 + a1) = p * c1 + p * a1
        /\ q * (d1 + b1) = q * d1 + q * b1
        /\ e * (n1 + 1) = e * n1 + e
    OBVIOUS
  <2>2. PICK u \in Int, v \in Int, w \in Int, y \in Int, z \in Int :
           u = p * a1 /\ v = q * b1 /\ w = e * n1 /\ y = p * c1 /\ z = q * d1
    OBVIOUS
  <2>3. u <= v + w /\ y <= z + e
    BY <1>13, <2>2
  <2>4. y + u <= z + v + (w + e)
    BY <2>3
  <2> QED
    BY <2>1, <2>2, <2>4
<1> QED
  BY <1>8, <1>9, <1>10, <1>11, <1>12, <1>13

(* A part of naturals sums up to no more than the whole. *)
LEMMA SumOfPart ==
    ASSUME NEW S, IsFiniteSet(S), NEW g, \A x \in S : g[x] \in Nat, NEW T \in SUBSET S
    PROVE  /\ SumFunctionOnSet(g, S) \in Nat /\ SumFunctionOnSet(g, T) \in Nat
           /\ SumFunctionOnSet(g, T) <= SumFunctionOnSet(g, S)
<1> DEFINE G(s) == SumFunctionOnSet(g, s)
           Bad == {s \in SUBSET S : ~(G(s) \in Nat /\ \A x \in s : G(s \ {x}) <= G(s))}
           Worse == {s \in SUBSET S : T \subseteq s /\ ~(G(T) <= G(s))}
<1>1. \A s \in SUBSET S : /\ G(s) \in Int
                          /\ \A x \in s : G(s) = g[x] + G(s \ {x})
  BY SumSplit
<1>2. G({}) = 0
  BY SumEmpty
<1> HIDE DEF G
<1>3. ASSUME Bad # {}
      PROVE  FALSE
  <2>1. PICK s \in Bad : \A y \in Bad : y \subseteq s => y = s
    <3>1. Bad \subseteq SUBSET S
      OBVIOUS
    <3> HIDE DEF Bad
    <3> QED
      BY <1>3, <3>1, Smallest
  <2>2. s \in SUBSET S /\ s # {}
    BY <1>2
  <2>3. ASSUME NEW x \in s
        PROVE  G(s \ {x}) \in Nat /\ g[x] \in Nat /\ G(s) = g[x] + G(s \ {x})
    BY <1>1, <2>1, <2>2
  <2>4. G(s) \in Nat
    <3>1. PICK x \in s : TRUE
      BY <2>2
    <3>2. PICK m \in Nat, n \in Nat : m = g[x] /\ n = G(s \ {x}) /\ G(s) = m + n
      BY <2>3, <3>1
    <3> QED
      BY <3>2
  <2>5. \A x \in s : G(s \ {x}) <= G(s)
    BY <2>3
  <2> QED
    BY <2>4, <2>5
<1>4. ASSUME Worse # {}
      PROVE  FALSE
  <2>1. PICK s \in Worse : \A y \in Worse : y \subseteq s => y = s
    <3>1. Worse \subseteq SUBSET S
      OBVIOUS
    <3> HIDE DEF Worse
    <3> QED
      BY <1>4, <3>1, Smallest
  <2>2. s \in SUBSET S /\ T \subseteq s /\ s # T
    BY <1>1
  <2>3. PICK x \in s : x \notin T
    BY <2>2
  <2>4. s \ {x} \in SUBSET S /\ T \subseteq s \ {x} /\ s \ {x} \subseteq s /\ s \ {x} # s
    BY <2>2, <2>3
  <2>5. G(T) <= G(s \ {x})
    BY <2>1, <2>4
  <2>6. G(s \ {x}) <= G(s)
    BY <1>3, <2>2
  <2>7. G(T) \in Int /\ G(s) \in Int /\ G(s \ {x}) \in Int
    BY <1>1, <2>2, <2>4
  <2> QED
    BY <2>5, <2>6, <2>7
<1> QED
  BY <1>3, <1>4 DEF G

(* A sum is at most that over a part and over what is positive outside it. *)
LEMMA SumWithoutLosses ==
    ASSUME NEW S, IsFiniteSet(S), NEW g, \A x \in S : g[x] \in Int, NEW L
    PROVE  SumFunctionOnSet(g, S)
              <= SumFunctionOnSet(g, S \cap L) + SumFunctionOnSet(g, {x \in S \ L : g[x] > 0})
<1> DEFINE G(s) == SumFunctionOnSet(g, s)
           Won(s) == {x \in s \ L : g[x] > 0}
           Bad == {s \in SUBSET S : ~(G(s) <= G(s \cap L) + G(Won(s)))}
<1>1. \A s \in SUBSET S : /\ G(s) \in Int
                          /\ \A x \in s : G(s) = g[x] + G(s \ {x})
  BY SumSplit
<1>2. G({}) = 0
  BY SumEmpty
<1> SUFFICES ASSUME Bad # {}
             PROVE  FALSE
  <2>1. S \notin Bad
    OBVIOUS
  <2> QED
    BY <2>1
<1> HIDE DEF G
<1>3. PICK s \in Bad : \A t \in Bad : t \subseteq s => t = s
  <2>1. Bad \subseteq SUBSET S
    OBVIOUS
  <2> HIDE DEF Bad
  <2> QED
    BY <2>1, Smallest
<1>4. s \in SUBSET S /\ ~(G(s) <= G(s \cap L) + G(Won(s)))
  OBVIOUS
<1>5. s # {}
  <2> SUFFICES ASSUME s = {}
               PROVE  FALSE
    OBVIOUS
  <2>1. s \cap L = {} /\ Won(s) = {}
    OBVIOUS
  <2> HIDE DEF Won
  <2>2. G(s) = 0 /\ G(s \cap L) = 0 /\ G(Won(s)) = 0
    BY <1>2, <2>1
  <2> QED
    BY <1>4, <2>2
<1>6. PICK x \in s : TRUE
  BY <1>5
<1> DEFINE t == s \ {x}
<1>7. t \in SUBSET S /\ G(t) <= G(t \cap L) + G(Won(t))
  <2>1. t \in SUBSET S /\ t \subseteq s /\ t # s
    BY <1>4
  <2>2. t \notin Bad
    BY <1>3, <2>1
  <2> HIDE DEF t, Won
  <2> QED
    BY <2>1, <2>2
<1>8. /\ s \cap L \in SUBSET S /\ Won(s) \in SUBSET S
      /\ t \cap L \in SUBSET S /\ Won(t) \in SUBSET S
  BY <1>4
<1>15. /\ x \in L => (s \cap L) \ {x} = t \cap L /\ x \in s \cap L /\ Won(t) = Won(s)
       /\ x \notin L => s \cap L = t \cap L
       /\ x \notin L /\ g[x] > 0 => Won(s) \ {x} = Won(t) /\ x \in Won(s)
       /\ x \notin L /\ ~(g[x] > 0) => Won(s) = Won(t)
  OBVIOUS
<1> HIDE DEF Won, t
<1>9. PICK a \in Int, b \in Int, c \in Int, d \in Int, e \in Int, f \in Int :
         /\ a = G(s) /\ b = G(s \cap L) /\ c = G(Won(s))
         /\ d = G(t) /\ e = G(t \cap L) /\ f = G(Won(t))
  BY <1>1, <1>4, <1>7, <1>8
<1>10. PICK v \in Int : v = g[x]
  BY <1>4
<1>11. a = v + d /\ ~(a <= b + c) /\ d <= e + f
  BY <1>1, <1>4, <1>7, <1>9, <1>10 DEF t
<1>12. CASE x \in L
  <2>1. (s \cap L) \ {x} = t \cap L /\ x \in s \cap L /\ Won(t) = Won(s)
    BY <1>12, <1>15
  <2>2. G(s \cap L) = g[x] + G(t \cap L)
    BY <1>1, <1>8, <2>1
  <2>3. b = v + e /\ c = f
    BY <1>9, <1>10, <2>1, <2>2
  <2> QED
    BY <1>11, <2>3
<1>13. CASE x \notin L /\ v > 0
  <2>1. s \cap L = t \cap L /\ Won(s) \ {x} = Won(t) /\ x \in Won(s)
    BY <1>10, <1>13, <1>15
  <2>2. G(Won(s)) = g[x] + G(Won(t))
    BY <1>1, <1>8, <2>1
  <2>3. b = e /\ c = v + f
    BY <1>9, <1>10, <2>1, <2>2
  <2> QED
    BY <1>11, <2>3
<1>14. CASE x \notin L /\ ~(v > 0)
  <2>1. b = e /\ c = f
    BY <1>9, <1>10, <1>14, <1>15
  <2> QED
    BY <1>11, <1>14, <2>1
<1> QED
  BY <1>12, <1>13, <1>14

(* Equal values sum up to the same. *)
LEMMA SumSame ==
    ASSUME NEW S, IsFiniteSet(S), NEW f, NEW g, \A x \in S : f[x] \in Int /\ f[x] = g[x]
    PROVE  SumFunctionOnSet(f, S) = SumFunctionOnSet(g, S)
<1>1. SumFunctionOnSet(f, S) \in Int /\ SumFunctionOnSet(g, S) \in Int /\ Cardinality(S) \in Int
  <2>1. S \in SUBSET S /\ Cardinality(S) \in Nat /\ \A x \in S : g[x] \in Int
    BY FS_CardinalityType
  <2>2. SumFunctionOnSet(f, S) \in Int
    BY <2>1, SumSplit
  <2>3. SumFunctionOnSet(g, S) \in Int
    BY <2>1, SumSplit
  <2> QED
    BY <2>1, <2>2, <2>3
<1>2. PICK p \in Int, e \in Int : p = 1 /\ e = 0
  OBVIOUS
<1>3. p * SumFunctionOnSet(f, S) <= p * SumFunctionOnSet(g, S) + e * Cardinality(S)
  <2>1. \A x \in S : f[x] \in Int /\ g[x] \in Int /\ p * f[x] <= p * g[x] + e
    BY <1>2
  <2> QED
    BY <2>1, SumMonotone
<1>4. p * SumFunctionOnSet(g, S) <= p * SumFunctionOnSet(f, S) + e * Cardinality(S)
  <2>1. \A x \in S : g[x] \in Int /\ f[x] \in Int /\ p * g[x] <= p * f[x] + e
    BY <1>2
  <2> QED
    BY <2>1, SumMonotone
<1> QED
  BY <1>1, <1>2, <1>3, <1>4

(* Integers sum up to one. *)
LEMMA SumType ==
    ASSUME NEW f, IsFiniteSet(DOMAIN f), \A x \in DOMAIN f : f[x] \in Int
    PROVE  SumFunction(f) \in Int
<1>1. DOMAIN f \in SUBSET DOMAIN f
  OBVIOUS
<1> QED
  BY <1>1, SumSplit DEF SumFunction

(* A function that another one extends by x. *)
LEMMA SumExtended ==
    ASSUME NEW g, IsFiniteSet(DOMAIN g), NEW x, x \notin DOMAIN g,
           NEW f, DOMAIN f = DOMAIN g \cup {x}, f[x] \in Int,
           \A y \in DOMAIN g : g[y] \in Int /\ f[y] = g[y]
    PROVE  SumFunction(f) = f[x] + SumFunction(g) /\ SumFunction(g) \in Int
<1> DEFINE S == DOMAIN g
           T == S \cup {x}
<1>1. IsFiniteSet(T)
  BY FS_AddElement
<1>2. \A y \in T : f[y] \in Int
  OBVIOUS
<1>3. SumFunctionOnSet(f, T) = f[x] + SumFunctionOnSet(f, T \ {x})
  <2>1. T \in SUBSET T /\ x \in T
    OBVIOUS
  <2> HIDE DEF T
  <2> QED
    BY <1>1, <1>2, <2>1, SumSplit
<1>4. T \ {x} = S
  OBVIOUS
<1>5. SumFunctionOnSet(f, S) = SumFunctionOnSet(g, S)
  BY SumSame
<1>6. SumFunctionOnSet(g, S) \in Int
  <2>1. S \in SUBSET S /\ IsFiniteSet(S) /\ \A y \in S : g[y] \in Int
    OBVIOUS
  <2> HIDE DEF S
  <2> QED
    BY <2>1, SumSplit
<1>7. SumFunction(f) = SumFunctionOnSet(f, T) /\ SumFunction(g) = SumFunctionOnSet(g, S)
  BY DEF SumFunction
<1> HIDE DEF S, T
<1> QED
  BY <1>3, <1>4, <1>5, <1>6, <1>7
=============================================================================
