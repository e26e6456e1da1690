------------------------------- MODULE SetSums -------------------------------
(***************************************************************************)
(* Lemmas on the sums of the community modules: SumFunctionOnSet(f, S) is  *)
(* the sum of f[x] over the x in S. They are proved from the definition,   *)
(* a recursion over the subsets of S, by taking a smallest subset of S for *)
(* which the claim fails: the induction theorems of the library that take  *)
(* an operator are not needed, only that a family of subsets of a finite   *)
(* set has a minimal member.                                               *)
(***************************************************************************)
EXTENDS FiniteSetTheorems, TLAPS

-------------------------------------------------------------------------------
(* Induction over the subsets of a finite set *)

\* A family of subsets of a finite set has a smallest member.
LEMMA MinimalSubset ==
  ASSUME NEW S, IsFiniteSet(S), NEW F \in SUBSET SUBSET S, F # {}
  PROVE  \E T \in F : \A U \in F : U \subseteq T => U = T
<1>1. F \subseteq FiniteSubsetsOf(S)
  BY FS_Subset DEF FiniteSubsetsOf
<1>2. PICK T \in F : \A U \in F : ~(<<U, T>> \in StrictSubsetOrdering(S))
  BY <1>1, WFMin, FS_StrictSubsetOrderingWellFounded
<1>3. QED
  BY <1>2 DEF StrictSubsetOrdering

-------------------------------------------------------------------------------
(* The recursion is well defined *)

First(s) == CHOOSE x \in s : TRUE
Rest(s)  == s \ {First(s)}

\* g[s] is the sum over s, for each subset s of S.
IsTable(g, f, S) ==
  g = [s \in SUBSET S |-> IF s = {} THEN 0 ELSE f[First(s)] + g[Rest(s)]]

Table(f, S) == CHOOSE g : IsTable(g, f, S)

\* The sum is what the table says of the whole set.
LEMMA SumByTable ==
  ASSUME NEW f, NEW S
  PROVE  SumFunctionOnSet(f, S) = Table(f, S)[S]
BY DEF SumFunctionOnSet, FoldFunctionOnSet, MapThenFoldSet, Table, IsTable, First, Rest

\* The rest of a set that is not empty is a smaller set.
LEMMA RestIsSmaller ==
  ASSUME NEW s, s # {}
  PROVE  First(s) \in s /\ Rest(s) \subseteq s /\ Rest(s) # s
BY DEF First, Rest

\* What a table says of one subset.
LEMMA TableEntry ==
  ASSUME NEW g, NEW f, NEW S, IsTable(g, f, S), NEW s \in SUBSET S
  PROVE  g[s] = IF s = {} THEN 0 ELSE f[First(s)] + g[Rest(s)]
<1> DEFINE h == [t \in SUBSET S |-> IF t = {} THEN 0 ELSE f[First(t)] + g[Rest(t)]]
<1>1. g = h
  BY DEF IsTable
<1>2. h[s] = IF s = {} THEN 0 ELSE f[First(s)] + g[Rest(s)]
  OBVIOUS
<1> HIDE DEF h
<1>3. QED
  BY <1>1, <1>2

\* Two tables agree where both are defined.
LEMMA TablesAgree ==
  ASSUME NEW f, NEW g, NEW h, NEW S, NEW T, IsFiniteSet(S),
         IsTable(g, f, S), IsTable(h, f, T), NEW s \in SUBSET (S \cap T)
  PROVE  g[s] = h[s]
<1> DEFINE F == {t \in SUBSET S : t \subseteq T /\ g[t] # h[t]}
<1>1. SUFFICES ASSUME F # {}
               PROVE  FALSE
  OBVIOUS
<1>2. PICK t \in F : \A u \in F : u \subseteq t => u = t
  <2>1. F \in SUBSET SUBSET S
    OBVIOUS
  <2> HIDE DEF F
  <2>2. QED
    BY <1>1, <2>1, MinimalSubset
<1>3. t \subseteq S /\ t \subseteq T /\ g[t] # h[t]
  OBVIOUS
<1>4. CASE t = {}
  BY <1>3, <1>4, TableEntry
<1>5. CASE t # {}
  <2>1. Rest(t) \subseteq t /\ Rest(t) # t
    BY <1>5, RestIsSmaller
  <2>2. g[Rest(t)] = h[Rest(t)]
    BY <1>2, <1>3, <2>1
  <2>3. /\ g[t] = f[First(t)] + g[Rest(t)]
        /\ h[t] = f[First(t)] + h[Rest(t)]
    BY <1>3, <1>5, TableEntry
  <2>4. QED
    BY <1>3, <2>2, <2>3
<1>6. QED
  BY <1>4, <1>5

\* A finite set has a table, so the CHOOSE in the recursion finds it.
LEMMA TableExists ==
  ASSUME NEW f, NEW S, IsFiniteSet(S)
  PROVE  IsTable(Table(f, S), f, S)
<1> DEFINE F == {t \in SUBSET S : ~ \E g : IsTable(g, f, t)}
<1>1. SUFFICES F = {}
  BY DEF Table
<1>2. SUFFICES ASSUME F # {}
               PROVE  FALSE
  OBVIOUS
<1>3. PICK T \in F : \A u \in F : u \subseteq T => u = T
  <2>1. F \in SUBSET SUBSET S
    OBVIOUS
  <2> HIDE DEF F
  <2>2. QED
    BY <1>2, <2>1, MinimalSubset
<1>4. T \subseteq S /\ ~ \E g : IsTable(g, f, T)
  OBVIOUS
<1>5. ASSUME NEW u \in SUBSET T, u # T
      PROVE  IsTable(Table(f, u), f, u) /\ IsFiniteSet(u)
  <2>1. u \in SUBSET S /\ u \notin F
    BY <1>3, <1>4, <1>5
  <2>2. \E g : IsTable(g, f, u)
    BY <2>1
  <2>3. QED
    BY <2>1, <2>2, FS_Subset DEF Table
<1> DEFINE sum(u) == Table(f, u)[u]
           G == [u \in SUBSET T |-> IF u = {} THEN 0 ELSE f[First(u)] + sum(Rest(u))]
<1>6. ASSUME NEW u \in SUBSET T, u # {}
      PROVE  G[Rest(u)] = sum(Rest(u))
  <2> DEFINE w == Rest(u)
  <2>1. w \in SUBSET T /\ w # T
    BY <1>6, RestIsSmaller
  <2>2. IsTable(Table(f, w), f, w) /\ IsFiniteSet(w)
    BY <1>5, <2>1
  <2>3. w \in SUBSET w
    OBVIOUS
  <2> HIDE DEF w
  <2>4. CASE w = {}
    <3>1. sum(w) = 0
      BY <2>2, <2>3, <2>4, TableEntry
    <3>2. G[w] = 0
      BY <2>1, <2>4
    <3>3. QED
      BY <3>1, <3>2 DEF w
  <2>5. CASE w # {}
    <3>1. Rest(w) \in SUBSET T /\ Rest(w) # T /\ Rest(w) \in SUBSET w
      BY <2>1, <2>5, RestIsSmaller
    <3>2. IsTable(Table(f, Rest(w)), f, Rest(w))
      BY <1>5, <3>1
    <3>3. Rest(w) \in SUBSET (w \cap Rest(w))
      BY <3>1
    <3>4. Table(f, w)[Rest(w)] = sum(Rest(w))
      BY <2>2, <3>2, <3>3, TablesAgree
    <3>5. sum(w) = f[First(w)] + Table(f, w)[Rest(w)]
      BY <2>2, <2>3, <2>5, TableEntry
    <3>6. G[w] = f[First(w)] + sum(Rest(w))
      BY <2>1, <2>5
    <3>7. QED
      BY <3>4, <3>5, <3>6 DEF w
  <2>6. QED
    BY <2>4, <2>5
<1>7. IsTable(G, f, T)
  <2>1. \A u \in SUBSET T :
          (IF u = {} THEN 0 ELSE f[First(u)] + sum(Rest(u)))
            = IF u = {} THEN 0 ELSE f[First(u)] + G[Rest(u)]
    BY <1>6
  <2>2. G = [u \in SUBSET T |-> IF u = {} THEN 0 ELSE f[First(u)] + G[Rest(u)]]
    BY <2>1
  <2> HIDE DEF G
  <2>3. QED
    BY <2>2 DEF IsTable
<1>8. QED
  BY <1>4, <1>7

-------------------------------------------------------------------------------
(* What sums are *)

\* Nothing sums up to 0.
LEMMA SumEmpty ==
  ASSUME NEW f
  PROVE  SumFunctionOnSet(f, {}) = 0
<1>1. IsTable(Table(f, {}), f, {})
  BY FS_EmptySet, TableExists
<1>2. Table(f, {})[{}] = 0
  BY <1>1, TableEntry
<1>3. QED
  BY <1>2, SumByTable

\* The equation of the recursion.
LEMMA SumFirst ==
  ASSUME NEW f, NEW S, IsFiniteSet(S), S # {}
  PROVE  SumFunctionOnSet(f, S) = f[First(S)] + SumFunctionOnSet(f, Rest(S))
<1>1. /\ Rest(S) \in SUBSET S /\ IsFiniteSet(Rest(S))
      /\ S \in SUBSET S /\ Rest(S) \in SUBSET (S \cap Rest(S))
  BY RestIsSmaller, FS_Subset
<1>2. IsTable(Table(f, S), f, S) /\ IsTable(Table(f, Rest(S)), f, Rest(S))
  BY <1>1, TableExists
<1>3. Table(f, S)[S] = f[First(S)] + Table(f, S)[Rest(S)]
  BY <1>1, <1>2, TableEntry
<1>4. Table(f, S)[Rest(S)] = Table(f, Rest(S))[Rest(S)]
  BY <1>1, <1>2, TablesAgree
<1>5. QED
  BY <1>3, <1>4, SumByTable

\* A sum of numbers is a number. N is Nat or Int.
LEMMA SumClosed ==
  ASSUME NEW f, NEW S, IsFiniteSet(S), NEW N, 0 \in N,
         \A m, n \in N : m + n \in N, \A x \in S : f[x] \in N
  PROVE  SumFunctionOnSet(f, S) \in N
<1> DEFINE F == {t \in SUBSET S : SumFunctionOnSet(f, t) \notin N}
<1>1. SUFFICES ASSUME F # {}
               PROVE  FALSE
  OBVIOUS
<1>2. PICK t \in F : \A u \in F : u \subseteq t => u = t
  <2>1. F \in SUBSET SUBSET S
    OBVIOUS
  <2> HIDE DEF F
  <2>2. QED
    BY <1>1, <2>1, MinimalSubset
<1>3. t \in SUBSET S /\ SumFunctionOnSet(f, t) \notin N /\ IsFiniteSet(t)
  BY FS_Subset
<1>4. t # {}
  BY <1>3, SumEmpty
<1>5. First(t) \in S /\ Rest(t) \in SUBSET S /\ Rest(t) \subseteq t /\ Rest(t) # t
  BY <1>3, <1>4, RestIsSmaller
<1>6. SumFunctionOnSet(f, Rest(t)) \in N
  BY <1>2, <1>5
<1>7. SumFunctionOnSet(f, t) = f[First(t)] + SumFunctionOnSet(f, Rest(t))
  BY <1>3, <1>4, SumFirst
<1>8. QED
  BY <1>3, <1>5, <1>6, <1>7

\* A sum of integers is an integer ...
LEMMA SumInt ==
  ASSUME NEW f, NEW S, IsFiniteSet(S), \A x \in S : f[x] \in Int
  PROVE  SumFunctionOnSet(f, S) \in Int
<1>1. 0 \in Int /\ \A m, n \in Int : m + n \in Int
  OBVIOUS
<1>2. QED
  BY <1>1, SumClosed

\* ... and a sum of naturals a natural.
LEMMA SumNat ==
  ASSUME NEW f, NEW S, IsFiniteSet(S), \A x \in S : f[x] \in Nat
  PROVE  SumFunctionOnSet(f, S) \in Nat
<1>1. 0 \in Nat /\ \A m, n \in Nat : m + n \in Nat
  OBVIOUS
<1>2. QED
  BY <1>1, SumClosed

\* Whichever element is taken first, the sum is the same.
LEMMA SumTake ==
  ASSUME NEW f, NEW S, IsFiniteSet(S), \A x \in S : f[x] \in Int, NEW x \in S
  PROVE  SumFunctionOnSet(f, S) = f[x] + SumFunctionOnSet(f, S \ {x})
<1> DEFINE sum(t) == SumFunctionOnSet(f, t)
           Fails(t, z) == z \in t /\ sum(t) # f[z] + sum(t \ {z})
           F == {t \in SUBSET S : \E z \in S : Fails(t, z)}
<1>1. SUFFICES ASSUME F # {}
               PROVE  FALSE
  OBVIOUS
<1>2. PICK t \in F : \A u \in F : u \subseteq t => u = t
  <2>1. F \in SUBSET SUBSET S
    OBVIOUS
  <2> HIDE DEF F
  <2>2. QED
    BY <1>1, <2>1, MinimalSubset
<1>3. PICK z \in S : Fails(t, z)
  OBVIOUS
<1>4. \A u \in SUBSET S : IsFiniteSet(u) /\ sum(u) \in Int
  BY FS_Subset, SumInt
<1> DEFINE y == First(t)
<1>5. t \in SUBSET S /\ z \in t /\ sum(t) # f[z] + sum(t \ {z})
  BY <1>3
<1>6. y \in t /\ sum(t) = f[y] + sum(t \ {y})
  BY <1>4, <1>5, SumFirst, RestIsSmaller DEF Rest
<1> HIDE DEF y
<1>7. z # y
  BY <1>5, <1>6
<1>8. ASSUME NEW u \in SUBSET t, u # t, NEW v \in u
      PROVE  sum(u) = f[v] + sum(u \ {v})
  <2>1. u \notin F /\ v \in S
    BY <1>2, <1>5, <1>8
  <2>2. QED
    BY <1>5, <2>1
<1>9. sum(t \ {y}) = f[z] + sum((t \ {y}) \ {z})
  BY <1>5, <1>6, <1>7, <1>8
<1>10. sum(t \ {z}) = f[y] + sum((t \ {z}) \ {y})
  BY <1>5, <1>6, <1>7, <1>8
<1>11. (t \ {y}) \ {z} = (t \ {z}) \ {y} /\ (t \ {y}) \ {z} \in SUBSET S
  BY <1>5
<1>12. sum((t \ {y}) \ {z}) \in Int /\ f[y] \in Int /\ f[z] \in Int
  BY <1>4, <1>5, <1>6, <1>11
<1> HIDE DEF sum
<1>13. /\ sum(t) = f[y] + (f[z] + sum((t \ {y}) \ {z}))
       /\ f[z] + sum(t \ {z}) = f[z] + (f[y] + sum((t \ {y}) \ {z}))
  BY <1>6, <1>9, <1>10, <1>11
<1>14. \A i, j, k \in Int : i + (j + k) = j + (i + k)
  OBVIOUS
<1>15. QED
  BY <1>5, <1>12, <1>13, <1>14

\* A sum depends on its terms only.
LEMMA SumSame ==
  ASSUME NEW f, NEW g, NEW S, IsFiniteSet(S), \A x \in S : f[x] = g[x]
  PROVE  SumFunctionOnSet(f, S) = SumFunctionOnSet(g, S)
<1> DEFINE F == {t \in SUBSET S : SumFunctionOnSet(f, t) # SumFunctionOnSet(g, t)}
<1>1. SUFFICES ASSUME F # {}
               PROVE  FALSE
  OBVIOUS
<1>2. PICK t \in F : \A u \in F : u \subseteq t => u = t
  <2>1. F \in SUBSET SUBSET S
    OBVIOUS
  <2> HIDE DEF F
  <2>2. QED
    BY <1>1, <2>1, MinimalSubset
<1>3. t \in SUBSET S /\ IsFiniteSet(t)
      /\ SumFunctionOnSet(f, t) # SumFunctionOnSet(g, t)
  BY FS_Subset
<1>4. t # {}
  BY <1>3, SumEmpty
<1>5. First(t) \in S /\ Rest(t) \in SUBSET S /\ Rest(t) \subseteq t /\ Rest(t) # t
  BY <1>3, <1>4, RestIsSmaller
<1>6. SumFunctionOnSet(f, Rest(t)) = SumFunctionOnSet(g, Rest(t))
  BY <1>2, <1>5
<1>7. /\ SumFunctionOnSet(f, t) = f[First(t)] + SumFunctionOnSet(f, Rest(t))
      /\ SumFunctionOnSet(g, t) = g[First(t)] + SumFunctionOnSet(g, Rest(t))
  BY <1>3, <1>4, SumFirst
<1>8. QED
  BY <1>3, <1>5, <1>6, <1>7

\* Two sums that differ in one place only: the place may be in either set, or in both.
LEMMA SumChange ==
  ASSUME NEW S, NEW T, IsFiniteSet(S), IsFiniteSet(T), NEW a, S \ {a} = T \ {a},
         NEW f, NEW g, \A x \in S : f[x] \in Int, \A x \in T : g[x] \in Int,
         \A x \in S \ {a} : f[x] = g[x]
  PROVE  SumFunctionOnSet(g, T) =
           SumFunctionOnSet(f, S) - (IF a \in S THEN f[a] ELSE 0)
                                  + (IF a \in T THEN g[a] ELSE 0)
<1> DEFINE R == S \ {a}
           rest == SumFunctionOnSet(f, R)
<1>1. IsFiniteSet(R) /\ \A x \in R : f[x] \in Int
  BY FS_RemoveElement
<1>2. rest \in Int
  BY <1>1, SumInt
<1>3. rest = SumFunctionOnSet(g, R)
  BY <1>1, SumSame
<1>4. SumFunctionOnSet(f, S) = rest + (IF a \in S THEN f[a] ELSE 0)
  <2>1. CASE a \in S
    <3>1. SumFunctionOnSet(f, S) = f[a] + rest
      BY <2>1, SumTake
    <3> HIDE DEF rest
    <3>2. QED
      BY <1>2, <2>1, <3>1
  <2>2. CASE a \notin S
    <3>1. S = R
      BY <2>2
    <3>2. SumFunctionOnSet(f, S) = rest
      BY <3>1
    <3> HIDE DEF rest
    <3>3. QED
      BY <1>2, <2>2, <3>2
  <2>3. QED
    BY <2>1, <2>2
<1>5. SumFunctionOnSet(g, T) = rest + (IF a \in T THEN g[a] ELSE 0)
  <2>1. R = T \ {a}
    OBVIOUS
  <2>2. CASE a \in T
    <3>1. SumFunctionOnSet(g, T) = g[a] + SumFunctionOnSet(g, T \ {a})
      BY <2>2, SumTake
    <3>2. SumFunctionOnSet(g, T) = g[a] + rest
      BY <1>3, <2>1, <3>1
    <3> HIDE DEF rest, R
    <3>3. QED
      BY <1>2, <2>2, <3>2
  <2>3. CASE a \notin T
    <3>1. T = R
      BY <2>1, <2>3
    <3>2. SumFunctionOnSet(g, T) = rest
      BY <1>3, <3>1
    <3> HIDE DEF rest, R
    <3>3. QED
      BY <1>2, <2>3, <3>2
  <2>4. QED
    BY <2>2, <2>3
<1>6. a \in S => f[a] \in Int
  OBVIOUS
<1>7. a \in T => g[a] \in Int
  OBVIOUS
<1> HIDE DEF rest, R
<1>8. QED
  BY <1>2, <1>4, <1>5, <1>6, <1>7

\* Functions that differ in one element: the sums differ by as much.
LEMMA SumUpdate ==
  ASSUME NEW S, IsFiniteSet(S), NEW a \in S, NEW f, NEW g,
         \A x \in S : f[x] \in Int /\ g[x] \in Int, \A x \in S \ {a} : f[x] = g[x]
  PROVE  SumFunctionOnSet(g, S) = SumFunctionOnSet(f, S) - f[a] + g[a]
<1>1. S \ {a} = S \ {a}
  OBVIOUS
<1>2. SumFunctionOnSet(g, S) =
        SumFunctionOnSet(f, S) - (IF a \in S THEN f[a] ELSE 0)
                               + (IF a \in S THEN g[a] ELSE 0)
  BY <1>1, SumChange
<1>3. QED
  BY <1>2

-------------------------------------------------------------------------------
(* How sums compare *)

\* Smaller summands, smaller sum.
LEMMA SumMonotone ==
  ASSUME NEW f, NEW g, NEW S, IsFiniteSet(S),
         \A x \in S : f[x] \in Int /\ g[x] \in Int /\ f[x] <= g[x]
  PROVE  SumFunctionOnSet(f, S) <= SumFunctionOnSet(g, S)
<1> DEFINE F == {t \in SUBSET S : ~(SumFunctionOnSet(f, t) <= SumFunctionOnSet(g, t))}
<1>1. SUFFICES ASSUME F # {}
               PROVE  FALSE
  OBVIOUS
<1>2. PICK t \in F : \A u \in F : u \subseteq t => u = t
  <2>1. F \in SUBSET SUBSET S
    OBVIOUS
  <2> HIDE DEF F
  <2>2. QED
    BY <1>1, <2>1, MinimalSubset
<1>3. t \in SUBSET S /\ IsFiniteSet(t)
      /\ ~(SumFunctionOnSet(f, t) <= SumFunctionOnSet(g, t))
  BY FS_Subset
<1>4. t # {}
  BY <1>3, SumEmpty
<1>5. First(t) \in S /\ Rest(t) \in SUBSET S /\ Rest(t) \subseteq t /\ Rest(t) # t
  BY <1>3, <1>4, RestIsSmaller
<1>6. SumFunctionOnSet(f, Rest(t)) <= SumFunctionOnSet(g, Rest(t))
  BY <1>2, <1>5
<1>7. /\ SumFunctionOnSet(f, t) = f[First(t)] + SumFunctionOnSet(f, Rest(t))
      /\ SumFunctionOnSet(g, t) = g[First(t)] + SumFunctionOnSet(g, Rest(t))
  BY <1>3, <1>4, SumFirst
<1>8. /\ SumFunctionOnSet(f, Rest(t)) \in Int
      /\ SumFunctionOnSet(g, Rest(t)) \in Int
  BY <1>5, FS_Subset, SumInt
<1>9. f[First(t)] \in Int /\ g[First(t)] \in Int /\ f[First(t)] <= g[First(t)]
  BY <1>5
<1>10. QED
  BY <1>3, <1>6, <1>7, <1>8, <1>9

\* With terms that are not negative, a sum over less is no more.
LEMMA SumSubset ==
  ASSUME NEW f, NEW S, IsFiniteSet(S), \A x \in S : f[x] \in Nat, NEW T \in SUBSET S
  PROVE  SumFunctionOnSet(f, T) <= SumFunctionOnSet(f, S)
<1> DEFINE F == {t \in SUBSET S : T \subseteq t
                   /\ ~(SumFunctionOnSet(f, T) <= SumFunctionOnSet(f, t))}
<1>1. SUFFICES ASSUME F # {}
               PROVE  FALSE
  OBVIOUS
<1>2. PICK t \in F : \A u \in F : u \subseteq t => u = t
  <2>1. F \in SUBSET SUBSET S
    OBVIOUS
  <2> HIDE DEF F
  <2>2. QED
    BY <1>1, <2>1, MinimalSubset
<1>3. \A u \in SUBSET S : IsFiniteSet(u) /\ SumFunctionOnSet(f, u) \in Nat
  BY FS_Subset, SumNat
<1>4. t \in SUBSET S /\ T \subseteq t
      /\ ~(SumFunctionOnSet(f, T) <= SumFunctionOnSet(f, t))
  OBVIOUS
<1>5. PICK x \in t : x \notin T
  <2>1. T # t
    BY <1>3, <1>4
  <2>2. QED
    BY <1>4, <2>1
<1>6. t \ {x} \in SUBSET S /\ T \subseteq t \ {x} /\ t \ {x} # t /\ t \ {x} \subseteq t
  BY <1>4, <1>5
<1>7. SumFunctionOnSet(f, T) <= SumFunctionOnSet(f, t \ {x})
  BY <1>2, <1>6
<1>8. SumFunctionOnSet(f, t) = f[x] + SumFunctionOnSet(f, t \ {x})
  <2>1. \A y \in t : f[y] \in Int
    BY <1>4
  <2>2. QED
    BY <1>3, <1>4, <1>5, <2>1, SumTake
<1>9. /\ SumFunctionOnSet(f, T) \in Nat /\ SumFunctionOnSet(f, t \ {x}) \in Nat
      /\ f[x] \in Nat
  BY <1>3, <1>4, <1>5, <1>6
<1>10. QED
  BY <1>4, <1>7, <1>8, <1>9

\* A summand is at most the sum of naturals it is in.
LEMMA SumMember ==
  ASSUME NEW f, NEW S, IsFiniteSet(S), \A x \in S : f[x] \in Nat, NEW x \in S
  PROVE  f[x] <= SumFunctionOnSet(f, S)
<1>1. SumFunctionOnSet(f, S) = f[x] + SumFunctionOnSet(f, S \ {x})
  BY SumTake
<1>2. SumFunctionOnSet(f, S \ {x}) \in Nat
  BY FS_RemoveElement, SumNat
<1>3. QED
  BY <1>1, <1>2

\* Nothing but zeros.
LEMMA SumZero ==
  ASSUME NEW f, NEW S, IsFiniteSet(S), \A x \in S : f[x] = 0
  PROVE  SumFunctionOnSet(f, S) = 0
<1>1. \A x \in S : f[x] \in Int /\ f[x] \in {0}
  OBVIOUS
<1>2. SumFunctionOnSet(f, S) \in {0}
  <2>1. 0 \in {0} /\ \A m, n \in {0} : m + n \in {0}
    OBVIOUS
  <2>2. QED
    BY <1>1, <2>1, SumClosed
<1>3. QED
  BY <1>2

-------------------------------------------------------------------------------
(* Sums over sets that are related *)

\* A sum is the sum of its parts, one for each value of k.
LEMMA SumFibers ==
  ASSUME NEW f, NEW k, NEW S, NEW C, IsFiniteSet(S), IsFiniteSet(C),
         \A x \in S : f[x] \in Int /\ k[x] \in C
  PROVE  SumFunctionOnSet(f, S) =
           SumFunctionOnSet([c \in C |-> SumFunctionOnSet(f, {x \in S : k[x] = c})], C)
<1> DEFINE fiber(t, c) == {x \in t : k[x] = c}
           parts(t) == [c \in C |-> SumFunctionOnSet(f, fiber(t, c))]
           F == {t \in SUBSET S : SumFunctionOnSet(f, t) # SumFunctionOnSet(parts(t), C)}
<1>1. SUFFICES ASSUME F # {}
               PROVE  FALSE
  OBVIOUS
<1>2. PICK t \in F : \A u \in F : u \subseteq t => u = t
  <2>1. F \in SUBSET SUBSET S
    OBVIOUS
  <2> HIDE DEF F
  <2>2. QED
    BY <1>1, <2>1, MinimalSubset
<1>3. t \in SUBSET S /\ IsFiniteSet(t)
      /\ SumFunctionOnSet(f, t) # SumFunctionOnSet(parts(t), C)
  BY FS_Subset
<1>4. ASSUME NEW u \in SUBSET S, NEW c \in C
      PROVE  /\ IsFiniteSet(u) /\ IsFiniteSet(fiber(u, c))
             /\ parts(u)[c] = SumFunctionOnSet(f, fiber(u, c))
             /\ parts(u)[c] \in Int /\ SumFunctionOnSet(f, u) \in Int
  <2>1. IsFiniteSet(u) /\ IsFiniteSet(fiber(u, c))
    BY FS_Subset
  <2>2. SumFunctionOnSet(f, fiber(u, c)) \in Int /\ SumFunctionOnSet(f, u) \in Int
    BY <2>1, SumInt
  <2>3. QED
    BY <2>1, <2>2
<1>5. t # {}
  <2>1. SUFFICES ASSUME t = {} PROVE FALSE
    OBVIOUS
  <2>2. \A c \in C : fiber(t, c) = {}
    BY <2>1
  <2>3. \A c \in C : parts(t)[c] = 0
    BY <2>2, SumEmpty
  <2> HIDE DEF parts
  <2>4. SumFunctionOnSet(parts(t), C) = 0
    BY <2>3, SumZero
  <2>5. QED
    BY <1>3, <2>1, <2>4, SumEmpty
<1>6. PICK x \in t : TRUE
  BY <1>5
<1> DEFINE u == t \ {x}
<1>7. u \in SUBSET S /\ u \subseteq t /\ u # t /\ x \in S /\ k[x] \in C /\ f[x] \in Int
  BY <1>3, <1>6
<1>8. SumFunctionOnSet(f, u) = SumFunctionOnSet(parts(u), C)
  <2>1. u \notin F
    BY <1>2, <1>7
  <2>2. QED
    BY <1>7, <2>1
<1>9. SumFunctionOnSet(f, t) = f[x] + SumFunctionOnSet(f, u)
  BY <1>3, <1>6, SumTake
<1>10. \A c \in C \ {k[x]} : parts(u)[c] = parts(t)[c]
  <2>1. \A c \in C \ {k[x]} : fiber(u, c) = fiber(t, c)
    OBVIOUS
  <2>2. QED
    BY <2>1
<1>11. parts(t)[k[x]] = f[x] + parts(u)[k[x]]
  <2>1. x \in fiber(t, k[x]) /\ fiber(u, k[x]) = fiber(t, k[x]) \ {x}
    BY <1>6
  <2>2. \A y \in fiber(t, k[x]) : f[y] \in Int
    BY <1>3
  <2>3. IsFiniteSet(fiber(t, k[x]))
    BY <1>3, <1>4, <1>7
  <2> HIDE DEF fiber
  <2>4. SumFunctionOnSet(f, fiber(t, k[x]))
          = f[x] + SumFunctionOnSet(f, fiber(t, k[x]) \ {x})
    BY <2>1, <2>2, <2>3, SumTake
  <2>5. QED
    BY <1>7, <2>1, <2>4
<1>12. /\ \A c \in C : parts(t)[c] \in Int
       /\ \A c \in C : parts(u)[c] \in Int
  BY <1>3, <1>4, <1>7
<1>13. SumFunctionOnSet(f, t) \in Int /\ SumFunctionOnSet(f, u) \in Int
  BY <1>3, <1>4, <1>7
<1> HIDE DEF parts, u
<1>14. SumFunctionOnSet(parts(t), C) =
         SumFunctionOnSet(parts(u), C) - parts(u)[k[x]] + parts(t)[k[x]]
  BY <1>7, <1>10, <1>12, SumChange
<1>15. QED
  BY <1>3, <1>7, <1>8, <1>9, <1>11, <1>12, <1>13, <1>14

\* Terms that each find one of their own at least as large in the other sum.
LEMMA SumInjection ==
  ASSUME NEW f, NEW g, NEW h, NEW S, NEW T, IsFiniteSet(S), IsFiniteSet(T),
         \A x \in S : f[x] \in Nat, \A y \in T : g[y] \in Nat,
         \A x \in S : f[x] > 0 => h[x] \in T /\ f[x] <= g[h[x]],
         \A x, y \in S : f[x] > 0 /\ f[y] > 0 /\ h[x] = h[y] => x = y
  PROVE  SumFunctionOnSet(f, S) <= SumFunctionOnSet(g, T)
<1> DEFINE image(t) == {h[x] : x \in {y \in t : f[y] > 0}}
           sum(t)   == SumFunctionOnSet(f, t)
           bound(t) == SumFunctionOnSet(g, image(t))
           F == {t \in SUBSET S : ~(sum(t) <= bound(t))}
<1>1. ASSUME NEW t \in SUBSET S
      PROVE  /\ IsFiniteSet(t) /\ IsFiniteSet(image(t)) /\ image(t) \in SUBSET T
             /\ sum(t) \in Nat /\ bound(t) \in Nat
  <2>1. IsFiniteSet(t) /\ image(t) \in SUBSET T
    BY FS_Subset
  <2>2. IsFiniteSet(image(t))
    BY <2>1, FS_Subset
  <2>3. \A y \in image(t) : g[y] \in Nat
    BY <2>1
  <2> HIDE DEF image
  <2>4. sum(t) \in Nat /\ bound(t) \in Nat
    BY <2>1, <2>2, <2>3, SumNat
  <2>5. QED
    BY <2>1, <2>2, <2>4
<1>2. F = {}
  <2>1. SUFFICES ASSUME F # {}
                 PROVE  FALSE
    OBVIOUS
  <2>2. PICK t \in F : \A u \in F : u \subseteq t => u = t
    <3>1. F \in SUBSET SUBSET S
      OBVIOUS
    <3> HIDE DEF F
    <3>2. QED
      BY <2>1, <3>1, MinimalSubset
  <2>3. t \in SUBSET S /\ ~(sum(t) <= bound(t))
    OBVIOUS
  <2>4. t # {}
    <3>1. SUFFICES ASSUME t = {} PROVE FALSE
      OBVIOUS
    <3>2. sum(t) = 0
      BY <3>1, SumEmpty
    <3>3. bound(t) \in Nat
      BY <1>1, <2>3
    <3> HIDE DEF bound, sum
    <3>4. QED
      BY <2>3, <3>2, <3>3
  <2>5. PICK x \in t : TRUE
    BY <2>4
  <2> DEFINE u == t \ {x}
  <2>6. u \in SUBSET S /\ u \subseteq t /\ u # t /\ x \in S /\ f[x] \in Nat
    BY <2>3, <2>5
  <2>7. sum(u) <= bound(u)
    <3>1. u \notin F
      BY <2>2, <2>6
    <3>2. QED
      BY <2>6, <3>1
  <2>8. sum(t) = f[x] + sum(u)
    <3>1. IsFiniteSet(t) /\ \A y \in t : f[y] \in Int
      BY <1>1, <2>3
    <3> HIDE DEF F
    <3>2. SumFunctionOnSet(f, t) = f[x] + SumFunctionOnSet(f, t \ {x})
      BY <2>5, <3>1, SumTake
    <3>3. QED
      BY <3>2
  <2>9. bound(t) >= bound(u) + f[x]
    <3>1. CASE f[x] = 0
      <4>1. image(t) = image(u)
        BY <3>1
      <4>2. bound(u) \in Nat /\ bound(t) = bound(u)
        BY <1>1, <2>6, <4>1
      <4> HIDE DEF bound
      <4>3. QED
        BY <3>1, <4>2
    <3>2. CASE f[x] > 0
      <4>1. h[x] \in image(t) /\ f[x] <= g[h[x]] /\ h[x] \in T
        BY <2>3, <2>5, <3>2
      <4>2. image(u) = image(t) \ {h[x]}
        <5>1. h[x] \notin image(u)
          BY <2>3, <2>5, <3>2
        <5>2. QED
          BY <5>1
      <4>3. IsFiniteSet(image(t)) /\ \A y \in image(t) : g[y] \in Int
        BY <1>1, <2>3
      <4>4. bound(u) \in Nat /\ bound(t) \in Nat /\ g[h[x]] \in Nat
        BY <1>1, <2>3, <2>6, <4>1
      <4> HIDE DEF image
      <4>5. SumFunctionOnSet(g, image(t))
              = g[h[x]] + SumFunctionOnSet(g, image(t) \ {h[x]})
        BY <4>1, <4>3, SumTake
      <4>6. bound(t) = g[h[x]] + bound(u)
        BY <4>2, <4>5
      <4> HIDE DEF bound
      <4>7. QED
        BY <2>6, <4>1, <4>4, <4>6
    <3>3. QED
      BY <2>6, <3>1, <3>2
  <2>10. sum(t) \in Nat /\ sum(u) \in Nat /\ bound(t) \in Nat /\ bound(u) \in Nat
    BY <1>1, <2>3, <2>6
  <2> HIDE DEF sum, bound, u
  <2>11. QED
    BY <2>3, <2>6, <2>7, <2>8, <2>9, <2>10
<1>3. sum(S) <= bound(S)
  <2>1. S \in SUBSET S
    OBVIOUS
  <2>2. QED
    BY <1>2, <2>1
<1>4. bound(S) <= SumFunctionOnSet(g, T)
  <2>1. image(S) \in SUBSET T
    BY <1>1
  <2> HIDE DEF image
  <2>2. QED
    BY <2>1, SumSubset
<1>5. sum(S) \in Nat /\ bound(S) \in Nat /\ SumFunctionOnSet(g, T) \in Nat
  BY <1>1, SumNat
<1>6. SumFunctionOnSet(f, S) = sum(S)
  OBVIOUS
<1> HIDE DEF sum, bound
<1>7. QED
  BY <1>3, <1>4, <1>5, <1>6
===============================================================================
