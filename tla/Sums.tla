-------------------------------- MODULE Sums --------------------------------
(***************************************************************************)
(* Laws of SumFunctionOnSet, the sum of a function's values over a finite  *)
(* set of indices.  The sum is a recursive function over subsets that picks*)
(* an element by CHOOSE; its laws are proved by looking at a least number  *)
(* for which they fail.                                                    *)
(***************************************************************************)
EXTENDS Integers, FiniteSets, Functions, FiniteSetTheorems, TLAPS

Some(s) == CHOOSE x \in s : TRUE
LOCAL Less == {ss \in Nat \X Nat : ss[1] < ss[2]}

\* A nonempty set of naturals has a least element.
LEMMA LeastNatural ==
  ASSUME NEW T, T \subseteq Nat, T # {}
  PROVE  \E x \in T : \A y \in T : x <= y
<1>1. IsWellFoundedOn(Less, Nat)
  BY NatLessThanWellFounded DEF OpToRel, Less
<1>2. PICK x \in T : \A y \in T : ~(<<y, x>> \in Less)
  BY <1>1, WFMin
<1>3. \A y \in T : ~(y < x)
  BY <1>2 DEF Less
<1> QED BY <1>3

\* What holds at 0 and passes from n to n + 1 holds everywhere.
LEMMA Climb ==
  ASSUME NEW Good, 0 \in Good, \A n \in Nat : n \in Good => n + 1 \in Good
  PROVE  Nat \subseteq Good
<1> DEFINE Bad == {n \in Nat : n \notin Good}
<1>1. SUFFICES ASSUME Bad # {} PROVE FALSE
  OBVIOUS
<1>2. PICK m \in Bad : \A y \in Bad : m <= y
  BY <1>1, LeastNatural
<1>3. m \in Nat /\ m # 0 /\ m - 1 \in Nat
  BY <1>2
<1>4. m - 1 \in Good
  BY <1>2, <1>3
<1> QED BY <1>2, <1>3, <1>4

\* Subsets of a finite set, by their sizes.
LEMMA Sizes ==
  ASSUME NEW S, IsFiniteSet(S)
  PROVE  \A s \in SUBSET S : IsFiniteSet(s) /\ Cardinality(s) \in Nat /\ (Cardinality(s) = 0 <=> s = {})
BY FS_Subset, FS_CardinalityType, FS_EmptySet

LEMMA OneLess ==
  ASSUME NEW S, IsFiniteSet(S), NEW s \in SUBSET S, NEW n \in Nat, Cardinality(s) = n + 1
  PROVE  /\ s # {} /\ Some(s) \in s
         /\ \A x \in s : s \ {x} \in SUBSET S /\ Cardinality(s \ {x}) = n
<1>1. IsFiniteSet(s) /\ s # {}
  BY Sizes
<1>2. Some(s) \in s
  BY <1>1 DEF Some
<1>3. \A x \in s : Cardinality(s \ {x}) = Cardinality(s) - 1
  BY <1>1, FS_RemoveElement
<1> QED BY <1>1, <1>2, <1>3

------------------------------------------------------------------------------
(***************************************************************************)
(* The recursion equation                                                  *)
(***************************************************************************)
SumsBelow(w, it, D) ==
  it = [s \in D |-> IF s = {} THEN 0 ELSE w[Some(s)] + it[s \ {Some(s)}]]

SubsetsUpTo(S, n) == {s \in SUBSET S : Cardinality(s) <= n}

\* Two functions that sum agree on what they have in common.
LEMMA SumsAgree ==
  ASSUME NEW w, NEW S, IsFiniteSet(S), NEW D, NEW E, NEW f, NEW g,
         SumsBelow(w, f, D), SumsBelow(w, g, E),
         \A s \in SUBSET S : s \in D /\ s \in E
  PROVE  \A s \in SUBSET S : f[s] = g[s]
<1> DEFINE Good == {n \in Nat : \A s \in SUBSET S : Cardinality(s) = n => f[s] = g[s]}
<1>1. \A s \in SUBSET S : IsFiniteSet(s) /\ Cardinality(s) \in Nat /\ (Cardinality(s) = 0 <=> s = {})
  BY Sizes
<1>2. \A s \in SUBSET S :
        /\ f[s] = IF s = {} THEN 0 ELSE w[Some(s)] + f[s \ {Some(s)}]
        /\ g[s] = IF s = {} THEN 0 ELSE w[Some(s)] + g[s \ {Some(s)}]
  BY DEF SumsBelow
<1>3. 0 \in Good
  BY <1>1, <1>2
<1>4. ASSUME NEW n \in Nat, n \in Good PROVE n + 1 \in Good
  <2> SUFFICES ASSUME NEW s \in SUBSET S, Cardinality(s) = n + 1 PROVE f[s] = g[s]
    OBVIOUS
  <2>1. s # {} /\ Some(s) \in s
    BY OneLess
  <2>2. s \ {Some(s)} \in SUBSET S /\ Cardinality(s \ {Some(s)}) = n
    BY <2>1, OneLess
  <2> QED BY <1>2, <1>4, <2>1, <2>2
<1>5. Nat \subseteq Good
  <2> HIDE DEF Good
  <2> QED BY <1>3, <1>4, Climb
<1> QED BY <1>1, <1>5

\* There is a function that sums over the subsets of a finite set.
LEMMA SumsExist ==
  ASSUME NEW w, NEW S, IsFiniteSet(S)
  PROVE  \E it : SumsBelow(w, it, SUBSET S)
<1> DEFINE Good == {n \in Nat : \E it : SumsBelow(w, it, SubsetsUpTo(S, n))}
<1>1. \A s \in SUBSET S : IsFiniteSet(s) /\ Cardinality(s) \in Nat /\ (Cardinality(s) = 0 <=> s = {})
  BY Sizes
<1>2. 0 \in Good
  <2> DEFINE it == [s \in SubsetsUpTo(S, 0) |-> 0]
  <2>1. \A s \in SubsetsUpTo(S, 0) : s = {}
    BY <1>1 DEF SubsetsUpTo
  <2>2. SumsBelow(w, it, SubsetsUpTo(S, 0))
    BY <2>1 DEF SumsBelow
  <2> QED BY <2>2
<1>3. ASSUME NEW n \in Nat, n \in Good PROVE n + 1 \in Good
  <2>1. PICK f : SumsBelow(w, f, SubsetsUpTo(S, n))
    BY <1>3
  <2> DEFINE g == [s \in SubsetsUpTo(S, n + 1) |->
                     IF s = {} THEN 0 ELSE w[Some(s)] + f[s \ {Some(s)}]]
  <2>2. ASSUME NEW s \in SubsetsUpTo(S, n + 1), s # {}
        PROVE  g[s \ {Some(s)}] = f[s \ {Some(s)}]
    <3>1. Some(s) \in s /\ s \in SUBSET S
      BY <2>2 DEF Some, SubsetsUpTo
    <3>2. s \ {Some(s)} \in SubsetsUpTo(S, n) /\ s \ {Some(s)} \in SubsetsUpTo(S, n + 1)
      <4>1. Cardinality(s \ {Some(s)}) = Cardinality(s) - 1 /\ Cardinality(s) \in Nat
        BY <1>1, <3>1, FS_RemoveElement
      <4> QED BY <3>1, <4>1 DEF SubsetsUpTo
    <3> QED BY <2>1, <3>2 DEF SumsBelow
  <2>3. SumsBelow(w, g, SubsetsUpTo(S, n + 1))
    BY <2>2 DEF SumsBelow
  <2> QED BY <2>3
<1>4. Nat \subseteq Good
  <2> HIDE DEF Good
  <2> QED BY <1>2, <1>3, Climb
<1>5. SubsetsUpTo(S, Cardinality(S)) = SUBSET S /\ Cardinality(S) \in Nat
  BY FS_Subset, FS_CardinalityType DEF SubsetsUpTo
<1> QED BY <1>4, <1>5

LEMMA SumEquation ==
  ASSUME NEW w, NEW S, IsFiniteSet(S)
  PROVE  SumFunctionOnSet(w, S)
           = IF S = {} THEN 0 ELSE w[Some(S)] + SumFunctionOnSet(w, S \ {Some(S)})
<1> DEFINE It(T) == CHOOSE it : SumsBelow(w, it, SUBSET T)
<1>1. \A T : SumFunctionOnSet(w, T) = It(T)[T]
  BY DEF SumFunctionOnSet, FoldFunctionOnSet, MapThenFoldSet, SumsBelow, Some
<1>2. \A T : IsFiniteSet(T) => SumsBelow(w, It(T), SUBSET T)
  BY SumsExist
<1>3. CASE S = {}
  <2> HIDE DEF It
  <2>1. SumsBelow(w, It(S), SUBSET S)
    BY <1>2
  <2> QED BY <1>1, <1>3, <2>1 DEF SumsBelow
<1>4. CASE S # {}
  <2> DEFINE T == S \ {Some(S)}
  <2>1. IsFiniteSet(T)
    BY FS_RemoveElement
  <2> HIDE DEF It
  <2>2. SumsBelow(w, It(S), SUBSET S) /\ SumsBelow(w, It(T), SUBSET T)
    BY <1>2, <2>1
  <2>3. \A s \in SUBSET T : It(S)[s] = It(T)[s]
    <3>1. \A s \in SUBSET T : s \in SUBSET S /\ s \in SUBSET T
      OBVIOUS
    <3> HIDE DEF T
    <3> QED BY <2>1, <2>2, <3>1, SumsAgree
  <2>4. It(S)[S] = w[Some(S)] + It(S)[T]
    BY <1>4, <2>2 DEF SumsBelow
  <2>5. It(S)[T] = It(T)[T]
    BY <2>3
  <2>6. SumFunctionOnSet(w, S) = It(S)[S] /\ SumFunctionOnSet(w, T) = It(T)[T]
    BY <1>1
  <2> QED BY <1>4, <2>4, <2>5, <2>6
<1> QED BY <1>3, <1>4

------------------------------------------------------------------------------
(***************************************************************************)
(* The laws                                                                *)
(***************************************************************************)
LEMMA SumEmpty ==
  ASSUME NEW w
  PROVE  SumFunctionOnSet(w, {}) = 0
BY SumEquation, FS_EmptySet

\* Sums of integers are integers, and of naturals naturals.
LEMMA SumInt ==
  ASSUME NEW w, NEW S, IsFiniteSet(S), \A x \in S : w[x] \in Int
  PROVE  SumFunctionOnSet(w, S) \in Int
<1> DEFINE Good == {n \in Nat : \A s \in SUBSET S : Cardinality(s) = n => SumFunctionOnSet(w, s) \in Int}
<1>1. \A s \in SUBSET S : IsFiniteSet(s) /\ Cardinality(s) \in Nat /\ (Cardinality(s) = 0 <=> s = {})
  BY Sizes
<1>2. 0 \in Good
  BY <1>1, SumEmpty
<1>3. ASSUME NEW n \in Nat, n \in Good PROVE n + 1 \in Good
  <2> SUFFICES ASSUME NEW s \in SUBSET S, Cardinality(s) = n + 1 PROVE SumFunctionOnSet(w, s) \in Int
    OBVIOUS
  <2>1. s # {} /\ Some(s) \in s
    BY OneLess
  <2>2. s \ {Some(s)} \in SUBSET S /\ Cardinality(s \ {Some(s)}) = n
    BY <2>1, OneLess
  <2>3. SumFunctionOnSet(w, s) = w[Some(s)] + SumFunctionOnSet(w, s \ {Some(s)})
    BY <1>1, <2>1, SumEquation
  <2> QED BY <1>3, <2>1, <2>2, <2>3
<1>4. Nat \subseteq Good
  <2> HIDE DEF Good
  <2> QED BY <1>2, <1>3, Climb
<1> QED BY <1>1, <1>4

\* An element may be taken out of a sum, whichever it is.
LEMMA SumRemove ==
  ASSUME NEW w, NEW S, IsFiniteSet(S), \A x \in S : w[x] \in Int, NEW y \in S
  PROVE  SumFunctionOnSet(w, S) = w[y] + SumFunctionOnSet(w, S \ {y})
<1> DEFINE Good == {n \in Nat : \A s \in SUBSET S : Cardinality(s) = n =>
                      (\A z \in s : SumFunctionOnSet(w, s) = w[z] + SumFunctionOnSet(w, s \ {z}))}
<1>1. \A s \in SUBSET S : IsFiniteSet(s) /\ Cardinality(s) \in Nat /\ (Cardinality(s) = 0 <=> s = {})
  BY Sizes
<1>2. 0 \in Good
  BY <1>1
<1>3. ASSUME NEW n \in Nat, n \in Good PROVE n + 1 \in Good
  <2> SUFFICES ASSUME NEW s \in SUBSET S, Cardinality(s) = n + 1, NEW z \in s
               PROVE  SumFunctionOnSet(w, s) = w[z] + SumFunctionOnSet(w, s \ {z})
    OBVIOUS
  <2> DEFINE c == Some(s)
  <2>1. c \in s
    BY DEF Some
  <2>2. \A x \in s : s \ {x} \in SUBSET S /\ Cardinality(s \ {x}) = n
    BY OneLess
  <2>3. SumFunctionOnSet(w, s) = w[c] + SumFunctionOnSet(w, s \ {c})
    BY <1>1, <2>1, SumEquation
  <2> HIDE DEF c
  <2>4. CASE z = c
    BY <2>3, <2>4
  <2>5. CASE z # c
    <3>1. SumFunctionOnSet(w, s \ {c}) = w[z] + SumFunctionOnSet(w, (s \ {c}) \ {z})
      BY <1>3, <2>1, <2>2, <2>5
    <3>2. SumFunctionOnSet(w, s \ {z}) = w[c] + SumFunctionOnSet(w, (s \ {z}) \ {c})
      BY <1>3, <2>1, <2>2, <2>5
    <3>3. SumFunctionOnSet(w, s \ {z}) = w[c] + SumFunctionOnSet(w, (s \ {c}) \ {z})
      <4>1. (s \ {z}) \ {c} = (s \ {c}) \ {z}
        OBVIOUS
      <4> QED BY <3>2, <4>1
    <3>4. SumFunctionOnSet(w, (s \ {c}) \ {z}) \in Int
      <4>1. (s \ {c}) \ {z} \in SUBSET S
        OBVIOUS
      <4> QED BY <1>1, <4>1, SumInt
    <3>5. w[z] \in Int /\ w[c] \in Int
      BY <2>1
    <3> DEFINE rest == SumFunctionOnSet(w, (s \ {c}) \ {z})
    <3> HIDE DEF rest
    <3>6. SumFunctionOnSet(w, s \ {c}) = w[z] + rest /\ SumFunctionOnSet(w, s \ {z}) = w[c] + rest /\ rest \in Int
      BY <3>1, <3>3, <3>4 DEF rest
    <3> QED BY <2>3, <3>5, <3>6
  <2> QED BY <2>4, <2>5
<1>4. Nat \subseteq Good
  <2> HIDE DEF Good
  <2> QED BY <1>2, <1>3, Climb
<1>5. S \in SUBSET S /\ Cardinality(S) \in Good
  BY <1>1, <1>4
<1> QED BY <1>5

LEMMA SumAdd ==
  ASSUME NEW w, NEW S, IsFiniteSet(S), NEW y, y \notin S, \A x \in S \cup {y} : w[x] \in Int
  PROVE  SumFunctionOnSet(w, S \cup {y}) = SumFunctionOnSet(w, S) + w[y]
<1>1. IsFiniteSet(S \cup {y}) /\ (S \cup {y}) \ {y} = S
  BY FS_AddElement
<1>2. SumFunctionOnSet(w, S) \in Int
  BY SumInt
<1> DEFINE T == S \cup {y}
<1>3. IsFiniteSet(T) /\ y \in T /\ (\A x \in T : w[x] \in Int) /\ T \ {y} = S
  BY <1>1
<1> HIDE DEF T
<1>4. SumFunctionOnSet(w, T) = w[y] + SumFunctionOnSet(w, T \ {y})
  BY <1>3, SumRemove
<1>5. SumFunctionOnSet(w, T) = w[y] + SumFunctionOnSet(w, S) /\ w[y] \in Int
  BY <1>3, <1>4
<1> QED BY <1>2, <1>5 DEF T

\* Functions that agree on the indices have one sum.
LEMMA SumSame ==
  ASSUME NEW v, NEW w, NEW S, IsFiniteSet(S), \A x \in S : v[x] = w[x]
  PROVE  SumFunctionOnSet(v, S) = SumFunctionOnSet(w, S)
<1> DEFINE Good == {n \in Nat : \A s \in SUBSET S : Cardinality(s) = n =>
                      SumFunctionOnSet(v, s) = SumFunctionOnSet(w, s)}
<1>1. \A s \in SUBSET S : IsFiniteSet(s) /\ Cardinality(s) \in Nat /\ (Cardinality(s) = 0 <=> s = {})
  BY Sizes
<1>2. 0 \in Good
  BY <1>1, SumEmpty
<1>3. ASSUME NEW n \in Nat, n \in Good PROVE n + 1 \in Good
  <2> SUFFICES ASSUME NEW s \in SUBSET S, Cardinality(s) = n + 1
               PROVE  SumFunctionOnSet(v, s) = SumFunctionOnSet(w, s)
    OBVIOUS
  <2>1. s # {} /\ Some(s) \in s
    BY OneLess
  <2>2. s \ {Some(s)} \in SUBSET S /\ Cardinality(s \ {Some(s)}) = n
    BY <2>1, OneLess
  <2>3. /\ SumFunctionOnSet(v, s) = v[Some(s)] + SumFunctionOnSet(v, s \ {Some(s)})
        /\ SumFunctionOnSet(w, s) = w[Some(s)] + SumFunctionOnSet(w, s \ {Some(s)})
    BY <1>1, <2>1, SumEquation
  <2> QED BY <1>3, <2>1, <2>2, <2>3
<1>4. Nat \subseteq Good
  <2> HIDE DEF Good
  <2> QED BY <1>2, <1>3, Climb
<1>5. S \in SUBSET S /\ Cardinality(S) \in Good
  BY <1>1, <1>4
<1> QED BY <1>5

\* One value changes.
LEMMA SumChange ==
  ASSUME NEW v, NEW w, NEW S, IsFiniteSet(S), NEW y \in S,
         \A x \in S : v[x] \in Int /\ w[x] \in Int, \A x \in S \ {y} : v[x] = w[x]
  PROVE  SumFunctionOnSet(v, S) = SumFunctionOnSet(w, S) + v[y] - w[y]
<1>1. IsFiniteSet(S \ {y})
  BY FS_RemoveElement
<1>2. SumFunctionOnSet(v, S \ {y}) = SumFunctionOnSet(w, S \ {y})
  BY <1>1, SumSame
<1>3. SumFunctionOnSet(v, S) = v[y] + SumFunctionOnSet(v, S \ {y})
  BY SumRemove
<1>4. SumFunctionOnSet(w, S) = w[y] + SumFunctionOnSet(w, S \ {y})
  BY SumRemove
<1>5. SumFunctionOnSet(w, S \ {y}) \in Int
  BY <1>1, SumInt
<1> QED BY <1>2, <1>3, <1>4, <1>5

\* More values, none negative, sum to more.
LEMMA SumMonotonic ==
  ASSUME NEW v, NEW w, NEW S, IsFiniteSet(S),
         \A x \in S : v[x] \in Int /\ w[x] \in Int /\ v[x] <= w[x]
  PROVE  SumFunctionOnSet(v, S) <= SumFunctionOnSet(w, S)
<1> DEFINE Good == {n \in Nat : \A s \in SUBSET S : Cardinality(s) = n =>
                      SumFunctionOnSet(v, s) <= SumFunctionOnSet(w, s)}
<1>1. \A s \in SUBSET S : IsFiniteSet(s) /\ Cardinality(s) \in Nat /\ (Cardinality(s) = 0 <=> s = {})
  BY Sizes
<1>2. 0 \in Good
  BY <1>1, SumEmpty
<1>3. ASSUME NEW n \in Nat, n \in Good PROVE n + 1 \in Good
  <2> SUFFICES ASSUME NEW s \in SUBSET S, Cardinality(s) = n + 1
               PROVE  SumFunctionOnSet(v, s) <= SumFunctionOnSet(w, s)
    OBVIOUS
  <2>1. s # {} /\ Some(s) \in s
    BY OneLess
  <2>2. s \ {Some(s)} \in SUBSET S /\ Cardinality(s \ {Some(s)}) = n
    BY <2>1, OneLess
  <2>3. /\ SumFunctionOnSet(v, s) = v[Some(s)] + SumFunctionOnSet(v, s \ {Some(s)})
        /\ SumFunctionOnSet(w, s) = w[Some(s)] + SumFunctionOnSet(w, s \ {Some(s)})
    BY <1>1, <2>1, SumEquation
  <2>4. SumFunctionOnSet(v, s \ {Some(s)}) \in Int /\ SumFunctionOnSet(w, s \ {Some(s)}) \in Int
    BY <1>1, <2>2, SumInt
  <2>5. SumFunctionOnSet(v, s \ {Some(s)}) <= SumFunctionOnSet(w, s \ {Some(s)})
    BY <1>3, <2>2
  <2>6. v[Some(s)] \in Int /\ w[Some(s)] \in Int /\ v[Some(s)] <= w[Some(s)]
    BY <2>1
  <2> QED BY <2>3, <2>4, <2>5, <2>6
<1>4. Nat \subseteq Good
  <2> HIDE DEF Good
  <2> QED BY <1>2, <1>3, Climb
<1>5. S \in SUBSET S /\ Cardinality(S) \in Good
  BY <1>1, <1>4
<1> QED BY <1>5

\* Sums of two functions add up.
LEMMA SumPlus ==
  ASSUME NEW u, NEW v, NEW w, NEW S, IsFiniteSet(S),
         \A x \in S : u[x] \in Int /\ v[x] \in Int /\ w[x] = u[x] + v[x]
  PROVE  SumFunctionOnSet(w, S) = SumFunctionOnSet(u, S) + SumFunctionOnSet(v, S)
<1> DEFINE Good == {n \in Nat : \A s \in SUBSET S : Cardinality(s) = n =>
                      SumFunctionOnSet(w, s) = SumFunctionOnSet(u, s) + SumFunctionOnSet(v, s)}
<1>1. \A s \in SUBSET S : IsFiniteSet(s) /\ Cardinality(s) \in Nat /\ (Cardinality(s) = 0 <=> s = {})
  BY Sizes
<1>2. 0 \in Good
  <2>1. \A f : SumFunctionOnSet(f, {}) = 0
    BY SumEmpty
  <2>2. \A s \in SUBSET S : Cardinality(s) = 0 => s = {}
    BY <1>1
  <2>3. SumFunctionOnSet(w, {}) = SumFunctionOnSet(u, {}) + SumFunctionOnSet(v, {})
    <3>1. SumFunctionOnSet(w, {}) = 0 /\ SumFunctionOnSet(u, {}) = 0 /\ SumFunctionOnSet(v, {}) = 0
      BY <2>1
    <3> QED BY <3>1
  <2>4. \A s \in SUBSET S : Cardinality(s) = 0 =>
          SumFunctionOnSet(w, s) = SumFunctionOnSet(u, s) + SumFunctionOnSet(v, s)
    BY <2>2, <2>3
  <2> QED BY <2>4
<1>3. ASSUME NEW n \in Nat, n \in Good PROVE n + 1 \in Good
  <2> SUFFICES ASSUME NEW s \in SUBSET S, Cardinality(s) = n + 1
               PROVE  SumFunctionOnSet(w, s) = SumFunctionOnSet(u, s) + SumFunctionOnSet(v, s)
    OBVIOUS
  <2>1. s # {} /\ Some(s) \in s
    BY OneLess
  <2>2. s \ {Some(s)} \in SUBSET S /\ Cardinality(s \ {Some(s)}) = n
    BY <2>1, OneLess
  <2>3. /\ SumFunctionOnSet(u, s) = u[Some(s)] + SumFunctionOnSet(u, s \ {Some(s)})
        /\ SumFunctionOnSet(v, s) = v[Some(s)] + SumFunctionOnSet(v, s \ {Some(s)})
        /\ SumFunctionOnSet(w, s) = w[Some(s)] + SumFunctionOnSet(w, s \ {Some(s)})
    BY <1>1, <2>1, SumEquation
  <2>4. SumFunctionOnSet(u, s \ {Some(s)}) \in Int /\ SumFunctionOnSet(v, s \ {Some(s)}) \in Int
    BY <1>1, <2>2, SumInt
  <2>5. SumFunctionOnSet(w, s \ {Some(s)}) = SumFunctionOnSet(u, s \ {Some(s)}) + SumFunctionOnSet(v, s \ {Some(s)})
    BY <1>3, <2>2
  <2>6. u[Some(s)] \in Int /\ v[Some(s)] \in Int /\ w[Some(s)] = u[Some(s)] + v[Some(s)]
    BY <2>1
  <2> QED BY <2>3, <2>4, <2>5, <2>6
<1>4. Nat \subseteq Good
  <2> HIDE DEF Good
  <2> QED BY <1>2, <1>3, Climb
<1>5. S \in SUBSET S /\ Cardinality(S) \in Good
  BY <1>1, <1>4
<1> QED BY <1>5
\* At most one index comes, goes or changes its value.
LEMMA SumOneDiffers ==
  ASSUME NEW v, NEW w, NEW S, NEW T, IsFiniteSet(S), NEW y,
         S \ {y} = T \ {y}, \A x \in S : w[x] \in Int, \A x \in T : v[x] \in Int,
         \A x \in S \ {y} : v[x] = w[x]
  PROVE  /\ IsFiniteSet(T)
         /\ SumFunctionOnSet(w, S) \in Int
         /\ SumFunctionOnSet(v, T) = SumFunctionOnSet(w, S) + (IF y \in T THEN v[y] ELSE 0)
                                                           - (IF y \in S THEN w[y] ELSE 0)
<1> DEFINE R == S \ {y}
<1>1. IsFiniteSet(R) /\ y \notin R
  BY FS_Subset
<1>2. T = R \/ T = R \cup {y}
  OBVIOUS
<1>3. S = R \/ S = R \cup {y}
  OBVIOUS
<1>4. IsFiniteSet(T)
  BY <1>1, <1>2, FS_AddElement
<1>5. SumFunctionOnSet(v, R) = SumFunctionOnSet(w, R) /\ SumFunctionOnSet(w, R) \in Int
  <2>1. SumFunctionOnSet(v, R) = SumFunctionOnSet(w, R)
    BY <1>1, SumSame
  <2>2. SumFunctionOnSet(w, R) \in Int
    BY <1>1, SumInt
  <2> QED BY <2>1, <2>2
<1>6. SumFunctionOnSet(w, S) \in Int /\ SumFunctionOnSet(w, S) = SumFunctionOnSet(w, R) + IF y \in S THEN w[y] ELSE 0
  <2>1. CASE y \in S
    <3>1. SumFunctionOnSet(w, S) = w[y] + SumFunctionOnSet(w, R)
      BY <2>1, SumRemove
    <3> QED BY <1>5, <2>1, <3>1
  <2>2. CASE y \notin S
    <3>1. S = R /\ SumFunctionOnSet(w, S) = SumFunctionOnSet(w, R)
      BY <2>2
    <3> HIDE DEF R
    <3> QED BY <1>5, <2>2, <3>1
  <2> QED BY <2>1, <2>2
<1>7. SumFunctionOnSet(v, T) = SumFunctionOnSet(w, R) + IF y \in T THEN v[y] ELSE 0
  <2>1. CASE y \in T
    <3>1. SumFunctionOnSet(v, T) = v[y] + SumFunctionOnSet(v, T \ {y})
      BY <1>4, <2>1, SumRemove
    <3>2. T \ {y} = R
      OBVIOUS
    <3>3. SumFunctionOnSet(v, T) = v[y] + SumFunctionOnSet(w, R) /\ v[y] \in Int
      BY <1>5, <2>1, <3>1, <3>2
    <3> QED BY <1>5, <2>1, <3>3
  <2>2. CASE y \notin T
    <3>1. T = R
      BY <2>2
    <3> QED BY <1>5, <2>2, <3>1
  <2> QED BY <2>1, <2>2
<1> DEFINE s == SumFunctionOnSet(w, S)
           t == SumFunctionOnSet(v, T)
           r == SumFunctionOnSet(w, R)
           p == IF y \in S THEN w[y] ELSE 0
           q == IF y \in T THEN v[y] ELSE 0
<1>8. s \in Int /\ s = r + p /\ t = r + q /\ p \in Int /\ q \in Int /\ r \in Int
  BY <1>5, <1>6, <1>7
<1> HIDE DEF s, t, r, p, q
<1>9. t = s + q - p
  BY <1>8
<1> QED BY <1>4, <1>6, <1>9 DEF s, t, r, p, q

\* Zeros sum to zero.
LEMMA SumZero ==
  ASSUME NEW w, NEW S, IsFiniteSet(S), \A x \in S : w[x] = 0
  PROVE  SumFunctionOnSet(w, S) = 0
<1> DEFINE Good == {n \in Nat : \A s \in SUBSET S : Cardinality(s) = n => SumFunctionOnSet(w, s) = 0}
<1>1. \A s \in SUBSET S : IsFiniteSet(s) /\ Cardinality(s) \in Nat /\ (Cardinality(s) = 0 <=> s = {})
  BY Sizes
<1>2. 0 \in Good
  BY <1>1, SumEmpty
<1>3. ASSUME NEW n \in Nat, n \in Good PROVE n + 1 \in Good
  <2> SUFFICES ASSUME NEW s \in SUBSET S, Cardinality(s) = n + 1 PROVE SumFunctionOnSet(w, s) = 0
    OBVIOUS
  <2>1. s # {} /\ Some(s) \in s
    BY OneLess
  <2>2. s \ {Some(s)} \in SUBSET S /\ Cardinality(s \ {Some(s)}) = n
    BY <2>1, OneLess
  <2>3. SumFunctionOnSet(w, s) = w[Some(s)] + SumFunctionOnSet(w, s \ {Some(s)})
    BY <1>1, <2>1, SumEquation
  <2> QED BY <1>3, <2>1, <2>2, <2>3
<1>4. Nat \subseteq Good
  <2> HIDE DEF Good
  <2> QED BY <1>2, <1>3, Climb
<1>5. S \in SUBSET S /\ Cardinality(S) \in Good
  BY <1>1, <1>4
<1> QED BY <1>5

\* Indices whose values are zero can be left out.
LEMMA SumRestricted ==
  ASSUME NEW v, NEW w, NEW T, IsFiniteSet(T), NEW S, S \subseteq T, \A x \in T : v[x] \in Int,
         \A x \in S : w[x] = v[x], \A x \in T \ S : v[x] = 0
  PROVE  SumFunctionOnSet(w, S) = SumFunctionOnSet(v, T)
<1> DEFINE Good == {n \in Nat : \A s \in SUBSET T : Cardinality(s) = n =>
                      SumFunctionOnSet(w, s \cap S) = SumFunctionOnSet(v, s)}
<1>1. \A s \in SUBSET T : IsFiniteSet(s) /\ Cardinality(s) \in Nat /\ (Cardinality(s) = 0 <=> s = {})
  BY Sizes
<1>2. 0 \in Good
  <2>1. \A f : SumFunctionOnSet(f, {}) = 0
    BY SumEmpty
  <2>2. \A s \in SUBSET T : Cardinality(s) = 0 => s = {} /\ s \cap S = {}
    BY <1>1
  <2> QED BY <2>1, <2>2
<1>3. ASSUME NEW n \in Nat, n \in Good PROVE n + 1 \in Good
  <2> SUFFICES ASSUME NEW s \in SUBSET T, Cardinality(s) = n + 1
               PROVE  SumFunctionOnSet(w, s \cap S) = SumFunctionOnSet(v, s)
    OBVIOUS
  <2> DEFINE x == Some(s)
             r == s \ {x}
  <2>1. x \in s
    BY OneLess
  <2>2. r \in SUBSET T /\ Cardinality(r) = n
    BY <2>1, OneLess
  <2> HIDE DEF x
  <2>3. SumFunctionOnSet(v, s) = v[x] + SumFunctionOnSet(v, r)
    BY <1>1, <2>1, SumRemove
  <2>4. SumFunctionOnSet(w, r \cap S) = SumFunctionOnSet(v, r)
    BY <1>3, <2>2
  <2>5. SumFunctionOnSet(v, r) \in Int
    BY <1>1, <2>2, SumInt
  <2>6. CASE x \in S
    <3> DEFINE u == s \cap S
    <3>1. IsFiniteSet(u) /\ x \in u /\ (\A y \in u : w[y] \in Int) /\ u \ {x} = r \cap S
      BY <1>1, <2>1, <2>6
    <3> HIDE DEF u, r
    <3>2. SumFunctionOnSet(w, u) = w[x] + SumFunctionOnSet(w, u \ {x})
      BY <3>1, SumRemove
    <3>3. w[x] = v[x]
      BY <2>6
    <3> QED BY <2>3, <2>4, <3>1, <3>2, <3>3 DEF u
  <2>7. CASE x \notin S
    <3>1. s \cap S = r \cap S /\ v[x] = 0
      BY <2>1, <2>7
    <3> DEFINE p == SumFunctionOnSet(v, r)
    <3>2. p \in Int /\ SumFunctionOnSet(v, s) = v[x] + p /\ SumFunctionOnSet(w, s \cap S) = p
      BY <2>3, <2>4, <2>5, <3>1
    <3> HIDE DEF p
    <3> QED BY <3>1, <3>2
  <2> QED BY <2>6, <2>7
<1>4. Nat \subseteq Good
  <2> HIDE DEF Good
  <2> QED BY <1>2, <1>3, Climb
<1>5. T \in SUBSET T /\ Cardinality(T) \in Good /\ T \cap S = S
  BY <1>1, <1>4
<1> QED BY <1>5

\* What one index loses another one gains.
LEMMA SumMoved ==
  ASSUME NEW v, NEW w, NEW S, IsFiniteSet(S), NEW x \in S, NEW y \in S, x # y, NEW d \in Int,
         \A z \in S : v[z] \in Int /\ w[z] \in Int,
         v[x] = w[x] - d, v[y] = w[y] + d, \A z \in S \ {x, y} : v[z] = w[z]
  PROVE  SumFunctionOnSet(v, S) = SumFunctionOnSet(w, S)
<1> DEFINE h == [z \in S |-> IF z = x THEN v[x] ELSE w[z]]
<1>1. /\ \A z \in S : h[z] \in Int /\ v[z] \in Int /\ w[z] \in Int
      /\ \A z \in S \ {x} : h[z] = w[z]
      /\ \A z \in S \ {y} : v[z] = h[z]
      /\ h[x] = v[x] /\ h[y] = w[y]
  OBVIOUS
<1> HIDE DEF h
<1>2. SumFunctionOnSet(h, S) = SumFunctionOnSet(w, S) + h[x] - w[x]
  BY <1>1, SumChange
<1>3. SumFunctionOnSet(v, S) = SumFunctionOnSet(h, S) + v[y] - h[y]
  BY <1>1, SumChange
<1>4. SumFunctionOnSet(w, S) \in Int
  BY SumInt
<1>5. v[x] \in Int /\ w[x] \in Int /\ v[y] \in Int /\ w[y] \in Int
  OBVIOUS
<1> QED BY <1>1, <1>2, <1>3, <1>4, <1>5

\* Multiplying every weight multiplies the sum.
LEMMA SumScaled ==
  ASSUME NEW v, NEW w, NEW S, IsFiniteSet(S), NEW k \in Nat,
         \A x \in S : v[x] \in Nat /\ w[x] = k * v[x]
  PROVE  SumFunctionOnSet(w, S) = k * SumFunctionOnSet(v, S)
<1> DEFINE Good == {n \in Nat : \A s \in SUBSET S : Cardinality(s) = n =>
                      SumFunctionOnSet(w, s) = k * SumFunctionOnSet(v, s)}
<1>1. 0 \in Good
  <2>1. ASSUME NEW s \in SUBSET S, Cardinality(s) = 0
        PROVE  SumFunctionOnSet(w, s) = k * SumFunctionOnSet(v, s)
    <3>1. s = {}
      BY <2>1, Sizes
    <3>2. SumFunctionOnSet(w, s) = 0 /\ SumFunctionOnSet(v, s) = 0
      BY <3>1, SumEmpty
    <3> QED BY <3>2
  <2> QED BY <2>1
<1>2. ASSUME NEW n \in Nat, n \in Good
      PROVE  n + 1 \in Good
  <2>1. ASSUME NEW s \in SUBSET S, Cardinality(s) = n + 1
        PROVE  SumFunctionOnSet(w, s) = k * SumFunctionOnSet(v, s)
    <3>1. PICK x \in s : s \ {x} \in SUBSET S /\ Cardinality(s \ {x}) = n
      BY <2>1, OneLess
    <3>2. IsFiniteSet(s) /\ x \in S
      BY <3>1, Sizes
    <3>3. \A y \in s : w[y] \in Int /\ v[y] \in Int
      OBVIOUS
    <3>4. SumFunctionOnSet(w, s) = w[x] + SumFunctionOnSet(w, s \ {x})
      BY <3>2, <3>3, SumRemove
    <3>5. SumFunctionOnSet(v, s) = v[x] + SumFunctionOnSet(v, s \ {x})
      BY <3>2, <3>3, SumRemove
    <3>6. SumFunctionOnSet(w, s \ {x}) = k * SumFunctionOnSet(v, s \ {x})
      BY <1>2, <3>1
    <3>7. IsFiniteSet(s \ {x}) /\ \A y \in s \ {x} : v[y] \in Int
      BY <3>1, <3>3, Sizes
    <3>8. SumFunctionOnSet(v, s \ {x}) \in Int
      BY <3>7, SumInt
    <3>9. PICK a \in Int : a = SumFunctionOnSet(v, s \ {x})
      BY <3>8
    <3>10. PICK b \in Int : b = v[x]
      BY <3>2
    <3>11. k * b + k * a = k * (b + a)
      OBVIOUS
    <3>12. SumFunctionOnSet(w, s) = k * b + k * a /\ SumFunctionOnSet(v, s) = b + a
      BY <3>2, <3>4, <3>5, <3>6, <3>9, <3>10
    <3> QED BY <3>11, <3>12
  <2> QED BY <2>1
<1> HIDE DEF Good
<1>3. Nat \subseteq Good
  BY <1>1, <1>2, Climb
<1>4. Cardinality(S) \in Good /\ S \in SUBSET S
  BY <1>3, Sizes
<1> QED BY <1>4 DEF Good
=============================================================================
