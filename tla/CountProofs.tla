---------------------------- MODULE CountProofs -----------------------------
(***************************************************************************)
(* Least numbers, sums and runs: what the ledgers, the builder and the     *)
(* checker count, for every set and every sequence.                        *)
(***************************************************************************)
EXTENDS KeyRuns, Sequences, FiniteSetsExt, FiniteSetTheorems, WellFoundedInduction, TLAPS

-----------------------------------------------------------------------------
(* The least of some numbers.                                              *)

LEMMA Minimum ==
  ASSUME NEW T \in SUBSET Nat, NEW a \in T
  PROVE  \E n \in T : \A m \in T : n <= m
  <1> DEFINE R == {ss \in Nat \X Nat : ss[1] < ss[2]}
  <1>1. IsWellFoundedOn(R, Nat)
    <2>1. IsWellFoundedOn(OpToRel(<, Nat), Nat)
      BY NatLessThanWellFounded
    <2>2. QED
      BY <2>1 DEF OpToRel
  <1>2. \A m, n \in Nat : m < n => <<m, n>> \in R
    OBVIOUS
  <1> HIDE DEF R
  <1>3. PICK n \in T : \A m \in T : <<m, n>> \notin R
    BY <1>1, WFMin
  <1>4. ASSUME NEW m \in T PROVE n <= m
    <2>1. m \in Nat /\ n \in Nat /\ ~(m < n)
      BY <1>2, <1>3
    <2>2. QED
      BY <2>1
  <1>5. QED
    BY <1>4

LEMMA MinIsLeast ==
  ASSUME NEW T \in SUBSET Nat, T # {}
  PROVE  Min(T) \in T /\ \A m \in T : Min(T) <= m
  <1>1. \E n \in T : \A m \in T : n <= m
    BY Minimum
  <1>2. QED
    BY <1>1 DEF Min

-----------------------------------------------------------------------------
(* Runs of one key.                                                        *)

LEMMA StartsAreFinite ==
  ASSUME NEW keys, DOMAIN keys \subseteq Nat, IsFiniteSet(DOMAIN keys), NEW i \in Nat
  PROVE  /\ RunStarts(keys) \subseteq Nat /\ IsFiniteSet(RunStarts(keys))
         /\ IsFiniteSet({s \in RunStarts(keys) : s <= i})
         /\ RunAt(keys, i) \in Nat
  <1>1. RunStarts(keys) \subseteq DOMAIN keys
    BY DEF RunStarts
  <1>2. IsFiniteSet(RunStarts(keys))
    BY <1>1, FS_Subset
  <1>3. IsFiniteSet({s \in RunStarts(keys) : s <= i})
    BY <1>2, FS_Subset
  <1>4. QED
    BY <1>1, <1>2, <1>3, FS_CardinalityType DEF RunAt

(* The inputs of one run have one key. *)
LEMMA OneKey ==
  ASSUME NEW keys, NEW n \in Nat, DOMAIN keys = 1..n,
         NEW i \in 1..n, NEW k \in 1..n, i <= k, RunAt(keys, i) = RunAt(keys, k)
  PROVE  keys[i] = keys[k]
  <1> DEFINE At(x) == {s \in RunStarts(keys) : s <= x}
  <1>1. At(i) = At(k)
    <2>1. IsFiniteSet(At(k)) /\ Cardinality(At(k)) = Cardinality(At(i))
      <3>1. IsFiniteSet(1..n)
        BY FS_Interval
      <3>2. QED
        BY <3>1, StartsAreFinite DEF RunAt
    <2>2. At(i) \subseteq At(k)
      <3>1. RunStarts(keys) \subseteq 1..n
        BY DEF RunStarts
      <3>2. QED
        BY <3>1
    <2>3. QED
      BY <2>1, <2>2, FS_Subset
  <1>2. SUFFICES ASSUME keys[i] # keys[k] PROVE FALSE
    OBVIOUS
  <1> DEFINE D == {x \in 1..n : i <= x /\ keys[x] # keys[i]}
  <1>3. PICK d \in D : \A x \in D : d <= x
    <2>1. D \in SUBSET Nat /\ k \in D
      BY <1>2
    <2>2. QED
      BY <2>1, Minimum
  <1>4. d \in 1..n /\ i < d /\ d <= k /\ keys[d] # keys[i]
    BY <1>2, <1>3
  <1>5. d - 1 \in 1..n /\ i <= d - 1 /\ d - 1 \notin D
    <2>1. d - 1 \in 1..n /\ i <= d - 1 /\ ~(d <= d - 1)
      BY <1>4
    <2>2. QED
      BY <1>3, <2>1
  <1>6. keys[d - 1] = keys[i]
    BY <1>5
  <1>7. d \in RunStarts(keys)
    BY <1>4, <1>6 DEF RunStarts
  <1>8. d \in At(k) /\ d \notin At(i)
    BY <1>4, <1>7
  <1>9. QED
    BY <1>1, <1>8

(* Every input is in a run, and every run has one. *)
LEMMA RunsNumbered ==
  ASSUME NEW keys, NEW n \in Nat, DOMAIN keys = 1..n
  PROVE  /\ DOMAIN RunKeys(keys) = 1..Cardinality(RunStarts(keys))
         /\ Len(RunKeys(keys)) = Cardinality(RunStarts(keys))
         /\ Cardinality(RunStarts(keys)) \in Nat
         /\ \A i \in 1..n : RunAt(keys, i) \in DOMAIN RunKeys(keys)
         /\ \A j \in DOMAIN RunKeys(keys) : \E i \in 1..n : RunAt(keys, i) = j
  <1> DEFINE S == RunStarts(keys)
             C == Cardinality(S)
             At(x) == {s \in RunStarts(keys) : s <= x}
  <1>1. S \subseteq 1..n /\ IsFiniteSet(S) /\ C \in Nat
    <2>1. IsFiniteSet(1..n) /\ S \subseteq 1..n
      BY FS_Interval DEF RunStarts
    <2>2. QED
      BY <2>1, FS_Subset, FS_CardinalityType
  <1>2. DOMAIN RunKeys(keys) = 1..C /\ Len(RunKeys(keys)) = C
    BY <1>1 DEF RunKeys
  <1>3. ASSUME NEW i \in 1..n PROVE RunAt(keys, i) \in 1..C
    <2>1. At(i) \in SUBSET S /\ IsFiniteSet(At(i)) /\ Cardinality(At(i)) <= C
          /\ Cardinality(At(i)) \in Nat
      BY <1>1, FS_Subset, FS_CardinalityType
    <2>2. 1 \in At(i)
      BY DEF RunStarts
    <2>3. Cardinality(At(i)) # 0
      BY <2>1, <2>2, FS_EmptySet
    <2>4. QED
      BY <1>1, <2>1, <2>3 DEF RunAt
  <1>4. ASSUME NEW s \in S, NEW t \in S, s < t PROVE RunAt(keys, s) # RunAt(keys, t)
    <2>1. At(s) \in SUBSET At(t) /\ t \in At(t) /\ t \notin At(s)
      BY <1>1, <1>4
    <2>2. IsFiniteSet(At(t))
      BY <1>1, FS_Subset
    <2>3. Cardinality(At(s)) # Cardinality(At(t))
      BY <2>1, <2>2, FS_Subset
    <2>4. QED
      BY <2>3 DEF RunAt
  <1>5. \A j \in 1..C : \E i \in 1..n : RunAt(keys, i) = j
    <2> DEFINE f == [s \in S |-> RunAt(keys, s)]
    <2>1. f \in [S -> 1..C]
      BY <1>1, <1>3
    <2>2. f \in Injection(S, 1..C)
      <3>1. ASSUME NEW s \in S, NEW t \in S, f[s] = f[t] PROVE s = t
        <4>1. ~(s < t) /\ ~(t < s) /\ s \in Int /\ t \in Int
          BY <1>1, <1>4, <3>1
        <4>2. QED
          BY <4>1
      <3>2. QED
        BY <2>1, <3>1 DEF Injection, IsInjective
    <2>3. IsFiniteSet(1..C) /\ Cardinality(1..C) = C
      BY <1>1, FS_Interval
    <2>4. f \in Surjection(S, 1..C)
      <3> HIDE DEF f
      <3>1. QED
        BY <2>2, <2>3, FS_Injection
    <2>5. ASSUME NEW j \in 1..C PROVE \E s \in S : f[s] = j
      BY <2>4 DEF Surjection
    <2>6. QED
      BY <1>1, <2>5
  <1>6. QED
    BY <1>1, <1>2, <1>3, <1>5

LEMMA KeyOfRun ==
  ASSUME NEW keys, NEW n \in Nat, DOMAIN keys = 1..n, NEW i \in 1..n
  PROVE  RunKeys(keys)[RunAt(keys, i)] = keys[i]
  <1> DEFINE j == RunAt(keys, i)
             first == CHOOSE k \in DOMAIN keys : RunAt(keys, k) = j
  <1>1. first \in 1..n /\ RunAt(keys, first) = j
    OBVIOUS
  <1>2. RunKeys(keys)[j] = keys[first]
    <2>1. j \in 1..Cardinality(RunStarts(keys))
      BY RunsNumbered
    <2>2. QED
      BY <2>1 DEF RunKeys
  <1>3. keys[first] = keys[i]
    <2> HIDE DEF first
    <2>1. CASE first <= i
      BY <1>1, <2>1, OneKey
    <2>2. CASE i <= first
      BY <1>1, <2>2, OneKey
    <2>3. QED
      BY <1>1, <2>1, <2>2
  <1>4. QED
    BY <1>2, <1>3

(* The run of the next input is the same, or the next one if the key changes. *)
LEMMA NextRun ==
  ASSUME NEW keys, NEW n \in Nat, DOMAIN keys = 1..n, NEW i \in 1..n
  PROVE  /\ RunAt(keys, i) \in Nat
         /\ i = 1 => RunAt(keys, i) = 1
         /\ i # 1 => RunAt(keys, i) = IF keys[i] = keys[i - 1] THEN RunAt(keys, i - 1)
                                      ELSE RunAt(keys, i - 1) + 1
  <1> DEFINE At(x) == {s \in RunStarts(keys) : s <= x}
  <1>1. RunStarts(keys) \subseteq 1..n /\ IsFiniteSet(1..n)
    BY FS_Interval DEF RunStarts
  <1>2. \A x \in Nat : IsFiniteSet(At(x)) /\ RunAt(keys, x) = Cardinality(At(x))
                       /\ RunAt(keys, x) \in Nat
    BY <1>1, StartsAreFinite DEF RunAt
  <1>3. CASE i = 1
    <2>1. At(1) = {1}
      BY <1>1, <1>3 DEF RunStarts
    <2>2. QED
      BY <1>2, <1>3, <2>1, FS_Singleton
  <1>4. CASE i # 1 /\ keys[i] = keys[i - 1]
    <2>1. i \notin RunStarts(keys)
      BY <1>4 DEF RunStarts
    <2>2. At(i) = At(i - 1)
      <3>1. \A s \in 1..n : s # i => (s <= i <=> s <= i - 1)
        OBVIOUS
      <3>2. QED
        BY <1>1, <2>1, <3>1
    <2>3. i - 1 \in Nat
      BY <1>4
    <2> HIDE DEF At
    <2>4. RunAt(keys, i) = RunAt(keys, i - 1)
      BY <1>2, <2>2, <2>3
    <2>5. QED
      BY <1>2, <1>4, <2>4
  <1>5. CASE i # 1 /\ keys[i] # keys[i - 1]
    <2>1. i \in RunStarts(keys)
      BY <1>5 DEF RunStarts
    <2>2. At(i) = At(i - 1) \cup {i} /\ i \notin At(i - 1)
      <3>1. \A s \in 1..n : s # i => (s <= i <=> s <= i - 1)
        OBVIOUS
      <3>2. i <= i /\ ~(i <= i - 1)
        OBVIOUS
      <3>3. QED
        BY <1>1, <2>1, <3>1, <3>2
    <2>3. i - 1 \in Nat
      BY <1>5
    <2> HIDE DEF At
    <2>4. Cardinality(At(i)) = Cardinality(At(i - 1)) + 1
      BY <1>2, <2>2, <2>3, FS_AddElement
    <2>5. QED
      BY <1>2, <1>5, <2>3, <2>4
  <1>6. QED
    BY <1>2, <1>3, <1>4, <1>5

(* If no key comes back, a run is all the inputs of its key. *)
LEMMA WholeRun ==
  ASSUME NEW keys, NEW n \in Nat, DOMAIN keys = 1..n, IsInjective(RunKeys(keys)),
         NEW j \in DOMAIN RunKeys(keys)
  PROVE  /\ RunInputs(keys, j) = {i \in DOMAIN keys : keys[i] = RunKeys(keys)[j]}
         /\ RunInputs(keys, j) # {}
  <1>1. ASSUME NEW i \in 1..n PROVE RunAt(keys, i) = j <=> keys[i] = RunKeys(keys)[j]
    <2>1. RunKeys(keys)[RunAt(keys, i)] = keys[i] /\ RunAt(keys, i) \in DOMAIN RunKeys(keys)
      BY KeyOfRun, RunsNumbered
    <2>2. QED
      BY <2>1 DEF IsInjective
  <1>2. \E i \in 1..n : RunAt(keys, i) = j
    BY RunsNumbered
  <1>3. QED
    BY <1>1, <1>2 DEF RunInputs


-----------------------------------------------------------------------------
(* Sums.  The library adds up a finite set by taking out one element after *)
(* another, each chosen anyhow; what comes out does not depend on which.   *)

(* A set of finite sets has one that is least. *)
LEMMA LeastSet ==
  ASSUME NEW S, IsFiniteSet(S), NEW T \in SUBSET SUBSET S, NEW t \in T
  PROVE  \E m \in T : \A u \in T : u \subseteq m => u = m
  <1> DEFINE sizes == {Cardinality(u) : u \in T}
  <1>1. \A u \in T : IsFiniteSet(u) /\ Cardinality(u) \in Nat
    BY FS_Subset, FS_CardinalityType
  <1>2. PICK n \in sizes : \A k \in sizes : n <= k
    <2>1. sizes \in SUBSET Nat /\ Cardinality(t) \in sizes
      BY <1>1
    <2> HIDE DEF sizes
    <2>2. QED
      BY <2>1, Minimum
  <1>3. PICK m \in T : n = Cardinality(m)
    BY <1>2
  <1>4. ASSUME NEW u \in T, u \subseteq m PROVE u = m
    <2>1. Cardinality(u) <= Cardinality(m) /\ Cardinality(m) <= Cardinality(u)
      BY <1>1, <1>2, <1>3, <1>4, FS_Subset
    <2>2. QED
      BY <1>1, <1>4, <2>1, FS_Subset
  <1>5. QED
    BY <1>4

AnyOf(s) == CHOOSE x \in s : TRUE

Rest(s) == s \ {AnyOf(s)}

Adds(sum, f, D) ==
  sum = [s \in SUBSET D |-> IF s = {} THEN 0 ELSE f[AnyOf(s)] + sum[Rest(s)]]

LEMMA SumIs ==
  ASSUME NEW f, NEW D
  PROVE  SumFunctionOnSet(f, D) = (CHOOSE sum : Adds(sum, f, D))[D]
  BY DEF SumFunctionOnSet, FoldFunctionOnSet, MapThenFoldSet, Adds, AnyOf, Rest

LEMMA AnyRest ==
  ASSUME NEW s, s # {}
  PROVE  AnyOf(s) \in s /\ Rest(s) \subseteq s /\ AnyOf(s) \notin Rest(s)
  BY DEF AnyOf, Rest

(* There is such a sum, built up from the sets of few elements. *)
LEMMA SumsExist ==
  ASSUME NEW D, IsFiniteSet(D), NEW f
  PROVE  \E sum : Adds(sum, f, D)
  <1> DEFINE Few(n) == {s \in SUBSET D : Cardinality(s) <= n}
             Step(sum, s) == IF s = {} THEN 0 ELSE f[AnyOf(s)] + sum[Rest(s)]
             Ok(n) == \E sum : sum = [s \in Few(n) |-> Step(sum, s)]
             bad == {n \in Nat : ~Ok(n)}
  <1>1. \A s \in SUBSET D :
          IsFiniteSet(s) /\ Cardinality(s) \in Nat /\ Cardinality(s) <= Cardinality(D)
    BY FS_Subset, FS_CardinalityType
  <1>2. ASSUME NEW s \in SUBSET D, s # {}
        PROVE  Rest(s) \in SUBSET D /\ Cardinality(Rest(s)) = Cardinality(s) - 1
               /\ Cardinality(s) # 0
    BY <1>1, <1>2, AnyRest, FS_RemoveElement, FS_EmptySet DEF Rest
  <1>3. Ok(0)
    <2>1. \A s \in Few(0) : s = {}
      BY <1>1, FS_EmptySet
    <2> DEFINE sum == [s \in Few(0) |-> 0]
    <2>2. sum = [s \in Few(0) |-> Step(sum, s)]
      BY <2>1
    <2>3. QED
      BY <2>2
  <1>4. ASSUME NEW n \in Nat, Ok(n) PROVE Ok(n + 1)
    <2>1. PICK sum : sum = [s \in Few(n) |-> Step(sum, s)]
      BY <1>4
    <2> DEFINE next == [s \in Few(n + 1) |-> Step(sum, s)]
    <2>2. ASSUME NEW s \in Few(n) PROVE s \in Few(n + 1) /\ next[s] = sum[s]
      <3>1. s \in Few(n + 1)
        BY <1>1
      <3>2. sum[s] = Step(sum, s)
        BY <2>1
      <3>3. QED
        BY <3>1, <3>2
    <2>3. ASSUME NEW s \in Few(n + 1) PROVE Step(next, s) = Step(sum, s)
      <3>1. CASE s # {}
        <4>1. Rest(s) \in Few(n)
          BY <1>1, <1>2, <3>1
        <4>2. QED
          BY <2>2, <4>1
      <3>2. QED
        BY <3>1
    <2>4. next = [s \in Few(n + 1) |-> Step(next, s)]
      <3> HIDE DEF Step
      <3>1. QED
        BY <2>3
    <2>5. QED
      BY <2>4
  <1>5. bad = {}
    <2> SUFFICES ASSUME NEW b \in bad PROVE FALSE
      OBVIOUS
    <2> HIDE DEF Ok
    <2>1. PICK n \in bad : \A m \in bad : n <= m
      BY Minimum
    <2>2. n \in Nat /\ n # 0 /\ n - 1 \in Nat /\ n - 1 \notin bad
      <3>1. n \in Nat /\ n # 0
        BY <1>3, <2>1
      <3>2. n - 1 \in Nat /\ ~(n <= n - 1)
        BY <3>1
      <3>3. QED
        BY <2>1, <3>1, <3>2
    <2>3. Ok(n - 1) /\ (n - 1) + 1 = n
      BY <2>2
    <2>4. Ok(n)
      BY <1>4, <2>2, <2>3
    <2>5. QED
      BY <2>1, <2>4
  <1>6. Few(Cardinality(D)) = SUBSET D
    BY <1>1
  <1>7. Ok(Cardinality(D))
    BY <1>1, <1>5
  <1>8. QED
    BY <1>6, <1>7 DEF Adds

LEMMA SumsOf ==
  ASSUME NEW D, NEW f, NEW sum, Adds(sum, f, D), NEW s \in SUBSET D
  PROVE  sum[s] = IF s = {} THEN 0 ELSE f[AnyOf(s)] + sum[Rest(s)]
  <1> DEFINE step(t) == IF t = {} THEN 0 ELSE f[AnyOf(t)] + sum[Rest(t)]
  <1>1. sum = [t \in SUBSET D |-> step(t)]
    BY DEF Adds
  <1> HIDE DEF step
  <1>2. sum[s] = step(s)
    BY <1>1
  <1>3. QED
    BY <1>2 DEF step

(* A sum depends on the numbers summed alone. *)
LEMMA SumsAgree ==
  ASSUME NEW E, IsFiniteSet(E), NEW D \in SUBSET E, NEW f, NEW g,
         \A x \in D : f[x] = g[x],
         NEW p, NEW q, Adds(p, f, D), Adds(q, g, E)
  PROVE  \A s \in SUBSET D : p[s] = q[s]
  <1> DEFINE T == {s \in SUBSET D : p[s] # q[s]}
  <1> SUFFICES ASSUME NEW t \in T PROVE FALSE
    OBVIOUS
  <1>1. PICK m \in T : \A u \in T : u \subseteq m => u = m
    <2>1. T \in SUBSET SUBSET E /\ t \in T
      OBVIOUS
    <2> HIDE DEF T
    <2>2. QED
      BY <2>1, LeastSet
  <1>2. m \in SUBSET D /\ m \in SUBSET E /\ p[m] # q[m]
    BY <1>1
  <1>3. /\ p[m] = IF m = {} THEN 0 ELSE f[AnyOf(m)] + p[Rest(m)]
        /\ q[m] = IF m = {} THEN 0 ELSE g[AnyOf(m)] + q[Rest(m)]
    BY <1>2, SumsOf
  <1>4. m # {}
    BY <1>2, <1>3
  <1>5. Rest(m) \in SUBSET D /\ Rest(m) \notin T /\ AnyOf(m) \in D
    BY <1>1, <1>2, <1>4, AnyRest
  <1>6. QED
    BY <1>2, <1>3, <1>4, <1>5

LEMMA SumSame ==
  ASSUME NEW S, IsFiniteSet(S), NEW f, NEW g, \A x \in S : f[x] = g[x]
  PROVE  SumFunctionOnSet(f, S) = SumFunctionOnSet(g, S)
  <1> DEFINE p == CHOOSE sum : Adds(sum, f, S)
             q == CHOOSE sum : Adds(sum, g, S)
  <1>1. Adds(p, f, S) /\ Adds(q, g, S)
    BY SumsExist
  <1> HIDE DEF p, q
  <1>2. p[S] = q[S]
    BY <1>1, SumsAgree
  <1>3. QED
    BY <1>2, SumIs DEF p, q

(* Whichever element is taken out first. *)
LEMMA SumsCommute ==
  ASSUME NEW D, IsFiniteSet(D), NEW f, \A x \in D : f[x] \in Int,
         NEW sum, Adds(sum, f, D)
  PROVE  \A s \in SUBSET D :
           sum[s] \in Int /\ \A x \in s : sum[s] = f[x] + sum[s \ {x}]
  <1> DEFINE Good(s) == sum[s] \in Int /\ \A x \in s : sum[s] = f[x] + sum[s \ {x}]
             T == {s \in SUBSET D : ~Good(s)}
  <1> SUFFICES ASSUME NEW t \in T PROVE FALSE
    OBVIOUS
  <1>1. PICK m \in T : \A u \in T : u \subseteq m => u = m
    <2>1. T \in SUBSET SUBSET D /\ t \in T
      OBVIOUS
    <2> HIDE DEF T
    <2>2. QED
      BY <2>1, LeastSet
  <1>2. m \in SUBSET D /\ ~Good(m)
    BY <1>1
  <1>3. \A u \in SUBSET m : u # m => Good(u)
    BY <1>1, <1>2
  <1>4. m # {}
    <2>1. sum[{}] = 0
      BY SumsOf
    <2>2. Good({})
      BY <2>1
    <2>3. QED
      BY <1>2, <2>2
  <1> DEFINE c == AnyOf(m)
  <1>5. c \in m /\ Rest(m) = m \ {c} /\ sum[m] = f[c] + sum[m \ {c}]
    <2>1. sum[m] = f[AnyOf(m)] + sum[Rest(m)]
      BY <1>2, <1>4, SumsOf
    <2>2. AnyOf(m) \in m /\ Rest(m) = m \ {AnyOf(m)}
      BY <1>4, AnyRest DEF Rest
    <2>3. QED
      BY <2>1, <2>2
  <1>6. Good(m \ {c})
    BY <1>3, <1>5
  <1> HIDE DEF c
  <1>7. sum[m] \in Int /\ f[c] \in Int
    BY <1>2, <1>5, <1>6
  <1>8. ASSUME NEW x \in m, x # c PROVE sum[m] = f[x] + sum[m \ {x}]
    <2>1. Good(m \ {x})
      BY <1>3
    <2>2. /\ sum[m \ {c}] = f[x] + sum[(m \ {c}) \ {x}]
          /\ sum[m \ {x}] = f[c] + sum[(m \ {x}) \ {c}]
      BY <1>5, <1>6, <1>8, <2>1
    <2>3. (m \ {c}) \ {x} = (m \ {x}) \ {c}
      OBVIOUS
    <2>4. Good((m \ {x}) \ {c})
      BY <1>3
    <2>5. f[x] \in Int /\ f[c] \in Int /\ sum[(m \ {x}) \ {c}] \in Int
      BY <1>2, <1>5, <2>4
    <2>6. PICK a \in Int, b \in Int, r \in Int :
            a = f[x] /\ b = f[c] /\ r = sum[(m \ {x}) \ {c}]
      BY <2>5
    <2>7. sum[m] = b + (a + r) /\ sum[m \ {x}] = b + r
      BY <1>5, <2>2, <2>3, <2>6
    <2>8. b + (a + r) = a + (b + r)
      OBVIOUS
    <2>9. QED
      BY <2>6, <2>7, <2>8
  <1>9. QED
    BY <1>2, <1>5, <1>7, <1>8

LEMMA SumEmpty ==
  ASSUME NEW f
  PROVE  SumFunctionOnSet(f, {}) = 0
  <1>1. PICK sum : Adds(sum, f, {})
    BY SumsExist, FS_EmptySet
  <1>2. Adds(CHOOSE p : Adds(p, f, {}), f, {})
    BY <1>1
  <1>3. QED
    BY <1>2, SumIs, SumsOf

LEMMA SumInt ==
  ASSUME NEW S, IsFiniteSet(S), NEW f, \A x \in S : f[x] \in Int
  PROVE  SumFunctionOnSet(f, S) \in Int
  <1> DEFINE p == CHOOSE sum : Adds(sum, f, S)
  <1>1. Adds(p, f, S)
    BY SumsExist
  <1> HIDE DEF p
  <1>2. p[S] \in Int
    BY <1>1, SumsCommute
  <1>3. QED
    BY <1>2, SumIs DEF p

(* One more number is added to the sum. *)
LEMMA SumAdd ==
  ASSUME NEW S, IsFiniteSet(S), NEW x, x \notin S, NEW f, \A y \in S \cup {x} : f[y] \in Int
  PROVE  SumFunctionOnSet(f, S \cup {x}) = f[x] + SumFunctionOnSet(f, S)
  <1> DEFINE U == S \cup {x}
             p == CHOOSE sum : Adds(sum, f, S)
             q == CHOOSE sum : Adds(sum, f, U)
  <1>1. IsFiniteSet(U) /\ U \ {x} = S
    BY FS_AddElement
  <1>2. Adds(p, f, S) /\ Adds(q, f, U)
    BY <1>1, SumsExist
  <1>3. SumFunctionOnSet(f, U) = q[U] /\ SumFunctionOnSet(f, S) = p[S]
    BY SumIs
  <1> HIDE DEF p, q
  <1>4. p[S] = q[S]
    BY <1>1, <1>2, SumsAgree
  <1>5. q[U] = f[x] + q[U \ {x}]
    BY <1>1, <1>2, SumsCommute
  <1>6. QED
    BY <1>1, <1>3, <1>4, <1>5

(* Nor does it matter by which names the summands are called. *)
LEMMA SumRenamed ==
  ASSUME NEW S, IsFiniteSet(S), NEW h, NEW g,
         \A x, y \in S : h[x] = h[y] => x = y,
         \A x \in S : g[h[x]] \in Int
  PROVE  /\ IsFiniteSet({h[x] : x \in S})
         /\ SumFunctionOnSet(g, {h[x] : x \in S})
              = SumFunctionOnSet([x \in S |-> g[h[x]]], S)
  <1> DEFINE f == [x \in S |-> g[h[x]]]
             Image(s) == {h[x] : x \in s}
             Good(s) == /\ IsFiniteSet(Image(s))
                        /\ SumFunctionOnSet(g, Image(s)) = SumFunctionOnSet(f, s)
             T == {s \in SUBSET S : ~Good(s)}
  <1>1. SUFFICES ASSUME NEW t \in T PROVE FALSE
    <2>1. Good(S) => IsFiniteSet({h[x] : x \in S})
                     /\ SumFunctionOnSet(g, {h[x] : x \in S}) = SumFunctionOnSet(f, S)
      OBVIOUS
    <2>2. T = {} => Good(S)
      OBVIOUS
    <2> HIDE DEF Good, T
    <2>3. QED
      BY <2>1, <2>2
  <1>2. PICK m \in T : \A u \in T : u \subseteq m => u = m
    <2>1. T \in SUBSET SUBSET S /\ t \in T
      OBVIOUS
    <2> HIDE DEF T
    <2>2. QED
      BY <2>1, LeastSet
  <1>3. m \in SUBSET S /\ ~Good(m) /\ IsFiniteSet(m)
    BY <1>2, FS_Subset
  <1>4. m # {}
    <2>1. Image({}) = {}
      OBVIOUS
    <2>2. Good({})
      BY <2>1, SumEmpty, FS_EmptySet
    <2>3. QED
      BY <1>3, <2>2
  <1>5. PICK x \in m : TRUE
    BY <1>4
  <1> DEFINE r == m \ {x}
  <1>6. Good(r) /\ IsFiniteSet(r) /\ r \cup {x} = m /\ x \notin r
    <2>1. r \in SUBSET S /\ r \subseteq m /\ r # m /\ r \cup {x} = m /\ x \notin r
      BY <1>3, <1>5
    <2>2. r \notin T
      BY <1>2, <2>1
    <2>3. IsFiniteSet(r)
      BY <2>1, FS_Subset
    <2> HIDE DEF r, Good
    <2>4. QED
      BY <2>1, <2>2, <2>3
  <1>7. Image(m) = Image(r) \cup {h[x]} /\ h[x] \notin Image(r)
    BY <1>3, <1>5, <1>6
  <1>8. \A y \in Image(m) : g[y] \in Int
    BY <1>3
  <1>9. \A y \in m : f[y] = g[h[y]] /\ f[y] \in Int
    BY <1>3
  <1> HIDE DEF f, r, Image
  <1>10. SumFunctionOnSet(f, r \cup {x}) = f[x] + SumFunctionOnSet(f, r)
    BY <1>6, <1>9, SumAdd
  <1>11. SumFunctionOnSet(g, Image(r) \cup {h[x]}) = g[h[x]] + SumFunctionOnSet(g, Image(r))
    BY <1>6, <1>7, <1>8, SumAdd
  <1>12. IsFiniteSet(Image(m))
    BY <1>6, <1>7, FS_AddElement
  <1>13. QED
    BY <1>3, <1>5, <1>6, <1>7, <1>9, <1>10, <1>11, <1>12
=============================================================================
