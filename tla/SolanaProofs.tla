---------------------------- MODULE SolanaProofs ----------------------------
(***************************************************************************)
(* What SolanaRead says of the read of the fee account's history, for any  *)
(* page size, any number of transactions and any arrivals meanwhile; and   *)
(* of the classification, for every transaction.                           *)
(***************************************************************************)
EXTENDS SolanaRead, CountProofs, SequenceTheorems, TLAPS

-----------------------------------------------------------------------------
(* Sequences without repetition.                                           *)

LEMMA Places ==
  ASSUME NEW s, s \in Seq(Range(s))
  PROVE  Len(s) \in Nat /\ DOMAIN s = 1..Len(s)
  OBVIOUS

LEMMA SeqOfMore ==
  ASSUME NEW S, NEW T, S \subseteq T, NEW s \in Seq(S)
  PROVE  s \in Seq(T)
  OBVIOUS

LEMMA Unappended ==
  ASSUME NEW S, NEW s \in Seq(S), NEW x \in S
  PROVE  /\ Range(Append(s, x)) = Range(s) \cup {x}
         /\ IsInjective(s) /\ x \notin Range(s) => IsInjective(Append(s, x))
  <1> DEFINE n == Len(s)
             t == Append(s, x)
  <1>1. n \in Nat /\ DOMAIN s = 1..n /\ DOMAIN t = 1..n + 1 /\ t[n + 1] = x
    OBVIOUS
  <1>2. \A i \in 1..n : t[i] = s[i] /\ i \in 1..n + 1
    OBVIOUS
  <1> HIDE DEF n, t
  <1>3. \A i \in 1..n + 1 : i \in 1..n \/ i = n + 1
    BY <1>1
  <1>4. Range(t) = Range(s) \cup {x}
    <2>1. n + 1 \in 1..n + 1
      BY <1>1
    <2>2. QED
      BY <1>1, <1>2, <1>3, <2>1 DEF Range
  <1>5. ASSUME IsInjective(s), x \notin Range(s),
               NEW i \in DOMAIN t, NEW j \in DOMAIN t, t[i] = t[j]
        PROVE  i = j
    <2>1. \A k \in 1..n : s[k] \in Range(s)
      BY <1>1 DEF Range
    <2>2. QED
      BY <1>1, <1>2, <1>3, <1>5, <2>1 DEF IsInjective
  <1>6. IsInjective(s) /\ x \notin Range(s) => IsInjective(t)
    BY <1>5 DEF IsInjective
  <1>7. QED
    BY <1>4, <1>6 DEF t

LEMMA Joined ==
  ASSUME NEW S, NEW a \in Seq(S), NEW b \in Seq(S)
  PROVE  /\ Range(a \o b) = Range(a) \cup Range(b)
         /\ IsInjective(a) /\ IsInjective(b) /\ Range(a) \cap Range(b) = {} => IsInjective(a \o b)
  <1> DEFINE n == Len(a)
             m == Len(b)
             t == a \o b
  <1>1. /\ n \in Nat /\ DOMAIN a = 1..n /\ m \in Nat /\ DOMAIN b = 1..m
        /\ DOMAIN t = 1..n + m
    OBVIOUS
  <1>2. /\ \A i \in 1..n : t[i] = a[i] /\ i \in 1..n + m
        /\ \A i \in 1..m : t[n + i] = b[i] /\ n + i \in 1..n + m
    OBVIOUS
  <1> HIDE DEF n, m, t
  <1>3. ASSUME NEW i \in 1..n + m PROVE i \in 1..n \/ \E k \in 1..m : i = n + k
    <2>1. CASE i > n
      <3>1. i - n \in 1..m /\ i = n + (i - n)
        BY <1>1, <2>1
      <3>2. QED
        BY <3>1
    <2>2. QED
      BY <1>1, <2>1
  <1>4. Range(t) = Range(a) \cup Range(b)
    <2>1. ASSUME NEW y \in Range(t) PROVE y \in Range(a) \cup Range(b)
      <3>1. PICK i \in 1..n + m : y = t[i]
        BY <1>1 DEF Range
      <3>2. CASE i \in 1..n
        BY <1>1, <1>2, <3>1, <3>2 DEF Range
      <3>3. CASE \E k \in 1..m : i = n + k
        BY <1>1, <1>2, <3>1, <3>3 DEF Range
      <3>4. QED
        BY <1>3, <3>2, <3>3
    <2>2. Range(a) \subseteq Range(t)
      BY <1>1, <1>2 DEF Range
    <2>3. Range(b) \subseteq Range(t)
      BY <1>1, <1>2 DEF Range
    <2>4. QED
      BY <2>1, <2>2, <2>3
  <1>5. ASSUME IsInjective(a), IsInjective(b), Range(a) \cap Range(b) = {},
               NEW i \in 1..n + m, NEW j \in 1..n + m, t[i] = t[j]
        PROVE  i = j
    <2>1. (\A k \in 1..n : a[k] \in Range(a)) /\ (\A k \in 1..m : b[k] \in Range(b))
      BY <1>1 DEF Range
    <2>2. CASE i \in 1..n /\ j \in 1..n
      BY <1>1, <1>2, <1>5, <2>2 DEF IsInjective
    <2>3. CASE i \in 1..n /\ \E k \in 1..m : j = n + k
      BY <1>2, <1>5, <2>1, <2>3
    <2>4. CASE j \in 1..n /\ \E k \in 1..m : i = n + k
      BY <1>2, <1>5, <2>1, <2>4
    <2>5. CASE (\E k \in 1..m : i = n + k) /\ (\E k \in 1..m : j = n + k)
      <3>1. PICK k \in 1..m, l \in 1..m : i = n + k /\ j = n + l
        BY <2>5
      <3>2. b[k] = b[l]
        BY <1>2, <1>5, <3>1
      <3>3. k = l
        BY <1>1, <1>5, <3>2 DEF IsInjective
      <3>4. QED
        BY <3>1, <3>3
    <2>6. QED
      BY <1>3, <2>2, <2>3, <2>4, <2>5
  <1>6. (IsInjective(a) /\ IsInjective(b) /\ Range(a) \cap Range(b) = {}) => IsInjective(t)
    BY <1>1, <1>5 DEF IsInjective
  <1>7. QED
    BY <1>4, <1>6 DEF t

LEMMA Beheaded ==
  ASSUME NEW S, NEW s \in Seq(S), s # << >>, IsInjective(s)
  PROVE  /\ Tail(s) \in Seq(S) /\ IsInjective(Tail(s))
         /\ Head(s) \in S /\ Head(s) \in Range(s) /\ Range(Tail(s)) = Range(s) \ {Head(s)}
  <1> DEFINE n == Len(s)
             t == Tail(s)
  <1>1. /\ n \in Nat /\ n >= 1 /\ DOMAIN s = 1..n /\ DOMAIN t = 1..n - 1 /\ t \in Seq(S)
        /\ Head(s) = s[1] /\ Head(s) \in S
    OBVIOUS
  <1>2. \A i \in 1..n - 1 : t[i] = s[i + 1] /\ i + 1 \in 1..n /\ i + 1 # 1
    OBVIOUS
  <1> HIDE DEF n, t
  <1>3. ASSUME NEW i \in 1..n, i # 1 PROVE i - 1 \in 1..n - 1 /\ t[i - 1] = s[i]
    <2>1. i - 1 \in 1..n - 1 /\ (i - 1) + 1 = i
      BY <1>1, <1>3
    <2>2. t[i - 1] = s[(i - 1) + 1]
      BY <1>2, <2>1
    <2>3. QED
      BY <2>1, <2>2
  <1>4. IsInjective(t)
    <2>1. ASSUME NEW i \in 1..n - 1, NEW j \in 1..n - 1, t[i] = t[j] PROVE i = j
      <3>1. s[i + 1] = s[j + 1] /\ i + 1 \in 1..n /\ j + 1 \in 1..n
        BY <1>2, <2>1
      <3>2. i + 1 = j + 1
        BY <1>1, <3>1 DEF IsInjective
      <3>3. QED
        BY <3>2
    <2>2. QED
      BY <1>1, <2>1 DEF IsInjective
  <1>5. 1 \in 1..n /\ Head(s) \in Range(s)
    BY <1>1 DEF Range
  <1>6. ASSUME NEW y \in Range(t) PROVE y \in Range(s) /\ y # Head(s)
    <2>1. PICK i \in 1..n - 1 : y = t[i]
      BY <1>1, <1>6 DEF Range
    <2>2. y = s[i + 1] /\ i + 1 \in 1..n /\ i + 1 # 1
      BY <1>2, <2>1
    <2>3. QED
      BY <1>1, <1>5, <2>2 DEF Range, IsInjective
  <1>7. ASSUME NEW y \in Range(s), y # Head(s) PROVE y \in Range(t)
    <2>1. PICK i \in 1..n : y = s[i]
      BY <1>1, <1>7 DEF Range
    <2>2. i # 1
      BY <1>1, <1>7, <2>1
    <2>3. QED
      BY <1>1, <1>3, <2>1, <2>2 DEF Range
  <1>8. QED
    BY <1>1, <1>4, <1>5, <1>6, <1>7 DEF t

(* The k-th least of some numbers. *)
LEMMA Ranked ==
  ASSUME NEW I \in SUBSET Nat, IsFiniteSet(I)
  PROVE  /\ Cardinality(I) \in Nat
         /\ \A k \in 1..Cardinality(I) : \E i \in I : Cardinality({j \in I : j <= i}) = k
         /\ \A i \in I : Cardinality({j \in I : j <= i}) \in 1..Cardinality(I)
         /\ \A i, j \in I : Cardinality({l \in I : l <= i}) = Cardinality({l \in I : l <= j})
                              => i = j
  <1> DEFINE C == Cardinality(I)
             At(x) == {j \in I : j <= x}
             rank == [i \in I |-> Cardinality(At(i))]
  <1>1. C \in Nat
    BY FS_CardinalityType
  <1>2. \A i \in I : IsFiniteSet(At(i)) /\ Cardinality(At(i)) \in Nat /\ Cardinality(At(i)) <= C
    <2>1. \A i \in I : At(i) \in SUBSET I
      OBVIOUS
    <2> HIDE DEF At
    <2>2. QED
      BY <2>1, FS_Subset, FS_CardinalityType
  <1>3. \A i \in I : Cardinality(At(i)) \in 1..C
    <2>1. \A i \in I : i \in At(i)
      OBVIOUS
    <2>2. \A i \in I : Cardinality(At(i)) # 0
      BY <1>2, <2>1, FS_EmptySet
    <2>3. QED
      BY <1>1, <1>2, <2>2
  <1>4. ASSUME NEW i \in I, NEW j \in I, i < j PROVE Cardinality(At(i)) # Cardinality(At(j))
    <2>1. At(i) \in SUBSET At(j) /\ j \in At(j) /\ j \notin At(i)
      <3>1. j <= j /\ ~(j <= i) /\ \A l \in I : l <= i => l <= j
        BY <1>4
      <3>2. QED
        BY <3>1
    <2> HIDE DEF At
    <2>2. QED
      BY <1>2, <2>1, FS_Subset
  <1>5. ASSUME NEW i \in I, NEW j \in I, Cardinality(At(i)) = Cardinality(At(j)) PROVE i = j
    <2>1. i \in Int /\ j \in Int /\ ~(i < j) /\ ~(j < i)
      BY <1>4, <1>5
    <2>2. QED
      BY <2>1
  <1>6. rank \in Injection(I, 1..C)
    BY <1>3, <1>5 DEF Injection, IsInjective
  <1>7. IsFiniteSet(1..C) /\ Cardinality(1..C) = C
    BY <1>1, FS_Interval
  <1>8. rank \in Surjection(I, 1..C)
    <2> HIDE DEF rank
    <2>1. QED
      BY <1>6, <1>7, FS_Injection
  <1>9. ASSUME NEW k \in 1..C PROVE \E i \in I : Cardinality(At(i)) = k
    <2>1. PICK i \in I : rank[i] = k
      <3> HIDE DEF rank
      <3>1. QED
        BY <1>8 DEF Surjection
    <2>2. QED
      BY <2>1
  <1>10. QED
    BY <1>1, <1>3, <1>5, <1>9

LEMMA Listed ==
  ASSUME NEW S, IsFiniteSet(S)
  PROVE  SetToSeq(S) \in Seq(S) /\ IsInjective(SetToSeq(S)) /\ Range(SetToSeq(S)) = S
  <1> DEFINE C == Cardinality(S)
             q == SetToSeq(S)
  <1>1. C \in Nat /\ \E f : f \in Bijection(1..C, S)
    BY FS_CardinalityType DEF ExistsBijection
  <1>2. \E f \in [1..C -> S] : IsInjective(f)
    BY <1>1 DEF Bijection, Injection
  <1>3. q \in [1..C -> S] /\ IsInjective(q)
    BY <1>2 DEF SetToSeq
  <1> HIDE DEF q
  <1>4. IsFiniteSet(1..C) /\ Cardinality(1..C) = C
    BY <1>1, FS_Interval
  <1>5. q \in Surjection(1..C, S)
    <2>1. q \in Injection(1..C, S)
      BY <1>3 DEF Injection
    <2> HIDE DEF C
    <2>2. Cardinality(1..C) = Cardinality(S)
      BY <1>4 DEF C
    <2>3. QED
      BY <1>4, <2>1, <2>2, FS_Injection
  <1>6. Range(q) = S
    BY <1>3, <1>5 DEF Surjection, Range
  <1>7. q \in Seq(S)
    BY <1>1, <1>3
  <1>8. QED
    BY <1>3, <1>6, <1>7 DEF q

-----------------------------------------------------------------------------
(* The listing.                                                            *)

LEMMA SucceededAre ==
  ASSUME NEW page, NEW n \in Nat, DOMAIN page = 1..n, IsInjective(page)
  PROVE  /\ Range(Succeeded(page)) = {s \in Range(page) : ~Tx(s).failed}
         /\ Succeeded(page) \in Seq(Range(page)) /\ IsInjective(Succeeded(page))
  <1> DEFINE ok == {i \in DOMAIN page : ~Tx(page[i]).failed}
             C == Cardinality(ok)
             At(i) == Cardinality({j \in ok : j <= i})
             nth(k) == CHOOSE i \in ok : At(i) = k
             q == [k \in 1..C |-> page[nth(k)]]
  <1>1. ok \in SUBSET Nat /\ IsFiniteSet(ok) /\ ok \subseteq 1..n
    <2>1. IsFiniteSet(1..n) /\ ok \subseteq 1..n
      BY FS_Interval
    <2>2. QED
      BY <2>1, FS_Subset
  <1>2. Succeeded(page) = q
    BY DEF Succeeded
  <1> HIDE DEF ok
  <1>3. /\ C \in Nat
        /\ \A k \in 1..C : \E i \in ok : At(i) = k
        /\ \A i \in ok : At(i) \in 1..C
        /\ \A i, j \in ok : At(i) = At(j) => i = j
    BY <1>1, Ranked
  <1> HIDE DEF C, At
  <1>4. \A k \in 1..C : nth(k) \in ok /\ At(nth(k)) = k
    BY <1>3
  <1>5. \A i \in ok : At(i) \in 1..C /\ nth(At(i)) = i
    BY <1>3, <1>4
  <1> HIDE DEF nth
  <1>6. \A i \in ok : i \in 1..n /\ page[i] \in Range(page) /\ ~Tx(page[i]).failed
    BY <1>1 DEF ok, Range
  <1>7. DOMAIN q = 1..C /\ \A k \in 1..C : q[k] = page[nth(k)]
    OBVIOUS
  <1>8. q \in Seq(Range(page))
    BY <1>3, <1>4, <1>6
  <1> HIDE DEF q
  <1>9. IsInjective(q)
    <2>1. ASSUME NEW k \in 1..C, NEW l \in 1..C, q[k] = q[l] PROVE k = l
      <3>1. nth(k) = nth(l)
        BY <1>4, <1>6, <1>7, <2>1 DEF IsInjective
      <3>2. QED
        BY <1>4, <3>1
    <2>2. QED
      BY <1>7, <2>1 DEF IsInjective
  <1>10. Range(q) = {s \in Range(page) : ~Tx(s).failed}
    <2>1. ASSUME NEW y \in Range(q) PROVE y \in Range(page) /\ ~Tx(y).failed
      <3>1. PICK k \in 1..C : y = page[nth(k)]
        BY <1>7, <2>1 DEF Range
      <3>2. QED
        BY <1>4, <1>6, <3>1
    <2>2. ASSUME NEW y \in Range(page), ~Tx(y).failed PROVE y \in Range(q)
      <3>1. PICK i \in 1..n : y = page[i]
        BY <2>2 DEF Range
      <3>2. i \in ok
        BY <2>2, <3>1 DEF ok
      <3>3. At(i) \in 1..C /\ q[At(i)] = y
        BY <1>5, <1>7, <3>1, <3>2
      <3>4. QED
        BY <1>7, <3>3 DEF Range
    <2>3. QED
      BY <2>1, <2>2
  <1>11. QED
    BY <1>2, <1>8, <1>9, <1>10

(* A page is the newest transactions not yet listed, as many as fit. *)
LEMMA PageAre ==
  ASSUME NEW newest \in Nat, newest = IF before = None THEN length ELSE before - 1,
         Limit \in Nat \ {0}
  PROVE  \E n \in Nat : /\ DOMAIN Page = 1..n /\ Len(Page) = n /\ n <= Limit /\ n <= newest
                        /\ n < Limit => n = newest
                        /\ \A i \in 1..n : Page[i] = newest - i + 1
                        /\ Range(Page) = newest - n + 1 .. newest
                        /\ IsInjective(Page)
                        /\ n = 0 => Page = << >>
                        /\ n # 0 => Page # << >> /\ Last(Page) = newest - n + 1
  <1> DEFINE n == Min({Limit, newest})
  <1>1. n \in Nat /\ n <= Limit /\ n <= newest /\ (n = Limit \/ n = newest)
    <2>1. {Limit, newest} \in SUBSET Nat /\ {Limit, newest} # {}
      OBVIOUS
    <2>2. /\ Min({Limit, newest}) \in {Limit, newest}
          /\ \A m \in {Limit, newest} : Min({Limit, newest}) <= m
      BY <2>1, MinIsLeast
    <2>3. QED
      BY <2>2
  <1>2. Page = [i \in 1..n |-> newest - i + 1]
    BY DEF Page
  <1> HIDE DEF n
  <1>3. DOMAIN Page = 1..n /\ Len(Page) = n /\ \A i \in 1..n : Page[i] = newest - i + 1
    BY <1>1, <1>2
  <1>4. Range(Page) = newest - n + 1 .. newest
    <2>1. ASSUME NEW y \in newest - n + 1 .. newest PROVE y \in Range(Page)
      <3>1. newest - y + 1 \in 1..n /\ newest - (newest - y + 1) + 1 = y
        BY <1>1, <2>1
      <3>2. Page[newest - y + 1] = y
        BY <1>3, <3>1
      <3>3. QED
        BY <1>3, <3>1, <3>2 DEF Range
    <2>2. ASSUME NEW y \in Range(Page) PROVE y \in newest - n + 1 .. newest
      <3>1. PICK i \in 1..n : y = newest - i + 1
        BY <1>3, <2>2 DEF Range
      <3>2. QED
        BY <1>1, <3>1
    <2>3. QED
      BY <2>1, <2>2
  <1>5. IsInjective(Page)
    <2>1. ASSUME NEW i \in 1..n, NEW j \in 1..n, newest - i + 1 = newest - j + 1 PROVE i = j
      BY <1>1, <2>1
    <2>2. QED
      BY <1>3, <2>1 DEF IsInjective
  <1>6. n = 0 => Page = << >>
    BY <1>2
  <1>7. n # 0 => Page # << >> /\ Last(Page) = newest - n + 1
    <2>1. ASSUME n # 0 PROVE n \in 1..n
      BY <1>1, <2>1
    <2>2. QED
      BY <1>1, <1>3, <2>1 DEF Last
  <1>8. QED
    BY <1>1, <1>3, <1>4, <1>5, <1>6, <1>7
-----------------------------------------------------------------------------
(* The read.  What is listed falls into what was found, what could not be  *)
(* read and what is still to fetch, and each fetch moves one.              *)

Split(a, b, c, S) ==
  /\ IsInjective(a) /\ IsInjective(b) /\ IsInjective(c)
  /\ Range(a) \cap Range(b) = {} /\ Range(a) \cap Range(c) = {} /\ Range(b) \cap Range(c) = {}
  /\ Range(a) \cup Range(b) \cup Range(c) = S

LEMMA Nothing ==
  Range(<< >>) = {} /\ IsInjective(<< >>) /\ Names(<< >>) = << >>
  BY DEF Range, IsInjective, Names

LEMMA Starts ==
  ASSUME NEW c, IsInjective(c)
  PROVE  Split(<< >>, << >>, c, Range(c))
  BY Nothing DEF Split

LEMMA Ends ==
  ASSUME NEW a, NEW b, NEW S, Split(a, b, << >>, S),
         NEW T, a \in Seq(T), b \in Seq(T)
  PROVE  IsInjective(a \o b) /\ Range(a \o b) = S
  <1>1. /\ IsInjective(a) /\ IsInjective(b) /\ Range(a) \cap Range(b) = {}
        /\ Range(a) \cup Range(b) = S
    BY Nothing DEF Split
  <1>2. Range(a \o b) = Range(a) \cup Range(b)
    BY Joined
  <1>3. IsInjective(a \o b)
    BY <1>1, Joined
  <1>4. QED
    BY <1>1, <1>2, <1>3

LEMMA Moves ==
  ASSUME NEW a, NEW b, NEW c, NEW S, Split(a, b, c, S),
         NEW T, a \in Seq(T), b \in Seq(T), c \in Seq(T), c # << >>
  PROVE  /\ Head(c) \in T /\ Tail(c) \in Seq(T)
         /\ Split(Append(a, Head(c)), b, Tail(c), S)
         /\ Split(a, Append(b, Head(c)), Tail(c), S)
  <1> DEFINE h == Head(c)
             t == Tail(c)
  <1>1. /\ h \in T /\ t \in Seq(T) /\ IsInjective(t) /\ h \in Range(c)
        /\ Range(t) = Range(c) \ {h}
    BY Beheaded DEF Split
  <1> HIDE DEF h, t
  <1>2. h \notin Range(a) /\ h \notin Range(b)
    BY <1>1 DEF Split
  <1>3. /\ IsInjective(Append(a, h)) /\ Range(Append(a, h)) = Range(a) \cup {h}
        /\ IsInjective(Append(b, h)) /\ Range(Append(b, h)) = Range(b) \cup {h}
    BY <1>1, <1>2, Unappended DEF Split
  <1>4. Split(Append(a, h), b, t, S)
    BY <1>1, <1>2, <1>3 DEF Split
  <1>5. Split(a, Append(b, h), t, S)
    BY <1>1, <1>2, <1>3 DEF Split
  <1>6. QED
    BY <1>1, <1>4, <1>5 DEF h, t

LEMMA Named ==
  ASSUME NEW T, NEW C, \A c \in C : c[1] \in T, NEW list \in Seq(C)
  PROVE  Names(list) \in Seq(T)
  <1>1. Len(list) \in Nat /\ DOMAIN list = 1..Len(list) /\ \A i \in 1..Len(list) : list[i] \in C
    OBVIOUS
  <1>2. QED
    BY <1>1 DEF Names

LEMMA NameAppended ==
  ASSUME NEW C, NEW list \in Seq(C), NEW x \in C
  PROVE  Names(Append(list, x)) = Append(Names(list), x[1])
  <1> DEFINE n == Len(list)
             m == Names(list)
             l == Append(list, x)
  <1>1. n \in Nat /\ DOMAIN list = 1..n
    OBVIOUS
  <1>2. DOMAIN m = 1..n /\ Len(m) = n /\ \A i \in 1..n : m[i] = list[i][1]
    BY <1>1 DEF Names
  <1>3. DOMAIN l = 1..n + 1 /\ (\A i \in 1..n : l[i] = list[i]) /\ l[n + 1] = x
    BY <1>1
  <1> HIDE DEF l
  <1>4. Names(l) = [i \in 1..n + 1 |-> l[i][1]]
    BY <1>3 DEF Names
  <1> HIDE DEF m
  <1>5. Append(m, x[1]) = [i \in 1..n + 1 |-> IF i = n + 1 THEN x[1] ELSE m[i]]
    BY <1>2
  <1> HIDE DEF n
  <1>6. \A i \in 1..n + 1 : l[i][1] = IF i = n + 1 THEN x[1] ELSE m[i]
    BY <1>1, <1>2, <1>3
  <1>7. QED
    BY <1>4, <1>5, <1>6 DEF l, m

Successes == {s \in 1..listed : ~Tx(s).failed}

Classified == {<<s, Classify(Tx(s))>> : s \in DOMAIN input.tx}

ClassifiedExits == {<<s, ClassifyExit(Tx(s))>> : s \in DOMAIN input.tx}

ListsTyped ==
  /\ input \in Inputs /\ length \in 0..MaxTxs /\ listed \in 0..length
  /\ pc \in {"page", "txs", "exits", "read", "failed"}
  /\ before = None \/ before \in 1..listed
  /\ sigs \in Seq(DOMAIN input.tx)
  /\ found \in Seq(Classified) /\ unreadable \in Seq(DOMAIN input.tx)
  /\ exits \in Seq(ClassifiedExits) /\ lostExits \in Seq(DOMAIN input.tx)

(* Listed so far is what succeeded from the cursor on. *)
Listing ==
  pc = "page" =>
    /\ found = << >> /\ unreadable = << >> /\ exits = << >> /\ lostExits = << >>
    /\ IsInjective(sigs)
    /\ Range(sigs) = {s \in Successes : before # None /\ s >= before}

Fetching ==
  /\ pc = "txs" =>
       /\ exits = << >> /\ lostExits = << >>
       /\ Split(Names(found), unreadable, sigs, Successes)
  /\ pc \in {"exits", "read"} =>
       /\ Split(Names(found), unreadable, << >>, Successes)
       /\ Split(Names(exits), lostExits, IF pc = "exits" THEN sigs ELSE << >>,
                Range(input.given))

ReadInv == ListsTyped /\ Listing /\ Fetching

LEMMA InputIs ==
  ASSUME input \in Inputs
  PROVE  /\ DOMAIN input.tx = 1..MaxTxs \cup Exits /\ MaxTxs \in Nat /\ Limit \in Nat \ {0}
         /\ input.given \in Seq(DOMAIN input.tx)
         /\ \A s \in DOMAIN input.tx : IsTransaction(Tx(s))
  BY ReadAssumption DEF Tx

LEMMA FirstsNamed ==
  /\ \A c \in Classified : c[1] \in DOMAIN input.tx
  /\ \A c \in ClassifiedExits : c[1] \in DOMAIN input.tx
  BY DEF Classified, ClassifiedExits

LEMMA ReadInit == Init => ReadInv
  <1> SUFFICES ASSUME Init PROVE ReadInv
    OBVIOUS
  <1>1. ListsTyped
    BY InputIs DEF Init, ListsTyped
  <1>2. Listing /\ Fetching
    BY Nothing DEF Init, Listing, Fetching
  <1>3. QED
    BY <1>1, <1>2 DEF ReadInv

LEMMA PageListed ==
  ASSUME ReadInv, GetSignatures
  PROVE  ReadInv'
  <1> DEFINE newest == IF before = None THEN length ELSE before - 1
             q == Succeeded(Page)
  <1>1. /\ input \in Inputs /\ length \in 0..MaxTxs /\ listed \in 0..length /\ pc = "page"
        /\ before = None \/ before \in 1..listed
        /\ sigs \in Seq(DOMAIN input.tx) /\ IsInjective(sigs)
        /\ Range(sigs) = {s \in Successes : before # None /\ s >= before}
        /\ found = << >> /\ unreadable = << >> /\ exits = << >> /\ lostExits = << >>
    BY DEF ReadInv, ListsTyped, Listing, GetSignatures
  <1>2. 1..MaxTxs \subseteq DOMAIN input.tx /\ MaxTxs \in Nat /\ Limit \in Nat \ {0}
    BY <1>1, InputIs
  <1>3. newest \in Nat /\ newest <= length /\ newest = IF before = None THEN length ELSE before - 1
    BY <1>1, <1>2
  <1> HIDE DEF newest
  <1>4. PICK n \in Nat :
          /\ DOMAIN Page = 1..n /\ Len(Page) = n /\ n <= Limit /\ n <= newest
          /\ n < Limit => n = newest
          /\ Range(Page) = newest - n + 1 .. newest /\ IsInjective(Page)
          /\ n = 0 => Page = << >>
          /\ n # 0 => Page # << >> /\ Last(Page) = newest - n + 1
    BY <1>2, <1>3, PageAre
  <1>5. /\ Range(q) = {s \in newest - n + 1 .. newest : ~Tx(s).failed}
        /\ q \in Seq(newest - n + 1 .. newest) /\ IsInjective(q)
    BY <1>4, SucceededAre
  <1>6. newest - n + 1 .. newest \subseteq 1..MaxTxs
    BY <1>1, <1>2, <1>3, <1>4
  <1>7. q \in Seq(DOMAIN input.tx)
    <2>1. newest - n + 1 .. newest \subseteq DOMAIN input.tx
      BY <1>2, <1>6
    <2>2. QED
      BY <1>5, <2>1, SeqOfMore
  <1>8. /\ sigs' = sigs \o q /\ before' = (IF n = 0 THEN before ELSE newest - n + 1)
        /\ listed' = (IF before = None THEN length ELSE listed)
        /\ pc' = (IF n < Limit THEN "txs" ELSE "page")
        /\ UNCHANGED <<input, length, found, unreadable, exits, lostExits>>
    BY <1>4 DEF GetSignatures, Kept, Cursor, IsLast
  <1> HIDE DEF q
  <1>9. Range(sigs) \cap Range(q) = {}
    BY <1>1, <1>3, <1>5 DEF Successes
  <1>10. /\ IsInjective(sigs') /\ sigs' \in Seq(DOMAIN input.tx)
         /\ Range(sigs') = Range(sigs) \cup Range(q)
    BY <1>1, <1>5, <1>7, <1>8, <1>9, Joined
  <1>11. listed' \in 0..length /\ (before' = None \/ before' \in 1..listed')
    <2>1. length \in Nat
      BY <1>1, <1>2
    <2>2. CASE before = None
      <3>1. newest = length /\ listed' = length
        BY <1>3, <1>8, <2>2
      <3>2. before' = None \/ (before' = length - n + 1 /\ n # 0)
        BY <1>8, <2>2, <3>1
      <3>3. QED
        BY <1>3, <1>4, <2>1, <3>1, <3>2
    <2>3. CASE before # None
      <3>1. before \in 1..listed /\ newest = before - 1 /\ listed' = listed
        BY <1>1, <1>3, <1>8, <2>3
      <3>2. before' = before \/ (before' = before - n /\ n # 0)
        BY <1>8, <3>1
      <3>3. before' \in 1..listed
        BY <1>1, <1>3, <1>4, <2>1, <3>1, <3>2
      <3>4. QED
        BY <1>1, <3>1, <3>3
    <2>4. QED
      BY <2>2, <2>3
  <1>12. ListsTyped'
    <2>1. << >> \in Seq(Classified') /\ << >> \in Seq(ClassifiedExits')
      OBVIOUS
    <2>2. QED
      BY <1>1, <1>8, <1>10, <1>11, <2>1 DEF ListsTyped
  <1>13. Successes' = {s \in 1..listed' : ~Tx(s).failed}
    BY <1>8 DEF Successes, Tx
  <1>14. Range(sigs') = {s \in Successes' : before' # None /\ s >= before'}
    <2>1. CASE before = None
      <3>1. Range(sigs) = {} /\ newest = length /\ listed' = newest
        BY <1>1, <1>3, <1>8, <2>1
      <3>2. CASE n = 0
        <4>1. Range(q) = {} /\ before' = None
          BY <1>3, <1>5, <1>8, <2>1, <3>2
        <4>2. QED
          BY <1>10, <3>1, <4>1
      <3>3. CASE n # 0
        <4>1. before' = newest - n + 1 /\ before' \in 1..listed'
          BY <1>3, <1>4, <1>8, <3>1, <3>3
        <4>2. before' # None
          BY <4>1, FeesAssumption
        <4>3. Range(sigs') = {s \in before'..listed' : ~Tx(s).failed}
          BY <1>5, <1>10, <3>1, <4>1
        <4>4. \A s \in 1..listed' : s >= before' <=> s \in before'..listed'
          BY <4>1, <3>1, <1>3
        <4>5. before'..listed' \subseteq 1..listed'
          BY <4>1, <3>1, <1>3
        <4>6. QED
          BY <1>13, <4>2, <4>3, <4>4, <4>5
      <3>4. QED
        BY <3>2, <3>3
    <2>2. CASE before # None
      <3>1. before \in 1..listed /\ listed' = listed /\ newest = before - 1 /\ listed \in Nat
        BY <1>1, <1>2, <1>3, <1>8, <2>2
      <3>2. /\ before' \in 1..listed' /\ before' = newest - n + 1 /\ before' # None
        <4>1. n = 0 => before' = before /\ before = newest - n + 1
          BY <1>8, <3>1
        <4>2. before' = newest - n + 1 /\ newest - n + 1 \in 1..listed
          BY <1>3, <1>4, <1>8, <3>1, <4>1
        <4>3. QED
          BY <3>1, <4>2, FeesAssumption
      <3>3. Range(sigs) = {s \in 1..listed : ~Tx(s).failed /\ s >= before}
        BY <1>1, <2>2 DEF Successes
      <3>4. Range(q) = {s \in before'..before - 1 : ~Tx(s).failed}
        BY <1>5, <3>1, <3>2
      <3>5. \A s : s \in before'..before - 1 \/ (s \in 1..listed /\ s >= before)
                   <=> s \in 1..listed /\ s >= before'
        <4>1. before' \in 1..before
          BY <1>4, <3>1, <3>2
        <4>2. QED
          BY <3>1, <4>1
      <3>6. Range(sigs') = {s \in 1..listed : ~Tx(s).failed /\ s >= before'}
        BY <1>10, <3>3, <3>4, <3>5
      <3>7. QED
        BY <1>13, <3>1, <3>2, <3>6
    <2>3. QED
      BY <2>1, <2>2
  <1>15. Listing'
    BY <1>1, <1>8, <1>10, <1>14 DEF Listing
  <1>16. pc' = "txs" => Range(sigs') = Successes'
    <2> SUFFICES ASSUME pc' = "txs" PROVE Range(sigs') = Successes'
      OBVIOUS
    <2>1. n < Limit /\ n = newest
      BY <1>4, <1>8
    <2>2. CASE before' = None
      <3>1. before = None /\ n = 0
        BY <1>1, <1>3, <1>4, <1>8, <2>2, FeesAssumption
      <3>2. listed' = 0
        BY <1>3, <1>8, <2>1, <3>1
      <3>3. Successes' = {}
        BY <1>13, <3>2
      <3>4. QED
        BY <1>14, <3>3
    <2>3. CASE before' # None
      <3>1. before' = 1
        <4>1. CASE n = 0
          BY <1>1, <1>3, <1>8, <2>1, <2>3, <4>1
        <4>2. CASE n # 0
          BY <1>3, <1>8, <2>1, <4>2
        <4>3. QED
          BY <4>1, <4>2
      <3>2. QED
        BY <1>13, <1>14, <2>3, <3>1
    <2>4. QED
      BY <2>2, <2>3
  <1>17. Fetching'
    <2>1. pc' \in {"txs", "page"}
      BY <1>8
    <2>2. pc' = "txs" => Split(<< >>, << >>, sigs', Successes')
      <3>1. Split(<< >>, << >>, sigs', Range(sigs'))
        BY <1>10, Starts
      <3>2. QED
        BY <1>16, <3>1
    <2>3. Names(found') = << >>
      BY <1>1, <1>8, Nothing
    <2>4. QED
      BY <1>1, <1>8, <2>1, <2>2, <2>3 DEF Fetching
  <1>18. QED
    BY <1>12, <1>15, <1>17 DEF ReadInv

LEMMA TransactionRead ==
  ASSUME ReadInv, GetTransaction \/ TransactionLost
  PROVE  ReadInv'
  <1> DEFINE h == Head(sigs)
             x == <<h, Classify(Tx(h))>>
  <1>1. /\ ListsTyped /\ pc = "txs" /\ sigs # << >> /\ sigs' = Tail(sigs)
        /\ UNCHANGED <<input, length, listed, pc, before, exits, lostExits>>
        /\ exits = << >> /\ lostExits = << >>
        /\ Split(Names(found), unreadable, sigs, Successes)
    BY DEF ReadInv, Fetching, GetTransaction, TransactionLost, Fetch
  <1>2. \/ found' = Append(found, x) /\ unreadable' = unreadable
        \/ found' = found /\ unreadable' = Append(unreadable, h)
    BY DEF GetTransaction, TransactionLost
  <1>3. Names(found) \in Seq(DOMAIN input.tx)
    BY <1>1, FirstsNamed, Named DEF ListsTyped
  <1>4. /\ h \in DOMAIN input.tx /\ Tail(sigs) \in Seq(DOMAIN input.tx)
        /\ Split(Append(Names(found), h), unreadable, Tail(sigs), Successes)
        /\ Split(Names(found), Append(unreadable, h), Tail(sigs), Successes)
    BY <1>1, <1>3, Moves DEF ListsTyped
  <1>5. x \in Classified
    BY <1>4 DEF Classified
  <1>6. Names(Append(found, x)) = Append(Names(found), h)
    <2>1. found \in Seq(Classified)
      BY <1>1 DEF ListsTyped
    <2>2. x[1] = h
      OBVIOUS
    <2> HIDE DEF x
    <2>3. QED
      BY <1>5, <2>1, <2>2, NameAppended
  <1> HIDE DEF h, x
  <1>7. Successes' = Successes /\ Classified' = Classified /\ ClassifiedExits' = ClassifiedExits
    BY <1>1 DEF Successes, Classified, ClassifiedExits, Tx
  <1>8. found' \in Seq(Classified) /\ unreadable' \in Seq(DOMAIN input.tx)
    <2>1. found \in Seq(Classified) /\ unreadable \in Seq(DOMAIN input.tx)
      BY <1>1 DEF ListsTyped
    <2>2. Append(found, x) \in Seq(Classified)
      BY <1>5, <2>1
    <2>3. Append(unreadable, h) \in Seq(DOMAIN input.tx)
      BY <1>4, <2>1
    <2>4. QED
      BY <1>2, <2>1, <2>2, <2>3
  <1>9. ListsTyped'
    BY <1>1, <1>4, <1>7, <1>8 DEF ListsTyped
  <1>10. Listing'
    BY <1>1 DEF Listing
  <1>11. Split(Names(found)', unreadable', sigs', Successes')
    BY <1>1, <1>2, <1>4, <1>6, <1>7
  <1>12. Fetching'
    BY <1>1, <1>11 DEF Fetching
  <1>13. QED
    BY <1>9, <1>10, <1>12 DEF ReadInv

LEMMA ExitRead ==
  ASSUME ReadInv, GetExit \/ ExitLost
  PROVE  ReadInv'
  <1> DEFINE h == Head(sigs)
             x == <<h, ClassifyExit(Tx(h))>>
             given == Range(input.given)
  <1>1. /\ ListsTyped /\ pc = "exits" /\ sigs # << >> /\ sigs' = Tail(sigs)
        /\ UNCHANGED <<input, length, listed, pc, before, found, unreadable>>
        /\ Split(Names(found), unreadable, << >>, Successes)
        /\ Split(Names(exits), lostExits, sigs, given)
    BY DEF ReadInv, Fetching, GetExit, ExitLost, Fetch
  <1>2. \/ exits' = Append(exits, x) /\ lostExits' = lostExits
        \/ exits' = exits /\ lostExits' = Append(lostExits, h)
    BY DEF GetExit, ExitLost
  <1>3. Names(exits) \in Seq(DOMAIN input.tx)
    BY <1>1, FirstsNamed, Named DEF ListsTyped
  <1>4. /\ h \in DOMAIN input.tx /\ Tail(sigs) \in Seq(DOMAIN input.tx)
        /\ Split(Append(Names(exits), h), lostExits, Tail(sigs), given)
        /\ Split(Names(exits), Append(lostExits, h), Tail(sigs), given)
    BY <1>1, <1>3, Moves DEF ListsTyped
  <1>5. x \in ClassifiedExits
    BY <1>4 DEF ClassifiedExits
  <1>6. Names(Append(exits, x)) = Append(Names(exits), h)
    <2>1. exits \in Seq(ClassifiedExits)
      BY <1>1 DEF ListsTyped
    <2>2. x[1] = h
      OBVIOUS
    <2> HIDE DEF x
    <2>3. QED
      BY <1>5, <2>1, <2>2, NameAppended
  <1> HIDE DEF h, x
  <1>7. Successes' = Successes /\ Classified' = Classified /\ ClassifiedExits' = ClassifiedExits
    BY <1>1 DEF Successes, Classified, ClassifiedExits, Tx
  <1>8. exits' \in Seq(ClassifiedExits) /\ lostExits' \in Seq(DOMAIN input.tx)
    <2>1. exits \in Seq(ClassifiedExits) /\ lostExits \in Seq(DOMAIN input.tx)
      BY <1>1 DEF ListsTyped
    <2>2. Append(exits, x) \in Seq(ClassifiedExits)
      BY <1>5, <2>1
    <2>3. Append(lostExits, h) \in Seq(DOMAIN input.tx)
      BY <1>4, <2>1
    <2>4. QED
      BY <1>2, <2>1, <2>2, <2>3
  <1>9. ListsTyped'
    BY <1>1, <1>4, <1>7, <1>8 DEF ListsTyped
  <1>10. Listing'
    BY <1>1 DEF Listing
  <1>11. /\ Split(Names(exits)', lostExits', sigs', given')
         /\ Split(Names(found)', unreadable', << >>, Successes')
    BY <1>1, <1>2, <1>4, <1>6, <1>7
  <1>12. Fetching'
    BY <1>1, <1>11 DEF Fetching
  <1>13. QED
    BY <1>9, <1>10, <1>12 DEF ReadInv

LEMMA ExitsListed ==
  ASSUME ReadInv, TurnToExits
  PROVE  ReadInv'
  <1> DEFINE given == Range(input.given)
  <1>1. /\ ListsTyped /\ pc = "txs" /\ sigs = << >> /\ pc' = "exits"
        /\ UNCHANGED <<input, length, listed, before, found, unreadable, exits, lostExits>>
        /\ exits = << >> /\ lostExits = << >>
        /\ Split(Names(found), unreadable, << >>, Successes)
        /\ sigs' = SetToSeq(given)
    BY DEF ReadInv, Fetching, TurnToExits
  <1>2. given \subseteq DOMAIN input.tx /\ IsFiniteSet(given)
    <2>1. PICK g \in Seq(DOMAIN input.tx) : g = input.given
      BY <1>1, InputIs DEF ListsTyped
    <2>2. Len(g) \in Nat /\ DOMAIN g = 1..Len(g)
      OBVIOUS
    <2>3. IsFiniteSet(1..Len(g))
      BY <2>2, FS_Interval
    <2>4. g \in Surjection(1..Len(g), Range(g))
      BY <2>2 DEF Range, Surjection
    <2>5. IsFiniteSet(Range(g))
      BY <2>3, <2>4, FS_Surjection
    <2>6. QED
      BY <2>1, <2>2, <2>5 DEF Range
  <1> HIDE DEF given
  <1>3. SetToSeq(given) \in Seq(given) /\ IsInjective(sigs') /\ Range(sigs') = given
    BY <1>1, <1>2, Listed
  <1>4. sigs' \in Seq(DOMAIN input.tx)
    BY <1>1, <1>2, <1>3, SeqOfMore
  <1>5. Split(<< >>, << >>, sigs', given)
    BY <1>3, Starts
  <1>6. Successes' = Successes /\ Classified' = Classified /\ ClassifiedExits' = ClassifiedExits
        /\ given' = given
    BY <1>1 DEF Successes, Classified, ClassifiedExits, Tx, given
  <1>7. ListsTyped'
    BY <1>1, <1>4, <1>6 DEF ListsTyped
  <1>8. Listing'
    BY <1>1 DEF Listing
  <1>9. Fetching'
    <2>1. Names(exits') = << >> /\ Names(found') = Names(found)
      BY <1>1, Nothing
    <2>2. Split(Names(exits'), lostExits', sigs', Range(input'.given))
      BY <1>1, <1>5, <2>1 DEF given
    <2>3. Split(Names(found'), unreadable', << >>, Successes')
      BY <1>1, <1>6, <2>1
    <2>4. QED
      BY <1>1, <2>2, <2>3 DEF Fetching
  <1>10. QED
    BY <1>7, <1>8, <1>9 DEF ReadInv

LEMMA ReadStep == ReadInv /\ [Next]_vars => ReadInv'
  <1> SUFFICES ASSUME ReadInv, [Next]_vars PROVE ReadInv'
    OBVIOUS
  <1>1. CASE Arrive
    <2>1. /\ length' = length + 1 /\ length' \in 0..MaxTxs
          /\ UNCHANGED <<input, listed, pc, before, sigs, found, unreadable, exits, lostExits>>
      BY <1>1, InputIs DEF Arrive, ReadInv, ListsTyped
    <2>2. Successes' = Successes /\ Classified' = Classified
          /\ ClassifiedExits' = ClassifiedExits
      BY <2>1 DEF Successes, Classified, ClassifiedExits, Tx
    <2>3. ListsTyped'
      BY <2>1, <2>2, InputIs DEF ReadInv, ListsTyped
    <2>4. Listing' /\ Fetching'
      BY <2>1, <2>2 DEF ReadInv, Listing, Fetching
    <2>5. QED
      BY <2>3, <2>4 DEF ReadInv
  <1>2. CASE GetSignatures
    BY <1>2, PageListed
  <1>3. CASE GetTransaction \/ TransactionLost
    BY <1>3, TransactionRead
  <1>4. CASE TurnToExits
    BY <1>4, ExitsListed
  <1>5. CASE GetExit \/ ExitLost
    BY <1>5, ExitRead
  <1>6. CASE Finish
    <2>1. /\ pc = "exits" /\ sigs = << >> /\ pc' = "read"
          /\ UNCHANGED <<input, length, listed, before, sigs, found, unreadable, exits, lostExits>>
      BY <1>6 DEF Finish
    <2>2. Successes' = Successes /\ Classified' = Classified
          /\ ClassifiedExits' = ClassifiedExits
      BY <2>1 DEF Successes, Classified, ClassifiedExits, Tx
    <2>3. ListsTyped'
      BY <2>1, <2>2 DEF ReadInv, ListsTyped
    <2>4. Listing' /\ Fetching'
      BY <2>1, <2>2 DEF ReadInv, Listing, Fetching
    <2>5. QED
      BY <2>3, <2>4 DEF ReadInv
  <1>7. CASE ListingFails
    <2>1. /\ pc' = "failed"
          /\ UNCHANGED <<input, length, listed, before, sigs, found, unreadable, exits, lostExits>>
      BY <1>7 DEF ListingFails
    <2>2. Classified' = Classified /\ ClassifiedExits' = ClassifiedExits
      BY <2>1 DEF Classified, ClassifiedExits, Tx
    <2>3. ListsTyped'
      BY <2>1, <2>2 DEF ReadInv, ListsTyped
    <2>4. Listing' /\ Fetching'
      BY <2>1 DEF Listing, Fetching
    <2>5. QED
      BY <2>3, <2>4 DEF ReadInv
  <1>8. CASE Over \/ UNCHANGED vars
    <2>1. UNCHANGED vars
      BY <1>8 DEF Over
    <2>2. Successes' = Successes /\ Classified' = Classified
          /\ ClassifiedExits' = ClassifiedExits
      BY <2>1 DEF Successes, Classified, ClassifiedExits, Tx, vars
    <2>3. ListsTyped'
      BY <2>1, <2>2 DEF ReadInv, ListsTyped, vars
    <2>4. Listing' /\ Fetching'
      BY <2>1, <2>2 DEF ReadInv, Listing, Fetching, vars
    <2>5. QED
      BY <2>3, <2>4 DEF ReadInv
  <1>9. QED
    BY <1>1, <1>2, <1>3, <1>4, <1>5, <1>6, <1>7, <1>8 DEF Next, GoesOn

(* At every moment of the read (rpc/solana.ts:14-74) what succeeded in the
   listed part of the history falls, without repetition, into what was found,
   what could not be read and what is still to fetch; while pages are listed,
   the signatures kept are those of every success from the cursor on. *)
THEOREM ReadInvHolds == Spec => []ReadInv
  BY ReadInit, ReadStep, PTL DEF Spec

(* Each transaction that was there when the listing began, and each exit given,
   is in what a successful read returns, and once (rpc/solana.ts:14-74), for any
   page size and whatever arrives meanwhile. *)
THEOREM SolanaReadOnce == Spec => []EachReadOnce
  <1>1. ReadInv => EachReadOnce
    <2> SUFFICES ASSUME ReadInv, pc = "read" PROVE EachReadOnce
      BY DEF EachReadOnce
    <2>1. /\ Split(Names(found), unreadable, << >>, Successes)
          /\ Split(Names(exits), lostExits, << >>, Range(input.given))
      BY DEF ReadInv, Fetching
    <2>2. /\ Names(found) \in Seq(DOMAIN input.tx) /\ unreadable \in Seq(DOMAIN input.tx)
          /\ Names(exits) \in Seq(DOMAIN input.tx) /\ lostExits \in Seq(DOMAIN input.tx)
      BY FirstsNamed, Named DEF ReadInv, ListsTyped
    <2>3. /\ IsInjective(Names(found) \o unreadable)
          /\ Range(Names(found) \o unreadable) = Successes
      BY <2>1, <2>2, Ends
    <2>4. /\ IsInjective(Names(exits) \o lostExits)
          /\ Range(Names(exits) \o lostExits) = Range(input.given)
      BY <2>1, <2>2, Ends
    <2>5. QED
      BY <2>3, <2>4 DEF EachReadOnce, Successes
  <1>2. QED
    BY <1>1, ReadInvHolds, PTL

-----------------------------------------------------------------------------
(* The programs that are running.  The code keeps a stack; SPEC.md's       *)
(* wording is about which have started and not yet ended.                  *)

(* No program's text is worded like a line of the runtime (tx.ts:79-88 tells
   them apart by wording alone). *)
Plain(logs) ==
  \A i \in DOMAIN logs : logs[i].kind = "text" => logs[i].like \notin {"invoke", "return"}

AreStacks(st, logs, n) ==
  st = [k \in 0..n |-> IF k = 0 THEN << >> ELSE AfterLine(st[k - 1], TakenFor(logs[k]))]

LEMMA StacksExist ==
  ASSUME NEW logs, NEW N \in Nat
  PROVE  \E st : AreStacks(st, logs, N)
  <1> DEFINE Ok(n) == \E st : AreStacks(st, logs, n)
             bad == {n \in Nat : ~Ok(n)}
  <1>1. Ok(0)
    <2> DEFINE st == [k \in 0..0 |-> << >>]
    <2>1. \A k \in 0..0 : k = 0
      OBVIOUS
    <2>2. AreStacks(st, logs, 0)
      BY <2>1 DEF AreStacks
    <2>3. QED
      BY <2>2
  <1>2. ASSUME NEW n \in Nat, Ok(n) PROVE Ok(n + 1)
    <2>1. PICK st : AreStacks(st, logs, n)
      BY <1>2
    <2> DEFINE Step(s, k) == IF k = 0 THEN << >> ELSE AfterLine(s[k - 1], TakenFor(logs[k]))
               next == [k \in 0..n + 1 |-> Step(st, k)]
    <2>2. \A k \in 0..n : k \in 0..n + 1 /\ st[k] = Step(st, k)
      BY <2>1 DEF AreStacks
    <2>3. \A k \in 0..n : next[k] = st[k]
      BY <2>2
    <2>4. \A k \in 0..n + 1 : k = 0 \/ k - 1 \in 0..n
      OBVIOUS
    <2>5. \A k \in 0..n + 1 : Step(next, k) = Step(st, k)
      <3> HIDE DEF next
      <3>1. QED
        BY <2>3, <2>4
    <2>6. next = [k \in 0..n + 1 |-> Step(next, k)]
      <3> HIDE DEF Step
      <3>1. QED
        BY <2>5
    <2>7. QED
      BY <2>6 DEF AreStacks
  <1>3. bad = {}
    <2> SUFFICES ASSUME NEW b \in bad PROVE FALSE
      OBVIOUS
    <2> HIDE DEF Ok
    <2>1. PICK n \in bad : \A m \in bad : n <= m
      BY Minimum
    <2>2. n \in Nat /\ n # 0
      BY <1>1, <2>1
    <2>3. n - 1 \in Nat /\ ~(n <= n - 1) /\ (n - 1) + 1 = n
      BY <2>2
    <2>4. Ok(n - 1)
      BY <2>1, <2>3
    <2>5. Ok((n - 1) + 1)
      BY <1>2, <2>3, <2>4
    <2>6. QED
      BY <2>1, <2>3, <2>5
  <1>4. QED
    BY <1>3

LEMMA StackSteps ==
  ASSUME NEW logs, Len(logs) \in Nat
  PROVE  /\ Stacks(logs)[0] = << >>
         /\ \A n \in 1..Len(logs) :
              Stacks(logs)[n] = AfterLine(Stacks(logs)[n - 1], TakenFor(logs[n]))
  <1> DEFINE N == Len(logs)
  <1>1. Stacks(logs) = CHOOSE st : AreStacks(st, logs, N)
    BY DEF Stacks, AreStacks
  <1>2. AreStacks(Stacks(logs), logs, N)
    BY <1>1, StacksExist
  <1>3. \A k \in 0..N : Stacks(logs)[k] = IF k = 0 THEN << >>
          ELSE AfterLine(Stacks(logs)[k - 1], TakenFor(logs[k]))
    BY <1>2 DEF AreStacks
  <1>4. 0 \in 0..N /\ \A k \in 1..N : k \in 0..N /\ k # 0
    OBVIOUS
  <1>5. QED
    BY <1>3, <1>4

(* Lines of a kind after line j up to line m. *)
Tally(logs, k, j, m) == Cardinality({l \in j + 1..m : logs[l].kind = k})

TallyMoves(logs, k, j, m) ==
  /\ Tally(logs, k, j, m) \in Nat
  /\ Tally(logs, k, j, m + 1)
       = IF logs[m + 1].kind = k THEN Tally(logs, k, j, m) + 1 ELSE Tally(logs, k, j, m)

LEMMA TallyStep ==
  ASSUME NEW logs, NEW k, NEW j \in Nat, NEW m \in Nat, j <= m
  PROVE  /\ Tally(logs, k, j, m) \in Nat /\ Tally(logs, k, j, j) = 0
         /\ TallyMoves(logs, k, j, m)
  <1> DEFINE Lines(n) == {l \in j + 1..n : logs[l].kind = k}
  <1>1. IsFiniteSet(Lines(m))
    <2>1. IsFiniteSet(j + 1..m)
      BY FS_Interval
    <2>2. QED
      BY <2>1, FS_Subset
  <1>2. Lines(j) = {}
    OBVIOUS
  <1>3. m + 1 \notin Lines(m)
    OBVIOUS
  <1>4. Lines(m + 1) = IF logs[m + 1].kind = k THEN Lines(m) \cup {m + 1} ELSE Lines(m)
    <2>1. m + 1 \in j + 1..m + 1 /\ \A l : l \in j + 1..m + 1 <=> l \in j + 1..m \/ l = m + 1
      OBVIOUS
    <2>2. QED
      BY <2>1
  <1>5. Tally(logs, k, j, m) = Cardinality(Lines(m)) /\ Tally(logs, k, j, j) = Cardinality(Lines(j))
        /\ Tally(logs, k, j, m + 1) = Cardinality(Lines(m + 1))
    BY DEF Tally
  <1> HIDE DEF Lines
  <1>6. Cardinality(Lines(m)) \in Nat /\ Cardinality(Lines(j)) = 0
    BY <1>1, <1>2, FS_CardinalityType, FS_EmptySet
  <1>7. logs[m + 1].kind = k => Cardinality(Lines(m + 1)) = Cardinality(Lines(m)) + 1
    BY <1>1, <1>3, <1>4, FS_AddElement
  <1>8. logs[m + 1].kind # k => Cardinality(Lines(m + 1)) = Cardinality(Lines(m))
    BY <1>4
  <1>9. TallyMoves(logs, k, j, m)
    BY <1>5, <1>6, <1>7, <1>8 DEF TallyMoves
  <1>10. QED
    BY <1>5, <1>6, <1>9

LEMMA TallyLine ==
  ASSUME NEW logs, NEW n \in Nat, NEW j \in 1..n, NEW k
  PROVE  /\ Tally(logs, k, j, n) \in Nat
         /\ Tally(logs, k, j, n + 1)
              = IF logs[n + 1].kind = k THEN Tally(logs, k, j, n) + 1 ELSE Tally(logs, k, j, n)
  <1>1. j \in Nat /\ j <= n
    OBVIOUS
  <1>2. TallyMoves(logs, k, j, n)
    BY <1>1, TallyStep
  <1>3. QED
    BY <1>2 DEF TallyMoves

(* The program started at line j has ended by line n; those that have not. *)
EndedBy(logs, j, n) ==
  \E m \in j + 1..n : Tally(logs, "return", j, m) > Tally(logs, "invoke", j, m)

OpenAt(logs, n) == {j \in 1..n : logs[j].kind = "invoke" /\ ~EndedBy(logs, j, n)}

LEMMA RunningIs ==
  ASSUME NEW logs, NEW i
  PROVE  RunningAt(logs, i) = IF OpenAt(logs, i - 1) = {} THEN None
                              ELSE logs[Max(OpenAt(logs, i - 1))].program
  BY DEF RunningAt, OpenAt, EndedBy, Tally

LEMMA EndedStep ==
  ASSUME NEW logs, NEW j \in Nat, NEW n \in Nat, j <= n
  PROVE  /\ ~EndedBy(logs, j, j)
         /\ EndedBy(logs, j, n + 1) <=>
              \/ EndedBy(logs, j, n)
              \/ Tally(logs, "return", j, n + 1) > Tally(logs, "invoke", j, n + 1)
  <1>1. \A m : m \in j + 1..n + 1 <=> m \in j + 1..n \/ m = n + 1
    OBVIOUS
  <1>2. j + 1..j = {}
    OBVIOUS
  <1>3. QED
    BY <1>1, <1>2 DEF EndedBy

(* The stack is the programs of the open lines, oldest first, and each of them
   has as many ends yet to come before its own as there are above it. *)
Stacked(logs, st, n, size, P) ==
  /\ size \in Nat /\ P \in [1..size -> 1..n]
  /\ st \in Seq({logs[i].program : i \in DOMAIN logs}) /\ Len(st) = size
  /\ \A q \in 1..size : st[q] = logs[P[q]].program
  /\ \A q, r \in 1..size : q < r => P[q] < P[r]
  /\ OpenAt(logs, n) = {P[q] : q \in 1..size}
  /\ \A q \in 1..size :
       Tally(logs, "invoke", P[q], n) = Tally(logs, "return", P[q], n) + (size - q)

LEMMA TallyPlain ==
  ASSUME NEW logs, NEW N \in Nat, DOMAIN logs = 1..N, Plain(logs), NEW n \in 1..N
  PROVE  TakenFor(logs[n]) = logs[n]
  BY DEF TakenFor, Plain

(* Which lines are open after one more. *)
LEMMA OpenStep ==
  ASSUME NEW logs, NEW n \in Nat
  PROVE  OpenAt(logs, n + 1) =
           {j \in OpenAt(logs, n) :
              ~(Tally(logs, "return", j, n + 1) > Tally(logs, "invoke", j, n + 1))}
           \cup {j \in {n + 1} : logs[n + 1].kind = "invoke"}
  <1>1. \A j : j \in 1..n + 1 <=> j \in 1..n \/ j = n + 1
    OBVIOUS
  <1>2. ASSUME NEW j \in 1..n
        PROVE  EndedBy(logs, j, n + 1) <=>
                 \/ EndedBy(logs, j, n)
                 \/ Tally(logs, "return", j, n + 1) > Tally(logs, "invoke", j, n + 1)
    <2>1. j \in Nat /\ j <= n
      OBVIOUS
    <2>2. QED
      BY <2>1, EndedStep
  <1>3. ~EndedBy(logs, n + 1, n + 1)
    BY EndedStep
  <1>4. ASSUME NEW j \in OpenAt(logs, n + 1)
        PROVE  \/ /\ j \in OpenAt(logs, n)
                  /\ ~(Tally(logs, "return", j, n + 1) > Tally(logs, "invoke", j, n + 1))
               \/ j = n + 1 /\ logs[n + 1].kind = "invoke"
    BY <1>1, <1>2 DEF OpenAt
  <1>5. ASSUME NEW j \in OpenAt(logs, n),
               ~(Tally(logs, "return", j, n + 1) > Tally(logs, "invoke", j, n + 1))
        PROVE  j \in OpenAt(logs, n + 1)
    BY <1>1, <1>2, <1>5 DEF OpenAt
  <1>6. logs[n + 1].kind = "invoke" => n + 1 \in OpenAt(logs, n + 1)
    BY <1>1, <1>3 DEF OpenAt
  <1>7. QED
    BY <1>4, <1>5, <1>6

LEMMA StackedStep ==
  ASSUME NEW logs, NEW N \in Nat, DOMAIN logs = 1..N, Plain(logs),
         NEW n \in Nat, n + 1 <= N,
         NEW st, NEW size, NEW P, Stacked(logs, st, n, size, P)
  PROVE  \E s, Q : Stacked(logs, AfterLine(st, TakenFor(logs[n + 1])), n + 1, s, Q)
  <1> DEFINE line == logs[n + 1]
             to == AfterLine(st, line)
             inv(j, m) == Tally(logs, "invoke", j, m)
             ret(j, m) == Tally(logs, "return", j, m)
             Programs == {logs[i].program : i \in DOMAIN logs}
  <1>1. n + 1 \in 1..N /\ TakenFor(line) = line
    <2>1. n + 1 \in 1..N
      OBVIOUS
    <2>2. QED
      BY <2>1, TallyPlain
  <1>2. /\ size \in Nat /\ P \in [1..size -> 1..n] /\ st \in Seq(Programs) /\ Len(st) = size
        /\ \A q \in 1..size : st[q] = logs[P[q]].program
        /\ \A q, r \in 1..size : q < r => P[q] < P[r]
        /\ OpenAt(logs, n) = {P[q] : q \in 1..size}
        /\ \A q \in 1..size : inv(P[q], n) = ret(P[q], n) + (size - q)
    BY DEF Stacked
  <1>3. ASSUME NEW j \in 1..n
        PROVE  /\ inv(j, n) \in Nat /\ ret(j, n) \in Nat
               /\ inv(j, n + 1) = IF line.kind = "invoke" THEN inv(j, n) + 1 ELSE inv(j, n)
               /\ ret(j, n + 1) = IF line.kind = "return" THEN ret(j, n) + 1 ELSE ret(j, n)
    BY TallyLine
  <1>4. inv(n + 1, n + 1) = 0 /\ ret(n + 1, n + 1) = 0
    BY TallyStep
  <1>5. OpenAt(logs, n + 1) = {j \in OpenAt(logs, n) : ~(ret(j, n + 1) > inv(j, n + 1))}
                                \cup {j \in {n + 1} : line.kind = "invoke"}
    BY OpenStep
  <1>6. ASSUME NEW q \in 1..size
        PROVE  /\ P[q] \in 1..n /\ P[q] \in 1..n + 1
               /\ inv(P[q], n + 1) \in Nat /\ ret(P[q], n + 1) \in Nat
               /\ line.kind = "invoke" => inv(P[q], n + 1) = ret(P[q], n + 1) + (size + 1 - q)
               /\ line.kind = "return" => inv(P[q], n + 1) = ret(P[q], n + 1) + (size - 1 - q)
               /\ line.kind \notin {"invoke", "return"} =>
                    inv(P[q], n + 1) = ret(P[q], n + 1) + (size - q)
    <2>1. P[q] \in 1..n
      BY <1>2
    <2>2. PICK a \in Nat, b \in Nat : a = inv(P[q], n) /\ b = ret(P[q], n)
      BY <1>3, <2>1
    <2>3. a = b + (size - q)
      BY <1>2, <2>2
    <2>4. /\ inv(P[q], n + 1) = IF line.kind = "invoke" THEN a + 1 ELSE a
          /\ ret(P[q], n + 1) = IF line.kind = "return" THEN b + 1 ELSE b
      BY <1>3, <2>1, <2>2
    <2> HIDE DEF inv, ret
    <2>5. inv(P[q], n + 1) \in Nat /\ ret(P[q], n + 1) \in Nat /\ P[q] \in 1..n + 1
      BY <2>1, <2>2, <2>4
    <2>6. line.kind = "invoke" => inv(P[q], n + 1) = ret(P[q], n + 1) + (size + 1 - q)
      <3>1. line.kind = "invoke" => inv(P[q], n + 1) = a + 1 /\ ret(P[q], n + 1) = b
        BY <2>4
      <3>2. a + 1 = b + (size + 1 - q)
        BY <1>2, <2>2, <2>3
      <3>3. QED
        BY <3>1, <3>2
    <2>7. line.kind = "return" => inv(P[q], n + 1) = ret(P[q], n + 1) + (size - 1 - q)
      <3>1. line.kind = "return" => inv(P[q], n + 1) = a /\ ret(P[q], n + 1) = b + 1
        BY <2>4
      <3>2. a = (b + 1) + (size - 1 - q)
        BY <1>2, <2>2, <2>3
      <3>3. QED
        BY <3>1, <3>2
    <2>8. line.kind \notin {"invoke", "return"} =>
            inv(P[q], n + 1) = ret(P[q], n + 1) + (size - q)
      BY <2>3, <2>4
    <2>9. QED
      BY <2>1, <2>5, <2>6, <2>7, <2>8
  <1> HIDE DEF inv, ret
  <1>7. CASE line.kind = "invoke"
    <2> DEFINE s == size + 1
               Q == [q \in 1..s |-> IF q = s THEN n + 1 ELSE P[q]]
    <2>1. to = Append(st, line.program) /\ line.program \in Programs
      BY <1>1, <1>7 DEF AfterLine
    <2>2. /\ to \in Seq(Programs) /\ Len(to) = s /\ to[s] = line.program
          /\ \A q \in 1..size : to[q] = st[q]
      BY <1>2, <2>1
    <2>3. s \in Nat /\ \A q \in 1..s : q \in 1..size \/ q = s
      BY <1>2
    <2>4. /\ \A q \in 1..size : Q[q] = P[q] /\ Q[q] \in 1..n
          /\ Q[s] = n + 1
      BY <1>2
    <2>5. Q \in [1..s -> 1..n + 1]
      BY <1>2, <1>6
    <2> HIDE DEF to, Q, s
    <2>6. \A q \in 1..s : to[q] = logs[Q[q]].program
      BY <1>2, <2>2, <2>3, <2>4
    <2>7. ASSUME NEW q \in 1..s, NEW r \in 1..s, q < r PROVE Q[q] < Q[r]
      <3>1. q \in 1..size
        BY <1>2, <2>7 DEF s
      <3>2. CASE r = s
        BY <2>4, <3>1, <3>2
      <3>3. CASE r \in 1..size
        BY <1>2, <2>4, <2>7, <3>1, <3>3
      <3>4. QED
        BY <2>3, <3>2, <3>3
    <2>8. OpenAt(logs, n + 1) = {Q[q] : q \in 1..s}
      <3>1. \A q \in 1..size : ~(ret(P[q], n + 1) > inv(P[q], n + 1))
        <4> TAKE q \in 1..size
        <4>1. PICK a \in Nat, b \in Nat : a = inv(P[q], n + 1) /\ b = ret(P[q], n + 1)
          BY <1>6
        <4>2. a = b + (size + 1 - q)
          BY <1>6, <1>7, <4>1
        <4>3. QED
          BY <1>2, <4>1, <4>2
      <3>2. OpenAt(logs, n + 1) = {P[q] : q \in 1..size} \cup {n + 1}
        BY <1>2, <1>5, <1>7, <3>1
      <3>3. s \in 1..s /\ \A q \in 1..size : q \in 1..s
        BY <1>2 DEF s
      <3>4. QED
        BY <2>3, <2>4, <3>2, <3>3
    <2>9. ASSUME NEW q \in 1..s PROVE inv(Q[q], n + 1) = ret(Q[q], n + 1) + (s - q)
      <3>1. CASE q = s
        <4>1. inv(Q[q], n + 1) = 0 /\ ret(Q[q], n + 1) = 0
          BY <1>4, <2>4, <3>1
        <4>2. s - q = 0
          BY <2>3, <3>1
        <4>3. QED
          BY <4>1, <4>2
      <3>2. CASE q \in 1..size
        <4>1. inv(P[q], n + 1) = ret(P[q], n + 1) + (size + 1 - q)
          BY <1>6, <1>7, <3>2
        <4>2. Q[q] = P[q]
          BY <2>4, <3>2
        <4>3. s - q = size + (1 - q)
          BY <1>2, <3>2 DEF s
        <4>4. QED
          BY <4>1, <4>2, <4>3
      <3>3. QED
        BY <2>3, <3>1, <3>2
    <2>10. Stacked(logs, to, n + 1, s, Q)
      BY <2>2, <2>3, <2>5, <2>6, <2>7, <2>8, <2>9 DEF Stacked, inv, ret
    <2>11. QED
      BY <1>1, <2>10 DEF to
  <1>8. CASE line.kind = "return" /\ size # 0
    <2> DEFINE s == size - 1
               Q == [q \in 1..s |-> P[q]]
    <2>1. to = Front(st)
      BY <1>2, <1>8 DEF AfterLine
    <2>2. s \in Nat /\ \A q \in 1..size : q \in 1..s \/ q = size
      BY <1>2, <1>8
    <2>3. to \in Seq(Programs) /\ Len(to) = s /\ \A q \in 1..s : to[q] = st[q]
      <3>1. st \in Seq(Programs) /\ Len(st) = s + 1 /\ s \in Nat /\ to = SubSeq(st, 1, s)
        BY <1>2, <1>8, <2>1 DEF Front
      <3> HIDE DEF Programs, to, s
      <3>2. QED
        BY <3>1
    <2>4. \A q \in 1..s : q \in 1..size /\ Q[q] = P[q]
      BY <1>2
    <2>5. Q \in [1..s -> 1..n + 1]
      BY <1>6, <2>4
    <2> HIDE DEF to, Q
    <2>6. /\ \A q \in 1..s : to[q] = logs[Q[q]].program
          /\ \A q, r \in 1..s : q < r => Q[q] < Q[r]
      BY <1>2, <2>3, <2>4
    <2>7. \A q \in 1..s : inv(Q[q], n + 1) = ret(Q[q], n + 1) + (s - q)
      BY <1>6, <1>8, <2>4
    <2>8. ASSUME NEW q \in 1..size
          PROVE  ret(P[q], n + 1) > inv(P[q], n + 1) <=> q = size
      <3>1. PICK a \in Nat, b \in Nat : a = inv(P[q], n + 1) /\ b = ret(P[q], n + 1)
        BY <1>6
      <3>2. a = b + (size - 1 - q)
        BY <1>6, <1>8, <3>1
      <3>3. b > a <=> q = size
        <4>1. size \in Nat
          BY <1>2
        <4>2. QED
          BY <3>2, <4>1
      <3>4. QED
        BY <3>1, <3>3
    <2>9. OpenAt(logs, n + 1) = {P[q] : q \in 1..s}
      <3>1. OpenAt(logs, n + 1) = {j \in OpenAt(logs, n) : ~(ret(j, n + 1) > inv(j, n + 1))}
        BY <1>5, <1>8
      <3>2. \A q \in 1..s : q # size
        BY <1>2
      <3>3. QED
        BY <1>2, <2>2, <2>4, <2>8, <3>1, <3>2
    <2>10. OpenAt(logs, n + 1) = {Q[q] : q \in 1..s}
      BY <2>4, <2>9
    <2> HIDE DEF s
    <2>11. Stacked(logs, to, n + 1, s, Q)
      BY <2>2, <2>3, <2>5, <2>6, <2>7, <2>10 DEF Stacked, inv, ret
    <2>12. QED
      BY <1>1, <2>11 DEF to
  <1>9. CASE line.kind # "invoke" /\ ~(line.kind = "return" /\ size # 0)
    <2>1. to = st
      BY <1>2, <1>9 DEF AfterLine
    <2>2. ASSUME NEW q \in 1..size
          PROVE  inv(P[q], n + 1) = ret(P[q], n + 1) + (size - q)
                 /\ ~(ret(P[q], n + 1) > inv(P[q], n + 1))
      <3>1. PICK a \in Nat, b \in Nat : a = inv(P[q], n + 1) /\ b = ret(P[q], n + 1)
        BY <1>6
      <3>2. size # 0
        BY <1>2
      <3>3. line.kind \notin {"invoke", "return"}
        BY <1>9, <3>2
      <3>4. a = b + (size - q)
        BY <1>6, <3>1, <3>3
      <3>5. QED
        BY <1>2, <3>1, <3>4
    <2>3. OpenAt(logs, n + 1) = {P[q] : q \in 1..size}
      BY <1>2, <1>5, <1>9, <2>2
    <2>4. P \in [1..size -> 1..n + 1]
      BY <1>2, <1>6
    <2>5. Stacked(logs, to, n + 1, size, P)
      BY <1>2, <2>1, <2>2, <2>3, <2>4 DEF Stacked, inv, ret
    <2>6. QED
      BY <1>1, <2>5
  <1>10. QED
    BY <1>7, <1>8, <1>9

LEMMA StackedAlways ==
  ASSUME NEW logs, NEW N \in Nat, DOMAIN logs = 1..N, Len(logs) = N, Plain(logs), NEW n \in 0..N
  PROVE  \E s, P : Stacked(logs, Stacks(logs)[n], n, s, P)
  <1> DEFINE Ok(k) == \E s, P : Stacked(logs, Stacks(logs)[k], k, s, P)
             bad == {k \in 0..N : ~Ok(k)}
  <1>1. Ok(0)
    <2>1. OpenAt(logs, 0) = {}
      BY DEF OpenAt
    <2>2. << >> \in [1..0 -> 1..0]
      OBVIOUS
    <2>3. Stacked(logs, << >>, 0, 0, << >>)
      BY <2>1, <2>2 DEF Stacked
    <2>4. QED
      BY <2>3, StackSteps
  <1>2. ASSUME NEW k \in Nat, k + 1 <= N, Ok(k) PROVE Ok(k + 1)
    <2>1. k + 1 \in 1..N /\ (k + 1) - 1 = k
      BY <1>2
    <2>2. Stacks(logs)[k + 1] = AfterLine(Stacks(logs)[k], TakenFor(logs[k + 1]))
      BY <2>1, StackSteps
    <2>3. PICK s, P : Stacked(logs, Stacks(logs)[k], k, s, P)
      BY <1>2
    <2>4. QED
      BY <1>2, <2>2, <2>3, StackedStep
  <1>3. bad = {}
    <2> SUFFICES ASSUME NEW b \in bad PROVE FALSE
      OBVIOUS
    <2> HIDE DEF Ok
    <2>1. PICK k \in bad : \A m \in bad : k <= m
      <3>1. bad \in SUBSET Nat
        OBVIOUS
      <3> HIDE DEF bad
      <3>2. QED
        BY <3>1, Minimum
    <2>2. k \in 0..N /\ k # 0 /\ ~Ok(k)
      BY <1>1, <2>1
    <2>3. k - 1 \in 0..N /\ k - 1 \in Nat /\ ~(k <= k - 1) /\ (k - 1) + 1 = k
      BY <2>2
    <2>4. Ok(k - 1)
      BY <2>1, <2>3
    <2>5. Ok((k - 1) + 1)
      BY <1>2, <2>2, <2>3, <2>4
    <2>6. QED
      BY <2>2, <2>3, <2>5
  <1>4. QED
    BY <1>3

(* The program on top of the stack is the one that is running. *)
LEMMA TopIsRunning ==
  ASSUME NEW logs, NEW N \in Nat, DOMAIN logs = 1..N, Len(logs) = N, Plain(logs), NEW i \in 1..N
  PROVE  Executing(Stacks(logs)[i - 1]) <=> RunningAt(logs, i) = Program
  <1> DEFINE st == Stacks(logs)[i - 1]
             open == OpenAt(logs, i - 1)
  <1>1. PICK s, P : Stacked(logs, st, i - 1, s, P)
    <2>1. i - 1 \in 0..N
      OBVIOUS
    <2>2. QED
      BY <2>1, StackedAlways
  <1>2. /\ s \in Nat /\ P \in [1..s -> 1..i - 1] /\ Len(st) = s
        /\ st \in Seq({logs[k].program : k \in DOMAIN logs})
        /\ \A q \in 1..s : st[q] = logs[P[q]].program
        /\ \A q, r \in 1..s : q < r => P[q] < P[r]
        /\ open = {P[q] : q \in 1..s}
    BY <1>1 DEF Stacked
  <1> HIDE DEF st, open
  <1>3. CASE s = 0
    <2>1. st = << >> /\ open = {}
      BY <1>2, <1>3
    <2>2. QED
      BY <2>1, RunningIs, FeesAssumption DEF Executing, st, open
  <1>4. CASE s # 0
    <2>1. s \in 1..s /\ st # << >> /\ Last(st) = st[s]
      BY <1>2, <1>4 DEF Last
    <2>2. P[s] \in open /\ \A j \in open : P[s] >= j
      <3>1. ASSUME NEW q \in 1..s PROVE P[s] >= P[q]
        <4>1. q < s \/ q = s
          BY <1>2
        <4>2. P[q] \in 1..i - 1 /\ P[s] \in 1..i - 1
          BY <1>2, <2>1
        <4>3. CASE q < s
          <5>1. P[q] < P[s]
            BY <1>2, <2>1, <4>3
          <5>2. QED
            BY <4>2, <5>1
        <4>4. QED
          BY <4>1, <4>2, <4>3
      <3>2. QED
        BY <1>2, <2>1, <3>1
    <2>3. Max(open) = P[s]
      <3>1. open \subseteq Int
        <4>1. ASSUME NEW q \in 1..s PROVE P[q] \in Int
          <5>1. P[q] \in 1..i - 1
            BY <1>2
          <5>2. QED
            BY <5>1
        <4>2. QED
          BY <1>2, <4>1
      <3>2. Max(open) \in open /\ \A j \in open : Max(open) >= j
        BY <2>2 DEF Max
      <3>3. /\ P[s] \in Int /\ Max(open) \in Int
            /\ P[s] >= Max(open) /\ Max(open) >= P[s]
        BY <2>2, <3>1, <3>2
      <3>4. QED
        BY <3>3
    <2>4. RunningAt(logs, i) = logs[P[s]].program
      BY <2>2, <2>3, RunningIs DEF open
    <2>5. QED
      BY <1>2, <2>1, <2>4 DEF Executing, st
  <1>5. QED
    BY <1>3, <1>4

-----------------------------------------------------------------------------
(* The fee.  SPEC.md asks for the fee in force at some moment of the day   *)
(* before; the code compares with the least of the entries that were.      *)

LEMMA FeesAre ==
  /\ Len(Fees) \in Nat \ {0} /\ DOMAIN Fees = 1..Len(Fees) /\ Day \in Nat
  /\ \A i \in 1..Len(Fees) : Fees[i].from \in Int /\ Fees[i].amount \in Nat
  /\ \A i, j \in 1..Len(Fees) : i < j => Fees[i].from < Fees[j].from
  /\ None \notin Int
  <1>1. PICK n \in Nat : n = Len(Fees)
    BY FeesAssumption
  <1>2. DOMAIN Fees = 1..n /\ n # 0
    BY <1>1, FeesAssumption
  <1>3. QED
    BY <1>1, <1>2, FeesAssumption

(* An entry counts for the day if it is the one in force at a moment of it. *)
LEMMA InForceThatDay ==
  ASSUME NEW t \in Int, NEW j \in 1..Len(Fees)
  PROVE  Fees[j].from <= t /\ (j = Len(Fees) \/ Fees[j + 1].from > t - Day)
         <=> \E m \in t - Day..t :
               Fees[j].from <= m /\ \A k \in 1..Len(Fees) : Fees[k].from <= m => k <= j
  <1> DEFINE n == Len(Fees)
             from(k) == Fees[k].from
  <1>1. n \in Nat /\ Day \in Nat /\ (\A k \in 1..n : from(k) \in Int)
        /\ \A k, l \in 1..n : k < l => from(k) < from(l)
    BY FeesAre
  <1> HIDE DEF n, from
  <1>2. ASSUME NEW k \in 1..n, j < k PROVE j + 1 \in 1..n /\ j + 1 <= k /\ j # n
    BY <1>1, <1>2 DEF n
  <1>3. ASSUME from(j) <= t, j = n \/ from(j + 1) > t - Day
        PROVE  \E m \in t - Day..t : from(j) <= m /\ \A k \in 1..n : from(k) <= m => k <= j
    <2>1. PICK f \in Int : f = from(j)
      BY <1>1 DEF n
    <2>2. PICK m \in t - Day..t : f <= m /\ (m = f \/ m = t - Day)
      <3>1. CASE f <= t - Day
        <4>1. t - Day \in t - Day..t
          BY <1>1
        <4>2. QED
          BY <3>1, <4>1
      <3>2. CASE f > t - Day
        <4>1. f \in t - Day..t /\ f <= f
          BY <1>1, <1>3, <2>1, <3>2
        <4>2. QED
          BY <4>1
      <3>3. QED
        BY <1>1, <2>1, <3>1, <3>2
    <2>3. ASSUME NEW k \in 1..n, from(k) <= m, j < k PROVE FALSE
      <3>1. j + 1 \in 1..n /\ j + 1 <= k /\ from(j + 1) > t - Day
        BY <1>2, <1>3, <2>3
      <3>2. PICK g \in Int, h \in Int : g = from(j + 1) /\ h = from(k)
        BY <1>1, <3>1
      <3>3. g <= h
        <4>1. j + 1 = k \/ j + 1 < k
          BY <3>1
        <4>2. QED
          BY <1>1, <3>1, <3>2, <4>1
      <3>4. f < g
        <4>1. j \in 1..n /\ j < j + 1
          BY DEF n
        <4>2. QED
          BY <1>1, <2>1, <3>1, <3>2, <4>1
      <3>5. QED
        BY <1>1, <2>2, <2>3, <3>1, <3>2, <3>3, <3>4
    <2>4. \A k \in 1..n : from(k) <= m => k <= j
      <3>1. \A k \in 1..n : ~(j < k) => k <= j
        OBVIOUS
      <3>2. QED
        BY <2>3, <3>1
    <2>5. QED
      BY <2>1, <2>2, <2>4
  <1>4. ASSUME NEW m \in t - Day..t, from(j) <= m, \A k \in 1..n : from(k) <= m => k <= j
        PROVE  from(j) <= t /\ (j = n \/ from(j + 1) > t - Day)
    <2>1. from(j) \in Int
      BY <1>1 DEF n
    <2>2. from(j) <= t
      BY <1>1, <1>4, <2>1
    <2>3. ASSUME j # n PROVE from(j + 1) > t - Day
      <3>1. j + 1 \in 1..n /\ ~(j + 1 <= j)
        BY <1>1, <2>3 DEF n
      <3>2. ~(from(j + 1) <= m) /\ from(j + 1) \in Int
        BY <1>1, <1>4, <3>1
      <3>3. QED
        BY <1>1, <3>2
    <2>4. QED
      BY <2>2, <2>3
  <1>5. QED
    BY <1>3, <1>4 DEF n, from

CountsFor(t, j) == Fees[j].from <= t /\ (j = Len(Fees) \/ Fees[j + 1].from > t - Day)

InForceAt(m, j) == Fees[j].from <= m /\ \A k \in DOMAIN Fees : Fees[k].from <= m => k <= j

LEMMA FeesByEntry ==
  /\ \A t : FeesOfTheDay(t) = {Fees[i].amount : i \in {j \in DOMAIN Fees : CountsFor(t, j)}}
  /\ \A m : InForce(m) = {Fees[i].amount : i \in {j \in DOMAIN Fees : InForceAt(m, j)}}
  BY DEF FeesOfTheDay, InForce, CountsFor, InForceAt

LEMMA EnoughIs ==
  ASSUME NEW t \in Int, NEW amount \in Nat
  PROVE  RequiredFee(t) # None /\ amount >= RequiredFee(t) <=> EnoughAt(t, amount)
  <1> DEFINE S == FeesOfTheDay(t)
  <1>1. DOMAIN Fees = 1..Len(Fees) /\ \A i \in 1..Len(Fees) : Fees[i].amount \in Nat
    BY FeesAre
  <1>2. S \in SUBSET Nat
    BY <1>1 DEF FeesOfTheDay
  <1>3. \A fee : fee \in S <=> \E m \in t - Day..t : fee \in InForce(m)
    <2>1. \A j \in DOMAIN Fees : CountsFor(t, j) <=> \E m \in t - Day..t : InForceAt(m, j)
      BY <1>1, InForceThatDay DEF CountsFor, InForceAt
    <2>2. S = {Fees[i].amount : i \in {j \in DOMAIN Fees : CountsFor(t, j)}}
      BY FeesByEntry
    <2>3. \A m : InForce(m) = {Fees[i].amount : i \in {j \in DOMAIN Fees : InForceAt(m, j)}}
      BY FeesByEntry
    <2> HIDE DEF S
    <2>4. QED
      BY <2>1, <2>2, <2>3
  <1>4. EnoughAt(t, amount) <=> \E fee \in S : amount >= fee
    BY <1>3 DEF EnoughAt
  <1>5. RequiredFee(t) = IF S = {} THEN None ELSE Min(S)
    BY DEF RequiredFee
  <1> HIDE DEF S
  <1>6. CASE S = {}
    BY <1>4, <1>5, <1>6
  <1>7. CASE S # {}
    <2>1. Min(S) \in S /\ \A m \in S : Min(S) <= m
      BY <1>2, <1>7, MinIsLeast
    <2>2. RequiredFee(t) = Min(S) /\ Min(S) \in Nat /\ Min(S) # None
      <3>1. Min(S) \in Nat
        BY <1>2, <2>1
      <3>2. Min(S) \in Int
        BY <3>1
      <3>3. Min(S) # None
        BY <3>2, FeesAre
      <3>4. QED
        BY <1>5, <1>7, <3>1, <3>3
    <2>3. (\E fee \in S : amount >= fee) <=> amount >= Min(S)
      <3>1. ASSUME NEW fee \in S, amount >= fee PROVE amount >= Min(S)
        <4>1. PICK a \in Nat, b \in Nat : a = Min(S) /\ b = fee
          BY <1>2, <2>2
        <4>2. a <= b /\ amount >= b
          BY <2>1, <3>1, <4>1
        <4>3. QED
          BY <4>1, <4>2
      <3>2. QED
        BY <2>1, <3>1
    <2>4. QED
      BY <1>4, <2>2, <2>3
  <1>8. QED
    BY <1>6, <1>7

-----------------------------------------------------------------------------
(* The classification.                                                     *)

LEMMA OneIs ==
  ASSUME NEW S, IsFiniteSet(S), NEW x
  PROVE  Exactly(S, x) <=> One(S) /\ Only(S) = x
  <1>1. One(S) <=> \E y : S = {y}
    BY FS_Singleton DEF One
  <1>2. ASSUME NEW y, S = {y} PROVE Only(S) = y
    BY <1>2 DEF Only
  <1>3. QED
    BY <1>1, <1>2 DEF Exactly

LEMMA OnlyIn ==
  ASSUME NEW S, IsFiniteSet(S), One(S)
  PROVE  Only(S) \in S
  BY OneIs DEF Exactly

LEMMA PlacesFinite ==
  ASSUME NEW tx, IsTransaction(tx), NEW S \in SUBSET DOMAIN tx.ixs
  PROVE  IsFiniteSet(S)
  <1>1. PICK n \in Nat : n = Len(tx.ixs) /\ DOMAIN tx.ixs = 1..n
    BY Places DEF IsTransaction
  <1>2. IsFiniteSet(1..n)
    BY FS_Interval
  <1>3. QED
    BY <1>1, <1>2, FS_Subset

(* What is read of the log is what the program emitted. *)
LEMMA EventsAre ==
  ASSUME NEW tx, IsTransaction(tx), Plain(tx.logs)
  PROVE  RedeemedEvents(tx) = Emitted(tx) /\ IsFiniteSet(Emitted(tx))
  <1> DEFINE logs == tx.logs
             I == {l \in DOMAIN logs : logs[l].kind = "data" /\ RunningAt(logs, l) = Program}
             parts == [i \in I |-> {i} \X DOMAIN logs[i].parts]
  <1>1. PICK N \in Nat : N = Len(logs) /\ DOMAIN logs = 1..N
    BY Places DEF IsTransaction
  <1>2. \A l \in 1..N : Executing(Stacks(logs)[l - 1]) <=> RunningAt(logs, l) = Program
    BY <1>1, TopIsRunning
  <1>3. I = {l \in DOMAIN logs : logs[l].kind = "data" /\ Executing(Stacks(logs)[l - 1])}
    BY <1>1, <1>2
  <1>4. ProgramData(logs) = UNION {{i} \X DOMAIN logs[i].parts : i \in I}
    BY <1>3 DEF ProgramData
  <1>5. RedeemedEvents(tx) =
          {e \in UNION {{i} \X DOMAIN logs[i].parts : i \in I} : EventAt(tx, e) # None}
    BY <1>4 DEF RedeemedEvents
  <1>6. Emitted(tx) =
          UNION {{i} \X {p \in DOMAIN logs[i].parts : logs[i].parts[p] # None} : i \in I}
    BY DEF Emitted
  <1> HIDE DEF I
  <1>7. \A i, p : EventAt(tx, <<i, p>>) = logs[i].parts[p]
    BY DEF EventAt
  <1>8. RedeemedEvents(tx) \subseteq Emitted(tx)
    BY <1>5, <1>6, <1>7
  <1>9. Emitted(tx) \subseteq RedeemedEvents(tx)
    BY <1>5, <1>6, <1>7
  <1>10. IsFiniteSet(I)
    <2>1. I \in SUBSET (1..N) /\ IsFiniteSet(1..N)
      BY <1>1, FS_Interval DEF I
    <2>2. QED
      BY <2>1, FS_Subset
  <1>11. ASSUME NEW i \in I PROVE IsFiniteSet({i} \X DOMAIN logs[i].parts)
    <2>1. logs[i].parts \in Seq(Range(logs[i].parts))
      BY DEF I, IsTransaction
    <2>2. PICK n \in Nat : DOMAIN logs[i].parts = 1..n
      BY <2>1, Places
    <2>3. IsFiniteSet(1..n)
      BY FS_Interval
    <2>4. IsFiniteSet({i})
      BY FS_Singleton
    <2>5. QED
      BY <2>2, <2>3, <2>4, FS_Product
  <1>12. IsFiniteSet(Range(parts)) /\ Range(parts) = {{i} \X DOMAIN logs[i].parts : i \in I}
    <2>1. parts \in Surjection(I, Range(parts))
      BY DEF Surjection, Range
    <2>2. IsFiniteSet(Range(parts))
      BY <1>10, <2>1, FS_Surjection
    <2>3. QED
      BY <2>2 DEF Range
  <1>13. IsFiniteSet(UNION {{i} \X DOMAIN logs[i].parts : i \in I})
    <2>1. \A T \in Range(parts) : IsFiniteSet(T)
      BY <1>11, <1>12
    <2>2. IsFiniteSet(UNION Range(parts))
      BY <1>12, <2>1, FS_UNION
    <2>3. QED
      BY <1>12, <2>2
  <1>14. IsFiniteSet(RedeemedEvents(tx))
    <2>1. RedeemedEvents(tx) \in SUBSET UNION {{i} \X DOMAIN logs[i].parts : i \in I}
      BY <1>5
    <2>2. QED
      BY <1>13, <2>1, FS_Subset
  <1>15. QED
    BY <1>8, <1>9, <1>14

LEMMA Kinds ==
  ASSUME NEW tx
  PROVE  /\ Classify(tx).kind \in {"request", "refund", "other"}
         /\ Classify(tx).kind = "request" <=>
              Settled(tx) /\ ~Refunding(tx) /\ R2(tx) /\ R3(tx) /\ R4(tx) /\ R5(tx)
         /\ Classify(tx).kind = "refund" <=> Settled(tx) /\ Refunding(tx) /\ RefundTransfer(tx)
         /\ ClassifyExit(tx).kind \in {"exit", "other"}
         /\ ClassifyExit(tx).kind = "exit" <=> Settled(tx) /\ E2(tx) /\ E3(tx)
  <1>1. /\ RequestOf(tx).kind = "request" /\ RefundOf(tx).kind = "refund"
        /\ ExitOf(tx).kind = "exit" /\ \A r : Other(r).kind = "other"
    BY DEF RequestOf, RefundOf, ExitOf, Other
  <1>2. /\ Classify(tx).kind \in {"request", "refund", "other"}
        /\ (Classify(tx).kind = "request" <=>
              Settled(tx) /\ ~Refunding(tx) /\ R2(tx) /\ R3(tx) /\ R4(tx) /\ R5(tx))
        /\ (Classify(tx).kind = "refund" <=> Settled(tx) /\ Refunding(tx) /\ RefundTransfer(tx))
    BY <1>1 DEF Classify
  <1>3. /\ ClassifyExit(tx).kind \in {"exit", "other"}
        /\ (ClassifyExit(tx).kind = "exit" <=> Settled(tx) /\ E2(tx) /\ E3(tx))
    BY <1>1 DEF ClassifyExit
  <1>4. QED
    BY <1>2, <1>3

(* The memo the code reads is the only one. *)
LEMMA TheMemo ==
  ASSUME NEW tx, IsTransaction(tx), NEW m, Exactly(IxsOf(tx, "memo"), m)
  PROVE  OnlyMemo(tx) = tx.ixs[m].text
  <1>1. Memos(tx) = IxsOf(tx, "memo") /\ Memos(tx) \in SUBSET DOMAIN tx.ixs
    BY DEF Memos, OfKind, IxsOf
  <1>2. IsFiniteSet(Memos(tx))
    BY <1>1, PlacesFinite
  <1>3. One(Memos(tx)) /\ Only(Memos(tx)) = m
    BY <1>1, <1>2, OneIs
  <1>4. QED
    BY <1>3 DEF OnlyMemo

LEMMA MemoIs ==
  ASSUME NEW tx, IsTransaction(tx), OnlyMemo(tx).kind # "none"
  PROVE  \E m \in DOMAIN tx.ixs : /\ Exactly(IxsOf(tx, "memo"), m)
                                  /\ OnlyMemo(tx) = tx.ixs[m].text
  <1>1. Memos(tx) = IxsOf(tx, "memo") /\ Memos(tx) \in SUBSET DOMAIN tx.ixs
    BY DEF Memos, OfKind, IxsOf
  <1>2. IsFiniteSet(Memos(tx))
    BY <1>1, PlacesFinite
  <1>3. One(Memos(tx))
    BY DEF OnlyMemo
  <1>4. Only(Memos(tx)) \in DOMAIN tx.ixs /\ Exactly(IxsOf(tx, "memo"), Only(Memos(tx)))
    BY <1>1, <1>2, <1>3, OnlyIn, OneIs
  <1>5. QED
    BY <1>3, <1>4 DEF OnlyMemo

(* A refund the code takes is one of SPEC.md 5, and it takes each that does
   nothing else. *)
LEMMA RefundIs ==
  ASSUME NEW tx, IsTransaction(tx)
  PROVE  /\ Classify(tx).kind = "refund" <=>
              RefundAlone(tx) /\ \E m, f \in DOMAIN tx.ixs : SpecRefundBy(tx, m, f)
         /\ Classify(tx).kind = "refund" =>
              SpecRefund(tx, Classify(tx).of, Classify(tx).to, Classify(tx).amount)
  <1> DEFINE F == {i \in IxsOf(tx, "transfer") : tx.ixs[i].source = FeeAccount}
             M == IxsOf(tx, "memo")
  <1>1. FromFeeAccount(tx) = F /\ F \in SUBSET DOMAIN tx.ixs
    BY DEF FromFeeAccount, Transfers, OfKind, IxsOf
  <1>2. IsFiniteSet(F)
    <2> HIDE DEF F
    <2>1. QED
      BY <1>1, PlacesFinite
  <1>3. ASSUME Classify(tx).kind = "refund"
        PROVE  /\ SpecRefund(tx, Classify(tx).of, Classify(tx).to, Classify(tx).amount)
               /\ RefundAlone(tx)
               /\ \E m, f \in DOMAIN tx.ixs : SpecRefundBy(tx, m, f)
    <2> DEFINE g == Only(F)
    <2>1. Settled(tx) /\ Refunding(tx) /\ RefundTransfer(tx)
      BY <1>3, Kinds
    <2>2. Classify(tx) = RefundOf(tx)
      BY <2>1 DEF Classify
    <2>3. PICK m \in DOMAIN tx.ixs : Exactly(M, m) /\ OnlyMemo(tx) = tx.ixs[m].text
      BY <2>1, MemoIs DEF Refunding
    <2>4. Exactly(F, g) /\ g \in F
      <3> HIDE DEF F
      <3>1. QED
        BY <1>1, <1>2, <2>1, OnlyIn, OneIs DEF RefundTransfer
    <2>5. TheReturn(tx) = tx.ixs[g]
      BY <1>1 DEF TheReturn
    <2> HIDE DEF g
    <2>6. FeesReturned(tx, tx.ixs[g].destination, tx.ixs[g].amount) = {g}
      BY <2>1, <2>4, <2>5 DEF FeesReturned, Exactly, RefundTransfer
    <2>7. MemosNaming(tx, tx.ixs[m].text.of) = {m}
      BY <2>1, <2>3 DEF MemosNaming, Exactly, Refunding
    <2>8. /\ Classify(tx).of = tx.ixs[m].text.of
          /\ Classify(tx).to = tx.ixs[g].destination
          /\ Classify(tx).amount = tx.ixs[g].amount
      BY <2>2, <2>3, <2>5 DEF RefundOf
    <2>9. g \in DOMAIN tx.ixs
      BY <1>1, <2>4
    <2>10. SpecRefund(tx, tx.ixs[m].text.of, tx.ixs[g].destination, tx.ixs[g].amount)
      BY <2>1, <2>6, <2>7, <2>9 DEF SpecRefund, Settled, Exactly
    <2>11. RefundAlone(tx)
      BY <2>3, <2>4 DEF RefundAlone, AtMostOne, Exactly
    <2>12. tx.ixs[m].text.kind = "refund"
      BY <2>1, <2>3 DEF Refunding
    <2>13. m \in IxsOf(tx, "memo") /\ g \in IxsOf(tx, "transfer")
      BY <2>3, <2>4 DEF Exactly
    <2>14. SpecRefundBy(tx, m, g)
      BY <2>10, <2>12, <2>13 DEF SpecRefundBy
    <2>15. QED
      BY <2>8, <2>9, <2>10, <2>11, <2>14
  <1>4. ASSUME NEW m \in DOMAIN tx.ixs, NEW f \in DOMAIN tx.ixs,
               SpecRefundBy(tx, m, f), RefundAlone(tx)
        PROVE  Classify(tx).kind = "refund"
    <2>1. PICK g \in DOMAIN tx.ixs :
            Exactly(FeesReturned(tx, tx.ixs[f].destination, tx.ixs[f].amount), g)
      BY <1>4 DEF SpecRefundBy, SpecRefund
    <2>2. g \in F /\ tx.ixs[g].mint = ZecMint /\ tx.ixs[g].authority = FeeOwner
      BY <2>1 DEF FeesReturned, Exactly
    <2>3. Exactly(F, g)
      BY <1>4, <2>2 DEF RefundAlone, AtMostOne, Exactly
    <2>4. RefundTransfer(tx)
      <3> HIDE DEF F
      <3>1. One(F) /\ Only(F) = g
        BY <1>2, <2>3, OneIs
      <3>2. QED
        BY <1>1, <2>2, <3>1 DEF RefundTransfer, TheReturn
    <2>5. Exactly(M, m)
      BY <1>4 DEF SpecRefundBy, RefundAlone, AtMostOne, Exactly
    <2>6. Refunding(tx)
      BY <1>4, <2>5, TheMemo DEF SpecRefundBy, Refunding
    <2>7. Settled(tx)
      BY <1>4 DEF SpecRefundBy, SpecRefund, Settled
    <2>8. QED
      BY <2>4, <2>6, <2>7, Kinds
  <1>5. QED
    BY <1>3, <1>4

LEMMA ExitIs ==
  ASSUME NEW tx, IsTransaction(tx)
  PROVE  ClassifyExit(tx).kind = "exit" <=> SpecExit(tx)
  <1> DEFINE F == {i \in IxsOf(tx, "transfer") : tx.ixs[i].mint = ZecMint}
             Moved(f) == /\ Exactly(F, f) /\ tx.ixs[f].authority = tx.signer
                         /\ tx.ixs[f].amount > 0
             Leaving(m) == /\ Exactly(IxsOf(tx, "memo"), m)
                           /\ tx.ixs[m].text.kind = "exit" /\ tx.ixs[m].text.index # None
  <1>1. ZecTransfers(tx) = F /\ F \in SUBSET DOMAIN tx.ixs
    BY DEF ZecTransfers, Transfers, OfKind, IxsOf
  <1>2. IsFiniteSet(F) /\ \A f \in F : tx.ixs[f].amount \in Nat
    <2>1. IsFiniteSet(F)
      BY <1>1, PlacesFinite
    <2>2. \A f \in F : tx.ixs[f].amount \in Nat
      BY DEF IsTransaction, IxsOf
    <2>3. QED
      BY <2>1, <2>2
  <1> HIDE DEF F
  <1>3. E3(tx) <=> \E f \in DOMAIN tx.ixs : Moved(f)
    <2>1. ASSUME E3(tx) PROVE \E f \in DOMAIN tx.ixs : Moved(f)
      <3>1. Only(F) \in F /\ Exactly(F, Only(F))
        BY <1>1, <1>2, <2>1, OnlyIn, OneIs DEF E3
      <3>2. PICK a \in Nat : a = tx.ixs[Only(F)].amount
        BY <1>2, <3>1
      <3>3. a # 0
        BY <1>1, <2>1, <3>2 DEF E3, TheZec
      <3>4. a > 0
        BY <3>3
      <3>5. Moved(Only(F))
        BY <1>1, <2>1, <3>1, <3>2, <3>4 DEF E3, TheZec
      <3>6. QED
        BY <1>1, <3>1, <3>5
    <2>2. ASSUME NEW f \in DOMAIN tx.ixs, Moved(f) PROVE E3(tx)
      <3>1. One(F) /\ Only(F) = f
        BY <1>2, <2>2, OneIs
      <3>2. f \in F
        BY <2>2 DEF Exactly
      <3>3. PICK a \in Nat : a = tx.ixs[f].amount
        BY <1>2, <3>2
      <3>4. a # 0
        BY <2>2, <3>3
      <3>5. QED
        BY <1>1, <2>2, <3>1, <3>3, <3>4 DEF E3, TheZec
    <2>3. QED
      BY <2>1, <2>2
  <1>4. E2(tx) <=> \E m \in DOMAIN tx.ixs : Leaving(m)
    <2>1. ASSUME E2(tx) PROVE \E m \in DOMAIN tx.ixs : Leaving(m)
      BY <2>1, MemoIs DEF E2
    <2>2. ASSUME NEW m \in DOMAIN tx.ixs, Leaving(m) PROVE E2(tx)
      BY <2>2, TheMemo DEF E2
    <2>3. QED
      BY <2>1, <2>2
  <1>5. SpecExit(tx) <=> /\ Settled(tx) /\ \E m \in DOMAIN tx.ixs : Leaving(m)
                         /\ \E f \in DOMAIN tx.ixs : Moved(f)
    BY DEF SpecExit, Settled, F
  <1>6. QED
    BY <1>3, <1>4, <1>5, Kinds

(* The memo's form says which address the stamp is asked for. *)
Asking(tx, m) ==
  /\ Exactly(IxsOf(tx, "memo"), m)
  /\ \/ tx.ixs[m].text.kind = "public" /\ tx.ixs[m].text.address # None
     \/ tx.ixs[m].text.kind = "private" /\ tx.ixs[m].text.kid # None

LEMMA AskingIs ==
  ASSUME NEW tx, IsTransaction(tx)
  PROVE  ~Refunding(tx) /\ R4(tx) <=> \E m \in DOMAIN tx.ixs : Asking(tx, m)
  <1>1. ASSUME R4(tx) PROVE \E m \in DOMAIN tx.ixs : Asking(tx, m)
    <2>1. OnlyMemo(tx).kind # "none"
      BY <1>1 DEF R4
    <2>2. PICK m \in DOMAIN tx.ixs :
            Exactly(IxsOf(tx, "memo"), m) /\ OnlyMemo(tx) = tx.ixs[m].text
      BY <2>1, MemoIs
    <2>3. QED
      BY <1>1, <2>2 DEF R4, Asking
  <1>2. ASSUME NEW m \in DOMAIN tx.ixs, Asking(tx, m) PROVE ~Refunding(tx) /\ R4(tx)
    <2>1. OnlyMemo(tx) = tx.ixs[m].text
      BY <1>2, TheMemo DEF Asking
    <2>2. QED
      BY <1>2, <2>1 DEF Asking, Refunding, R4
  <1>3. QED
    BY <1>1, <1>2

Burning(tx, r) ==
  /\ Exactly(IxsOf(tx, "redeem"), r)
  /\ tx.ixs[r].holder # None /\ tx.ixs[r].source # None

LEMMA BurningIs ==
  ASSUME NEW tx, IsTransaction(tx)
  PROVE  /\ R2(tx) => \E r \in DOMAIN tx.ixs : Burning(tx, r)
         /\ \A r \in DOMAIN tx.ixs : Burning(tx, r) => R2(tx) /\ TheRedeem(tx) = tx.ixs[r]
  <1>1. Redeems(tx) = IxsOf(tx, "redeem") /\ Redeems(tx) \in SUBSET DOMAIN tx.ixs
    BY DEF Redeems, OfKind, IxsOf
  <1>2. IsFiniteSet(Redeems(tx))
    BY <1>1, PlacesFinite
  <1>3. ASSUME R2(tx) PROVE \E r \in DOMAIN tx.ixs : Burning(tx, r)
    <2>1. /\ Only(Redeems(tx)) \in DOMAIN tx.ixs
          /\ Exactly(IxsOf(tx, "redeem"), Only(Redeems(tx)))
      BY <1>1, <1>2, <1>3, OnlyIn, OneIs DEF R2
    <2>2. Burning(tx, Only(Redeems(tx)))
      BY <1>3, <2>1 DEF R2, TheRedeem, Burning
    <2>3. QED
      BY <2>1, <2>2
  <1>4. ASSUME NEW r \in DOMAIN tx.ixs, Burning(tx, r) PROVE R2(tx) /\ TheRedeem(tx) = tx.ixs[r]
    <2>1. One(Redeems(tx)) /\ Only(Redeems(tx)) = r
      BY <1>1, <1>2, <1>4, OneIs DEF Burning
    <2>2. QED
      BY <1>4, <2>1 DEF R2, TheRedeem, Burning
  <1>5. QED
    BY <1>3, <1>4

Telling(tx, e, redeem) ==
  /\ Exactly(Emitted(tx), e)
  /\ EventAt(tx, e).whole /\ EventAt(tx, e).holder = redeem.holder

LEMMA TellingIs ==
  ASSUME NEW tx, IsTransaction(tx), Plain(tx.logs)
  PROVE  R3(tx) <=> \E e \in Emitted(tx) : Telling(tx, e, TheRedeem(tx))
  <1> DEFINE E == Emitted(tx)
  <1>1. RedeemedEvents(tx) = E /\ IsFiniteSet(E)
    BY EventsAre
  <1> HIDE DEF E
  <1>2. ASSUME R3(tx) PROVE \E e \in E : Telling(tx, e, TheRedeem(tx))
    <2>1. Only(E) \in E /\ Exactly(E, Only(E))
      BY <1>1, <1>2, OnlyIn, OneIs DEF R3
    <2>2. Telling(tx, Only(E), TheRedeem(tx))
      BY <1>1, <1>2, <2>1 DEF R3, TheEvent, Telling, E
    <2>3. QED
      BY <2>1, <2>2
  <1>3. ASSUME NEW e \in E, Telling(tx, e, TheRedeem(tx)) PROVE R3(tx)
    <2>1. One(E) /\ Only(E) = e
      BY <1>1, <1>3, OneIs DEF Telling, E
    <2>2. QED
      BY <1>1, <1>3, <2>1 DEF R3, TheEvent, Telling
  <1>4. QED
    BY <1>2, <1>3 DEF E

(* What the code asks of the fee: it is all that goes to the fee account. *)
PayingAlone(tx, f, redeem) ==
  /\ Exactly({i \in IxsOf(tx, "transfer") : tx.ixs[i].destination = FeeAccount}, f)
  /\ tx.ixs[f].source = redeem.source /\ tx.ixs[f].mint = ZecMint
  /\ tx.ixs[f].authority = redeem.holder
  /\ EnoughAt(tx.time, tx.ixs[f].amount)

LEMMA PayingAloneIs ==
  ASSUME NEW tx, IsTransaction(tx), tx.time # None
  PROVE  R5(tx) <=> \E f \in DOMAIN tx.ixs : PayingAlone(tx, f, TheRedeem(tx))
  <1> DEFINE F == {i \in IxsOf(tx, "transfer") : tx.ixs[i].destination = FeeAccount}
  <1>1. ToFeeAccount(tx) = F /\ F \in SUBSET DOMAIN tx.ixs
    BY DEF ToFeeAccount, Transfers, OfKind, IxsOf
  <1>2. IsFiniteSet(F)
    BY <1>1, PlacesFinite
  <1>3. \A f \in F : tx.ixs[f].amount \in Nat
    BY DEF IsTransaction, IxsOf
  <1>4. tx.time \in Int
    BY DEF IsTransaction
  <1> HIDE DEF F
  <1>5. \A f \in F : RequiredFee(tx.time) # None /\ tx.ixs[f].amount >= RequiredFee(tx.time)
                     <=> EnoughAt(tx.time, tx.ixs[f].amount)
    BY <1>3, <1>4, EnoughIs
  <1>6. ASSUME R5(tx) PROVE \E f \in DOMAIN tx.ixs : PayingAlone(tx, f, TheRedeem(tx))
    <2>1. Only(F) \in F /\ Exactly(F, Only(F))
      BY <1>1, <1>2, <1>6, OnlyIn, OneIs DEF R5
    <2>2. EnoughAt(tx.time, tx.ixs[Only(F)].amount)
      BY <1>1, <1>5, <1>6, <2>1 DEF R5, TheFee
    <2>3. PayingAlone(tx, Only(F), TheRedeem(tx))
      BY <1>1, <1>6, <2>1, <2>2 DEF R5, TheFee, PayingAlone, F
    <2>4. QED
      BY <1>1, <2>1, <2>3
  <1>7. ASSUME NEW f \in DOMAIN tx.ixs, PayingAlone(tx, f, TheRedeem(tx)) PROVE R5(tx)
    <2>1. Exactly(F, f)
      BY <1>7 DEF PayingAlone, F
    <2>2. One(F) /\ Only(F) = f
      BY <1>2, <2>1, OneIs
    <2>3. RequiredFee(tx.time) # None /\ tx.ixs[f].amount >= RequiredFee(tx.time)
      BY <1>5, <1>7, <2>1 DEF PayingAlone, Exactly
    <2>4. QED
      BY <1>1, <1>7, <2>2, <2>3 DEF R5, TheFee, PayingAlone
  <1>8. QED
    BY <1>6, <1>7

(* What SPEC.md asks of it: it is all that goes from the holder's account to the
   fee account by the holder. *)
Paying(tx, f, redeem) ==
  Exactly(FeesPaid(tx, redeem), f) /\ EnoughAt(tx.time, tx.ixs[f].amount)

LEMMA PayingIs ==
  ASSUME NEW tx, IsTransaction(tx), tx.time # None
  PROVE  R5(tx) <=> FeeAlone(tx) /\ \E f \in DOMAIN tx.ixs : Paying(tx, f, TheRedeem(tx))
  <1> DEFINE F == {i \in IxsOf(tx, "transfer") : tx.ixs[i].destination = FeeAccount}
             P == FeesPaid(tx, TheRedeem(tx))
  <1>1. ASSUME NEW f \in DOMAIN tx.ixs, PayingAlone(tx, f, TheRedeem(tx))
        PROVE  FeeAlone(tx) /\ Paying(tx, f, TheRedeem(tx))
    <2>1. F = {f}
      BY <1>1 DEF PayingAlone, Exactly
    <2>2. P = {f}
      BY <1>1, <2>1 DEF PayingAlone, FeesPaid
    <2>3. FeeAlone(tx)
      BY <2>1 DEF FeeAlone, AtMostOne
    <2>4. QED
      BY <1>1, <2>2, <2>3 DEF PayingAlone, Paying, Exactly
  <1>2. ASSUME NEW f \in DOMAIN tx.ixs, FeeAlone(tx), Paying(tx, f, TheRedeem(tx))
        PROVE  PayingAlone(tx, f, TheRedeem(tx))
    <2>1. P = {f}
      BY <1>2 DEF Paying, Exactly
    <2>2. /\ f \in F /\ tx.ixs[f].source = TheRedeem(tx).source /\ tx.ixs[f].mint = ZecMint
          /\ tx.ixs[f].authority = TheRedeem(tx).holder
      BY <2>1 DEF FeesPaid
    <2>3. F = {f}
      BY <1>2, <2>2 DEF FeeAlone, AtMostOne
    <2>4. QED
      BY <1>2, <2>2, <2>3 DEF Paying, PayingAlone, Exactly
  <1>3. QED
    BY <1>1, <1>2, PayingAloneIs

LEMMA RequestIs ==
  ASSUME NEW tx, IsTransaction(tx), Plain(tx.logs)
  PROVE  Classify(tx).kind = "request" <=> SpecRequest(tx) /\ FeeAlone(tx)
  <1> DEFINE Is(r, m, f, e) == /\ Burning(tx, r) /\ Telling(tx, e, tx.ixs[r]) /\ Asking(tx, m)
                               /\ Paying(tx, f, tx.ixs[r])
  <1>1. SpecRequest(tx) <=> /\ Settled(tx)
                            /\ \E r, m, f \in DOMAIN tx.ixs, e \in Emitted(tx) : Is(r, m, f, e)
    <2>1. ASSUME SpecRequest(tx)
          PROVE  \E r, m, f \in DOMAIN tx.ixs, e \in Emitted(tx) : Is(r, m, f, e)
      <3>1. PICK r \in DOMAIN tx.ixs, m \in DOMAIN tx.ixs, f \in DOMAIN tx.ixs,
                 e \in Emitted(tx) :
              LET redeem == tx.ixs[r]
                  event  == tx.logs[e[1]].parts[e[2]]
                  memo   == tx.ixs[m]
              IN  /\ Exactly(IxsOf(tx, "redeem"), r)
                  /\ None \notin {redeem.holder, redeem.source}
                  /\ Exactly(Emitted(tx), e)
                  /\ event.whole /\ event.holder = redeem.holder
                  /\ Exactly(IxsOf(tx, "memo"), m)
                  /\ \/ memo.text.kind = "public" /\ memo.text.address # None
                     \/ memo.text.kind = "private" /\ memo.text.kid # None
                  /\ Exactly(FeesPaid(tx, redeem), f)
                  /\ EnoughAt(tx.time, tx.ixs[f].amount)
        BY <2>1 DEF SpecRequest
      <3>2. Burning(tx, r) /\ Telling(tx, e, tx.ixs[r])
        BY <3>1 DEF Burning, Telling, EventAt
      <3>3. Asking(tx, m) /\ Paying(tx, f, tx.ixs[r])
        BY <3>1 DEF Asking, Paying
      <3>4. Is(r, m, f, e)
        BY <3>2, <3>3
      <3> HIDE DEF Is
      <3>5. QED
        BY <3>4
    <2>2. ASSUME Settled(tx), NEW r \in DOMAIN tx.ixs, NEW m \in DOMAIN tx.ixs,
                 NEW f \in DOMAIN tx.ixs, NEW e \in Emitted(tx), Is(r, m, f, e)
          PROVE  SpecRequest(tx)
      <3>1. None \notin {tx.ixs[r].holder, tx.ixs[r].source}
        BY <2>2 DEF Burning
      <3>2. /\ Exactly(Emitted(tx), e) /\ tx.logs[e[1]].parts[e[2]].whole
            /\ tx.logs[e[1]].parts[e[2]].holder = tx.ixs[r].holder
        BY <2>2 DEF Telling, EventAt
      <3>3. QED
        BY <2>2, <3>1, <3>2 DEF SpecRequest, Settled, Burning, Asking, Paying
    <2>3. SpecRequest(tx) => Settled(tx)
      BY DEF SpecRequest, Settled
    <2> HIDE DEF Is
    <2>4. QED
      BY <2>1, <2>2, <2>3
  <1> HIDE DEF Is
  <1>2. ASSUME Classify(tx).kind = "request" PROVE SpecRequest(tx) /\ FeeAlone(tx)
    <2>1. /\ Settled(tx) /\ ~Refunding(tx) /\ R2(tx) /\ R3(tx) /\ R4(tx) /\ R5(tx)
      BY <1>2, Kinds
    <2>2. tx.time # None
      BY <2>1 DEF Settled
    <2>3. PICK r \in DOMAIN tx.ixs : Burning(tx, r)
      BY <2>1, BurningIs
    <2>4. TheRedeem(tx) = tx.ixs[r]
      BY <2>3, BurningIs
    <2>5. PICK e \in Emitted(tx) : Telling(tx, e, TheRedeem(tx))
      BY <2>1, TellingIs
    <2>6. PICK m \in DOMAIN tx.ixs : Asking(tx, m)
      BY <2>1, AskingIs
    <2>7. /\ FeeAlone(tx)
          /\ \E f \in DOMAIN tx.ixs : Paying(tx, f, TheRedeem(tx))
      BY <2>1, <2>2, PayingIs
    <2>8. PICK f \in DOMAIN tx.ixs : Paying(tx, f, TheRedeem(tx))
      BY <2>7
    <2>9. Is(r, m, f, e)
      BY <2>3, <2>4, <2>5, <2>6, <2>8 DEF Is
    <2>10. QED
      BY <1>1, <2>1, <2>7, <2>9
  <1>3. ASSUME SpecRequest(tx), FeeAlone(tx) PROVE Classify(tx).kind = "request"
    <2>1. Settled(tx)
      BY <1>1, <1>3
    <2>2. PICK r \in DOMAIN tx.ixs, m \in DOMAIN tx.ixs, f \in DOMAIN tx.ixs,
               e \in Emitted(tx) : Is(r, m, f, e)
      BY <1>1, <1>3
    <2>3. /\ Burning(tx, r) /\ Telling(tx, e, tx.ixs[r]) /\ Asking(tx, m)
          /\ Paying(tx, f, tx.ixs[r])
      BY <2>2 DEF Is
    <2>4. R2(tx) /\ TheRedeem(tx) = tx.ixs[r]
      BY <2>3, BurningIs
    <2>5. R3(tx)
      BY <2>3, <2>4, TellingIs
    <2>6. ~Refunding(tx) /\ R4(tx)
      BY <2>3, AskingIs
    <2>7. tx.time # None
      BY <2>1 DEF Settled
    <2>8. R5(tx)
      BY <1>3, <2>3, <2>4, <2>7, PayingIs
    <2>9. QED
      BY <2>1, <2>4, <2>5, <2>6, <2>8, Kinds
  <1>4. QED
    BY <1>2, <1>3
-----------------------------------------------------------------------------
(* The theorems about what is read.                                        *)

(* At every moment of the read the cursor is the place of a transaction of
   the listed part of the history, a classification is one of those tx.ts
   gives, and no transaction that failed on Solana is fetched. *)
THEOREM SolanaTyped == Spec => []TypeOK
  <1>1. ReadInv => TypeOK
    <2> SUFFICES ASSUME ReadInv PROVE TypeOK
      OBVIOUS
    <2>1. ListsTyped
      BY DEF ReadInv
    <2>2. length \in 0..MaxTxs /\ listed \in 0..length /\ MaxTxs \in Nat
      BY <2>1, InputIs DEF ListsTyped
    <2>3. before = None \/ before \in 1..length
      <3>1. before = None \/ before \in 1..listed
        BY <2>1 DEF ListsTyped
      <3>2. QED
        BY <2>2, <3>1
    <2>4. Range(sigs) \subseteq DOMAIN input.tx
      <3>1. PICK g \in Seq(DOMAIN input.tx) : g = sigs
        BY <2>1 DEF ListsTyped
      <3>2. \A i \in DOMAIN g : g[i] \in DOMAIN input.tx
        OBVIOUS
      <3>3. QED
        BY <3>1, <3>2 DEF Range
    <2>5. \A i \in DOMAIN found : found[i][2].kind \in {"request", "refund", "other"}
      <3> TAKE i \in DOMAIN found
      <3>1. found \in Seq(Classified)
        BY <2>1 DEF ListsTyped
      <3>2. found[i] \in Classified
        BY <3>1
      <3>3. PICK s \in DOMAIN input.tx : found[i][2] = Classify(Tx(s))
        BY <3>2 DEF Classified
      <3>4. QED
        BY <3>3, Kinds
    <2>6. \A i \in DOMAIN exits : exits[i][2].kind \in {"exit", "other"}
      <3> TAKE i \in DOMAIN exits
      <3>1. exits \in Seq(ClassifiedExits)
        BY <2>1 DEF ListsTyped
      <3>2. exits[i] \in ClassifiedExits
        BY <3>1
      <3>3. PICK s \in DOMAIN input.tx : exits[i][2] = ClassifyExit(Tx(s))
        BY <3>2 DEF ClassifiedExits
      <3>4. QED
        BY <3>3, Kinds
    <2>7. pc \in {"page", "txs"} => \A i \in DOMAIN sigs : ~Tx(sigs[i]).failed
      <3>1. pc \in {"page", "txs"} => Range(sigs) \subseteq Successes
        BY DEF ReadInv, Listing, Fetching, Split
      <3>2. \A i \in DOMAIN sigs : sigs[i] \in Range(sigs)
        BY DEF Range
      <3>3. QED
        BY <3>1, <3>2 DEF Successes
    <2>8. pc \in {"page", "txs", "exits", "read", "failed"}
      BY <2>1 DEF ListsTyped
    <2>9. QED
      BY <2>2, <2>3, <2>4, <2>5, <2>6, <2>7, <2>8 DEF TypeOK
  <1>2. QED
    BY <1>1, ReadInvHolds, PTL

(* No program's own text reads like a line of the runtime. *)
PlainLogs == \A in \in Inputs : \A s \in DOMAIN in.tx : Plain(in.tx[s].logs)

(* Whatever the fees, the instructions and the depth to which programs call each
   other, classify takes for a request what SPEC.md 2 describes when the fee is
   all that goes to the fee account, and nothing else; for a refund what SPEC.md 5
   describes when it is all that comes from there and its memo the only one, and
   nothing else, and then for one of that request, account and amount; and
   classifyExit takes for an exit exactly what SPEC.md 10.2 describes.  What the
   program logged is told from what the programs it called logged. *)
THEOREM SolanaClassified == PlainLogs => (Spec => []ClassifiedByTheRules)
  <1> SUFFICES ASSUME PlainLogs PROVE Spec => []ClassifiedByTheRules
    OBVIOUS
  <1>1. ReadInv => ClassifiedByTheRules
    <2> SUFFICES ASSUME ReadInv PROVE ClassifiedByTheRules
      OBVIOUS
    <2>1. /\ input \in Inputs /\ found \in Seq(Classified) /\ exits \in Seq(ClassifiedExits)
      BY DEF ReadInv, ListsTyped
    <2>2. \A s \in DOMAIN input.tx : IsTransaction(Tx(s)) /\ Plain(Tx(s).logs)
      BY <2>1, InputIs DEF PlainLogs, Tx
    <2>3. ASSUME NEW i \in DOMAIN found
          PROVE  LET tx == Tx(found[i][1])
                     c  == found[i][2]
                 IN  /\ c.kind = "request" <=> SpecRequest(tx) /\ FeeAlone(tx)
                     /\ c.kind = "refund" <=>
                          /\ RefundAlone(tx)
                          /\ \E m, f \in DOMAIN tx.ixs : SpecRefundBy(tx, m, f)
                     /\ c.kind = "refund" => SpecRefund(tx, c.of, c.to, c.amount)
      <3>1. found[i] \in Classified
        BY <2>1
      <3>2. PICK s \in DOMAIN input.tx : found[i][1] = s /\ found[i][2] = Classify(Tx(s))
        BY <3>1 DEF Classified
      <3>3. Classify(Tx(s)).kind = "request" <=> SpecRequest(Tx(s)) /\ FeeAlone(Tx(s))
        BY <2>2, RequestIs
      <3>4. /\ Classify(Tx(s)).kind = "refund" <=>
                 RefundAlone(Tx(s)) /\ \E m, f \in DOMAIN Tx(s).ixs : SpecRefundBy(Tx(s), m, f)
            /\ Classify(Tx(s)).kind = "refund" =>
                 SpecRefund(Tx(s), Classify(Tx(s)).of, Classify(Tx(s)).to, Classify(Tx(s)).amount)
        BY <2>2, RefundIs
      <3>5. QED
        BY <3>2, <3>3, <3>4
    <2>4. ASSUME NEW i \in DOMAIN exits
          PROVE  exits[i][2].kind = "exit" <=> SpecExit(Tx(exits[i][1]))
      <3>1. exits[i] \in ClassifiedExits
        BY <2>1
      <3>2. PICK s \in DOMAIN input.tx : exits[i][1] = s /\ exits[i][2] = ClassifyExit(Tx(s))
        BY <3>1 DEF ClassifiedExits
      <3>3. ClassifyExit(Tx(s)).kind = "exit" <=> SpecExit(Tx(s))
        BY <2>2, ExitIs
      <3>4. QED
        BY <3>2, <3>3
    <2>5. QED
      BY <2>3, <2>4 DEF ClassifiedByTheRules
  <1>2. QED
    BY <1>1, ReadInvHolds, PTL

=============================================================================
