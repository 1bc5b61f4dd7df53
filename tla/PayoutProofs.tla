---------------------------- MODULE PayoutProofs ----------------------------
(***************************************************************************)
(* PayoutLedger for every value of its constants: a forward is the payout  *)
(* stamp of all the exits it names or of none, and the earlier of two      *)
(* valid forwards that share an exit wins.                                 *)
(***************************************************************************)
EXTENDS PayoutLedger, CountProofs, SequenceTheorems, TLAPS

(* What the loop keeps beyond the properties themselves: a stamp was put in
   place by a candidate that was tried, before every candidate still to try. *)
TriedInOrder ==
  /\ DOMAIN rejected \cap todo = {}
  /\ \A t \in DOMAIN input.candidates \ todo, u \in todo : ~Before(Tx(u), Tx(t))

Inv == TypeOK /\ AllOrNothing /\ EarlierForwardWins /\ TriedInOrder

-----------------------------------------------------------------------------
(* What one turn of the loop does to candidate t. *)
Refused(t) ==
  /\ \E rule \in {"Z1", "P1", "P2", "P3", "V1", "V2", "V4"} :
       Reject(t, rule) /\ (rule = "V4" <=> Forwards(exits, Tx(t)))
  /\ Forwards(exits, Tx(t)) => Taken(t)

LEMMA LoopOutcome ==
  ASSUME CandidateLoop
  PROVE  \E t \in todo : NextCandidate(t) /\ (Accept(t) \/ Refused(t))
  <1>1. PICK t \in todo :
          \/ NotFinal(t) \/ NotV6(t) \/ NotIntoPool(t) \/ NotRuns(t)
          \/ NotPaid(t) \/ Duplicate(t) \/ Accept(t)
    BY DEF CandidateLoop
  <1>2. CASE NotFinal(t) \/ NotV6(t) \/ NotIntoPool(t) \/ NotRuns(t)
    BY <1>2 DEF NotFinal, NotV6, NotIntoPool, NotRuns, Refused, Forwards
  <1>3. CASE NotPaid(t)
    <2>1. /\ NextCandidate(t)
          /\ {j \in DOMAIN Tx(t).record : ~PaidAt(exits, Tx(t), j)} # {}
          /\ Reject(t, "V1") \/ Reject(t, "V2")
      BY <1>3 DEF NotPaid
    <2>2. QED
      BY <2>1 DEF Refused, Forwards
  <1>4. CASE Duplicate(t)
    BY <1>4 DEF Duplicate, Refused
  <1>5. CASE Accept(t)
    BY <1>5 DEF Accept
  <1>6. QED
    BY <1>1, <1>2, <1>3, <1>4, <1>5

LEMMA InitInv == Init => Inv
  <1> SUFFICES ASSUME Init PROVE Inv
    OBVIOUS
  <1>1. /\ input \in Inputs /\ todo = DOMAIN input.candidates
        /\ DOMAIN stampOf = {} /\ DOMAIN rejected = {}
    BY DEF Init
  <1>2. TypeOK /\ TriedInOrder
    BY <1>1 DEF TypeOK, TriedInOrder
  <1>3. AllOrNothing /\ EarlierForwardWins
    BY <1>1 DEF AllOrNothing, EarlierForwardWins, Accepted
  <1>4. QED
    BY <1>2, <1>3 DEF Inv

(* A candidate the loop refuses. *)
LEMMA RefusedStep ==
  ASSUME Inv, NEW t \in todo, NextCandidate(t), Refused(t)
  PROVE  Inv'
  <1>1. /\ todo' = todo \ {t}
        /\ UNCHANGED <<input, stampOf>>
        /\ t \in DOMAIN input.candidates
        /\ \A u \in todo : ~Before(Tx(u), Tx(t))
    BY DEF NextCandidate, Refused, Reject, Inv, TypeOK
  <1>2. PICK rule \in {"Z1", "P1", "P2", "P3", "V1", "V2", "V4"} :
          rejected' = [u \in DOMAIN rejected \cup {t} |->
                         IF u = t THEN rule ELSE rejected[u]]
    BY DEF Refused, Reject
  <1>3. Accepted' = Accepted
    <2>1. DOMAIN rejected' = DOMAIN rejected \cup {t}
      BY <1>2
    <2>2. QED
      BY <1>1, <2>1 DEF Accepted
  <1>4. TypeOK'
    BY <1>1, <1>2 DEF Inv, TypeOK, Tx, exits
  <1>5. AllOrNothing'
    BY <1>1, <1>3 DEF Inv, AllOrNothing, Tx, exits
  <1>6. TriedInOrder'
    BY <1>1, <1>2 DEF Inv, TriedInOrder, Tx
  <1>7. EarlierForwardWins'
    <2>1. ASSUME Forwards(exits, Tx(t))
          PROVE  \E e \in NamedBy(exits, Tx(t)) \cap DOMAIN stampOf :
                   stampOf[e].id # t /\ ~Before(Tx(t), Tx(stampOf[e].id))
      <3>1. PICK e \in NamedBy(exits, Tx(t)) : e \in DOMAIN stampOf
        BY <2>1 DEF Refused, Taken
      <3>2. /\ stampOf[e].id \in DOMAIN input.candidates \ todo
            /\ stampOf[e].id # t
        BY <3>1 DEF Inv, AllOrNothing, Accepted
      <3>3. QED
        BY <3>1, <3>2 DEF Inv, TriedInOrder
    <2>2. QED
      BY <1>1, <1>3, <2>1 DEF Inv, EarlierForwardWins, Tx, exits
  <1>8. QED
    BY <1>4, <1>5, <1>6, <1>7 DEF Inv

(* A candidate the loop accepts: the exits it names had no stamp. *)
LEMMA AcceptStep ==
  ASSUME Inv, NEW t \in todo, Accept(t)
  PROVE  Inv'
  <1>1. /\ todo' = todo \ {t}
        /\ UNCHANGED <<input, rejected>>
        /\ t \in DOMAIN input.candidates
        /\ \A u \in todo : ~Before(Tx(u), Tx(t))
        /\ Forwards(exits, Tx(t))
        /\ NamedBy(exits, Tx(t)) \cap DOMAIN stampOf = {}
    BY DEF Accept, NextCandidate, Taken, Inv, TypeOK
  <1>2. /\ DOMAIN stampOf' = DOMAIN stampOf \cup NamedBy(exits, Tx(t))
        /\ \A e \in DOMAIN stampOf : stampOf'[e] = stampOf[e]
        /\ \A e \in NamedBy(exits, Tx(t)) : stampOf'[e] = Stamp(t, e)
    BY <1>1 DEF Accept
  <1>3. \A e \in NamedBy(exits, Tx(t)) :
          /\ e \in DOMAIN exits
          /\ Stamp(t, e).id = t
          /\ Stamp(t, e).position \in 0..Len(Tx(t).record) - 1
          /\ OnlyExit(exits, e, Tx(t).record[Stamp(t, e).position + 1])
          /\ Stamp(t, e).intoPool = Tx(t).intoPool
    <2> SUFFICES ASSUME NEW e \in NamedBy(exits, Tx(t))
                 PROVE  /\ e \in DOMAIN exits
                        /\ Stamp(t, e).id = t
                        /\ Stamp(t, e).position \in 0..Len(Tx(t).record) - 1
                        /\ OnlyExit(exits, e, Tx(t).record[Stamp(t, e).position + 1])
                        /\ Stamp(t, e).intoPool = Tx(t).intoPool
      OBVIOUS
    <2> DEFINE j == CHOOSE i \in DOMAIN Tx(t).record : OnlyExit(exits, e, Tx(t).record[i])
    <2>1. PICK r \in Seq(Range(Tx(t).record)) : r = Tx(t).record
      BY <1>1, PayoutAssumption DEF Forwards, Shields, Tx, Inv, TypeOK
    <2>2. j \in DOMAIN Tx(t).record /\ OnlyExit(exits, e, Tx(t).record[j])
      BY DEF NamedBy
    <2>3. e \in DOMAIN exits
      BY DEF NamedBy
    <2>4. /\ Stamp(t, e).id = t /\ Stamp(t, e).position = j - 1
          /\ Stamp(t, e).intoPool = Tx(t).intoPool
      BY DEF Stamp
    <2> HIDE DEF j
    <2>5. j \in 1..Len(Tx(t).record) /\ Len(Tx(t).record) \in Nat
      BY <2>1, <2>2
    <2>6. j - 1 \in 0..Len(Tx(t).record) - 1 /\ (j - 1) + 1 = j
      BY <2>5
    <2>7. QED
      BY <2>2, <2>3, <2>4, <2>6
  <1>4. Accepted' = Accepted \cup {t}
    BY <1>1 DEF Accepted, Inv, TriedInOrder
  <1>5. TypeOK'
    BY <1>1, <1>2, <1>3 DEF Inv, TypeOK, Tx, exits
  <1>6. TriedInOrder'
    BY <1>1 DEF Inv, TriedInOrder, Tx
  <1>7. AllOrNothing'
    BY <1>1, <1>2, <1>3, <1>4 DEF Inv, AllOrNothing, Tx, exits
  <1>8. EarlierForwardWins'
    <2>1. \A e \in DOMAIN stampOf' : Forwards(exits, Tx(stampOf'[e].id))
      BY <1>1, <1>2, <1>3 DEF Inv, EarlierForwardWins
    <2>2. ASSUME NEW u \in DOMAIN input.candidates \ todo', Forwards(exits, Tx(u)),
                 u \notin Accepted'
          PROVE  \E e \in NamedBy(exits, Tx(u)) \cap DOMAIN stampOf' :
                   stampOf'[e].id # u /\ ~Before(Tx(u), Tx(stampOf'[e].id))
      <3>1. u \in DOMAIN input.candidates \ todo /\ u \notin Accepted
        BY <1>1, <1>4, <2>2
      <3>2. QED
        BY <1>2, <2>2, <3>1 DEF Inv, EarlierForwardWins
    <2>3. QED
      BY <1>1, <2>1, <2>2 DEF EarlierForwardWins, Tx, exits
  <1>9. QED
    BY <1>5, <1>6, <1>7, <1>8 DEF Inv

LEMMA NextInv == Inv /\ [Next]_vars => Inv'
  <1> SUFFICES ASSUME Inv, [Next]_vars PROVE Inv'
    OBVIOUS
  <1>1. CASE CandidateLoop
    BY <1>1, LoopOutcome, RefusedStep, AcceptStep
  <1>2. CASE Report \/ Returned \/ UNCHANGED vars
    BY <1>2 DEF Report, Returned, vars, Inv, TypeOK, AllOrNothing,
                EarlierForwardWins, TriedInOrder, Accepted, Tx, exits
  <1>3. QED
    BY <1>1, <1>2 DEF Next

THEOREM Invariance == Spec => []Inv
  BY InitInv, NextInv, PTL DEF Spec

(* Every variable keeps its type, and a stamp's position, counted from 0, is
   the place of its exit's hash in the record. *)
THEOREM TypesKept == Spec => []TypeOK
  BY Invariance, PTL DEF Inv

(* A transaction is the payout stamp of every exit it names, or of none. *)
THEOREM WholeForwards == Spec => []AllOrNothing
  BY Invariance, PTL DEF Inv

(* V4: of the valid forwards that share an exit, one that is left out is left
   out for an accepted one not after it in the chain. *)
THEOREM EarlierWins == Spec => []EarlierForwardWins
  BY Invariance, PTL DEF Inv

-----------------------------------------------------------------------------
(* The verdicts.  The runs the code counts are the runs SPEC.md speaks of. *)

(* A candidate whose inputs and record are sequences. *)
Sequenced(E, z, n, K) ==
  /\ n \in Nat /\ DOMAIN z.spenders = 1..n /\ (z.spenders = << >> => n = 0)
  /\ (n = 0 => z.spenders = << >>)
  /\ K \in Nat \ {0} /\ DOMAIN z.record = 1..K /\ Len(z.record) = K
  /\ \A k \in ExitKeys, e \in DOMAIN E : <<k.key, E[e].index>> # None

LEMMA RunsOfCode ==
  ASSUME NEW E, NEW z, NEW n, NEW K, Sequenced(E, z, n, K),
         OneRunPerExit(z), \A j \in DOMAIN z.record : PaidAt(E, z, j)
  PROVE  SpentInRuns(E, z)
  <1> DEFINE keys == z.spenders
             C == Cardinality(RunStarts(keys))
             run == [i \in 1..n |-> RunAt(keys, i)]
  <1>1. n \in Nat /\ DOMAIN keys = 1..n /\ DOMAIN z.record = 1..K
    BY DEF Sequenced
  <1>2. /\ C \in Nat /\ DOMAIN RunKeys(keys) = 1..C /\ DOMAIN z.record = 1..C
        /\ IsInjective(RunKeys(keys))
        /\ \A j \in 1..C : PaidAt(E, z, j)
    <2>1. Len(RunKeys(keys)) = K /\ IsInjective(RunKeys(keys))
      BY DEF OneRunPerExit, Sequenced
    <2>2. DOMAIN RunKeys(keys) = 1..C /\ Len(RunKeys(keys)) = C /\ C \in Nat
      BY <1>1, RunsNumbered
    <2>3. QED
      BY <1>1, <2>1, <2>2
  <1>3. \A i \in 1..n : RunAt(keys, i) \in 1..C /\ RunKeys(keys)[RunAt(keys, i)] = keys[i]
    BY <1>1, <1>2, RunsNumbered, KeyOfRun
  <1>4. run \in [DOMAIN keys -> DOMAIN z.record]
    BY <1>1, <1>2, <1>3
  <1>5. ASSUME NEW i \in DOMAIN keys, i > 1 PROVE run[i] - run[i - 1] \in {0, 1}
    <2>1. i \in 1..n /\ i - 1 \in 1..n /\ i # 1
      BY <1>1, <1>5
    <2>2. /\ RunAt(keys, i) \in Nat /\ RunAt(keys, i - 1) \in Nat
          /\ RunAt(keys, i) = IF keys[i] = keys[i - 1] THEN RunAt(keys, i - 1)
                              ELSE RunAt(keys, i - 1) + 1
      BY <1>1, <2>1, NextRun
    <2>3. RunAt(keys, i) - RunAt(keys, i - 1) \in {0, 1}
      BY <2>2
    <2>4. QED
      BY <2>1, <2>3
  <1>6. Range(run) = DOMAIN z.record
    <2>1. \A j \in 1..C : \E i \in 1..n : RunAt(keys, i) = j
      <3>1. QED
        BY <1>1, <1>2, RunsNumbered
    <2>2. QED
      BY <1>2, <1>3, <2>1 DEF Range
  <1>7. \A i, k \in DOMAIN keys : run[i] = run[k] <=> keys[i] = keys[k]
    BY <1>1, <1>2, <1>3 DEF IsInjective
  <1>8. ASSUME NEW i \in DOMAIN keys
        PROVE  \E e \in DOMAIN E, x \in KeysAt(0, z.height) :
                 /\ OnlyExit(E, e, z.record[run[i]])
                 /\ keys[i] = <<x.key, E[e].index>>
    <2>1. run[i] \in 1..C /\ RunKeys(keys)[run[i]] = keys[i]
      BY <1>1, <1>3
    <2>2. PaidAt(E, z, run[i])
      BY <1>2, <2>1
    <2> HIDE DEF run
    <2>3. QED
      BY <2>1, <2>2 DEF PaidAt, OrderKey
  <1> HIDE DEF run
  <1>9. QED
    BY <1>4, <1>5, <1>6, <1>7, <1>8 DEF SpentInRuns

LEMMA RunsOfSpec ==
  ASSUME NEW E, NEW z, NEW n, NEW K, Sequenced(E, z, n, K), SpentInRuns(E, z)
  PROVE  OneRunPerExit(z) /\ \A j \in DOMAIN z.record : PaidAt(E, z, j)
  <1> DEFINE keys == z.spenders
             C == Cardinality(RunStarts(keys))
  <1>1. /\ n \in Nat /\ DOMAIN keys = 1..n
        /\ K \in Nat \ {0} /\ DOMAIN z.record = 1..K
    BY DEF Sequenced
  <1>2. PICK run \in [DOMAIN z.spenders -> DOMAIN z.record] :
          /\ \A i \in DOMAIN z.spenders : i > 1 => run[i] - run[i - 1] \in {0, 1}
          /\ Range(run) = DOMAIN z.record
          /\ \A i, k \in DOMAIN z.spenders :
               run[i] = run[k] <=> z.spenders[i] = z.spenders[k]
          /\ \A i \in DOMAIN z.spenders :
               \E e \in DOMAIN E, x \in KeysAt(0, z.height) :
                 /\ OnlyExit(E, e, z.record[run[i]])
                 /\ z.spenders[i] = <<x.key, E[e].index>>
    BY DEF SpentInRuns
  <1>3. None \notin Range(keys)
    <2>1. ASSUME NEW i \in DOMAIN keys PROVE keys[i] # None
      <3>1. PICK e \in DOMAIN E, x \in KeysAt(0, z.height) : keys[i] = <<x.key, E[e].index>>
        BY <1>2
      <3>2. QED
        BY <3>1 DEF Sequenced, KeysAt
    <2>2. QED
      BY <2>1 DEF Range
  <1> HIDE DEF keys
  <1>2a. /\ run \in [1..n -> 1..K]
         /\ \A i \in 1..n : i > 1 => run[i] - run[i - 1] \in {0, 1}
         /\ \A i, k \in 1..n : run[i] = run[k] <=> keys[i] = keys[k]
    BY <1>1, <1>2 DEF keys
  <1>2b. \A j \in 1..K : \E i \in 1..n : run[i] = j
    <2> SUFFICES ASSUME NEW j \in 1..K PROVE \E i \in 1..n : run[i] = j
      OBVIOUS
    <2>1. j \in Range(run) /\ DOMAIN run = 1..n
      BY <1>1, <1>2, <1>2a
    <2>2. QED
      BY <2>1 DEF Range
  <1>4. /\ C \in Nat /\ DOMAIN RunKeys(keys) = 1..C /\ Len(RunKeys(keys)) = C
        /\ \A i \in 1..n : RunAt(keys, i) \in 1..C /\ RunKeys(keys)[RunAt(keys, i)] = keys[i]
        /\ \A j \in 1..C : \E i \in 1..n : RunAt(keys, i) = j
    BY <1>1, RunsNumbered, KeyOfRun
  <1>5. \A i \in 1..n :
          /\ RunAt(keys, i) \in Nat
          /\ i = 1 => RunAt(keys, i) = 1
          /\ i # 1 => RunAt(keys, i) = IF keys[i] = keys[i - 1] THEN RunAt(keys, i - 1)
                                       ELSE RunAt(keys, i - 1) + 1
    BY <1>1, NextRun
  <1>6. n # 0 /\ run[1] = 1
    <2> DEFINE T == {i \in 1..n : run[i] = 1}
    <2>1. T # {} /\ T \in SUBSET Nat
      BY <1>1, <1>2b
    <2> HIDE DEF T
    <2>2. PICK m \in T : \A i \in T : m <= i
      BY <2>1, Minimum
    <2>3. m \in 1..n /\ run[m] = 1
      BY DEF T
    <2>4. CASE m = 1
      BY <1>1, <2>3, <2>4
    <2>5. CASE m # 1
      <3>1. m - 1 \in 1..n /\ m > 1
        BY <1>1, <2>3, <2>5
      <3>2. PICK a \in 1..K : a = run[m - 1]
        BY <1>2a, <3>1
      <3>3. 1 - a \in {0, 1}
        BY <1>2a, <2>3, <3>1, <3>2
      <3>4. a = 1
        BY <1>1, <3>3
      <3>5. m - 1 \in T
        BY <3>1, <3>2, <3>4 DEF T
      <3>6. QED
        BY <2>2, <2>3, <3>5
    <2>6. QED
      BY <2>4, <2>5
  <1>7. \A i \in 1..n : run[i] = RunAt(keys, i)
    <2> DEFINE T == {i \in 1..n : run[i] # RunAt(keys, i)}
    <2> SUFFICES ASSUME NEW s \in T PROVE FALSE
      OBVIOUS
    <2>1. T \in SUBSET Nat
      BY <1>1
    <2> HIDE DEF T
    <2>2. PICK m \in T : \A i \in T : m <= i
      BY <2>1, Minimum
    <2>3. m \in 1..n /\ run[m] # RunAt(keys, m)
      BY DEF T
    <2>4. m # 1
      BY <1>5, <1>6, <2>3
    <2>5. m - 1 \in 1..n /\ m > 1 /\ ~(m <= m - 1)
      BY <1>1, <2>3, <2>4
    <2>6. run[m - 1] = RunAt(keys, m - 1)
      BY <2>2, <2>5 DEF T
    <2>7. PICK a \in 1..K, b \in 1..K : a = run[m - 1] /\ b = run[m]
      BY <1>2a, <2>3, <2>5
    <2>8. b - a \in {0, 1} /\ (b = a <=> keys[m] = keys[m - 1])
      BY <1>2a, <2>3, <2>5, <2>7
    <2>9. RunAt(keys, m) = IF keys[m] = keys[m - 1] THEN a ELSE a + 1
      BY <1>5, <2>3, <2>4, <2>6, <2>7
    <2>10. b = IF keys[m] = keys[m - 1] THEN a ELSE a + 1
      BY <1>1, <2>8
    <2>11. QED
      BY <2>3, <2>7, <2>9, <2>10
  <1>8. C = K
    <2>1. \A j : j \in 1..K => j \in 1..C
      BY <1>4, <1>7, <1>2b
    <2>2. ASSUME NEW j \in 1..C PROVE j \in 1..K
      <3>1. PICK i \in 1..n : RunAt(keys, i) = j
        BY <1>4
      <3>2. run[i] = j /\ run[i] \in 1..K
        BY <1>2a, <1>7, <3>1
      <3>3. QED
        BY <3>2
    <2>4. K \in 1..C /\ (C # 0 => C \in 1..K)
      BY <1>1, <1>4, <2>1, <2>2
    <2>3. QED
      BY <1>1, <1>4, <2>4
  <1>9. IsInjective(RunKeys(keys))
    <2>1. ASSUME NEW i \in 1..C, NEW j \in 1..C, RunKeys(keys)[i] = RunKeys(keys)[j]
          PROVE  i = j
      <3>1. PICK a \in 1..n : RunAt(keys, a) = i
        BY <1>4
      <3>2. PICK b \in 1..n : RunAt(keys, b) = j
        BY <1>4
      <3>3. QED
        BY <1>2a, <1>4, <1>7, <2>1, <3>1, <3>2
    <2>2. QED
      BY <1>4, <2>1 DEF IsInjective
  <1>10. OneRunPerExit(z)
    BY <1>1, <1>3, <1>4, <1>6, <1>8, <1>9 DEF OneRunPerExit, Sequenced, keys
  <1>11. ASSUME NEW j \in 1..K PROVE PaidAt(E, z, j)
    <2>1. PICK i \in 1..n : RunAt(keys, i) = j
      BY <1>4, <1>8
    <2>2. run[i] = j /\ RunKeys(keys)[j] = keys[i]
      BY <1>4, <1>7, <2>1
    <2>3. PICK e \in DOMAIN E, x \in KeysAt(0, z.height) :
            OnlyExit(E, e, z.record[j]) /\ keys[i] = <<x.key, E[e].index>>
      BY <1>1, <1>2, <2>2 DEF keys
    <2>4. QED
      BY <2>2, <2>3 DEF PaidAt, OrderKey, keys
  <1>12. QED
    BY <1>1, <1>10, <1>11

LEMMA ForwardsAgree ==
  ASSUME NEW in \in Inputs, NEW t \in DOMAIN in.candidates
  PROVE  Forwards(in.exits, in.candidates[t]) <=>
           /\ Final(in.candidates[t]) /\ IsV6(in.candidates[t])
           /\ Shields(in.candidates[t])
           /\ SpentInRuns(in.exits, in.candidates[t])
  <1>1. PICK E, z : E = in.exits /\ z = in.candidates[t]
    OBVIOUS
  <1>2. /\ z.spenders \in Seq(Range(z.spenders))
        /\ z.record # None => z.record \in Seq(Range(z.record)) /\ Len(z.record) \in 1..4
        /\ \A k \in ExitKeys, e \in DOMAIN E : <<k.key, E[e].index>> # None
    BY <1>1, PayoutAssumption DEF PayoutAssumption
  <1>3. ASSUME Shields(z) PROVE Sequenced(E, z, Len(z.spenders), Len(z.record))
    <2>1. Len(z.spenders) \in Nat /\ DOMAIN z.spenders = 1..Len(z.spenders)
      BY <1>2
    <2>2. z.spenders = << >> <=> Len(z.spenders) = 0
      BY <1>2, EmptySeq
    <2>3. z.record \in Seq(Range(z.record)) /\ Len(z.record) \in 1..4
      BY <1>2, <1>3 DEF Shields
    <2>4. Len(z.record) \in Nat \ {0} /\ DOMAIN z.record = 1..Len(z.record)
      <3>1. DOMAIN z.record = 1..Len(z.record)
        BY <2>3
      <3>2. \A k \in 1..4 : k \in Nat \ {0}
        OBVIOUS
      <3>3. QED
        BY <2>3, <3>1, <3>2, Zenon
    <2>5. QED
      BY <1>2, <2>1, <2>2, <2>3, <2>4 DEF Sequenced
  <1>4. Shields(z) => (OneRunPerExit(z) /\ (\A j \in DOMAIN z.record : PaidAt(E, z, j))
                         <=> SpentInRuns(E, z))
    BY <1>3, RunsOfCode, RunsOfSpec
  <1>5. QED
    BY <1>1, <1>4 DEF Forwards

(* What the loop decided of each candidate it tried. *)
JudgedInv ==
  \A t \in DOMAIN input.candidates \ todo :
    t \in Accepted \/ rejected[t] = "V4" <=> Forwards(exits, Tx(t))

LEMMA JudgedStep == Inv /\ JudgedInv /\ [Next]_vars => JudgedInv'
  <1> SUFFICES ASSUME Inv, JudgedInv, [Next]_vars PROVE JudgedInv'
    OBVIOUS
  <1>1. CASE CandidateLoop
    <2>1. PICK t \in todo : NextCandidate(t) /\ (Accept(t) \/ Refused(t))
      BY <1>1, LoopOutcome
    <2>2. /\ t \in DOMAIN input.candidates /\ todo' = todo \ {t} /\ input' = input
          /\ t \notin DOMAIN rejected
      BY <2>1 DEF NextCandidate, Inv, TypeOK, TriedInOrder
    <2>3. CASE Accept(t)
      <3>1. rejected' = rejected /\ Forwards(exits, Tx(t))
        BY <2>3 DEF Accept
      <3>2. Accepted' = Accepted \cup {t}
        BY <2>2, <3>1 DEF Accepted
      <3>3. QED
        BY <2>2, <3>1, <3>2 DEF JudgedInv, Tx, exits
    <2>4. CASE Refused(t)
      <3>1. PICK rule \in {"Z1", "P1", "P2", "P3", "V1", "V2", "V4"} :
              /\ rejected' = [u \in DOMAIN rejected \cup {t} |->
                                IF u = t THEN rule ELSE rejected[u]]
              /\ (rule = "V4" <=> Forwards(exits, Tx(t)))
        BY <2>4 DEF Refused, Reject
      <3>2. DOMAIN rejected' = DOMAIN rejected \cup {t}
        BY <3>1
      <3>3. Accepted' = Accepted /\ t \notin Accepted
        BY <2>2, <3>2 DEF Accepted
      <3>4. rejected'[t] = rule /\ \A u \in DOMAIN rejected : rejected'[u] = rejected[u]
        BY <2>2, <3>1
      <3>5. ASSUME NEW u \in DOMAIN input.candidates \ todo, u # t
            PROVE  u \in Accepted \/ u \in DOMAIN rejected
        BY DEF Accepted
      <3>6. ASSUME NEW u \in DOMAIN input.candidates \ todo, u # t
            PROVE  u \in Accepted' \/ rejected'[u] = "V4" <=> Forwards(exits, Tx(u))
        <4>1. CASE u \in Accepted
          BY <3>3, <4>1 DEF JudgedInv
        <4>2. CASE u \in DOMAIN rejected /\ u \notin Accepted
          BY <3>3, <3>4, <4>2 DEF JudgedInv
        <4>3. QED
          BY <3>5, <3>6, <4>1, <4>2
      <3>7. QED
        BY <2>2, <3>1, <3>3, <3>4, <3>6 DEF JudgedInv, Tx, exits
    <2>5. QED
      BY <2>1, <2>3, <2>4
  <1>2. CASE Report \/ Returned \/ UNCHANGED vars
    BY <1>2 DEF Report, Returned, vars, JudgedInv, Accepted, Tx, exits
  <1>3. QED
    BY <1>1, <1>2 DEF Next

(* A transaction is accepted, or a duplicate, exactly when its inputs, record
   and pool satisfy SPEC.md 10.4. *)
THEOREM VerdictsOfSpec == Spec => []JudgedByTheRules
  <1>1. Init => JudgedInv
    BY DEF Init, JudgedInv
  <1>2. Inv /\ JudgedInv => JudgedByTheRules
    <2> SUFFICES ASSUME Inv, JudgedInv PROVE JudgedByTheRules
      OBVIOUS
    <2>1. input \in Inputs
      BY DEF Inv, TypeOK
    <2>2. QED
      BY <2>1, PayoutAssumption, ForwardsAgree DEF JudgedInv, JudgedByTheRules, Tx, exits
  <1>3. QED
    BY <1>1, <1>2, Invariance, JudgedStep, PTL DEF Spec

-----------------------------------------------------------------------------
(* The states.  Once reported, they follow from stamps that no longer move. *)

StatesInv ==
  states # None =>
    /\ todo = {}
    /\ \A e \in DOMAIN exits \ input.unresolved :
         states[e] = "stamped" <=> e \in DOMAIN stampOf

LEMMA StatesStep == Inv /\ StatesInv /\ [Next]_vars => StatesInv'
  <1> SUFFICES ASSUME Inv, StatesInv, [Next]_vars PROVE StatesInv'
    OBVIOUS
  <1>1. CASE CandidateLoop
    <2>1. PICK t \in todo : NextCandidate(t)
      BY <1>1, LoopOutcome
    <2>2. QED
      BY <2>1 DEF StatesInv, NextCandidate
  <1>2. CASE Report
    <2>1. \A e \in DOMAIN exits \ input.unresolved :
            State(e) = "stamped" <=> e \in DOMAIN stampOf
      BY DEF State
    <2>2. QED
      BY <1>2, <2>1 DEF Report, StatesInv, exits
  <1>3. CASE Returned \/ UNCHANGED vars
    BY <1>3 DEF Returned, vars, StatesInv, exits
  <1>4. QED
    BY <1>1, <1>2, <1>3 DEF Next

(* An exit that was read is reported as stamped exactly when a forward that
   was not rejected names it. *)
THEOREM HonestStates == Spec => []StatesHonest
  <1>1. Init => StatesInv
    BY DEF Init, StatesInv
  <1>2. Inv /\ StatesInv => StatesHonest
    BY DEF Inv, AllOrNothing, StatesInv, StatesHonest
  <1>3. QED
    BY <1>1, <1>2, Invariance, StatesStep, PTL DEF Spec


-----------------------------------------------------------------------------
(* The total.  A transaction that pays several exits is the stamp of each,  *)
(* and the pairs of id and amount it gives them are one.                    *)

Inflows(A) == [t \in A |-> Tx(t).intoPool]

Inflow(A) == SumFunctionOnSet(Inflows(A), A)

PooledInv == states # None => todo = {} /\ pooled = Inflow(Accepted)

LEMMA InflowIs ==
  ASSUME NEW A
  PROVE  Inflow(A) = MapThenSumSet(LAMBDA t : Tx(t).intoPool, A)
  BY DEF Inflow, Inflows, SumFunctionOnSet, FoldFunctionOnSet, MapThenFoldSet,
         MapThenSumSet

(* The stamps there are, one pair for each transaction. *)
Pairs == {<<stampOf[e].id, stampOf[e].intoPool>> : e \in DOMAIN stampOf}

Second(P) == [s \in P |-> s[2]]

LEMMA SumPerTxIs == SumPerTx = SumFunctionOnSet(Second(Pairs), Pairs)
  BY DEF SumPerTx, Pairs, Second, SumFunctionOnSet, FoldFunctionOnSet,
         MapThenFoldSet, MapThenSumSet

LEMMA EachPaysSomething ==
  ASSUME Inv, JudgedInv, NEW t \in Accepted
  PROVE  Tx(t).intoPool \in Int /\ \E e \in DOMAIN stampOf : stampOf[e].id = t
  <1>1. /\ t \in DOMAIN input.candidates \ todo /\ input \in Inputs
        /\ Forwards(exits, Tx(t))
    BY DEF Accepted, JudgedInv, Inv, TypeOK
  <1>2. Tx(t).intoPool \in Int
    BY <1>1, PayoutAssumption DEF PayoutAssumption, Forwards, Shields, Tx
  <1>3. 1 \in DOMAIN Tx(t).record
    <2>1. Tx(t).record \in Seq(Range(Tx(t).record)) /\ Len(Tx(t).record) \in 1..4
      BY <1>1, PayoutAssumption DEF PayoutAssumption, Forwards, Shields, Tx
    <2>2. QED
      BY <2>1
  <1>4. NamedBy(exits, Tx(t)) # {}
    BY <1>1, <1>3 DEF Forwards, PaidAt, NamedBy
  <1>5. QED
    BY <1>2, <1>4 DEF Inv, AllOrNothing

LEMMA SumsAreOne ==
  ASSUME Inv, JudgedInv
  PROVE  SumPerTx = Inflow(Accepted)
  <1> DEFINE A == Accepted
             h == [t \in A |-> <<t, Tx(t).intoPool>>]
  <1>1. \A t \in A : Tx(t).intoPool \in Int /\ \E e \in DOMAIN stampOf : stampOf[e].id = t
    BY EachPaysSomething
  <1>2. IsFiniteSet(A)
    <2>1. input \in Inputs
      BY DEF Inv, TypeOK
    <2>2. IsFiniteSet(DOMAIN input.candidates)
      BY <2>1, PayoutAssumption DEF PayoutAssumption
    <2>3. QED
      BY <2>2, FS_Subset DEF Accepted
  <1>3. \A e \in DOMAIN stampOf :
          stampOf[e].id \in A /\ stampOf[e].intoPool = Tx(stampOf[e].id).intoPool
    BY DEF Inv, TypeOK, AllOrNothing
  <1> HIDE DEF A
  <1>4. Pairs = {h[t] : t \in A}
    BY <1>1, <1>3 DEF Pairs
  <1>5. \A t, u \in A : h[t] = h[u] => t = u
    OBVIOUS
  <1>6. \A t \in A : Second(Pairs)[h[t]] = Tx(t).intoPool
    BY <1>4 DEF Second
  <1> HIDE DEF h
  <1>7. SumFunctionOnSet(Second(Pairs), {h[t] : t \in A})
          = SumFunctionOnSet([t \in A |-> Second(Pairs)[h[t]]], A)
    BY <1>1, <1>2, <1>5, <1>6, SumRenamed
  <1>8. [t \in A |-> Second(Pairs)[h[t]]] = Inflows(A)
    BY <1>6 DEF Inflows
  <1>9. QED
    BY <1>4, <1>7, <1>8, SumPerTxIs DEF Inflow, A

LEMMA PooledStep == Inv /\ JudgedInv /\ PooledInv /\ [Next]_vars => PooledInv'
  <1> SUFFICES ASSUME Inv, JudgedInv, PooledInv, [Next]_vars PROVE PooledInv'
    OBVIOUS
  <1>1. CASE CandidateLoop
    <2>1. PICK t \in todo : NextCandidate(t)
      BY <1>1, LoopOutcome
    <2>2. QED
      BY <2>1 DEF PooledInv, NextCandidate
  <1>2. ASSUME UNCHANGED <<input, todo, stampOf, rejected>>
        PROVE  Inflow(Accepted)' = Inflow(Accepted)
    BY <1>2 DEF Inflow, Inflows, Accepted, Tx
  <1>3. CASE Report
    BY <1>2, <1>3, SumsAreOne DEF Report, PooledInv
  <1>4. CASE Returned \/ UNCHANGED vars
    BY <1>2, <1>4 DEF Returned, vars, PooledInv
  <1>5. QED
    BY <1>1, <1>3, <1>4 DEF Next

(* The total put into the pool counts each accepted transaction once, however
   many exits it pays (ledger.ts, totals.intoPool). *)
THEOREM PoolCountsOnce == Spec => []PooledOnce
  <1>1. Init => JudgedInv /\ PooledInv
    BY DEF Init, JudgedInv, PooledInv
  <1>2. PooledInv => PooledOnce
    BY InflowIs DEF PooledInv, PooledOnce
  <1>3. QED
    BY <1>1, <1>2, Invariance, JudgedStep, PooledStep, PTL DEF Spec
=============================================================================
