---------------------------- MODULE LedgerProofs ----------------------------
(***************************************************************************)
(* Ledger for every value of its constants: its types, V4 (the first       *)
(* qualifying candidate in chain order is the stamp), the honesty of what  *)
(* it rejects, and that it keeps the promise of StampPromise.              *)
(***************************************************************************)
EXTENDS Ledger, CountProofs

(* What the first loop keeps: it has reached the refunds up to some time,
   and refundedAt holds the earliest matching one of those, per request. *)
RefundInv ==
  /\ \A f \in input.refunds \ refundsLeft, g \in refundsLeft : f.time <= g.time
  /\ \A s \in DOMAIN refundedAt :
       \E f \in RefundsOf(input, s) \ refundsLeft : refundedAt[s] = f.time
  /\ \A s \in DOMAIN requests :
       \A f \in RefundsOf(input, s) \ refundsLeft :
         s \in DOMAIN refundedAt /\ refundedAt[s] <= f.time

(* What the second loop keeps: a request of which a qualifying candidate has
   been reached holds its stamp, and that stamp is the first one. *)
StampInv ==
  /\ FirstInChainWins
  /\ \A t \in DOMAIN input.candidates \ todo, s \in DOMAIN requests :
       Qualifies(input, t, s) => s \in DOMAIN stampOf

(* The states are reported when both loops are over. *)
ReportInv == states # None => refundsLeft = {} /\ todo = {}

Inv == TypeOK /\ RefundInv /\ StampInv /\ ReportInv

-----------------------------------------------------------------------------
(* Once all refunds are counted, the test of the code (the earliest refund is
   earlier than the block) is the rule V5 (no refund is). *)
LEMMA EarliestRefundDecides ==
  ASSUME TypeOK, RefundInv, refundsLeft = {},
         NEW t \in DOMAIN input.candidates, NEW s \in DOMAIN requests
  PROVE  ~AfterRefund(t, s) <=> \A f \in RefundsOf(input, s) : MinedBy(f.time, Tx(t))
  <1>1. /\ \A f \in input.refunds : f.time \in Int
        /\ Tx(t).time \in Int \cup {None}
    BY InputsAssumption DEF TypeOK, Tx
  <1>2. RefundsOf(input, s) \subseteq input.refunds
    BY DEF RefundsOf
  <1>3. CASE s \in DOMAIN refundedAt
    <2>1. PICK f \in RefundsOf(input, s) : refundedAt[s] = f.time
      BY <1>3 DEF RefundInv
    <2>2. \A g \in RefundsOf(input, s) : f.time <= g.time
      BY <2>1 DEF RefundInv
    <2>3. QED
      BY <1>1, <1>2, <1>3, <2>1, <2>2 DEF AfterRefund, MinedBy
  <1>4. CASE s \notin DOMAIN refundedAt
    BY <1>4 DEF AfterRefund, RefundInv
  <1>5. QED
    BY <1>3, <1>4

(* A record names one request at most. *)
LEMMA NamesOne ==
  ASSUME NEW R, NEW z, NEW s, NEW q, Names(R, z, s), Names(R, z, q)
  PROVE  s = q
  BY DEF Names

(* A candidate that the loop accepts, or finds to be a duplicate, qualifies. *)
LEMMA DeliversQualifies ==
  ASSUME TypeOK, RefundInv,
         NEW t \in DOMAIN input.candidates, NEW s \in DOMAIN requests,
         Delivers(t, s)
  PROVE  ~AfterRefund(t, s) <=> Qualifies(input, t, s)
  <1>1. refundsLeft = {}
    BY DEF Delivers, Considers, NextCandidate
  <1>2. QED
    BY <1>1, EarliestRefundDecides
    DEF Delivers, Considers, Qualifies, Tx, requests

(* The rules a rejection can name. *)
Rules == {"Z1", "Z2", "Z3", "V1", "V2", "V3", "V4", "V5"}

(* What one turn of the second loop does to candidate t, whichever way it
   ends: it becomes the stamp of a request it qualifies for and that has none,
   or it is rejected, as a duplicate if and only if it qualifies. *)
Accepted(t) ==
  /\ \E s \in DOMAIN requests :
       /\ Qualifies(input, t, s)
       /\ s \notin DOMAIN stampOf
       /\ stampOf' = Put(stampOf, s, t)
  /\ UNCHANGED rejected

Refused(t) ==
  \E rule \in Rules :
    /\ Reject(t, rule)
    /\ IF rule = "V4"
       THEN \E s \in DOMAIN stampOf : Qualifies(input, t, s)
       ELSE \A s \in DOMAIN requests : ~Qualifies(input, t, s)

LEMMA LoopOutcome ==
  ASSUME TypeOK, RefundInv, CandidateLoop
  PROVE  \E t \in todo : NextCandidate(t) /\ (Accepted(t) \/ Refused(t))
  <1>1. PICK t \in todo :
          \/ NotFinal(t) \/ NotIssuers(t) \/ NoRecord(t) \/ Unmatched(t)
          \/ \E s \in DOMAIN requests :
               \/ WrongMode(t, s) \/ WrongAmounts(t, s) \/ Misdirected(t, s)
               \/ TooLate(t, s) \/ Duplicate(t, s) \/ Accept(t, s)
    BY DEF CandidateLoop
  <1>2. t \in DOMAIN input.candidates
    BY DEF TypeOK
  <1>3. CASE NotFinal(t) \/ NotIssuers(t) \/ NoRecord(t)
    <2>1. \A s : ~Qualifies(input, t, s)
      BY <1>3 DEF NotFinal, NotIssuers, NoRecord, Qualifies, IsCandidate, Tx
    <2>2. QED
      BY <1>3, <2>1 DEF NotFinal, NotIssuers, NoRecord, Refused, Rules
  <1>4. CASE Unmatched(t)
    <2>1. \A s \in DOMAIN requests : ~Qualifies(input, t, s)
      BY <1>4 DEF Unmatched, Qualifies, Tx, requests
    <2>2. QED
      BY <1>4, <2>1 DEF Unmatched, Refused, Rules
  <1>5. ASSUME NEW s \in DOMAIN requests, Considers(t, s)
        PROVE  \A q \in DOMAIN requests : Qualifies(input, t, q) => q = s
    BY <1>5, NamesOne DEF Considers, Qualifies, Tx, requests
  <1>6. ASSUME NEW s \in DOMAIN requests,
               WrongMode(t, s) \/ WrongAmounts(t, s) \/ Misdirected(t, s)
        PROVE  NextCandidate(t) /\ Refused(t)
    <2>1. Considers(t, s)
      BY <1>6 DEF WrongMode, WrongAmounts, Misdirected
    <2>2. ~Qualifies(input, t, s)
      BY <1>6 DEF WrongMode, WrongAmounts, Misdirected, Qualifies, Tx, requests
    <2>3. \A q \in DOMAIN requests : ~Qualifies(input, t, q)
      BY <1>5, <2>1, <2>2
    <2>4. QED
      BY <1>6, <2>1, <2>3
      DEF WrongMode, WrongAmounts, Misdirected, Considers, Refused, Rules
  <1>7. ASSUME NEW s \in DOMAIN requests,
               TooLate(t, s) \/ Duplicate(t, s) \/ Accept(t, s)
        PROVE  NextCandidate(t) /\ (Accepted(t) \/ Refused(t))
    <2>1. Delivers(t, s) /\ Considers(t, s) /\ NextCandidate(t)
      BY <1>7 DEF TooLate, Duplicate, Accept, Delivers, Considers
    <2>2. ~AfterRefund(t, s) <=> Qualifies(input, t, s)
      BY <1>2, <2>1, DeliversQualifies
    <2>3. CASE TooLate(t, s)
      <3>1. \A q \in DOMAIN requests : ~Qualifies(input, t, q)
        BY <1>5, <2>1, <2>2, <2>3 DEF TooLate
      <3>2. QED
        BY <2>1, <2>3, <3>1 DEF TooLate, Refused, Rules
    <2>4. CASE Duplicate(t, s)
      BY <2>1, <2>2, <2>4 DEF Duplicate, Stamped, Refused, Rules
    <2>5. CASE Accept(t, s)
      BY <2>1, <2>2, <2>5 DEF Accept, Stamped, Accepted
    <2>6. QED
      BY <1>7, <2>3, <2>4, <2>5
  <1>8. QED
    BY <1>1, <1>3, <1>4, <1>6, <1>7 DEF Unmatched, NotFinal, NotIssuers, NoRecord

-----------------------------------------------------------------------------
(* The invariant is inductive.                                             *)

LEMMA InitInv == Init => Inv
  <1> SUFFICES ASSUME Init PROVE Inv
    OBVIOUS
  <1>1. /\ DOMAIN refundedAt = {} /\ DOMAIN stampOf = {} /\ DOMAIN rejected = {}
        /\ refundsLeft = input.refunds /\ todo = DOMAIN input.candidates
    BY DEF Init
  <1>2. TypeOK
    BY <1>1 DEF Init, TypeOK
  <1>3. RefundInv
    BY <1>1 DEF RefundInv, RefundsOf
  <1>4. StampInv
    BY <1>1 DEF StampInv, FirstInChainWins
  <1>5. ReportInv
    BY DEF Init, ReportInv
  <1>6. QED
    BY <1>2, <1>3, <1>4, <1>5 DEF Inv

LEMMA RefundStep ==
  ASSUME Inv, NEW f \in refundsLeft, CountRefund(f) \/ SkipRefund(f)
  PROVE  Inv'
  <1>1. /\ \A g \in refundsLeft : f.time <= g.time
        /\ refundsLeft' = refundsLeft \ {f}
        /\ UNCHANGED <<input, todo, stampOf, rejected>>
        /\ ReportInv'
    BY DEF CountRefund, SkipRefund, NextRefund, Inv, ReportInv
  <1>2. f \in input.refunds /\ \A g \in input.refunds : g.time \in Int
    BY InputsAssumption DEF Inv, TypeOK
  <1>3. StampInv'
    BY <1>1 DEF Inv, StampInv, FirstInChainWins, requests
  <1>4. \A g \in input.refunds \ refundsLeft, h \in refundsLeft : g.time <= h.time
    BY DEF Inv, RefundInv
  <1>5. (\A g \in input.refunds \ refundsLeft, h \in refundsLeft : g.time <= h.time)'
    BY <1>1, <1>2, <1>4
  <1>6. CASE CountRefund(f)
    <2>1. /\ f.of \in DOMAIN requests
          /\ Repays(f, requests[f.of])
          /\ f.of \notin DOMAIN refundedAt
          /\ refundedAt' = Put(refundedAt, f.of, f.time)
      BY <1>6 DEF CountRefund, Counts
    <2>2. /\ DOMAIN refundedAt' = DOMAIN refundedAt \cup {f.of}
          /\ refundedAt'[f.of] = f.time
          /\ \A s \in DOMAIN refundedAt : refundedAt'[s] = refundedAt[s]
      BY <2>1 DEF Put
    <2>3. f \in RefundsOf(input, f.of)
      BY <1>2, <2>1 DEF RefundsOf, requests
    <2>4. TypeOK'
      BY <1>1, <1>2, <2>1, <2>2 DEF Inv, TypeOK, requests
    <2>5. \A s \in DOMAIN refundedAt' :
            \E g \in RefundsOf(input, s) \ refundsLeft' : refundedAt'[s] = g.time
      BY <1>1, <2>2, <2>3 DEF Inv, RefundInv
    <2>6. ASSUME NEW s \in DOMAIN requests, NEW g \in RefundsOf(input, s) \ refundsLeft'
          PROVE  s \in DOMAIN refundedAt' /\ refundedAt'[s] <= g.time
      <3>1. g \in input.refunds /\ g.of = s
        BY DEF RefundsOf
      <3>2. CASE g = f
        BY <1>2, <2>2, <3>1, <3>2
      <3>3. CASE g # f
        <4>1. g \in RefundsOf(input, s) \ refundsLeft
          BY <1>1, <3>3
        <4>2. QED
          BY <2>2, <4>1 DEF Inv, RefundInv
      <3>4. QED
        BY <3>2, <3>3
    <2>7. RefundInv'
      BY <1>1, <1>5, <2>5, <2>6 DEF RefundInv, requests
    <2>8. QED
      BY <1>1, <1>3, <2>4, <2>7 DEF Inv
  <1>7. CASE SkipRefund(f)
    <2>1. UNCHANGED refundedAt /\ ~Counts(f)
      BY <1>7 DEF SkipRefund
    <2>2. TypeOK'
      BY <1>1, <2>1 DEF Inv, TypeOK, requests
    <2>3. ASSUME NEW s \in DOMAIN requests, NEW g \in RefundsOf(input, s) \ refundsLeft'
          PROVE  s \in DOMAIN refundedAt /\ refundedAt[s] <= g.time
      <3>1. CASE g = f
        <4>1. g.of = s /\ Repays(g, requests[s])
          BY DEF RefundsOf, requests
        <4>2. s \in DOMAIN refundedAt
          BY <2>1, <3>1, <4>1 DEF Counts
        <4>3. PICK h \in RefundsOf(input, s) \ refundsLeft : refundedAt[s] = h.time
          BY <4>2 DEF Inv, RefundInv
        <4>4. h.time <= f.time
          BY <1>4, <4>3 DEF RefundsOf
        <4>5. QED
          BY <3>1, <4>2, <4>3, <4>4
      <3>2. CASE g # f
        BY <1>1, <3>2 DEF Inv, RefundInv
      <3>3. QED
        BY <3>1, <3>2
    <2>8. QED
      BY <1>1, <1>3, <1>5, <2>1, <2>2, <2>3 DEF Inv, RefundInv, requests
  <1>8. QED
    BY <1>6, <1>7

LEMMA CandidateStep ==
  ASSUME Inv, CandidateLoop
  PROVE  Inv'
  <1>1. PICK t \in todo : NextCandidate(t) /\ (Accepted(t) \/ Refused(t))
    BY LoopOutcome DEF Inv
  <1>2. /\ t \in DOMAIN input.candidates
        /\ todo' = todo \ {t}
        /\ UNCHANGED <<input, refundsLeft, refundedAt>>
        /\ \A u \in todo : ~Before(Tx(u), Tx(t))
    BY <1>1 DEF Inv, TypeOK, NextCandidate
  <1>3. RefundInv' /\ ReportInv'
    BY <1>1, <1>2 DEF Inv, RefundInv, ReportInv, requests, NextCandidate
  <1>4. CASE Accepted(t)
    <2>1. PICK s \in DOMAIN requests :
            /\ Qualifies(input, t, s)
            /\ s \notin DOMAIN stampOf
            /\ stampOf' = Put(stampOf, s, t)
      BY <1>4 DEF Accepted
    <2>2. /\ DOMAIN stampOf' = DOMAIN stampOf \cup {s}
          /\ stampOf'[s] = t
          /\ \A q \in DOMAIN stampOf : stampOf'[q] = stampOf[q]
      BY <2>1 DEF Put
    <2>3. TypeOK'
      BY <1>2, <1>4, <2>2 DEF Accepted, Inv, TypeOK, requests
    <2>4. IsFirst(input, t, s)
      <3>1. ASSUME NEW u \in DOMAIN input.candidates, Qualifies(input, u, s)
            PROVE  ~Before(input.candidates[u], input.candidates[t])
        <4>1. u \in todo
          BY <2>1, <3>1 DEF Inv, StampInv
        <4>2. QED
          BY <1>2, <4>1 DEF Tx
      <3>2. QED
        BY <1>2, <2>1, <3>1 DEF IsFirst
    <2>5. \A q \in DOMAIN requests : Qualifies(input, t, q) => q = s
      BY <2>1, NamesOne DEF Qualifies
    <2>6. (\A q \in DOMAIN stampOf : IsFirst(input, stampOf[q], q))'
      BY <1>2, <2>2, <2>4 DEF Inv, StampInv, FirstInChainWins
    <2>7. StampInv'
      BY <1>2, <2>1, <2>2, <2>5, <2>6
      DEF Inv, StampInv, FirstInChainWins, requests
    <2>8. QED
      BY <1>3, <2>3, <2>7 DEF Inv
  <1>5. CASE Refused(t)
    <2>1. PICK rule \in Rules :
            /\ Reject(t, rule)
            /\ IF rule = "V4"
               THEN \E s \in DOMAIN stampOf : Qualifies(input, t, s)
               ELSE \A s \in DOMAIN requests : ~Qualifies(input, t, s)
      BY <1>5 DEF Refused
    <2>2. /\ UNCHANGED stampOf
          /\ DOMAIN rejected' = DOMAIN rejected \cup {t}
          /\ rejected'[t] = rule
          /\ \A u \in DOMAIN rejected : u # t => rejected'[u] = rejected[u]
      BY <2>1 DEF Reject, Put
    <2>3. TypeOK'
      BY <1>2, <2>2 DEF Inv, TypeOK, requests, Rules
    <2>4. \A s \in DOMAIN requests : Qualifies(input, t, s) => s \in DOMAIN stampOf
      BY <2>1, NamesOne DEF Inv, TypeOK, Qualifies, Tx
    <2>5. StampInv'
      BY <1>2, <2>2, <2>4 DEF Inv, StampInv, FirstInChainWins, requests
    <2>6. QED
      BY <1>3, <2>3, <2>5 DEF Inv
  <1>6. QED
    BY <1>1, <1>4, <1>5

LEMMA NextInv == Inv /\ [Next]_vars => Inv'
  <1> SUFFICES ASSUME Inv, [Next]_vars PROVE Inv'
    OBVIOUS
  <1>1. CASE RefundLoop
    BY <1>1, RefundStep DEF RefundLoop
  <1>2. CASE CandidateLoop
    BY <1>2, CandidateStep
  <1>3. CASE Report
    BY <1>3 DEF Report, Inv, TypeOK, RefundInv, StampInv, FirstInChainWins,
                ReportInv, requests
  <1>4. CASE Returned \/ UNCHANGED vars
    BY <1>4 DEF Returned, vars, Inv, TypeOK, RefundInv, StampInv,
                FirstInChainWins, ReportInv, requests
  <1>5. QED
    BY <1>1, <1>2, <1>3, <1>4 DEF Next

THEOREM Invariance == Spec => []Inv
  BY InitInv, NextInv, PTL DEF Spec

(* Every variable keeps its type. *)
THEOREM TypesKept == Spec => []TypeOK
  BY Invariance, PTL DEF Inv

(* V4: whatever the requests, the refunds and the candidates are, the stamp
   of a request is the first candidate in chain order that qualifies for it. *)
THEOREM FirstWins == Spec => []FirstInChainWins
  BY Invariance, PTL DEF Inv, StampInv

-----------------------------------------------------------------------------
(* Rejections, and the account of every candidate.                         *)

LEMMA HonestStep ==
  ASSUME Inv, RejectionsHonest, CandidateLoop
  PROVE  RejectionsHonest'
  <1>1. PICK t \in todo : NextCandidate(t) /\ (Accepted(t) \/ Refused(t))
    BY LoopOutcome DEF Inv
  <1>2. UNCHANGED input /\ t \in todo /\ todo \subseteq DOMAIN input.candidates
    BY <1>1 DEF NextCandidate, Inv, TypeOK
  <1>3. /\ DOMAIN stampOf \subseteq DOMAIN stampOf'
        /\ \A s \in DOMAIN stampOf : stampOf'[s] = stampOf[s]
    BY <1>1 DEF Accepted, Refused, Reject, Put
  <1>4. ASSUME NEW u \in DOMAIN rejected, rejected'[u] = rejected[u]
        PROVE  (IF rejected[u] = "V4"
                THEN \E s \in DOMAIN stampOf :
                       /\ Qualifies(input, u, s)
                       /\ ~Before(Tx(u), Tx(stampOf[s]))
                ELSE \A s \in DOMAIN requests : ~Qualifies(input, u, s))'
    BY <1>2, <1>3, <1>4 DEF RejectionsHonest, Tx, requests
  <1>5. CASE Accepted(t)
    BY <1>4, <1>5 DEF Accepted, RejectionsHonest
  <1>6. CASE Refused(t)
    <2>1. PICK rule \in Rules :
            /\ Reject(t, rule)
            /\ IF rule = "V4"
               THEN \E s \in DOMAIN stampOf : Qualifies(input, t, s)
               ELSE \A s \in DOMAIN requests : ~Qualifies(input, t, s)
      BY <1>6 DEF Refused
    <2>2. /\ DOMAIN rejected' = DOMAIN rejected \cup {t}
          /\ rejected'[t] = rule
          /\ \A u \in DOMAIN rejected : u # t => rejected'[u] = rejected[u]
      BY <2>1 DEF Reject, Put
    <2>3. ASSUME NEW s \in DOMAIN stampOf, Qualifies(input, t, s)
          PROVE  ~Before(Tx(t), Tx(stampOf[s]))
      BY <1>2, <2>3 DEF Inv, StampInv, FirstInChainWins, IsFirst, Tx
    <2>4. (IF rejected[t] = "V4"
           THEN \E s \in DOMAIN stampOf :
                  /\ Qualifies(input, t, s)
                  /\ ~Before(Tx(t), Tx(stampOf[s]))
           ELSE \A s \in DOMAIN requests : ~Qualifies(input, t, s))'
      BY <1>2, <1>3, <2>1, <2>2, <2>3 DEF Tx, requests
    <2>5. QED
      BY <1>4, <2>2, <2>4 DEF RejectionsHonest
  <1>7. QED
    BY <1>1, <1>5, <1>6

(* A candidate is reported as a duplicate only if it qualifies and the stamp
   it duplicates is not after it; rejected for anything else, it qualifies for
   no request. *)
THEOREM Honesty == Spec => []RejectionsHonest
  <1>1. Init => RejectionsHonest
    BY DEF Init, RejectionsHonest
  <1>2. Inv /\ RejectionsHonest /\ [Next]_vars => RejectionsHonest'
    <2> SUFFICES ASSUME Inv, RejectionsHonest, [Next]_vars
                 PROVE  RejectionsHonest'
      OBVIOUS
    <2>1. CASE CandidateLoop
      BY <2>1, HonestStep
    <2>2. CASE RefundLoop \/ Report \/ Returned \/ UNCHANGED vars
      BY <2>2 DEF RefundLoop, CountRefund, SkipRefund, NextRefund, Report,
                  Returned, vars, RejectionsHonest, Tx, requests
    <2>3. QED
      BY <2>1, <2>2 DEF Next
  <1>3. QED
    BY <1>1, <1>2, Invariance, PTL DEF Spec

LEMMA AccountStep ==
  ASSUME Inv, EveryCandidateAccounted, CandidateLoop
  PROVE  EveryCandidateAccounted'
  <1>1. PICK t \in todo : NextCandidate(t) /\ (Accepted(t) \/ Refused(t))
    BY LoopOutcome DEF Inv
  <1>2. /\ UNCHANGED input
        /\ todo' = todo \ {t}
        /\ t \in todo
        /\ todo \subseteq DOMAIN input.candidates
    BY <1>1 DEF NextCandidate, Inv, TypeOK
  <1> DEFINE stamps == {stampOf[s] : s \in DOMAIN stampOf}
  <1>3. /\ \A s, q \in DOMAIN stampOf : stampOf[s] = stampOf[q] => s = q
        /\ stamps \cap DOMAIN rejected = {}
        /\ stamps \cup DOMAIN rejected = DOMAIN input.candidates \ todo
    BY DEF EveryCandidateAccounted
  <1>4. t \notin stamps /\ t \notin DOMAIN rejected
    BY <1>2, <1>3
  <1>5. CASE Accepted(t)
    <2>1. PICK s \in DOMAIN requests :
            s \notin DOMAIN stampOf /\ stampOf' = Put(stampOf, s, t)
      BY <1>5 DEF Accepted
    <2>2. /\ DOMAIN stampOf' = DOMAIN stampOf \cup {s}
          /\ stampOf'[s] = t
          /\ \A q \in DOMAIN stampOf : stampOf'[q] = stampOf[q]
      BY <2>1 DEF Put
    <2>3. stamps' = stamps \cup {t}
      BY <2>1, <2>2
    <2>4. \A r, q \in DOMAIN stampOf' : stampOf'[r] = stampOf'[q] => r = q
      BY <1>3, <1>4, <2>1, <2>2
    <2>5. UNCHANGED rejected
      BY <1>5 DEF Accepted
    <2>6. QED
      BY <1>2, <1>3, <1>4, <2>3, <2>4, <2>5 DEF EveryCandidateAccounted
  <1>6. CASE Refused(t)
    <2>1. UNCHANGED stampOf /\ DOMAIN rejected' = DOMAIN rejected \cup {t}
      BY <1>6 DEF Refused, Reject, Put
    <2>2. QED
      BY <1>2, <1>3, <1>4, <2>1 DEF EveryCandidateAccounted
  <1>7. QED
    BY <1>1, <1>5, <1>6

(* No candidate is lost, is the stamp of two requests, or is both a stamp and
   a rejection. *)
THEOREM Accounting == Spec => []EveryCandidateAccounted
  <1>1. Init => EveryCandidateAccounted
    BY DEF Init, EveryCandidateAccounted
  <1>2. Inv /\ EveryCandidateAccounted /\ [Next]_vars => EveryCandidateAccounted'
    <2> SUFFICES ASSUME Inv, EveryCandidateAccounted, [Next]_vars
                 PROVE  EveryCandidateAccounted'
      OBVIOUS
    <2>1. CASE CandidateLoop
      BY <2>1, AccountStep
    <2>2. CASE RefundLoop \/ Report \/ Returned \/ UNCHANGED vars
      BY <2>2 DEF RefundLoop, CountRefund, SkipRefund, NextRefund, Report,
                  Returned, vars, EveryCandidateAccounted
    <2>3. QED
      BY <2>1, <2>2 DEF Next
  <1>3. QED
    BY <1>1, <1>2, Invariance, PTL DEF Spec

-----------------------------------------------------------------------------
(* The invariant that is reported.                                         *)

(* Once both loops are over, a request is stamped or refunded in the ledger
   exactly when one of the candidates or refunds makes it so. *)
LEMMA AllCounted ==
  ASSUME Inv, refundsLeft = {}, todo = {}, NEW s \in DOMAIN requests
  PROVE  /\ s \in DOMAIN stampOf <=>
              \E t \in DOMAIN input.candidates : Qualifies(input, t, s)
         /\ s \in DOMAIN refundedAt <=> RefundsOf(input, s) # {}
  <1>1. s \in DOMAIN stampOf =>
          \E t \in DOMAIN input.candidates : Qualifies(input, t, s)
    BY DEF Inv, StampInv, FirstInChainWins, IsFirst
  <1>2. ASSUME NEW t \in DOMAIN input.candidates, Qualifies(input, t, s)
        PROVE  s \in DOMAIN stampOf
    BY <1>2 DEF Inv, StampInv
  <1>3. s \in DOMAIN refundedAt <=> RefundsOf(input, s) # {}
    BY DEF Inv, RefundInv
  <1>4. QED
    BY <1>1, <1>2, <1>3

LEMMA ReportIsHonest ==
  ASSUME Inv, Report
  PROVE  InvariantHonest'
  <1> DEFINE Read == DOMAIN requests \ input.unresolved
             Both(s) == s \in DOMAIN stampOf /\ s \in DOMAIN refundedAt
             Neither(s) == s \notin DOMAIN stampOf \cup DOMAIN refundedAt /\ Due(s)
  <1>1. refundsLeft = {} /\ todo = {} /\ UNCHANGED input
    BY DEF Report
  <1>2. ASSUME NEW s \in DOMAIN requests
        PROVE  /\ State(s) = "stamped" /\ s \in DOMAIN refundedAt
                    <=> s \in Read /\ Both(s)
               /\ State(s) = "overdue" <=> s \in Read /\ Neither(s)
    BY DEF State
  <1>3. problems' = {} <=> \A s \in Read : ~Both(s) /\ ~Neither(s)
    <2> DEFINE B == {q \in DOMAIN requests : State(q) = "stamped" /\ q \in DOMAIN refundedAt}
               O == {q \in DOMAIN requests : State(q) = "overdue"}
    <2>1. problems' = {<<"both", s>> : s \in B} \cup {<<"overdue", s>> : s \in O}
      BY DEF Report
    <2>2. Read \subseteq DOMAIN requests
      OBVIOUS
    <2>3. B = {s \in Read : Both(s)} /\ O = {s \in Read : Neither(s)}
      BY <1>2, <2>2
    <2> HIDE DEF B, O, Both, Neither, Read
    <2>4. problems' = {} <=> B = {} /\ O = {}
      BY <2>1
    <2>5. QED
      BY <2>3, <2>4
  <1>4. ASSUME NEW s \in Read
        PROVE  ~Due(s) <=> input.now - requests[s].time < RefundAfter
    <2>1. input \in Inputs
      BY DEF Inv, TypeOK
    <2>2. input.now \in Int /\ requests[s].time \in Int /\ RefundAfter \in Int
      BY <2>1, InputsAssumption, ParamsAssumption DEF requests
    <2>3. QED
      BY <2>2 DEF Due
  <1> HIDE DEF Neither, Both
  <1>5. QED
    <2> DEFINE HasStamp(s) == \E t \in DOMAIN input.candidates : Qualifies(input, t, s)
               Repaid(s) == RefundsOf(input, s) # {}
               Fair(s) == /\ ~(HasStamp(s) /\ Repaid(s))
                          /\ \/ HasStamp(s) \/ Repaid(s)
                             \/ input.now - requests[s].time < RefundAfter
    <2>1. ASSUME NEW s \in Read
          PROVE  ~Both(s) /\ ~Neither(s) <=> Fair(s)
      BY <1>1, <1>4, AllCounted DEF Both, Neither
    <2>2. problems' = {} <=> \A s \in Read : Fair(s)
      BY <1>3, <2>1
    <2>3. QED
      BY <1>1, <2>2 DEF InvariantHonest, requests

(* The invariant of SPEC.md 7 is reported as holding exactly when it does, for
   every set of requests, refunds and candidates. *)
THEOREM InvariantTrue == Spec => []InvariantHonest
  <1>1. Init => InvariantHonest
    BY DEF Init, InvariantHonest
  <1>2. Inv /\ InvariantHonest /\ [Next]_vars => InvariantHonest'
    <2> SUFFICES ASSUME Inv, InvariantHonest, [Next]_vars PROVE InvariantHonest'
      OBVIOUS
    <2>1. CASE Report
      BY <2>1, ReportIsHonest
    <2>2. CASE RefundLoop \/ CandidateLoop
      <3>1. states = None
        BY <2>2 DEF Inv, ReportInv, RefundLoop, CandidateLoop
      <3>2. states' = states
        <4>1. CASE RefundLoop
          BY <4>1 DEF RefundLoop, CountRefund, SkipRefund, NextRefund
        <4>2. CASE CandidateLoop
          BY <4>2, LoopOutcome DEF Inv, NextCandidate
        <4>3. QED
          BY <2>2, <4>1, <4>2
      <3>3. QED
        BY <3>1, <3>2 DEF InvariantHonest
    <2>3. CASE Returned \/ UNCHANGED vars
      BY <2>3 DEF Returned, vars, InvariantHonest, requests
    <2>4. QED
      BY <2>1, <2>2, <2>3 DEF Next
  <1>3. QED
    BY <1>1, <1>2, Invariance, PTL DEF Spec

-----------------------------------------------------------------------------
(* The ledger keeps the promise.                                           *)

(* The instance's rules are the rules. *)
LEMMA SameRules ==
  ASSUME NEW in, NEW s
  PROVE  /\ \A t : Promise!IsFirst(in, t, s) <=> IsFirst(in, t, s)
         /\ \A S : Promise!StateOf(in, S, s) = StateOf(in, S, s)
  <1>1. \A h : Promise!IssuersAt(h) = IssuersAt(h)
    BY DEF Promise!IssuersAt, IssuersAt
  <1>2. \A z : /\ Promise!IsPrivate(z) = IsPrivate(z)
               /\ Promise!RecordVersion(z) = RecordVersion(z)
    BY DEF Promise!IsPrivate, IsPrivate, Promise!RecordVersion, RecordVersion
  <1>3. \A z : Promise!IsCandidate(z) <=> IsCandidate(z)
    BY <1>1, <1>2
    DEF Promise!IsCandidate, IsCandidate, Promise!Final, Final, Promise!FromIssuers, FromIssuers,
        Promise!OneRecord, OneRecord
  <1>4. \A R, z : Promise!Names(R, z, s) <=> Names(R, z, s)
    BY <1>2 DEF Promise!Names, Names
  <1>5. \A r, z : /\ Promise!RightMode(r, z) <=> RightMode(r, z)
                  /\ Promise!SameAmounts(r, z) <=> SameAmounts(r, z)
    BY <1>2 DEF Promise!RightMode, RightMode, Promise!SameAmounts, SameAmounts
  <1>6. \A r : Promise!Deliverable(r) <=> Deliverable(r)
    BY DEF Promise!Deliverable, Deliverable, Promise!RequestKeyInForce,
           RequestKeyInForce
  <1>7. \A r, z : /\ Promise!PaysPool(z) <=> PaysPool(z)
                  /\ Promise!PaysAddress(r, z) <=> PaysAddress(r, z)
    BY <1>1
    DEF Promise!PaysPool, PaysPool, Promise!PaysAddress, PaysAddress
  <1>8. \A r, z : Promise!PaysRequest(r, z) <=> PaysRequest(r, z)
    BY <1>2, <1>6, <1>7 DEF Promise!PaysRequest, PaysRequest
  <1>9. /\ \A x, z : Promise!MinedBy(x, z) <=> MinedBy(x, z)
        /\ Promise!RefundsOf(in, s) = RefundsOf(in, s)
        /\ \A y, z : Promise!Before(y, z) <=> Before(y, z)
    BY DEF Promise!MinedBy, MinedBy, Promise!RefundsOf, RefundsOf, Promise!Repays, Repays,
           Promise!Before, Before
  <1>10. \A t : Promise!Qualifies(in, t, s) <=> Qualifies(in, t, s)
    BY <1>3, <1>4, <1>5, <1>8, <1>9 DEF Promise!Qualifies, Qualifies
  <1>11. \A t : Promise!IsFirst(in, t, s) <=> IsFirst(in, t, s)
    BY <1>9, <1>10 DEF Promise!IsFirst, IsFirst
  <1>12. \A S : Promise!StateOf(in, S, s) = StateOf(in, S, s)
    BY <1>9 DEF Promise!StateOf, StateOf
  <1>13. QED
    BY <1>11, <1>12

(* At the end, the code's state of a request is the promised one. *)
LEMMA StateIsPromised ==
  ASSUME Inv, refundsLeft = {}, NEW s \in DOMAIN requests \cup input.unresolved
  PROVE  State(s) = StateOf(input, DOMAIN stampOf, s)
  <1>1. CASE s \in input.unresolved
    BY <1>1 DEF State, StateOf
  <1>2. CASE s \notin input.unresolved
    <2>1. s \in DOMAIN refundedAt <=> RefundsOf(input, s) # {}
      BY <1>2 DEF Inv, RefundInv
    <2>2. QED
      BY <1>2, <2>1 DEF State, StateOf, Due, requests
  <1>3. QED
    BY <1>1, <1>2

LEMMA PromiseStep == Inv /\ [Next]_vars => [Promise!Next]_(Promise!vars)
  <1> SUFFICES ASSUME Inv, [Next]_vars PROVE [Promise!Next]_(Promise!vars)
    OBVIOUS
  <1>1. CASE RefundLoop
    BY <1>1 DEF RefundLoop, CountRefund, SkipRefund, NextRefund, Promise!vars
  <1>2. CASE CandidateLoop
    <2>1. PICK t \in todo : NextCandidate(t) /\ (Accepted(t) \/ Refused(t))
      BY <1>2, LoopOutcome DEF Inv
    <2>2. CASE Refused(t)
      BY <2>1, <2>2 DEF Refused, Reject, NextCandidate, Promise!vars
    <2>3. CASE Accepted(t)
      <3>1. PICK s \in DOMAIN requests :
              /\ Qualifies(input, t, s)
              /\ s \notin DOMAIN stampOf
              /\ stampOf' = Put(stampOf, s, t)
        BY <2>3 DEF Accepted
      <3>2. UNCHANGED <<input, states>> /\ t \in DOMAIN input.candidates
        BY <2>1 DEF NextCandidate, Inv, TypeOK
      <3>3. ASSUME NEW u \in DOMAIN input.candidates, Qualifies(input, u, s)
            PROVE  ~Before(input.candidates[u], input.candidates[t])
        <4>1. u \in todo
          BY <3>1, <3>3 DEF Inv, StampInv
        <4>2. QED
          BY <2>1, <4>1 DEF NextCandidate, Tx
      <3>4. IsFirst(input, t, s)
        BY <3>1, <3>2, <3>3 DEF IsFirst
      <3>5. states = None
        BY <2>1 DEF Inv, ReportInv
      <3>6. Promise!Award(t, s)
        BY <3>1, <3>2, <3>4, <3>5, SameRules DEF Promise!Award, Put
      <3>7. QED
        BY <3>1, <3>2, <3>6 DEF Promise!Next, requests
    <2>4. QED
      BY <2>1, <2>2, <2>3
  <1>3. CASE Report
    <2>1. ASSUME NEW s \in DOMAIN requests, NEW t \in DOMAIN input.candidates,
                 IsFirst(input, t, s)
          PROVE  s \in DOMAIN stampOf
      BY <1>3, <2>1 DEF Report, Inv, StampInv, IsFirst
    <2>2. states' = [s \in DOMAIN requests \cup input.unresolved |->
                       StateOf(input, DOMAIN stampOf, s)]
      BY <1>3, StateIsPromised DEF Report
    <2>3. Promise!Conclude
      <3>1. states = None /\ UNCHANGED <<input, stampOf>>
        BY <1>3 DEF Report
      <3>2. \A s \in DOMAIN input.requests, t \in DOMAIN input.candidates :
              Promise!IsFirst(input, t, s) => s \in DOMAIN stampOf
        BY <2>1, SameRules DEF requests
      <3>3. states' = [s \in DOMAIN input.requests \cup input.unresolved |->
                         Promise!StateOf(input, DOMAIN stampOf, s)]
        BY <2>2, SameRules DEF requests
      <3>4. QED
        BY <3>1, <3>2, <3>3 DEF Promise!Conclude
    <2>4. QED
      BY <2>3 DEF Promise!Next
  <1>4. CASE Returned \/ UNCHANGED vars
    BY <1>4 DEF Returned, vars, Promise!vars
  <1>5. QED
    BY <1>1, <1>2, <1>3, <1>4 DEF Next

(* buildLedger implements the rules: for every set of arguments, its loops
   award the first qualifying candidates and nothing else, and it reports the
   states those stamps, the refunds and the clock determine. *)
THEOREM Refinement == Spec => KeepsPromise
  <1>1. Init => Promise!Init
    BY DEF Init, Promise!Init
  <1>2. QED
    BY <1>1, PromiseStep, Invariance, PTL DEF Spec, KeepsPromise, Promise!Spec

-----------------------------------------------------------------------------
(* The refunded total.                                                     *)

Fees(S) == [s \in S |-> requests[s].fee]

Total(S) == SumFunctionOnSet(Fees(S), S)

SumInv == IsFiniteSet(DOMAIN refundedAt) /\ refundedAmount = Total(DOMAIN refundedAt)

LEMMA TotalIs ==
  ASSUME NEW S
  PROVE  Total(S) = MapThenSumSet(LAMBDA s : requests[s].fee, S)
  BY DEF Total, Fees, SumFunctionOnSet, FoldFunctionOnSet, MapThenFoldSet, MapThenSumSet

LEMMA TotalAdds ==
  ASSUME NEW S \in SUBSET DOMAIN requests, IsFiniteSet(S),
         NEW x \in DOMAIN requests, x \notin S, input \in Inputs
  PROVE  Total(S \cup {x}) = Total(S) + requests[x].fee
  <1> DEFINE U == S \cup {x}
  <1>1. \A s \in U : Fees(U)[s] = requests[s].fee /\ requests[s].fee \in Int
    BY InputsAssumption DEF Fees, requests
  <1>2. \A s \in S : Fees(U)[s] = Fees(S)[s]
    BY DEF Fees
  <1>3. SumFunctionOnSet(Fees(U), S) = Total(S)
    BY <1>2, SumSame DEF Total
  <1>4. SumFunctionOnSet(Fees(U), U) = Fees(U)[x] + SumFunctionOnSet(Fees(U), S)
    BY <1>1, SumAdd
  <1>5. SumFunctionOnSet(Fees(U), S) \in Int
    BY <1>1, SumInt
  <1>6. requests[x].fee \in Int /\ Fees(U)[x] = requests[x].fee
    BY <1>1
  <1>7. Total(U) = requests[x].fee + Total(S) /\ Total(S) \in Int
    BY <1>3, <1>4, <1>5, <1>6 DEF Total
  <1> HIDE DEF U
  <1>8. Total(U) = Total(S) + requests[x].fee
    BY <1>6, <1>7
  <1>9. QED
    BY <1>8 DEF U

LEMMA SumStep == Inv /\ SumInv /\ [Next]_vars => SumInv'
  <1> SUFFICES ASSUME Inv, SumInv, [Next]_vars PROVE SumInv'
    OBVIOUS
  <1>1. ASSUME NEW f \in refundsLeft, CountRefund(f) PROVE SumInv'
    <2>1. /\ f.of \in DOMAIN requests /\ f.of \notin DOMAIN refundedAt
          /\ DOMAIN refundedAt \subseteq DOMAIN requests
          /\ input \in Inputs /\ UNCHANGED input
          /\ f.amount = requests[f.of].fee
      BY <1>1 DEF CountRefund, Counts, Repays, NextRefund, Inv, TypeOK
    <2>2. /\ DOMAIN refundedAt' = DOMAIN refundedAt \cup {f.of}
          /\ refundedAmount' = refundedAmount + f.amount
      BY <1>1 DEF CountRefund, Put
    <2>3. IsFiniteSet(DOMAIN refundedAt')
      BY <2>2, FS_AddElement DEF SumInv
    <2>4. refundedAmount' = Total(DOMAIN refundedAt \cup {f.of})
      BY <2>1, <2>2, TotalAdds DEF SumInv
    <2>5. Total(DOMAIN refundedAt)' = Total(DOMAIN refundedAt')
      BY <2>1 DEF Total, Fees, requests
    <2>6. QED
      BY <2>2, <2>3, <2>4, <2>5 DEF SumInv
  <1>2. ASSUME UNCHANGED <<input, refundedAt, refundedAmount>> PROVE SumInv'
    BY <1>2 DEF SumInv, Total, Fees, requests
  <1>3. CASE RefundLoop
    BY <1>1, <1>2, <1>3 DEF RefundLoop, SkipRefund, NextRefund
  <1>4. CASE CandidateLoop
    <2>1. PICK t \in todo : NextCandidate(t)
      BY <1>4, LoopOutcome DEF Inv
    <2>2. QED
      BY <1>2, <2>1 DEF NextCandidate
  <1>5. CASE Report \/ Returned \/ UNCHANGED vars
    BY <1>2, <1>5 DEF Report, Returned, vars
  <1>6. QED
    BY <1>3, <1>4, <1>5 DEF Next

(* The refunded total counts each refunded request once, at its fee, however
   often and in whatever order it was refunded (ledger.ts:96-104). *)
THEOREM RefundsCountOnce == Spec => []RefundedOnce
  <1>1. Init => SumInv
    <2> SUFFICES ASSUME Init PROVE SumInv
      OBVIOUS
    <2>1. DOMAIN refundedAt = {} /\ refundedAmount = 0
      BY DEF Init
    <2>2. QED
      BY <2>1, SumEmpty, FS_EmptySet DEF SumInv, Total
  <1>2. Inv /\ SumInv => RefundedOnce
    <2> SUFFICES ASSUME Inv, SumInv, refundsLeft = {} PROVE RefundedOnce
      BY DEF RefundedOnce
    <2>1. ASSUME NEW s \in DOMAIN requests
          PROVE  s \in DOMAIN refundedAt <=> RefundsOf(input, s) # {}
      BY DEF Inv, RefundInv
    <2>2. ASSUME NEW s \in DOMAIN refundedAt, NEW f \in RefundsOf(input, s)
          PROVE  refundedAt[s] <= f.time
      BY DEF Inv, RefundInv, TypeOK
    <2>3. QED
      BY <2>1, <2>2, TotalIs DEF RefundedOnce, SumInv
  <1>3. QED
    BY <1>1, <1>2, SumStep, Invariance, PTL DEF Spec

=============================================================================
