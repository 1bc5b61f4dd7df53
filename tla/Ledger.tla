------------------------------- MODULE Ledger -------------------------------
(***************************************************************************)
(* buildLedger and privateCandidate of verifier/src/ledger.ts: the refunds *)
(* are matched to their requests in the order of their times, then the     *)
(* candidates are tried one by one in chain order, then every request is   *)
(* given its state.  One action per way an iteration of a loop can end.    *)
(*                                                                         *)
(* The sorts of the code are the choice of a least element: elements that  *)
(* compare equal come in any order, since the readers promise none.        *)
(***************************************************************************)
EXTENDS StampRules, FiniteSetsExt

CONSTANT Inputs   \* a set of [requests, refunds, candidates, unresolved, now]

(* Times, fees, heights and positions are numbers. *)
ASSUME InputsAssumption ==
  \A in \in Inputs :
    /\ in.now \in Int
    /\ \A s \in DOMAIN in.requests :
         in.requests[s].time \in Int /\ in.requests[s].fee \in Int
    /\ \A f \in in.refunds : f.time \in Int
    /\ \A t \in DOMAIN in.candidates :
         /\ in.candidates[t].height \in Int \cup {None}
         /\ in.candidates[t].index \in Int
         /\ in.candidates[t].time \in Int \cup {None}

VARIABLES
  input,           \* the arguments
  refundsLeft,     \* refunds the first loop has not reached
  refundedAt,      \* the time of each refunded request's refund
  refundedAmount,  \* what those refunds gave back
  todo,            \* candidates the second loop has not reached
  stampOf,         \* the stamp (a txid) of each stamped request
  rejected,        \* the rule each rejected candidate broke
  states,          \* the state of each request, None until the end
  problems         \* the breaches of the invariant, as <<kind, request>>

vars == <<input, refundsLeft, refundedAt, refundedAmount, todo, stampOf,
          rejected, states, problems>>

requests == input.requests
Tx(t) == input.candidates[t]

(* A function with one more point. *)
Put(f, x, y) == [q \in DOMAIN f \cup {x} |-> IF q = x THEN y ELSE f[q]]

-----------------------------------------------------------------------------
Init ==
  /\ input \in Inputs
  /\ refundsLeft = input.refunds
  /\ refundedAt = << >>
  /\ refundedAmount = 0
  /\ todo = DOMAIN input.candidates
  /\ stampOf = << >>
  /\ rejected = << >>
  /\ states = None
  /\ problems = {}

-----------------------------------------------------------------------------
(* The refunds, earliest first.                                            *)

NextRefund(f) ==
  /\ f \in refundsLeft
  /\ \A g \in refundsLeft : f.time <= g.time
  /\ refundsLeft' = refundsLeft \ {f}
  /\ UNCHANGED <<input, todo, stampOf, rejected, states, problems>>

(* Slips of the first loop: a refund of something else counts, or one given
   twice counts twice. *)
CountsAnything(f) == f.of \notin DOMAIN refundedAt

CountsAgain(f) == f.of \in DOMAIN requests /\ Repays(f, requests[f.of])

Counts(f) ==
  /\ f.of \in DOMAIN requests
  /\ Repays(f, requests[f.of])
  /\ f.of \notin DOMAIN refundedAt

CountRefund(f) ==
  /\ NextRefund(f)
  /\ Counts(f)
  /\ refundedAt' = Put(refundedAt, f.of, f.time)
  /\ refundedAmount' = refundedAmount + f.amount

SkipRefund(f) ==
  /\ NextRefund(f)
  /\ ~Counts(f)
  /\ UNCHANGED <<refundedAt, refundedAmount>>

-----------------------------------------------------------------------------
(* The candidates, in chain order.                                         *)

(* A slip: the candidates come in the order the reader listed them. *)
AsListed(t) ==
  /\ refundsLeft = {}
  /\ t \in todo
  /\ todo' = todo \ {t}
  /\ UNCHANGED <<input, refundsLeft, refundedAt, refundedAmount, states,
                 problems>>

NextCandidate(t) ==
  /\ refundsLeft = {}
  /\ t \in todo
  /\ \A u \in todo : ~Before(Tx(u), Tx(t))
  /\ todo' = todo \ {t}
  /\ UNCHANGED <<input, refundsLeft, refundedAt, refundedAmount, states,
                 problems>>

(* A slip: an early return that reports nothing. *)
Drop(t, rule) == UNCHANGED <<rejected, stampOf>>

Reject(t, rule) ==
  /\ rejected' = Put(rejected, t, rule)
  /\ UNCHANGED stampOf

NotFinal(t) ==
  NextCandidate(t) /\ ~Final(Tx(t)) /\ Reject(t, "Z1")

NotIssuers(t) ==
  /\ NextCandidate(t)
  /\ Final(Tx(t))
  /\ ~FromIssuers(Tx(t))
  /\ Reject(t, "Z2")

NoRecord(t) ==
  /\ NextCandidate(t)
  /\ Final(Tx(t)) /\ FromIssuers(Tx(t))
  /\ ~OneRecord(Tx(t))
  /\ Reject(t, "Z3")

Unmatched(t) ==
  /\ NextCandidate(t)
  /\ IsCandidate(Tx(t))
  /\ \A s \in DOMAIN requests : ~Names(requests, Tx(t), s)
  /\ Reject(t, "V1")

(* The candidate's record names s and nothing else. *)
Considers(t, s) ==
  /\ NextCandidate(t)
  /\ IsCandidate(Tx(t))
  /\ Names(requests, Tx(t), s)

WrongMode(t, s) ==
  /\ Considers(t, s)
  /\ ~RightMode(requests[s], Tx(t))
  /\ Reject(t, "V3")

WrongAmounts(t, s) ==
  /\ Considers(t, s)
  /\ RightMode(requests[s], Tx(t))
  /\ ~SameAmounts(requests[s], Tx(t))
  /\ Reject(t, "V2")

Misdirected(t, s) ==
  /\ Considers(t, s)
  /\ RightMode(requests[s], Tx(t))
  /\ SameAmounts(requests[s], Tx(t))
  /\ ~PaysRequest(requests[s], Tx(t))
  /\ Reject(t, "V3")

(* Everything that concerns the transaction and its request holds. *)
Delivers(t, s) ==
  /\ Considers(t, s)
  /\ RightMode(requests[s], Tx(t))
  /\ SameAmounts(requests[s], Tx(t))
  /\ PaysRequest(requests[s], Tx(t))

(* Slips: a block at the very time of the refund is too late; any refund is
   fatal, whenever the candidate was mined. *)
AtRefund(t, s) ==
  s \in DOMAIN refundedAt /\ Tx(t).time # None /\ Tx(t).time >= refundedAt[s]

EverRefunded(t, s) == s \in DOMAIN refundedAt

AfterRefund(t, s) ==
  s \in DOMAIN refundedAt /\ ~MinedBy(refundedAt[s], Tx(t))

TooLate(t, s) ==
  Delivers(t, s) /\ AfterRefund(t, s) /\ Reject(t, "V5")

Stamped(s) == s \in DOMAIN stampOf

Duplicate(t, s) ==
  Delivers(t, s) /\ ~AfterRefund(t, s) /\ Stamped(s) /\ Reject(t, "V4")

Accept(t, s) ==
  /\ Delivers(t, s)
  /\ ~AfterRefund(t, s)
  /\ ~Stamped(s)
  /\ stampOf' = Put(stampOf, s, t)
  /\ UNCHANGED rejected

-----------------------------------------------------------------------------
(* The states, and what breaks the invariant.                              *)

Due(s) == input.now - requests[s].time >= RefundAfter

(* A slip: a refund hides the stamp. *)
RefundFirst(s) ==
  CASE s \in input.unresolved -> "unresolved"
    [] s \notin input.unresolved /\ s \in DOMAIN refundedAt -> "refunded"
    [] s \notin input.unresolved \cup DOMAIN refundedAt
         /\ s \in DOMAIN stampOf -> "stamped"
    [] OTHER -> IF Due(s) THEN "overdue" ELSE "pending"

State(s) ==
  CASE s \in input.unresolved -> "unresolved"
    [] s \notin input.unresolved /\ s \in DOMAIN stampOf -> "stamped"
    [] s \notin input.unresolved \cup DOMAIN stampOf
         /\ s \in DOMAIN refundedAt -> "refunded"
    [] OTHER -> IF Due(s) THEN "overdue" ELSE "pending"

Report ==
  /\ refundsLeft = {}
  /\ todo = {}
  /\ states = None
  /\ states' = [s \in DOMAIN requests \cup input.unresolved |-> State(s)]
  /\ problems' =
       {<<"both", s>> : s \in {q \in DOMAIN requests :
                                 State(q) = "stamped" /\ q \in DOMAIN refundedAt}}
         \cup {<<"overdue", s>> : s \in {q \in DOMAIN requests :
                                           State(q) = "overdue"}}
  /\ UNCHANGED <<input, refundsLeft, refundedAt, refundedAmount, todo, stampOf,
                 rejected>>

(* The ledger is returned: nothing more happens. *)
Returned == states # None /\ UNCHANGED vars

-----------------------------------------------------------------------------
RefundLoop == \E f \in refundsLeft : CountRefund(f) \/ SkipRefund(f)

CandidateLoop ==
  \E t \in todo :
    \/ NotFinal(t)
    \/ NotIssuers(t)
    \/ NoRecord(t)
    \/ Unmatched(t)
    \/ \E s \in DOMAIN requests :
         \/ WrongMode(t, s)
         \/ WrongAmounts(t, s)
         \/ Misdirected(t, s)
         \/ TooLate(t, s)
         \/ Duplicate(t, s)
         \/ Accept(t, s)

Next == RefundLoop \/ CandidateLoop \/ Report \/ Returned

Spec == Init /\ [][Next]_vars
-----------------------------------------------------------------------------
(* What the ledger must satisfy.                                           *)

Promise == INSTANCE StampPromise
             WITH input <- input, stampOf <- stampOf, states <- states

(* The ledger keeps the promise of the specification (SPEC.md 6 and 7): the
   loops of buildLedger award exactly the first qualifying candidates, in
   chain order, and the states follow from them. *)
KeepsPromise == Promise!Spec

(* Every variable has its type, and the loops only look at the arguments. *)
TypeOK ==
  /\ input \in Inputs
  /\ refundsLeft \subseteq input.refunds
  /\ DOMAIN refundedAt \subseteq DOMAIN requests
  /\ \A s \in DOMAIN refundedAt : refundedAt[s] \in Int
  /\ todo \subseteq DOMAIN input.candidates
  /\ DOMAIN stampOf \subseteq DOMAIN requests
  /\ \A s \in DOMAIN stampOf : stampOf[s] \in DOMAIN input.candidates
  /\ DOMAIN rejected \subseteq DOMAIN input.candidates
  /\ \A t \in DOMAIN rejected :
       rejected[t] \in {"Z1", "Z2", "Z3", "V1", "V2", "V3", "V4", "V5"}

(* V4: a stamp is never displaced by a candidate before it.  At every moment
   the stamp of a request qualifies, and no qualifying candidate of that
   request precedes it in the chain, whatever order the reader listed them in. *)
FirstInChainWins ==
  \A s \in DOMAIN stampOf : IsFirst(input, stampOf[s], s)

(* No candidate is lost or counted twice: each one reached is the stamp of
   exactly one request or is reported as rejected, never both. *)
EveryCandidateAccounted ==
  LET stamps == {stampOf[s] : s \in DOMAIN stampOf}
  IN  /\ \A s, q \in DOMAIN stampOf : stampOf[s] = stampOf[q] => s = q
      /\ stamps \cap DOMAIN rejected = {}
      /\ stamps \cup DOMAIN rejected = DOMAIN input.candidates \ todo

(* A rejection tells the truth: only a candidate that qualifies for a request
   that has its stamp already is a duplicate, and no candidate that qualifies
   is rejected for any other reason. *)
RejectionsHonest ==
  \A t \in DOMAIN rejected :
    IF rejected[t] = "V4"
    THEN \E s \in DOMAIN stampOf :
           /\ Qualifies(input, t, s)
           /\ ~Before(Tx(t), Tx(stampOf[s]))
    ELSE \A s \in DOMAIN requests : ~Qualifies(input, t, s)

(* The refunded total counts each refunded request once, at the fee it paid,
   however many refunds it received and whatever else the issuer sent; the
   time kept is that of the earliest one. *)
RefundedOnce ==
  refundsLeft = {} =>
    /\ \A s \in DOMAIN requests :
         s \in DOMAIN refundedAt <=> RefundsOf(input, s) # {}
    /\ \A s \in DOMAIN refundedAt :
         \A f \in RefundsOf(input, s) : refundedAt[s] <= f.time
    /\ refundedAmount =
         MapThenSumSet(LAMBDA s : requests[s].fee, DOMAIN refundedAt)

(* The invariant of SPEC.md 7 is reported as holding exactly when no request
   whose chain reads succeeded has both a stamp and a refund, or has neither
   past its deadline. *)
InvariantHonest ==
  states # None =>
    LET read       == DOMAIN requests \ input.unresolved
        stamped(s) == \E t \in DOMAIN input.candidates :
                        Qualifies(input, t, s)
        repaid(s)  == RefundsOf(input, s) # {}
    IN  problems = {} <=>
          \A s \in read : /\ ~(stamped(s) /\ repaid(s))
                          /\ \/ stamped(s) \/ repaid(s)
                             \/ input.now - requests[s].time < RefundAfter

=============================================================================
