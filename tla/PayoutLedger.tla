---------------------------- MODULE PayoutLedger ----------------------------
(***************************************************************************)
(* buildPayoutLedger of verifier/src/ledger.ts (SPEC.md 10.4 and 10.6):    *)
(* which transactions spent from order addresses are payout stamps.  A     *)
(* transaction names up to four exits and is the payout stamp of each of   *)
(* them or of none.                                                        *)
(*                                                                         *)
(* The candidates are tried one by one in chain order.  One action per way *)
(* an iteration of that loop can end, then the report.                     *)
(*                                                                         *)
(* in = [exits, candidates, unresolved, now] are the arguments; an exit    *)
(* and a candidate are those of PayoutRules.                               *)
(***************************************************************************)
EXTENDS PayoutRules

CONSTANTS
  RefundAfter,   \* params.refundAfterDays, in the unit of the clocks
  Inputs

(* A version 3 record holds one to four hashes (recordV3Hashes); heights,
   positions and amounts are numbers; inputs come in a sequence, and an order's
   key is a key. *)
ASSUME PayoutAssumption ==
  /\ Confirmations \in Nat \ {0}
  /\ None \notin Int
  /\ \A in \in Inputs :
       /\ IsFiniteSet(DOMAIN in.candidates)
       /\ \A k \in ExitKeys, e \in DOMAIN in.exits : <<k.key, in.exits[e].index>> # None
       /\ \A t \in DOMAIN in.candidates :
            LET z == in.candidates[t]
            IN  /\ z.height \in Int \cup {None}
                /\ z.index \in Int
                /\ z.intoPool \in Int \cup {None}
                /\ z.spenders \in Seq(Range(z.spenders))
                /\ z.record # None => /\ z.record \in Seq(Range(z.record))
                                      /\ Len(z.record) \in 1..4

VARIABLES
  input,      \* the arguments
  todo,       \* candidates not yet tried
  stampOf,    \* exit -> [id, position, intoPool]: its payout stamp
  rejected,   \* the rule each rejected candidate broke
  states,     \* the state of each exit, None until the end
  pooled      \* totals.intoPool, None until the end

vars == <<input, todo, stampOf, rejected, states, pooled>>

exits == input.exits
Tx(t) == input.candidates[t]
-----------------------------------------------------------------------------
Init ==
  /\ input \in Inputs
  /\ todo = DOMAIN input.candidates
  /\ stampOf = << >>
  /\ rejected = << >>
  /\ states = None
  /\ pooled = None

(* A slip: the candidates come in the order of their txids. *)
AsListed(t) ==
  /\ t \in todo
  /\ todo' = todo \ {t}
  /\ UNCHANGED <<input, states, pooled>>

NextCandidate(t) ==
  /\ t \in todo
  /\ \A u \in todo : ~Before(Tx(u), Tx(t))
  /\ todo' = todo \ {t}
  /\ UNCHANGED <<input, states, pooled>>

Reject(t, rule) ==
  /\ rejected' = [u \in DOMAIN rejected \cup {t} |->
                    IF u = t THEN rule ELSE rejected[u]]
  /\ UNCHANGED stampOf

NotFinal(t) == NextCandidate(t) /\ ~Final(Tx(t)) /\ Reject(t, "Z1")

NotV6(t) ==
  /\ NextCandidate(t)
  /\ Final(Tx(t)) /\ ~IsV6(Tx(t))
  /\ Reject(t, "P1")

NotIntoPool(t) ==
  /\ NextCandidate(t)
  /\ Final(Tx(t)) /\ IsV6(Tx(t)) /\ ~Shields(Tx(t))
  /\ Reject(t, "P2")

NotRuns(t) ==
  /\ NextCandidate(t)
  /\ Final(Tx(t)) /\ IsV6(Tx(t)) /\ Shields(Tx(t)) /\ ~OneRunPerExit(Tx(t))
  /\ Reject(t, "P3")

(* The hashes are tried in the record's order, and the first that fails
   decides the reason. *)
NotPaid(t) ==
  /\ NextCandidate(t)
  /\ Final(Tx(t)) /\ IsV6(Tx(t)) /\ Shields(Tx(t)) /\ OneRunPerExit(Tx(t))
  /\ LET bad == {j \in DOMAIN Tx(t).record : ~PaidAt(exits, Tx(t), j)}
     IN  /\ bad # {}
         /\ Reject(t, IF KnownAt(exits, Tx(t), Min(bad)) THEN "V2" ELSE "V1")

(* Slips: only a transaction all of whose exits are stamped is a duplicate;
   one of whose exits is unstamped is not. *)
AllTaken(t) == NamedBy(exits, Tx(t)) \subseteq DOMAIN stampOf

Taken(t) == NamedBy(exits, Tx(t)) \cap DOMAIN stampOf # {}

Duplicate(t) ==
  NextCandidate(t) /\ Forwards(exits, Tx(t)) /\ Taken(t) /\ Reject(t, "V4")

(* A slip: the position is counted from 1. *)
StampFrom1(t, e) ==
  [id       |-> t,
   position |-> CHOOSE j \in DOMAIN Tx(t).record :
                  OnlyExit(exits, e, Tx(t).record[j]),
   intoPool |-> Tx(t).intoPool]

(* The hashes of the record are counted from 0. *)
Stamp(t, e) ==
  [id       |-> t,
   position |-> (CHOOSE j \in DOMAIN Tx(t).record :
                   OnlyExit(exits, e, Tx(t).record[j])) - 1,
   intoPool |-> Tx(t).intoPool]

Accept(t) ==
  /\ NextCandidate(t)
  /\ Forwards(exits, Tx(t)) /\ ~Taken(t)
  /\ stampOf' = [e \in DOMAIN stampOf \cup NamedBy(exits, Tx(t)) |->
                   IF e \in DOMAIN stampOf THEN stampOf[e] ELSE Stamp(t, e)]
  /\ UNCHANGED rejected

-----------------------------------------------------------------------------
(* A slip: what a transaction put into the pool is counted for each exit. *)
SumPerStamp ==
  MapThenSumSet(LAMBDA e : stampOf[e].intoPool, DOMAIN stampOf)

(* totals.intoPool: the stamps are keyed by their id first. *)
SumPerTx ==
  MapThenSumSet(LAMBDA s : s[2],
                {<<stampOf[e].id, stampOf[e].intoPool>> : e \in DOMAIN stampOf})

(* A slip: the clock is asked before the stamp. *)
StateIfLate(e) ==
  CASE e \in input.unresolved -> "unresolved"
    [] e \notin input.unresolved /\ input.now - exits[e].time < RefundAfter ->
         "pending"
    [] OTHER -> IF e \in DOMAIN stampOf THEN "stamped" ELSE "unstamped"

State(e) ==
  CASE e \in input.unresolved -> "unresolved"
    [] e \notin input.unresolved /\ e \in DOMAIN stampOf -> "stamped"
    [] OTHER -> IF input.now - exits[e].time < RefundAfter
                THEN "pending" ELSE "unstamped"

Report ==
  /\ todo = {}
  /\ states = None
  /\ states' = [e \in DOMAIN exits \cup input.unresolved |-> State(e)]
  /\ pooled' = SumPerTx
  /\ UNCHANGED <<input, todo, stampOf, rejected>>

(* The ledger is returned: nothing more happens. *)
Returned == states # None /\ UNCHANGED vars

CandidateLoop ==
  \E t \in todo :
    \/ NotFinal(t) \/ NotV6(t) \/ NotIntoPool(t) \/ NotRuns(t) \/ NotPaid(t)
    \/ Duplicate(t)
    \/ Accept(t)

Next == CandidateLoop \/ Report \/ Returned

Spec == Init /\ [][Next]_vars
-----------------------------------------------------------------------------
(* What the payout ledger must satisfy.                                    *)

(* Candidates that were tried and not rejected. *)
Accepted == DOMAIN input.candidates \ (todo \cup DOMAIN rejected)

(* Every variable has its type; a stamp's position, counted from 0, is the place
   of its exit's hash in the record. *)
TypeOK ==
  /\ input \in Inputs
  /\ todo \subseteq DOMAIN input.candidates
  /\ DOMAIN stampOf \subseteq DOMAIN exits
  /\ \A e \in DOMAIN stampOf :
       /\ stampOf[e].id \in DOMAIN input.candidates
       /\ stampOf[e].position \in 0..Len(Tx(stampOf[e].id).record) - 1
       /\ OnlyExit(exits, e, Tx(stampOf[e].id).record[stampOf[e].position + 1])
       /\ stampOf[e].intoPool = Tx(stampOf[e].id).intoPool
  /\ DOMAIN rejected \subseteq DOMAIN input.candidates
  /\ \A t \in DOMAIN rejected :
       rejected[t] \in {"Z1", "P1", "P2", "P3", "V1", "V2", "V4"}

(* A forward pays all its exits or none: one that is not rejected is the
   payout stamp of every exit it names, and an exit's stamp was not rejected. *)
AllOrNothing ==
  /\ \A t \in Accepted :
       \A e \in NamedBy(exits, Tx(t)) :
         e \in DOMAIN stampOf /\ stampOf[e].id = t
  /\ \A e \in DOMAIN stampOf :
       /\ stampOf[e].id \in Accepted
       /\ e \in NamedBy(exits, Tx(stampOf[e].id))

(* V4 with several exits per forward: the payout stamps are the one set of
   valid forwards no two of which share an exit and that leaves out a valid
   forward only for one not after it in the chain that shares an exit with it. *)
EarlierForwardWins ==
  /\ \A e \in DOMAIN stampOf : Forwards(exits, Tx(stampOf[e].id))
  /\ \A t \in DOMAIN input.candidates \ todo :
       Forwards(exits, Tx(t)) =>
         \/ t \in Accepted
         \/ \E e \in NamedBy(exits, Tx(t)) \cap DOMAIN stampOf :
              stampOf[e].id # t /\ ~Before(Tx(t), Tx(stampOf[e].id))

(* The inputs split into consecutive runs, the j-th spent by the order key of
   the j-th exit alone: P3 and V2 in the words of SPEC.md 10.4. *)
SpentInRuns(E, z) ==
  \E run \in [DOMAIN z.spenders -> DOMAIN z.record] :
    /\ \A i \in DOMAIN z.spenders : i > 1 => run[i] - run[i - 1] \in {0, 1}
    /\ Range(run) = DOMAIN z.record
    /\ \A i, k \in DOMAIN z.spenders :
         run[i] = run[k] <=> z.spenders[i] = z.spenders[k]
    /\ \A i \in DOMAIN z.spenders :
         \E e \in DOMAIN E, x \in KeysAt(0, z.height) :
           /\ OnlyExit(E, e, z.record[run[i]])
           /\ z.spenders[i] = <<x.key, E[e].index>>

(* Each verdict is that of SPEC.md 10.4: a transaction is accepted, or is a
   duplicate (V4), exactly when its inputs, its record and its pool say so. *)
JudgedByTheRules ==
  \A t \in DOMAIN input.candidates \ todo :
    t \in Accepted \/ rejected[t] = "V4" <=>
      /\ Final(Tx(t)) /\ IsV6(Tx(t)) /\ Shields(Tx(t))
      /\ SpentInRuns(exits, Tx(t))

(* The total put into the pool counts each accepted transaction once, however
   many exits it pays. *)
PooledOnce ==
  states # None =>
    pooled = MapThenSumSet(LAMBDA t : Tx(t).intoPool, Accepted)

(* An exit that was read and is reported without a payout stamp has none that
   a later run could find in these transactions: every forward that names it
   was rejected; and a stamped one is named by a forward that was not. *)
StatesHonest ==
  states # None =>
    \A e \in DOMAIN exits \ input.unresolved :
      states[e] = "stamped" <=>
        \E t \in Accepted : e \in NamedBy(exits, Tx(t))

=============================================================================
