---------------------------- MODULE StampPromise ----------------------------
(***************************************************************************)
(* What a ledger promises, without saying how it is computed: a request    *)
(* gets the first qualifying candidate in chain order as its stamp, keeps  *)
(* it, and once every request that has one holds it, each request is given *)
(* the state its stamp, its refunds and the clock determine.               *)
(***************************************************************************)
EXTENDS StampRules

CONSTANT Inputs   \* a set of [requests, refunds, candidates, unresolved, now]

VARIABLES
  input,     \* what the ledger is built from
  stampOf,   \* the stamp (a txid) of each stamped request
  states     \* the state of each request, None until the ledger is returned

vars == <<input, stampOf, states>>

Init ==
  /\ input \in Inputs
  /\ stampOf = << >>
  /\ states = None

Award(t, s) ==
  /\ states = None
  /\ s \notin DOMAIN stampOf
  /\ IsFirst(input, t, s)
  /\ stampOf' = [q \in DOMAIN stampOf \cup {s} |->
                   IF q = s THEN t ELSE stampOf[q]]
  /\ UNCHANGED <<input, states>>

Conclude ==
  /\ states = None
  /\ \A s \in DOMAIN input.requests, t \in DOMAIN input.candidates :
       IsFirst(input, t, s) => s \in DOMAIN stampOf
  /\ states' = [s \in DOMAIN input.requests \cup input.unresolved |->
                  StateOf(input, DOMAIN stampOf, s)]
  /\ UNCHANGED <<input, stampOf>>

Next ==
  \/ \E s \in DOMAIN input.requests, t \in DOMAIN input.candidates : Award(t, s)
  \/ Conclude

Spec == Init /\ [][Next]_vars

=============================================================================
