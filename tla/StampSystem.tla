---------------------------- MODULE StampSystem -----------------------------
(***************************************************************************)
(* The bridge as a whole: requests and refunds on Solana, stamps on Zcash, *)
(* an issuer who makes them, and runs of the verifier (cli.ts), which read *)
(* one chain after the other while both go on.                             *)
(*                                                                         *)
(* A run judges what it read by the rules of StampRules, which Ledger is   *)
(* proved to compute (LedgerProofs, Refinement); that the reading of the   *)
(* Zcash chain itself is sound is ZcashRead.  All requests are public and  *)
(* deliverable, and all candidates are well formed: what is left is when   *)
(* things happen.                                                          *)
(*                                                                         *)
(* The issuer is external: nothing in the repository makes stamps by       *)
(* itself or refunds.  It broadcasts stamps, perhaps several of a request, *)
(* and refunds a request of which no stamp is mined yet.                   *)
(***************************************************************************)
EXTENDS StampRules, FiniteSets

CONSTANTS
  Requests,   \* the requests that may be made
  Stamps,     \* the transactions that may be made to stamp them
  RunBlocks,  \* how many Zcash blocks may be mined during one run
  Skew,       \* how far a Zcash block's time may be from the clock
  MaxTime,    \* bound: the clock stops
  MaxHeight,  \* bound: the Zcash chain stops
  MaxUnread   \* bound: Solana reads of one run that may fail

(* A run is over before what was broadcast when it started can be final. *)
ASSUME SystemAssumption ==
  /\ RunBlocks \in Nat /\ RunBlocks < Confirmations /\ Skew \in Nat
  /\ MaxTime \in Nat /\ MaxHeight \in Nat /\ MaxUnread \in Nat

VARIABLES
  clock,
  requested,  \* request -> its block time
  refunded,   \* request -> the block time of its refund
  mempool,    \* stamp -> the request it is of: broadcast, not mined
  mined,      \* stamp -> [of, height, time, at]: at is the clock when mined
  height,     \* of the Zcash chain
  read,       \* what a run has read of Solana (None: no run is under way)
  verdict     \* what the last run printed

world == <<clock, requested, refunded, mempool, mined, height>>
vars == <<world, read, verdict>>

Put(f, x, y) == [z \in DOMAIN f \cup {x} |-> IF z = x THEN y ELSE f[z]]
-----------------------------------------------------------------------------
(* The chains as the readers give them.                                    *)

Request(s, t) ==
  [mode |-> "public", hash |-> <<s, s>>, burned |-> 0, harvested |-> 0,
   fee |-> 0, source |-> s, dest |-> s, kid |-> 0, time |-> t]

Refund(s) ==
  [id |-> s, of |-> s, to |-> s, amount |-> 0, time |-> refunded[s]]

Candidate(t) ==
  [height |-> mined[t].height, index |-> 0,
   confirmations |-> height - mined[t].height + 1, time |-> mined[t].time,
   version |-> 5, parses |-> TRUE, ownTxid |-> TRUE,
   spenders |-> {"issuer"}, otherPool |-> FALSE, intoPool |-> None,
   opReturns |-> <<[version |-> 1, hash |-> mined[t].of, burned |-> 0,
                    harvested |-> 0]>>,
   outs |-> {[script |-> mined[t].of, value |-> Postage]}]

(* What buildLedger is given: the Solana side as it was read, the Zcash side
   and the clock as they are. *)
Arguments(sol) ==
  [requests   |-> [s \in sol.requests |-> Request(s, requested[s])],
   refunds    |-> {Refund(s) : s \in sol.refunds},
   candidates |-> [t \in DOMAIN mined |-> Candidate(t)],
   unresolved |-> sol.unread,
   now        |-> clock]

StampsIn(in, s) == {t \in DOMAIN in.candidates : IsFirst(in, t, s)}

(* The verdict on those arguments. *)
Judge(in, complete) ==
  LET stamped == {s \in DOMAIN in.requests : StampsIn(in, s) # {}}
      state   == [s \in DOMAIN in.requests \cup in.unresolved |->
                    StateOf(in, stamped, s)]
  IN  [state    |-> state,
       stamps   |-> [s \in stamped |-> StampsIn(in, s)],
       broken   |-> {s \in DOMAIN in.requests :
                       \/ state[s] = "overdue"
                       \/ state[s] = "stamped" /\ RefundsOf(in, s) # {}},
       complete |-> complete]
-----------------------------------------------------------------------------
Init ==
  /\ clock = 0
  /\ requested = << >> /\ refunded = << >>
  /\ mempool = << >> /\ mined = << >>
  /\ height = 0
  /\ read = None
  /\ verdict = [state |-> << >>, stamps |-> << >>, broken |-> {},
                complete |-> TRUE]

Tick ==
  /\ clock < MaxTime
  /\ clock' = clock + 1
  /\ UNCHANGED <<requested, refunded, mempool, mined, height, read, verdict>>

Ask(s) ==
  /\ s \notin DOMAIN requested
  /\ requested' = Put(requested, s, clock)
  /\ UNCHANGED <<clock, refunded, mempool, mined, height, read, verdict>>

Broadcast(t, s) ==
  /\ s \in DOMAIN requested
  /\ t \notin DOMAIN mempool \cup DOMAIN mined
  /\ mempool' = Put(mempool, t, s)
  /\ UNCHANGED <<clock, requested, refunded, mined, height, read, verdict>>

GiveBack(s) ==
  /\ s \in DOMAIN requested \ DOMAIN refunded
  /\ \A t \in DOMAIN mined : mined[t].of # s
  /\ refunded' = Put(refunded, s, clock)
  /\ UNCHANGED <<clock, requested, mempool, mined, height, read, verdict>>

(* A block, with one of the broadcast stamps or none.  Its time is what its
   miner says. *)
Block(S) ==
  /\ height < MaxHeight
  /\ read # None => height < read.height + RunBlocks
  /\ height' = height + 1
  /\ \E time \in (clock - Skew)..(clock + Skew) :
       mined' = [t \in DOMAIN mined \cup S |->
                   IF t \in S
                   THEN [of |-> mempool[t], height |-> height', time |-> time,
                         at |-> clock]
                   ELSE mined[t]]
  /\ mempool' = [t \in DOMAIN mempool \ S |-> mempool[t]]
  /\ UNCHANGED <<clock, requested, refunded, read, verdict>>

(* readSolana: some transactions cannot be read, requests or refunds alike;
   their signatures are all that is known of them. *)
ReadSolana(lostRequests, lostRefunds) ==
  /\ read = None
  /\ read' = [requests |-> DOMAIN requested \ lostRequests,
              refunds  |-> DOMAIN refunded \ lostRefunds,
              unread   |-> lostRequests \cup {<<"refund", s>> : s \in lostRefunds},
              height   |-> height]
  /\ UNCHANGED <<world, verdict>>

(* readZcash, the clock, and the ledger. *)
Conclude ==
  /\ read # None
  /\ verdict' = Judge(Arguments(read), read.unread = {})
  /\ read' = None
  /\ UNCHANGED world

StartRun ==
  \E A \in SUBSET DOMAIN requested, B \in SUBSET DOMAIN refunded :
    Cardinality(A) + Cardinality(B) <= MaxUnread /\ ReadSolana(A, B)

Next ==
  \/ Tick
  \/ \E s \in Requests : Ask(s) \/ GiveBack(s)
  \/ \E s \in Requests, t \in Stamps : Broadcast(t, s)
  \/ Block({}) \/ \E t \in DOMAIN mempool : Block({t})
  \/ StartRun
  \/ Conclude

Spec == Init /\ [][Next]_vars
-----------------------------------------------------------------------------
(* What the verdicts must satisfy.                                         *)

TypeOK ==
  /\ clock \in 0..MaxTime /\ height \in 0..MaxHeight
  /\ DOMAIN refunded \subseteq DOMAIN requested
  /\ DOMAIN mempool \cap DOMAIN mined = {}
  /\ \A s \in DOMAIN verdict.stamps : Cardinality(verdict.stamps[s]) = 1
  /\ verdict.broken \subseteq DOMAIN verdict.state
  /\ \A s \in DOMAIN verdict.state :
       verdict.state[s] \in {"stamped", "refunded", "pending", "overdue", "unresolved"}

(* Runs that read everything agree with each other over time: a stamp, once
   reported, stays the stamp of its request; a refund is not forgotten; an
   overdue request is not pending again; and what becomes stamped after it
   was reported as refunded is in a block not timed after the refund. *)
Advances(s) ==
  CASE verdict.state[s] = "stamped" ->
         verdict'.state[s] = "stamped" /\ verdict'.stamps[s] = verdict.stamps[s]
    [] verdict.state[s] = "refunded" ->
         \/ verdict'.state[s] = "refunded"
         \/ /\ verdict'.state[s] = "stamped"
            /\ \A t \in verdict'.stamps[s] : mined[t].time <= refunded[s]
    [] verdict.state[s] = "overdue" -> verdict'.state[s] # "pending"
    [] OTHER -> TRUE

VerdictsAgree ==
  [][ verdict.complete /\ verdict'.complete =>
        \A s \in DOMAIN verdict.state : s \in DOMAIN verdict'.state /\ Advances(s)
    ]_verdict

(* V5 protects an issuer whose broadcast stamp is mined only after it gave the
   fee back: of a request it refunded, no run that reads everything reports
   both, unless the miner's clock was behind and the block bears the refund's
   time or an earlier one. *)
LateStampHarmless ==
  verdict.complete =>
    \A s \in verdict.broken \cap DOMAIN verdict.stamps :
      \A t \in verdict.stamps[s] :
        mined[t].time <= refunded[s] /\ refunded[s] <= mined[t].at

(* What a run would have read had no call failed. *)
Everything(sol) ==
  [requests |-> sol.requests \cup (sol.unread \cap Requests),
   refunds  |-> sol.refunds \cup {s \in Requests : <<"refund", s>> \in sol.unread},
   unread   |-> {},
   height   |-> sol.height]

(* SPEC.md:172: what could not be read is never reported as invalid.  A run
   that missed something breaks the invariant only for what it would have
   broken it for had it missed nothing. *)
UnreadNeverInvalid ==
  [][ read # None =>
        verdict'.broken \subseteq Judge(Arguments(Everything(read)), TRUE).broken
    ]_verdict

=============================================================================
