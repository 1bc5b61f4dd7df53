---------------------------- MODULE SystemProofs -----------------------------
(***************************************************************************)
(* StampSystem for every number of requests and stamps, every schedule of  *)
(* blocks, refunds and runs: the verdicts of complete runs agree over      *)
(* time, and a stamp that is mined late does no harm.                      *)
(***************************************************************************)
EXTENDS StampSystem, FiniteSetTheorems, TLAPS

(* The world's types, and its order: one stamp a block at most, and a request
   is refunded only before its stamps are mined. *)
WorldInv ==
  /\ clock \in 0..MaxTime /\ height \in 0..MaxHeight
  /\ DOMAIN refunded \subseteq DOMAIN requested
  /\ DOMAIN mempool \cap DOMAIN mined = {}
  /\ \A s \in DOMAIN requested : requested[s] \in Int
  /\ \A s \in DOMAIN refunded : refunded[s] \in 0..clock
  /\ \A t \in DOMAIN mined :
       mined[t].height \in 1..height /\ mined[t].time \in Int /\ mined[t].at \in 0..clock
  /\ \A t, u \in DOMAIN mined : mined[t].height = mined[u].height => t = u
  /\ \A t \in DOMAIN mined :
       mined[t].of \in DOMAIN refunded => refunded[mined[t].of] <= mined[t].at

(* V1 to V3 and Z2 of a stamp that is mined, and Z1. *)
Fits(t, s) ==
  mined[t].of = s /\ s # None /\ "issuer" \in IssuersAt(mined[t].height)

Deep(t) == height - mined[t].height + 1 >= Confirmations

(* V5, if s was refunded by those of R. *)
InTime(t, s, R) == s \in R => mined[t].time <= refunded[s]

(* t is the stamp of s for good. *)
Settled(t, s) ==
  /\ t \in DOMAIN mined /\ Fits(t, s) /\ Deep(t) /\ InTime(t, s, DOMAIN refunded)
  /\ \A u \in DOMAIN mined :
       Fits(u, s) /\ InTime(u, s, DOMAIN refunded) => mined[t].height <= mined[u].height

(* What the run under way has read.  If it missed nothing, it knows of every
   refund but those made since, which are of requests whose stamps, if any,
   are younger still. *)
ReadInv ==
  read # None =>
    /\ read.height \in Nat /\ height \in read.height..read.height + RunBlocks
    /\ read.requests \subseteq DOMAIN requested
    /\ read.refunds \subseteq DOMAIN refunded
    /\ read.unread = {} =>
         \A s \in DOMAIN refunded \ read.refunds, t \in DOMAIN mined :
           mined[t].of = s => mined[t].height > read.height

(* What the last verdict, of a complete run, says of s still holds. *)
Stands(s) ==
  /\ s \in DOMAIN requested
  /\ verdict.state[s] = "stamped" =>
       s \in DOMAIN verdict.stamps /\ \E t : verdict.stamps[s] = {t} /\ Settled(t, s)
  /\ verdict.state[s] = "refunded" => s \in DOMAIN refunded
  /\ verdict.state[s] = "overdue" => clock - requested[s] >= RefundAfter

VerdictInv ==
  verdict.complete =>
    /\ \A s \in DOMAIN verdict.state : Stands(s)
    /\ \A s \in verdict.broken \cap DOMAIN verdict.stamps :
         /\ s \in DOMAIN verdict.state /\ verdict.state[s] = "stamped"
         /\ s \in DOMAIN refunded

(* A run starts after the last verdict was given. *)
AfterVerdict ==
  verdict.complete /\ read # None /\ read.unread = {} =>
    \A s \in DOMAIN verdict.state :
      s \in read.requests /\ (verdict.state[s] = "refunded" => s \in read.refunds)

States == {"stamped", "refunded", "pending", "overdue", "unresolved"}

ShapeInv ==
  /\ \A s \in DOMAIN verdict.stamps : Cardinality(verdict.stamps[s]) = 1
  /\ verdict.broken \subseteq DOMAIN verdict.state
  /\ \A s \in DOMAIN verdict.state : verdict.state[s] \in States

Inv == WorldInv /\ ReadInv /\ VerdictInv /\ AfterVerdict /\ ShapeInv

-----------------------------------------------------------------------------
(* What the rules come to in this system.                                  *)

LEMMA QualifiesIff ==
  ASSUME WorldInv, NEW sol, NEW t \in DOMAIN mined, NEW s \in sol.requests
  PROVE  Qualifies(Arguments(sol), t, s) <=> Fits(t, s) /\ Deep(t) /\ InTime(t, s, sol.refunds)
  <1> DEFINE in == Arguments(sol)
             z == Candidate(t)
             r == Request(s, requested[s])
  <1>1. /\ in.requests = [q \in sol.requests |-> Request(q, requested[q])]
        /\ in.refunds = {Refund(q) : q \in sol.refunds}
        /\ in.candidates = [u \in DOMAIN mined |-> Candidate(u)]
    BY DEF Arguments
  <1>2. in.candidates[t] = z /\ in.requests[s] = r /\ DOMAIN in.requests = sol.requests
    BY <1>1
  <1>3. /\ z.height = mined[t].height /\ z.time = mined[t].time
        /\ z.confirmations = height - mined[t].height + 1
        /\ z.version = 5 /\ z.parses = TRUE /\ z.spenders = {"issuer"}
        /\ Len(z.opReturns) = 1
        /\ z.opReturns[1] = [version |-> 1, hash |-> mined[t].of, burned |-> 0, harvested |-> 0]
        /\ z.outs = {[script |-> mined[t].of, value |-> Postage]}
    BY DEF Candidate
  <1>4. /\ r.mode = "public" /\ r.burned = 0 /\ r.harvested = 0 /\ r.fee = 0
        /\ r.source = s /\ r.dest = s
    BY DEF Request
  <1>5. mined[t].height \in Int /\ mined[t].time \in Int /\ None \notin Int /\ height \in Int
    BY ParamsAssumption DEF WorldInv
  <1> HIDE DEF in, z, r
  <1>6. ~IsPrivate(z) /\ RecordVersion(z) = 1
    BY <1>3 DEF IsPrivate, RecordVersion
  <1>7. IsCandidate(z) <=> Deep(t) /\ "issuer" \in IssuersAt(mined[t].height)
    BY <1>3, <1>5, <1>6 DEF IsCandidate, Final, FromIssuers, OneRecord, Deep
  <1>8. Names(in.requests, z, s) <=> mined[t].of = s
    <2>1. \A q \in sol.requests : in.requests[q].hash[1] = q
      BY <1>1 DEF Request
    <2>2. z.opReturns[1].hash = mined[t].of
      BY <1>3
    <2>3. QED
      BY <1>2, <1>6, <2>1, <2>2 DEF Names
  <1>9. RightMode(r, z) /\ SameAmounts(r, z)
    BY <1>3, <1>4, <1>6 DEF RightMode, SameAmounts
  <1>10. PaysRequest(r, z) <=> s # None /\ mined[t].of = s
    BY <1>3, <1>4, <1>6, ParamsAssumption DEF PaysRequest, Deliverable, PaysAddress
  <1>11. (\A f \in RefundsOf(in, s) : MinedBy(f.time, z)) <=> InTime(t, s, sol.refunds)
    <2>1. \A q : /\ Refund(q).of = q /\ Refund(q).to = q /\ Refund(q).amount = 0
                 /\ Refund(q).time = refunded[q]
      BY DEF Refund
    <2>2. RefundsOf(in, s) = IF s \in sol.refunds THEN {Refund(s)} ELSE {}
      BY <1>1, <1>2, <1>4, <2>1 DEF RefundsOf, Repays
    <2>3. QED
      BY <1>3, <1>5, <2>1, <2>2 DEF MinedBy, InTime
  <1>12. Qualifies(in, t, s) <=>
           /\ IsCandidate(z) /\ Names(in.requests, z, s)
           /\ RightMode(r, z) /\ SameAmounts(r, z) /\ PaysRequest(r, z)
           /\ \A f \in RefundsOf(in, s) : MinedBy(f.time, z)
    BY <1>2, Zenon DEF Qualifies
  <1>13. Qualifies(in, t, s) <=> Fits(t, s) /\ Deep(t) /\ InTime(t, s, sol.refunds)
    BY ONLY <1>7, <1>8, <1>9, <1>10, <1>11, <1>12 DEF Fits
  <1>14. QED
    BY <1>13 DEF in

(* V4: the stamp of s in a run is the lowest of those that qualify. *)
LEMMA StampIff ==
  ASSUME WorldInv, NEW sol, NEW s \in sol.requests, NEW t
  PROVE  t \in StampsIn(Arguments(sol), s) <=>
           /\ t \in DOMAIN mined
           /\ Fits(t, s) /\ Deep(t) /\ InTime(t, s, sol.refunds)
           /\ \A u \in DOMAIN mined :
                Fits(u, s) /\ Deep(u) /\ InTime(u, s, sol.refunds) =>
                  mined[t].height <= mined[u].height
  <1> DEFINE in == Arguments(sol)
  <1>1. /\ DOMAIN in.candidates = DOMAIN mined
        /\ \A u \in DOMAIN mined : in.candidates[u] = Candidate(u)
    BY DEF Arguments
  <1>2. \A u \in DOMAIN mined :
          /\ Candidate(u).height = mined[u].height /\ Candidate(u).index = 0
          /\ mined[u].height \in Int /\ mined[u].height # None
    BY ParamsAssumption DEF Candidate, WorldInv
  <1> HIDE DEF in
  <1>3. \A u, v \in DOMAIN mined :
          ~Before(in.candidates[u], in.candidates[v]) <=> mined[v].height <= mined[u].height
    BY <1>1, <1>2 DEF Before
  <1>4. \A u \in DOMAIN mined :
          Qualifies(in, u, s) <=> Fits(u, s) /\ Deep(u) /\ InTime(u, s, sol.refunds)
    BY QualifiesIff DEF in
  <1>5. t \in StampsIn(in, s) <=> t \in DOMAIN mined /\ IsFirst(in, t, s)
    BY <1>1 DEF StampsIn, IsFirst
  <1>6. QED
    BY <1>1, <1>3, <1>4, <1>5 DEF IsFirst, in

LEMMA OneStamp ==
  ASSUME WorldInv, NEW sol, NEW s \in sol.requests, NEW t \in StampsIn(Arguments(sol), s)
  PROVE  StampsIn(Arguments(sol), s) = {t}
  <1>1. SUFFICES ASSUME NEW u \in StampsIn(Arguments(sol), s) PROVE u = t
    OBVIOUS
  <1>2. /\ t \in DOMAIN mined /\ u \in DOMAIN mined
        /\ mined[t].height <= mined[u].height /\ mined[u].height <= mined[t].height
    BY StampIff
  <1>3. mined[t].height \in Int /\ mined[u].height \in Int
    BY <1>2 DEF WorldInv
  <1>4. QED
    BY <1>2, <1>3 DEF WorldInv

(* A complete run knows of the refund of a request with a final stamp, if there
   is one: the run is too short for the stamp to be younger than the refund. *)
LEMMA RefundKnown ==
  ASSUME WorldInv, ReadInv, read # None, read.unread = {},
         NEW t \in DOMAIN mined, Deep(t)
  PROVE  mined[t].of \in read.refunds <=> mined[t].of \in DOMAIN refunded
  <1>1. /\ mined[t].height \in Int /\ height \in Int /\ read.height \in Nat
        /\ height <= read.height + RunBlocks /\ read.refunds \subseteq DOMAIN refunded
        /\ RunBlocks \in Nat /\ RunBlocks < Confirmations /\ Confirmations \in Nat
    BY SystemAssumption, ParamsAssumption DEF WorldInv, ReadInv
  <1>2. ~(mined[t].height > read.height)
    BY <1>1 DEF Deep
  <1>3. QED
    BY <1>1, <1>2 DEF ReadInv

(* The stamp a complete run finds is the stamp for good, and is found again. *)
LEMMA FoundIsSettled ==
  ASSUME WorldInv, ReadInv, read # None, read.unread = {},
         NEW s \in read.requests, NEW t \in StampsIn(Arguments(read), s)
  PROVE  Settled(t, s)
  <1>1. /\ t \in DOMAIN mined
        /\ Fits(t, s) /\ Deep(t) /\ InTime(t, s, read.refunds)
        /\ \A u \in DOMAIN mined :
             Fits(u, s) /\ Deep(u) /\ InTime(u, s, read.refunds) =>
               mined[t].height <= mined[u].height
    BY StampIff
  <1>2. s \in read.refunds <=> s \in DOMAIN refunded
    BY <1>1, RefundKnown DEF Fits
  <1>3. ASSUME NEW u \in DOMAIN mined, Fits(u, s), InTime(u, s, DOMAIN refunded)
        PROVE  mined[t].height <= mined[u].height
    <2>1. /\ mined[t].height \in Int /\ mined[u].height \in Int /\ height \in Int
          /\ Confirmations \in Int
      BY <1>1, ParamsAssumption DEF WorldInv
    <2>2. CASE Deep(u)
      BY <1>1, <1>2, <1>3, <2>2 DEF InTime
    <2>3. CASE ~Deep(u)
      BY <1>1, <2>1, <2>3 DEF Deep
    <2>4. QED
      BY <2>2, <2>3
  <1>4. QED
    BY <1>1, <1>2, <1>3 DEF Settled, InTime

LEMMA SettledIsFound ==
  ASSUME WorldInv, ReadInv, read # None, read.unread = {},
         NEW s \in read.requests, NEW t, Settled(t, s)
  PROVE  StampsIn(Arguments(read), s) = {t}
  <1>1. s \in read.refunds <=> s \in DOMAIN refunded
    BY RefundKnown DEF Settled, Fits
  <1>2. t \in StampsIn(Arguments(read), s)
    BY <1>1, StampIff DEF Settled, InTime
  <1>3. QED
    BY <1>2, OneStamp

-----------------------------------------------------------------------------
(* The steps of the world.                                                 *)

LEMMA Start == Init => Inv
  BY SystemAssumption, ParamsAssumption
  DEF Init, Inv, WorldInv, ReadInv, VerdictInv, AfterVerdict, ShapeInv

(* What the last verdict says goes on holding if stamps stay settled. *)
LEMMA Carried ==
  ASSUME Inv, WorldInv', UNCHANGED verdict, clock <= clock',
         DOMAIN requested \subseteq DOMAIN requested',
         \A s \in DOMAIN requested : requested'[s] = requested[s],
         DOMAIN refunded \subseteq DOMAIN refunded',
         \A t, s : Settled(t, s) => Settled(t, s)'
  PROVE  VerdictInv' /\ ShapeInv'
  <1>1. /\ clock \in Int /\ clock' \in Int /\ RefundAfter \in Int
        /\ \A s \in DOMAIN requested : requested[s] \in Int
    BY ParamsAssumption DEF Inv, WorldInv
  <1>2. \A s : Stands(s) => Stands(s)'
    <2>1. SUFFICES ASSUME NEW s, Stands(s) PROVE Stands(s)'
      OBVIOUS
    <2>2. s \in DOMAIN requested' /\ requested'[s] = requested[s] /\ requested[s] \in Int
      BY <1>1, <2>1 DEF Stands
    <2>3. verdict.state[s] = "stamped" =>
            s \in DOMAIN verdict.stamps /\ \E t : verdict.stamps[s] = {t} /\ Settled(t, s)'
      BY <2>1 DEF Stands
    <2>4. verdict.state[s] = "refunded" => s \in DOMAIN refunded'
      BY <2>1 DEF Stands
    <2>5. verdict.state[s] = "overdue" => clock' - requested'[s] >= RefundAfter
      BY <1>1, <2>1, <2>2 DEF Stands
    <2>6. QED
      BY <2>2, <2>3, <2>4, <2>5 DEF Stands
  <1>3. VerdictInv'
    BY <1>2 DEF Inv, VerdictInv
  <1>4. ShapeInv'
    BY DEF Inv, ShapeInv
  <1>5. QED
    BY <1>3, <1>4

LEMMA TickKeeps ==
  ASSUME Inv, Tick
  PROVE  Inv'
  <1>1. /\ clock < MaxTime /\ clock' = clock + 1
        /\ UNCHANGED <<requested, refunded, mempool, mined, height, read, verdict>>
    BY DEF Tick
  <1>2. clock \in Int /\ MaxTime \in Nat
    BY SystemAssumption DEF Inv, WorldInv
  <1>3. WorldInv'
    BY <1>1, <1>2 DEF Inv, WorldInv
  <1>4. \A t, s : Settled(t, s) => Settled(t, s)'
    BY <1>1 DEF Settled, Fits, Deep, InTime
  <1>5. VerdictInv' /\ ShapeInv'
    BY <1>1, <1>2, <1>3, <1>4, Carried
  <1>6. ReadInv' /\ AfterVerdict'
    BY <1>1 DEF Inv, ReadInv, AfterVerdict
  <1>7. QED
    BY <1>3, <1>5, <1>6 DEF Inv

LEMMA AskKeeps ==
  ASSUME Inv, NEW q, Ask(q)
  PROVE  Inv'
  <1>1. /\ q \notin DOMAIN requested /\ requested' = Put(requested, q, clock)
        /\ UNCHANGED <<clock, refunded, mempool, mined, height, read, verdict>>
    BY DEF Ask
  <1>2. /\ DOMAIN requested' = DOMAIN requested \cup {q} /\ requested'[q] = clock
        /\ \A s \in DOMAIN requested : requested'[s] = requested[s]
    BY <1>1 DEF Put
  <1>3. WorldInv'
    BY <1>1, <1>2 DEF Inv, WorldInv
  <1>4. \A t, s : Settled(t, s) => Settled(t, s)'
    BY <1>1 DEF Settled, Fits, Deep, InTime
  <1>5. clock <= clock'
    BY <1>1 DEF Inv, WorldInv
  <1>6. VerdictInv' /\ ShapeInv'
    BY <1>1, <1>2, <1>3, <1>4, <1>5, Carried
  <1>7. ReadInv' /\ AfterVerdict'
    BY <1>1, <1>2 DEF Inv, ReadInv, AfterVerdict
  <1>8. QED
    BY <1>3, <1>6, <1>7 DEF Inv

LEMMA BroadcastKeeps ==
  ASSUME Inv, NEW b, NEW q, Broadcast(b, q)
  PROVE  Inv'
  <1>1. /\ b \notin DOMAIN mined /\ mempool' = Put(mempool, b, q)
        /\ UNCHANGED <<clock, requested, refunded, mined, height, read, verdict>>
    BY DEF Broadcast
  <1>2. DOMAIN mempool' = DOMAIN mempool \cup {b}
    BY <1>1 DEF Put
  <1>3. WorldInv'
    BY <1>1, <1>2 DEF Inv, WorldInv
  <1>4. \A t, s : Settled(t, s) => Settled(t, s)'
    BY <1>1 DEF Settled, Fits, Deep, InTime
  <1>5. clock <= clock'
    BY <1>1 DEF Inv, WorldInv
  <1>6. VerdictInv' /\ ShapeInv'
    BY <1>1, <1>3, <1>4, <1>5, Carried
  <1>7. ReadInv' /\ AfterVerdict'
    BY <1>1 DEF Inv, ReadInv, AfterVerdict
  <1>8. QED
    BY <1>3, <1>6, <1>7 DEF Inv

(* The issuer gives back only what has no mined stamp. *)
LEMMA GiveBackKeeps ==
  ASSUME Inv, NEW q, GiveBack(q)
  PROVE  Inv'
  <1>1. /\ q \in DOMAIN requested \ DOMAIN refunded
        /\ \A t \in DOMAIN mined : mined[t].of # q
        /\ refunded' = Put(refunded, q, clock)
        /\ UNCHANGED <<clock, requested, mempool, mined, height, read, verdict>>
    BY DEF GiveBack
  <1>2. /\ DOMAIN refunded' = DOMAIN refunded \cup {q} /\ refunded'[q] = clock
        /\ \A s \in DOMAIN refunded : refunded'[s] = refunded[s]
    BY <1>1 DEF Put
  <1>3. clock \in Nat
    BY SystemAssumption DEF Inv, WorldInv
  <1>4. WorldInv'
    BY <1>1, <1>2, <1>3 DEF Inv, WorldInv
  <1>5. ASSUME NEW t, NEW s, Settled(t, s) PROVE Settled(t, s)'
    <2>1. s # q
      BY <1>1, <1>5 DEF Settled, Fits
    <2>2. \A u : InTime(u, s, DOMAIN refunded)' <=> InTime(u, s, DOMAIN refunded)
      BY <1>1, <1>2, <2>1 DEF InTime
    <2>3. \A u : Fits(u, s)' <=> Fits(u, s)
      BY <1>1 DEF Fits
    <2>4. QED
      BY <1>1, <1>5, <2>2, <2>3 DEF Settled, Deep
  <1>6. VerdictInv' /\ ShapeInv'
    BY <1>1, <1>2, <1>3, <1>4, <1>5, Carried
  <1>7. ReadInv'
    BY <1>1, <1>2 DEF Inv, ReadInv
  <1>8. AfterVerdict'
    BY <1>1 DEF Inv, AfterVerdict
  <1>9. QED
    BY <1>4, <1>6, <1>7, <1>8 DEF Inv

(* A block is above every other and above the start of the run. *)
LEMMA BlockKeeps ==
  ASSUME Inv, NEW S \in SUBSET DOMAIN mempool, \A t, u \in S : t = u, Block(S)
  PROVE  Inv'
  <1>1. /\ height < MaxHeight /\ height' = height + 1
        /\ read # None => height < read.height + RunBlocks
        /\ DOMAIN mempool' = DOMAIN mempool \ S
        /\ UNCHANGED <<clock, requested, refunded, read, verdict>>
    BY DEF Block
  <1>2. PICK time \in (clock - Skew)..(clock + Skew) :
          mined' = [t \in DOMAIN mined \cup S |->
                      IF t \in S
                      THEN [of |-> mempool[t], height |-> height', time |-> time, at |-> clock]
                      ELSE mined[t]]
    BY DEF Block
  <1>3. /\ clock \in Nat /\ height \in Nat /\ time \in Int /\ MaxHeight \in Nat
        /\ RunBlocks \in Nat
    BY <1>2, SystemAssumption DEF Inv, WorldInv
  <1>4. /\ DOMAIN mined' = DOMAIN mined \cup S
        /\ \A t \in DOMAIN mined : mined'[t] = mined[t] /\ t \notin S
        /\ \A t \in S : /\ mined'[t].height = height + 1 /\ mined'[t].time \in Int
                        /\ mined'[t].at = clock
    BY <1>1, <1>2, <1>3 DEF Inv, WorldInv
  <1>5. \A t \in DOMAIN mined : mined[t].height \in 1..height
    BY DEF Inv, WorldInv
  <1>6. WorldInv'
    <2>1. \A t \in DOMAIN mined' :
            mined'[t].height \in 1..height' /\ mined'[t].time \in Int /\ mined'[t].at \in 0..clock
      BY <1>1, <1>3, <1>4 DEF Inv, WorldInv
    <2>2. \A t, u \in DOMAIN mined' : mined'[t].height = mined'[u].height => t = u
      <3>1. SUFFICES ASSUME NEW t \in DOMAIN mined', NEW u \in DOMAIN mined',
                            mined'[t].height = mined'[u].height
                     PROVE  t = u
        OBVIOUS
      <3>2. CASE t \in S /\ u \in S
        BY <3>2
      <3>3. CASE t \notin S /\ u \notin S
        BY <1>4, <3>1, <3>3 DEF Inv, WorldInv
      <3>4. CASE t \in S /\ u \notin S
        BY <1>3, <1>4, <1>5, <3>1, <3>4
      <3>5. CASE t \notin S /\ u \in S
        BY <1>3, <1>4, <1>5, <3>1, <3>5
      <3>6. QED
        BY <3>2, <3>3, <3>4, <3>5
    <2>3. \A t \in DOMAIN mined' :
            mined'[t].of \in DOMAIN refunded => refunded[mined'[t].of] <= mined'[t].at
      BY <1>3, <1>4 DEF Inv, WorldInv
    <2>4. DOMAIN mempool' \cap DOMAIN mined' = {}
      BY <1>1, <1>4 DEF Inv, WorldInv
    <2>5. height' \in 0..MaxHeight
      BY <1>1, <1>3
    <2>6. QED
      BY <1>1, <2>1, <2>2, <2>3, <2>4, <2>5 DEF Inv, WorldInv
  <1>7. ASSUME NEW t, NEW s, Settled(t, s) PROVE Settled(t, s)'
    <2>1. t \in DOMAIN mined /\ mined'[t] = mined[t] /\ mined[t].height \in 1..height
      BY <1>4, <1>5, <1>7 DEF Settled
    <2>2. Fits(t, s)' /\ InTime(t, s, DOMAIN refunded)'
      BY <1>1, <1>7, <2>1 DEF Settled, Fits, InTime
    <2>3. Deep(t)'
      BY <1>1, <1>3, <1>7, <2>1, ParamsAssumption DEF Settled, Deep
    <2>4. ASSUME NEW u \in DOMAIN mined', Fits(u, s)', InTime(u, s, DOMAIN refunded)'
          PROVE  mined'[t].height <= mined'[u].height
      <3>1. CASE u \in S
        BY <1>3, <1>4, <2>1, <3>1
      <3>2. CASE u \notin S
        <4>1. u \in DOMAIN mined /\ mined'[u] = mined[u]
          BY <1>4, <3>2
        <4>2. Fits(u, s) /\ InTime(u, s, DOMAIN refunded)
          BY <1>1, <2>4, <4>1 DEF Fits, InTime
        <4>3. QED
          BY <1>7, <2>1, <4>1, <4>2 DEF Settled
      <3>3. QED
        BY <3>1, <3>2
    <2>5. QED
      BY <1>4, <2>1, <2>2, <2>3, <2>4 DEF Settled
  <1>8. VerdictInv' /\ ShapeInv'
    BY <1>1, <1>3, <1>6, <1>7, Carried
  <1>9. ReadInv'
    <2>1. SUFFICES ASSUME read # None PROVE ReadInv'
      BY <1>1 DEF ReadInv
    <2>2. /\ read.height \in Nat /\ height \in read.height..read.height + RunBlocks
          /\ height < read.height + RunBlocks
      BY <1>1, <2>1 DEF Inv, ReadInv
    <2>3. height' \in read.height..read.height + RunBlocks
      BY <1>1, <1>3, <2>2
    <2>4. \A t \in S : mined'[t].height > read.height
      BY <1>3, <1>4, <2>2
    <2>5. QED
      BY <1>1, <1>4, <2>1, <2>2, <2>3, <2>4 DEF Inv, ReadInv
  <1>10. AfterVerdict'
    BY <1>1 DEF Inv, AfterVerdict
  <1>11. QED
    BY <1>6, <1>8, <1>9, <1>10 DEF Inv

-----------------------------------------------------------------------------
(* The steps of a run.                                                     *)

LEMMA ReadKeeps ==
  ASSUME Inv, NEW A \in SUBSET DOMAIN requested, NEW B \in SUBSET DOMAIN refunded,
         ReadSolana(A, B)
  PROVE  Inv'
  <1>1. /\ read' = [requests |-> DOMAIN requested \ A, refunds |-> DOMAIN refunded \ B,
                    unread |-> A \cup {<<"refund", s>> : s \in B}, height |-> height]
        /\ UNCHANGED <<clock, requested, refunded, mempool, mined, height, verdict>>
    BY DEF ReadSolana, world
  <1>2. /\ read'.requests = DOMAIN requested \ A /\ read'.refunds = DOMAIN refunded \ B
        /\ read'.unread = A \cup {<<"refund", s>> : s \in B} /\ read'.height = height
    BY <1>1
  <1>3. read'.unread = {} => A = {} /\ B = {}
    <2>1. \A s \in A : s \in read'.unread
      BY <1>2
    <2>2. \A s \in B : <<"refund", s>> \in read'.unread
      BY <1>2
    <2>3. QED
      BY <2>1, <2>2
  <1>4. WorldInv'
    BY <1>1 DEF Inv, WorldInv
  <1>5. \A t, s : Settled(t, s) => Settled(t, s)'
    BY <1>1 DEF Settled, Fits, Deep, InTime
  <1>6. VerdictInv' /\ ShapeInv'
    <2>1. clock <= clock'
      BY <1>1 DEF Inv, WorldInv
    <2>2. QED
      BY <1>1, <1>4, <1>5, <2>1, Carried
  <1>7. ReadInv'
    <2>1. height \in Nat /\ RunBlocks \in Nat
      BY SystemAssumption DEF Inv, WorldInv
    <2>2. height \in height..height + RunBlocks
      BY <2>1
    <2>3. QED
      BY <1>1, <1>2, <1>3, <2>1, <2>2 DEF ReadInv
  <1>8. AfterVerdict'
    BY <1>1, <1>2, <1>3 DEF Inv, VerdictInv, Stands, AfterVerdict
  <1>9. QED
    BY <1>4, <1>6, <1>7, <1>8 DEF Inv

(* The requests that hold a stamp in the verdict of a run. *)
Stamped(sol) == {s \in sol.requests : StampsIn(Arguments(sol), s) # {}}

(* What the last call of a run puts into the verdict. *)
LEMMA Judged ==
  ASSUME Conclude
  PROVE  /\ read # None /\ read' = None
         /\ UNCHANGED <<clock, requested, refunded, mempool, mined, height>>
         /\ verdict'.complete <=> read.unread = {}
         /\ DOMAIN verdict'.state = read.requests \cup read.unread
         /\ DOMAIN verdict'.stamps = Stamped(read)
         /\ \A s \in Stamped(read) : verdict'.stamps[s] = StampsIn(Arguments(read), s)
         /\ \A s \in read.requests \cup read.unread :
              verdict'.state[s] = StateOf(Arguments(read), Stamped(read), s)
         /\ verdict'.broken \subseteq read.requests
         /\ \A s \in verdict'.broken :
              \/ verdict'.state[s] = "overdue"
              \/ verdict'.state[s] = "stamped" /\ RefundsOf(Arguments(read), s) # {}
  <1> DEFINE in == Arguments(read)
             stamped == {s \in DOMAIN in.requests : StampsIn(in, s) # {}}
             state == [s \in DOMAIN in.requests \cup in.unresolved |-> StateOf(in, stamped, s)]
  <1>1. /\ read # None /\ read' = None /\ verdict' = Judge(in, read.unread = {})
        /\ UNCHANGED <<clock, requested, refunded, mempool, mined, height>>
    BY DEF Conclude, world
  <1>2. DOMAIN in.requests = read.requests /\ in.unresolved = read.unread
    BY DEF Arguments
  <1>3. stamped = Stamped(read)
    BY <1>2 DEF Stamped
  <1>4. verdict' =
          [state    |-> state,
           stamps   |-> [s \in stamped |-> StampsIn(in, s)],
           broken   |-> {s \in DOMAIN in.requests :
                           \/ state[s] = "overdue"
                           \/ state[s] = "stamped" /\ RefundsOf(in, s) # {}},
           complete |-> (read.unread = {})]
    BY <1>1 DEF Judge
  <1>5. /\ verdict'.state = state /\ verdict'.complete = (read.unread = {})
        /\ verdict'.stamps = [s \in stamped |-> StampsIn(in, s)]
        /\ verdict'.broken = {s \in DOMAIN in.requests :
                                \/ state[s] = "overdue"
                                \/ state[s] = "stamped" /\ RefundsOf(in, s) # {}}
    BY <1>4
  <1>6. /\ DOMAIN verdict'.state = read.requests \cup read.unread
        /\ \A s \in read.requests \cup read.unread :
             verdict'.state[s] = StateOf(in, Stamped(read), s)
    <2> HIDE DEF in, stamped
    <2>1. QED
      BY <1>2, <1>3, <1>5
  <1>7. /\ DOMAIN verdict'.stamps = Stamped(read)
        /\ \A s \in Stamped(read) : verdict'.stamps[s] = StampsIn(in, s)
    <2> HIDE DEF in, stamped
    <2>1. QED
      BY <1>3, <1>5
  <1>8. /\ verdict'.broken \subseteq read.requests
        /\ \A s \in verdict'.broken :
             \/ verdict'.state[s] = "overdue"
             \/ verdict'.state[s] = "stamped" /\ RefundsOf(in, s) # {}
    <2> HIDE DEF in, state
    <2>1. QED
      BY <1>2, <1>5
  <1> HIDE DEF in, state, stamped
  <1>9. verdict'.complete <=> read.unread = {}
    BY <1>5
  <1>10. QED
    BY <1>1, <1>6, <1>7, <1>8, <1>9 DEF in

LEMMA RefundsIff ==
  ASSUME NEW sol, NEW s
  PROVE  RefundsOf(Arguments(sol), s) # {} <=> s \in sol.refunds /\ s \in sol.requests
  <1> DEFINE in == Arguments(sol)
  <1>1. /\ DOMAIN in.requests = sol.requests
        /\ in.refunds = {Refund(q) : q \in sol.refunds}
        /\ \A q \in sol.requests : in.requests[q] = Request(q, requested[q])
    BY DEF Arguments
  <1>2. /\ \A q : Refund(q).of = q /\ Refund(q).to = q /\ Refund(q).amount = 0
        /\ \A q, n : Request(q, n).source = q /\ Request(q, n).fee = 0
    BY DEF Refund, Request
  <1> HIDE DEF in
  <1>3. RefundsOf(in, s) # {} <=> s \in sol.refunds /\ s \in sol.requests
    BY <1>1, <1>2 DEF RefundsOf, Repays
  <1>4. QED
    BY <1>3 DEF in

(* StateOf in a run. *)
LEMMA StateIs ==
  ASSUME NEW sol, NEW s \in sol.requests \cup sol.unread
  PROVE  LET state == StateOf(Arguments(sol), Stamped(sol), s)
         IN  /\ state \in States
             /\ state = "stamped" => s \in Stamped(sol)
             /\ state = "refunded" => s \in sol.refunds
             /\ state = "overdue" /\ s \in sol.requests => clock - requested[s] >= RefundAfter
             /\ s \notin sol.unread =>
                  /\ s \in Stamped(sol) => state = "stamped"
                  /\ s \notin Stamped(sol) /\ s \in sol.refunds => state = "refunded"
                  /\ clock - requested[s] >= RefundAfter => state # "pending"
  <1> DEFINE in == Arguments(sol)
  <1>1. /\ DOMAIN in.requests = sol.requests /\ in.unresolved = sol.unread /\ in.now = clock
        /\ \A q \in sol.requests : in.requests[q] = Request(q, requested[q])
    BY DEF Arguments
  <1>2. \A q, n : Request(q, n).time = n
    BY DEF Request
  <1>3. RefundsOf(in, s) # {} <=> s \in sol.refunds /\ s \in sol.requests
    BY RefundsIff
  <1> HIDE DEF in
  <1>4. Stamped(sol) \subseteq sol.requests
    BY DEF Stamped
  <1>5. s \in sol.requests => in.requests[s].time = requested[s]
    BY <1>1, <1>2
  <1> DEFINE state == StateOf(in, Stamped(sol), s)
             late == clock - requested[s] >= RefundAfter
  <1>6. state = CASE s \in sol.unread -> "unresolved"
                  [] s \notin sol.unread /\ s \in Stamped(sol) -> "stamped"
                  [] s \notin sol.unread \cup Stamped(sol) /\ RefundsOf(in, s) # {} -> "refunded"
                  [] OTHER -> IF in.now - in.requests[s].time >= RefundAfter
                              THEN "overdue" ELSE "pending"
    BY <1>1, Zenon DEF StateOf
  <1>7. CASE s \in sol.unread
    <2>1. state = "unresolved"
      BY <1>6, <1>7
    <2>2. QED
      BY <1>7, <2>1 DEF States, in
  <1>8. CASE s \notin sol.unread /\ s \in Stamped(sol)
    <2>1. state = "stamped"
      BY <1>6, <1>8
    <2>2. QED
      BY <1>8, <2>1 DEF States, in
  <1>9. CASE s \notin sol.unread /\ s \notin Stamped(sol) /\ s \in sol.refunds
    <2>1. state = "refunded"
      BY <1>3, <1>6, <1>9
    <2>2. QED
      BY <1>9, <2>1 DEF States, in
  <1>10. CASE s \notin sol.unread /\ s \notin Stamped(sol) /\ s \notin sol.refunds
    <2>1. state = IF late THEN "overdue" ELSE "pending"
      BY <1>1, <1>3, <1>5, <1>6, <1>10
    <2>2. QED
      BY <1>10, <2>1 DEF States, in
  <1>11. QED
    BY <1>7, <1>8, <1>9, <1>10

LEMMA ConcludeKeeps ==
  ASSUME Inv, Conclude
  PROVE  Inv'
  <1>1. /\ read # None /\ read' = None
        /\ UNCHANGED <<clock, requested, refunded, mempool, mined, height>>
        /\ verdict'.complete <=> read.unread = {}
        /\ DOMAIN verdict'.state = read.requests \cup read.unread
        /\ DOMAIN verdict'.stamps = Stamped(read)
        /\ \A s \in Stamped(read) : verdict'.stamps[s] = StampsIn(Arguments(read), s)
        /\ \A s \in read.requests \cup read.unread :
             verdict'.state[s] = StateOf(Arguments(read), Stamped(read), s)
        /\ verdict'.broken \subseteq read.requests
        /\ \A s \in verdict'.broken :
             \/ verdict'.state[s] = "overdue"
             \/ verdict'.state[s] = "stamped" /\ RefundsOf(Arguments(read), s) # {}
    BY Judged
  <1>2. /\ WorldInv /\ ReadInv
        /\ read.requests \subseteq DOMAIN requested /\ read.refunds \subseteq DOMAIN refunded
        /\ Stamped(read) \subseteq read.requests
    BY <1>1 DEF Inv, ReadInv, Stamped
  <1>3. WorldInv'
    BY <1>1, <1>2 DEF WorldInv
  <1>4. ReadInv' /\ AfterVerdict'
    BY <1>1 DEF ReadInv, AfterVerdict
  <1>5. ShapeInv'
    <2>1. ASSUME NEW s \in Stamped(read)
          PROVE  Cardinality(verdict'.stamps[s]) = 1
      <3>1. PICK t : t \in StampsIn(Arguments(read), s)
        BY DEF Stamped
      <3>2. verdict'.stamps[s] = {t}
        BY <1>1, <1>2, <3>1, OneStamp
      <3>3. QED
        BY <3>2, FS_Singleton
    <2>2. \A s \in read.requests \cup read.unread : verdict'.state[s] \in States
      BY <1>1, StateIs
    <2>3. QED
      BY <1>1, <2>1, <2>2 DEF ShapeInv
  <1>6. VerdictInv'
    <2>1. SUFFICES ASSUME read.unread = {} PROVE VerdictInv'
      BY <1>1 DEF VerdictInv
    <2>2. \A t, s : Settled(t, s) => Settled(t, s)'
      BY <1>1 DEF Settled, Fits, Deep, InTime
    <2>3. ASSUME NEW s \in read.requests PROVE Stands(s)'
      <3>1. /\ verdict'.state[s] = "stamped" => s \in Stamped(read)
            /\ verdict'.state[s] = "refunded" => s \in read.refunds
            /\ verdict'.state[s] = "overdue" => clock - requested[s] >= RefundAfter
        BY <1>1, StateIs
      <3>2. ASSUME s \in Stamped(read)
            PROVE  \E t : verdict'.stamps[s] = {t} /\ Settled(t, s)'
        <4>1. PICK t : t \in StampsIn(Arguments(read), s)
          BY <3>2 DEF Stamped
        <4>2. verdict'.stamps[s] = {t}
          BY <1>1, <1>2, <3>2, <4>1, OneStamp
        <4>3. Settled(t, s)
          BY <1>1, <1>2, <2>1, <4>1, FoundIsSettled
        <4>4. QED
          BY <2>2, <4>2, <4>3
      <3>3. QED
        BY <1>1, <1>2, <3>1, <3>2 DEF Stands
    <2>4. ASSUME NEW s \in verdict'.broken \cap DOMAIN verdict'.stamps
          PROVE  verdict'.state[s] = "stamped" /\ s \in DOMAIN refunded
      <3>1. s \in Stamped(read) /\ s \in read.requests /\ s \notin read.unread
        BY <1>1, <1>2, <2>1, <2>4
      <3>2. verdict'.state[s] = "stamped"
        BY <1>1, <3>1, StateIs
      <3>3. RefundsOf(Arguments(read), s) # {}
        BY <1>1, <2>4, <3>2
      <3>4. QED
        BY <1>2, <3>2, <3>3, RefundsIff
    <2>5. QED
      BY <1>1, <2>1, <2>3, <2>4 DEF VerdictInv
  <1>7. QED
    BY <1>3, <1>4, <1>5, <1>6 DEF Inv

LEMMA Steps ==
  ASSUME Inv, [Next]_vars
  PROVE  Inv'
  <1>1. CASE Tick
    BY <1>1, TickKeeps
  <1>2. CASE \E s \in Requests : Ask(s) \/ GiveBack(s)
    BY <1>2, AskKeeps, GiveBackKeeps
  <1>3. CASE \E s \in Requests, t \in Stamps : Broadcast(t, s)
    BY <1>3, BroadcastKeeps
  <1>4. CASE Block({})
    <2>1. {} \in SUBSET DOMAIN mempool /\ \A t, u \in {} : t = u
      OBVIOUS
    <2>2. QED
      BY ONLY Inv, <1>4, <2>1, BlockKeeps
  <1>5. CASE \E t \in DOMAIN mempool : Block({t})
    <2>1. PICK t \in DOMAIN mempool : Block({t})
      BY <1>5
    <2>2. {t} \in SUBSET DOMAIN mempool /\ \A u, v \in {t} : u = v
      OBVIOUS
    <2>3. QED
      BY ONLY Inv, <2>1, <2>2, BlockKeeps
  <1>6. CASE StartRun
    BY <1>6, ReadKeeps DEF StartRun
  <1>7. CASE Conclude
    BY <1>7, ConcludeKeeps
  <1>8. CASE UNCHANGED vars
    BY <1>8 DEF vars, world, Inv, WorldInv, ReadInv, VerdictInv, AfterVerdict, ShapeInv,
         Stands, Settled, Fits, Deep, InTime
  <1>9. QED
    BY <1>1, <1>2, <1>3, <1>4, <1>5, <1>6, <1>7, <1>8 DEF Next

-----------------------------------------------------------------------------
(* What follows.                                                           *)

(* Between two runs (cli.ts main) nothing that a complete one has printed can
   come undone: its stamps are final, first and in time for good. *)
THEOREM Invariance == Spec => []Inv
  <1>1. Inv /\ [Next]_vars => Inv'
    BY Steps
  <1>2. QED
    BY Start, <1>1, PTL DEF Spec

(* The types of the chains and of the verdict; a request has one stamp at most
   in it (ledger.ts buildLedger, V4). *)
THEOREM TypesKept == Spec => []TypeOK
  <1>1. Inv => TypeOK
    BY DEF Inv, WorldInv, ShapeInv, States, TypeOK
  <1>2. QED
    BY <1>1, Invariance, PTL

(* V5 (ledger.ts, the refund's time against the block's): a stamp of an issuer
   that is mined after the refund breaks nothing, unless its block is timed
   before the moment it was mined at. *)
THEOREM LateStamps == Spec => []LateStampHarmless
  <1>1. Inv => LateStampHarmless
    <2>1. SUFFICES ASSUME Inv, verdict.complete,
                          NEW s \in verdict.broken \cap DOMAIN verdict.stamps,
                          NEW t \in verdict.stamps[s]
                   PROVE  mined[t].time <= refunded[s] /\ refunded[s] <= mined[t].at
      BY DEF LateStampHarmless
    <2>2. Settled(t, s) /\ s \in DOMAIN refunded
      BY <2>1 DEF Inv, VerdictInv, Stands
    <2>3. QED
      BY <2>1, <2>2 DEF Settled, Fits, InTime, Inv, WorldInv
  <1>2. QED
    BY <1>1, Invariance, PTL

(* The verdicts of complete runs (cli.ts main) agree: a stamp stays the stamp,
   a refund is not forgotten, what is overdue is not pending again. *)
THEOREM Agreement == Spec => VerdictsAgree
  <1>1. ASSUME Inv, [Next]_vars, verdict' # verdict,
               verdict.complete, verdict'.complete, NEW s \in DOMAIN verdict.state
        PROVE  s \in DOMAIN verdict'.state /\ Advances(s)
    <2>1. Conclude
      BY <1>1 DEF Next, vars, world, Tick, Ask, GiveBack, Broadcast, Block, StartRun, ReadSolana
    <2>2. /\ read # None /\ read.unread = {} /\ Stamped(read) \subseteq read.requests
          /\ DOMAIN verdict'.state = read.requests
          /\ \A q \in Stamped(read) : verdict'.stamps[q] = StampsIn(Arguments(read), q)
          /\ \A q \in read.requests :
               verdict'.state[q] = StateOf(Arguments(read), Stamped(read), q)
      BY <1>1, <2>1, Judged DEF Stamped
    <2>3. WorldInv /\ ReadInv /\ Stands(s) /\ s \in read.requests
      BY <1>1, <2>2 DEF Inv, VerdictInv, AfterVerdict
    <2>4. /\ verdict'.state[s] \in States
          /\ s \in Stamped(read) => verdict'.state[s] = "stamped"
          /\ s \notin Stamped(read) /\ s \in read.refunds => verdict'.state[s] = "refunded"
          /\ clock - requested[s] >= RefundAfter => verdict'.state[s] # "pending"
      BY <2>2, <2>3, StateIs
    <2>5. CASE verdict.state[s] = "stamped"
      <3>1. PICK t : verdict.stamps[s] = {t} /\ Settled(t, s)
        BY <2>3, <2>5 DEF Stands
      <3>2. StampsIn(Arguments(read), s) = {t}
        BY <2>2, <2>3, <3>1, SettledIsFound
      <3>3. s \in Stamped(read)
        BY <2>3, <3>2 DEF Stamped
      <3>4. QED
        BY <2>2, <2>3, <2>4, <2>5, <3>1, <3>2, <3>3 DEF Advances
    <2>6. CASE verdict.state[s] = "refunded"
      <3>1. s \in read.refunds
        BY <1>1, <2>2, <2>6 DEF Inv, AfterVerdict
      <3>2. CASE s \in Stamped(read)
        <4>1. \A t \in StampsIn(Arguments(read), s) : mined[t].time <= refunded[s]
          BY <2>3, <3>1, StampIff DEF InTime
        <4>2. QED
          BY <2>2, <2>3, <2>4, <2>6, <3>2, <4>1 DEF Advances
      <3>3. CASE s \notin Stamped(read)
        BY <2>2, <2>3, <2>4, <2>6, <3>1, <3>3 DEF Advances
      <3>4. QED
        BY <3>2, <3>3
    <2>7. CASE verdict.state[s] = "overdue"
      BY <2>2, <2>3, <2>4, <2>7 DEF Stands, Advances
    <2>8. CASE verdict.state[s] \notin {"stamped", "refunded", "overdue"}
      BY <2>2, <2>3, <2>8 DEF Advances
    <2>9. QED
      BY <2>5, <2>6, <2>7, <2>8
  <1>2. Inv /\ [Next]_vars =>
          [verdict.complete /\ verdict'.complete =>
             \A s \in DOMAIN verdict.state : s \in DOMAIN verdict'.state /\ Advances(s)]_verdict
    BY <1>1
  <1>3. QED
    BY <1>2, Invariance, PTL DEF Spec, VerdictsAgree

=============================================================================
