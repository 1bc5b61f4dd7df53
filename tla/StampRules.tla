----------------------------- MODULE StampRules -----------------------------
(***************************************************************************)
(* The rules that decide whether a Zcash transaction is the stamp of a     *)
(* request: the tests of buildLedger and privateCandidate in               *)
(* verifier/src/ledger.ts, each as a predicate of its own.  Nothing here   *)
(* has state.  Ledger.tla runs the tests in the order of the code;         *)
(* StampPromise.tla says what the whole of them must amount to.            *)
(*                                                                         *)
(* A request is a record                                                   *)
(*   [mode, hash, burned, harvested, fee, source, dest, kid, time]         *)
(* where hash[v] is its signature's hash as a version v record carries it  *)
(* and dest is its address's destination script (None: undeliverable).     *)
(* A refund is a record [id, of, to, amount, time].                        *)
(* A candidate is what the reader knows of one Zcash transaction:          *)
(*   [height, index, confirmations, time    its place (height None: not    *)
(*                                          mined; time None: not given)   *)
(*    version, parses, ownTxid              its bytes parse for its        *)
(*                                          version; they hash to the txid *)
(*                                          it was listed under            *)
(*    spenders                              the key hashes of its inputs   *)
(*                                          (None: not a P2PKH spend)      *)
(*    opReturns                             its OP_RETURN scripts, each    *)
(*                                          [version, hash, burned,        *)
(*                                          harvested] (version 0: no      *)
(*                                          record)                        *)
(*    outs                                  its other transparent outputs, *)
(*                                          a set of [script, value]       *)
(*    intoPool                              zatoshi into the Ironwood pool *)
(*                                          (None: no Ironwood part)       *)
(*    otherPool]                            a Sapling, Sprout or Orchard   *)
(*                                          part                           *)
(* A key hash also stands for the P2PKH script that pays it.               *)
(***************************************************************************)
EXTENDS ChainOrder

CONSTANTS
  Issuers,        \* params.zcash.issuers: a set of [hash, from, to]
  RequestKeys,    \* params.zcash.requestKeys: a set of [id, from, to]
  RefundAfter,    \* params.refundAfterDays, in the unit of the clocks
  Postage         \* POSTAGE_ZAT

(* checkParams refuses confirmations below 1; a clock value or a height is
   never the absent value. *)
ASSUME ParamsAssumption ==
  /\ Confirmations \in Nat \ {0}
  /\ RefundAfter \in Int
  /\ Postage \in Nat \ {0}
  /\ None \notin Int

-----------------------------------------------------------------------------
(* Parameters in force.  Issuer heights are inclusive at both ends; a      *)
(* request key's end is exclusive.                                         *)

IssuersAt(h) ==
  {i.hash : i \in {j \in Issuers : j.from <= h /\ (j.to = None \/ h <= j.to)}}

RequestKeyInForce(kid, t) ==
  \E k \in RequestKeys :
    k.id = kid /\ k.from <= t /\ (k.to = None \/ t < k.to)

-----------------------------------------------------------------------------
(* Rules Z2 and Z3: a candidate.                                           *)

IsPrivate(z) == z.version = 6

RecordVersion(z) == IF IsPrivate(z) THEN 2 ELSE 1

(* Z2 *)
FromIssuers(z) ==
  /\ z.parses
  /\ IsPrivate(z) => z.ownTxid
  /\ z.spenders # {}
  /\ z.spenders \subseteq IssuersAt(z.height)

(* Z3 *)
OneRecord(z) ==
  /\ Len(z.opReturns) = 1
  /\ z.opReturns[1].version = RecordVersion(z)

IsCandidate(z) == Final(z) /\ FromIssuers(z) /\ OneRecord(z)

-----------------------------------------------------------------------------
(* Rules V1, V2, V3 and V5: the stamp of a request.                        *)

(* V1: the record's hash is that of s and of no other request. *)
Names(requests, z, s) ==
  {q \in DOMAIN requests :
     requests[q].hash[RecordVersion(z)] = z.opReturns[1].hash} = {s}

RightMode(r, z) == r.mode = IF IsPrivate(z) THEN "private" ELSE "public"

(* V2: the amounts a public record carries are those of the harvest. *)
SameAmounts(r, z) ==
  \/ IsPrivate(z)
  \/ z.opReturns[1].burned = r.burned /\ z.opReturns[1].harvested = r.harvested

Deliverable(r) ==
  IF r.mode = "private"
  THEN r.fee <= r.harvested /\ RequestKeyInForce(r.kid, r.time)
  ELSE r.dest # None

PaysAddress(r, z) ==
  \E o \in z.outs : o.value >= Postage /\ o.script = r.dest

PaysPool(z) ==
  /\ ~z.otherPool
  /\ z.intoPool = Postage
  /\ \A o \in z.outs : o.script \in IssuersAt(z.height)

(* V3 *)
PaysRequest(r, z) ==
  /\ Deliverable(r)
  /\ IF IsPrivate(z) THEN PaysPool(z) ELSE PaysAddress(r, z)

(* A slip: a refund does not matter. *)
MinedAnyTime(refundTime, z) == TRUE

(* V5 of a request refunded at refundTime.  A candidate without a block
   time is not held to it. *)
MinedBy(refundTime, z) == z.time = None \/ z.time <= refundTime

(* A refund that gives request r back exactly what it paid. *)
Repays(f, r) == f.to = r.source /\ f.amount = r.fee

-----------------------------------------------------------------------------
(* What the rules amount to, for the arguments of a ledger:                *)
(* in = [requests, refunds, candidates, unresolved, now].                  *)

(* Refunds of s that match it exactly. *)
RefundsOf(in, s) ==
  {f \in in.refunds :
     f.of = s /\ s \in DOMAIN in.requests /\ Repays(f, in.requests[s])}

(* Transaction t could be the stamp of s: V4 apart, every rule holds. *)
Qualifies(in, t, s) ==
  LET z == in.candidates[t]
  IN  /\ IsCandidate(z)
      /\ Names(in.requests, z, s)
      /\ RightMode(in.requests[s], z)
      /\ SameAmounts(in.requests[s], z)
      /\ PaysRequest(in.requests[s], z)
      /\ \A f \in RefundsOf(in, s) : MinedBy(f.time, z)

(* Slips: any qualifying candidate will do; the last one does. *)
IsAny(in, t, s) == t \in DOMAIN in.candidates /\ Qualifies(in, t, s)

IsLast(in, t, s) ==
  /\ t \in DOMAIN in.candidates
  /\ Qualifies(in, t, s)
  /\ \A u \in DOMAIN in.candidates :
       Qualifies(in, u, s) => ~Before(in.candidates[t], in.candidates[u])

(* V4 *)
IsFirst(in, t, s) ==
  /\ t \in DOMAIN in.candidates
  /\ Qualifies(in, t, s)
  /\ \A u \in DOMAIN in.candidates :
       Qualifies(in, u, s) => ~Before(in.candidates[u], in.candidates[t])

(* The state of s, given the requests that hold a stamp. *)
StateOf(in, stamped, s) ==
  CASE s \in in.unresolved -> "unresolved"
    [] s \notin in.unresolved /\ s \in stamped -> "stamped"
    [] s \notin in.unresolved \cup stamped /\ RefundsOf(in, s) # {} -> "refunded"
    [] OTHER -> IF in.now - in.requests[s].time >= RefundAfter
                THEN "overdue" ELSE "pending"

=============================================================================
