------------------------------- MODULE Build --------------------------------
(***************************************************************************)
(* build of stamper-core/src/build.rs: a transparent transaction from the  *)
(* issuer's coins, its ZIP 317 fee, and its change.  The checks run in the *)
(* order of the code, each with its way out; amounts are u64 and wrap.     *)
(*                                                                         *)
(* A request is [inputs, totalIn, outputs, totalOut, bytes, marginal, ..]: *)
(* the values of the coins spent and their sum; the outputs asked for,     *)
(* each [value, script], the sum of their values and the size of their     *)
(* serialization; zatoshi per logical action.                              *)
(***************************************************************************)
EXTENDS Wire, FiniteSetsExt

CONSTANTS
  Word,          \* u64 amounts are kept modulo this
  Dust,          \* DUST
  GraceActions,  \* GRACE_ACTIONS
  OutputSize,    \* P2PKH_STANDARD_OUTPUT_SIZE, the size of a P2PKH output
  MaxOpReturn,   \* MAX_OP_RETURN_SCRIPT
  Inputs,        \* the requests
  None

(* A script of 253 bytes or more takes two more bytes for its length. *)
OutputBytes(length) == 8 + (IF length < 253 THEN 1 ELSE 3) + length

ASSUME BuildAssumption ==
  /\ Word \in Nat \ {0} /\ Dust \in Nat \ {0} /\ GraceActions \in Nat
  /\ OutputSize \in Nat \ {0} /\ MaxOpReturn \in Nat
  /\ \A r \in Inputs :
       /\ r.marginal \in Nat
       /\ r.inputs \in Seq(Nat)
       /\ r.totalIn \in Nat /\ r.totalOut \in Nat /\ r.bytes \in Nat

ASSUME NoneAssumption ==
  /\ None \notin Inputs /\ None # [error |-> "not covered"]
  /\ None \notin [fee : Nat, change : Nat, actions : Nat]

(* The sums of a request are those of its parts. *)
ASSUME SumsAssumption ==
  \A r \in Inputs :
    /\ r.totalIn = MapThenSumSet(LAMBDA i : r.inputs[i], DOMAIN r.inputs)
    /\ r.totalOut = MapThenSumSet(LAMBDA i : r.outputs[i].value, DOMAIN r.outputs)
    /\ r.bytes = MapThenSumSet(LAMBDA i : OutputBytes(r.outputs[i].script.length),
                               DOMAIN r.outputs)

VARIABLES
  request,
  result    \* None, [error] or [fee, change, actions]

vars == <<request, result>>
-----------------------------------------------------------------------------
(* zip317_fee.  An input weighs as much as a standard one; an output is
   measured. *)
CeilDiv(a, b) == (a + b - 1) \div b

AtLeast(a, b) == IF a < b THEN b ELSE a

Actions(inputs, bytes) ==
  AtLeast(AtLeast(inputs, CeilDiv(bytes, OutputSize)), GraceActions)

Fee(r, bytes) == (r.marginal * Actions(Len(r.inputs), bytes)) % Word

(* The change output is a standard one. *)
FeeWith(r) == Fee(r, r.bytes + OutputSize)
FeeWithout(r) == Fee(r, r.bytes)

(* A slip: the sum of the coins does not wrap. *)
InWide(r) == r.totalIn

In(r) == r.totalIn % Word
Out(r) == r.totalOut % Word

(* What is left of the coins after the outputs and a fee. *)
Left(r, fee) == In(r) - ((Out(r) + fee) % Word)

(* Slips: change below the dust limit is paid out; the fee leaves out the
   change output; what the change would have been stays unspent. *)
AnyChange(r) == Left(r, FeeWith(r)) > 0

Changes(r) == Left(r, FeeWith(r)) >= Dust

WithChangeCheap(r) ==
  [fee |-> FeeWithout(r), change |-> Left(r, FeeWithout(r)),
   actions |-> Actions(Len(r.inputs), r.bytes)]

WithChange(r) ==
  [fee |-> FeeWith(r), change |-> Left(r, FeeWith(r)),
   actions |-> Actions(Len(r.inputs), r.bytes + OutputSize)]

WithoutSpare(r) ==
  [fee |-> FeeWithout(r), change |-> 0, actions |-> Actions(Len(r.inputs), r.bytes)]

WithoutChange(r) ==
  [fee |-> (FeeWithout(r) + Left(r, FeeWithout(r))) % Word, change |-> 0,
   actions |-> Actions(Len(r.inputs), r.bytes)]
-----------------------------------------------------------------------------
(* The outputs that are built. *)
Allowed(o) ==
  \/ ScriptKind(o.script) \in {"P2PKH", "P2SH"} /\ o.value >= Dust
  \/ ScriptKind(o.script) = "OP_RETURN" /\ o.value = 0 /\ o.script.length <= MaxOpReturn

OpReturns(r) ==
  {i \in DOMAIN r.outputs : ScriptKind(r.outputs[i].script) = "OP_RETURN"}

Wellformed(r) ==
  /\ r.inputs # << >>
  /\ r.marginal # 0
  /\ \A i \in DOMAIN r.outputs : Allowed(r.outputs[i])
  /\ \A i, j \in OpReturns(r) : i = j

Init == request \in Inputs /\ result = None

Fail(why) == result' = [error |-> why] /\ UNCHANGED request

Refuse ==
  /\ result = None
  /\ ~Wellformed(request)
  /\ Fail("refused")

(* A slip: coins that would leave dust are refused. *)
NoSpare ==
  /\ result = None
  /\ Wellformed(request)
  /\ ~Changes(request)
  /\ Left(request, FeeWithout(request)) # 0
  /\ Fail("not covered")

NotCovered ==
  /\ result = None
  /\ Wellformed(request)
  /\ ~Changes(request)
  /\ Left(request, FeeWithout(request)) < 0
  /\ Fail("not covered")

MakeWithChange ==
  /\ result = None
  /\ Wellformed(request)
  /\ Changes(request)
  /\ result' = WithChange(request)
  /\ UNCHANGED request

MakeWithout ==
  /\ result = None
  /\ Wellformed(request)
  /\ ~Changes(request)
  /\ Left(request, FeeWithout(request)) >= 0
  /\ result' = WithoutChange(request)
  /\ UNCHANGED request

Next == Refuse \/ NotCovered \/ MakeWithChange \/ MakeWithout

Spec == Init /\ [][Next]_vars
-----------------------------------------------------------------------------
(* What a built transaction must satisfy.                                  *)

(* The sums and the fee fit in 64 bits, as all the zatoshi there are do. *)
Fits(r) ==
  /\ r.totalIn < Word
  /\ r.totalOut + r.marginal * Actions(Len(r.inputs), r.bytes + OutputSize) < Word

Built == result # None /\ "fee" \in DOMAIN result

(* The bytes of the outputs the transaction has in the end. *)
FinalBytes == request.bytes + (IF result.change = 0 THEN 0 ELSE OutputSize)

(* A result is a refusal or amounts of 64 bits. *)
TypeOK ==
  \/ result \in {None, [error |-> "refused"], [error |-> "not covered"]}
  \/ /\ DOMAIN result = {"fee", "change", "actions"}
     /\ result.fee \in 0..Word - 1 /\ result.change \in 0..Word - 1
     /\ result.actions \in Nat

(* No zatoshi is made or lost: the coins spent are the outputs, the change and
   the fee the tool prints. *)
Conserves ==
  Built /\ Fits(request) =>
    request.totalIn = request.totalOut + result.change + result.fee

(* The transaction as it is built, change output included, pays at least its
   ZIP 317 fee, and the actions printed are its own. *)
PaysItsFee ==
  Built /\ Fits(request) =>
    /\ result.actions = Actions(Len(request.inputs), FinalBytes)
    /\ result.fee >= request.marginal * result.actions

(* Change is never dust, and what is given up for want of change is less than
   a dust output and the actions it would have taken. *)
LittleIsLost ==
  Built /\ Fits(request) =>
    /\ result.change = 0 \/ result.change >= Dust
    /\ result.fee < request.marginal * result.actions + Dust
         + request.marginal * (Actions(Len(request.inputs), request.bytes + OutputSize)
                                 - result.actions)

(* The tool fails for want of money only when there is too little of it for the
   outputs and the fee of a transaction without change. *)
FailsOnlyShort ==
  result = [error |-> "not covered"] /\ Fits(request) =>
    request.totalIn <
      request.totalOut + request.marginal * Actions(Len(request.inputs), request.bytes)

=============================================================================
