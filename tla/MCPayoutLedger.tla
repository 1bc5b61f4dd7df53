--------------------------- MODULE MCPayoutLedger ---------------------------
(***************************************************************************)
(* PayoutLedger on small inputs: three exits, two of which may share a     *)
(* hash or an order; forwards of one, two and three exits that compete for *)
(* them at every place of a short chain, or break one rule; an exit key    *)
(* that ends.                                                              *)
(***************************************************************************)
EXTENDS PayoutLedger

CONSTANTS old, new   \* two exit keys of account 0

MCExitKeys == {[account |-> 0, key |-> old, from |-> 1, to |-> 2],
               [account |-> 0, key |-> new, from |-> 2, to |-> None]}

Exit(h, i, t) == [hash |-> h, index |-> i, time |-> t]

Three == [e1 |-> Exit("h1", 1, 1), e2 |-> Exit("h2", 2, 2), e3 |-> Exit("h3", 3, 3)]
Twins == [Three EXCEPT !.e2.hash = "h1"]
Reuse == [Three EXCEPT !.e3.index = 1]   \* two exits name one order
-----------------------------------------------------------------------------
(* A forward of the exits with these indices, one or two coins each. *)
Hash(i) == <<"h1", "h2", "h3", "h9">>[i]

Forward(is, key, coins) ==
  [version |-> 6, parses |-> TRUE, ownTxid |-> TRUE, otherPool |-> FALSE,
   intoPool |-> 5, actions |-> 2, outputs |-> 1,
   record |-> [j \in DOMAIN is |-> Hash(is[j])],
   spenders |-> FlattenSeq([j \in DOMAIN is |->
                              [c \in 1..coins |-> <<key, is[j]>>]])]

Place(h, i, c) == [height |-> h, index |-> i, confirmations |-> c]

Places == {Place(1, 2, 4), Place(2, -1, 3), Place(2, 2, 3), Place(3, 1, 2),
           Place(4, 1, 1), Place(None, 0, 0)}

At(tx, p) == [x \in DOMAIN tx \cup DOMAIN p |->
                IF x \in DOMAIN p THEN p[x] ELSE tx[x]]

GoodTxs ==
  {Forward(<<1>>, new, 1), Forward(<<2>>, old, 2), Forward(<<1, 2>>, new, 2),
   Forward(<<2, 1>>, new, 1), Forward(<<3, 2>>, old, 1), Forward(<<3>>, new, 1)}

OddTxs ==
  { [Forward(<<1>>, new, 1) EXCEPT !.version = 5],
    [Forward(<<1>>, new, 1) EXCEPT !.parses = FALSE],
    [Forward(<<1>>, new, 1) EXCEPT !.ownTxid = FALSE],
    [Forward(<<1>>, new, 1) EXCEPT !.otherPool = TRUE],
    [Forward(<<1>>, new, 1) EXCEPT !.intoPool = None],
    [Forward(<<1>>, new, 1) EXCEPT !.intoPool = 0],
    [Forward(<<1>>, new, 1) EXCEPT !.outputs = 2],
    [Forward(<<1>>, new, 1) EXCEPT !.record = None],
    [Forward(<<1>>, new, 1) EXCEPT !.spenders = << >>],
    [Forward(<<1>>, new, 1) EXCEPT !.spenders = <<<<new, 1>>, None>>],
    [Forward(<<1>>, new, 1) EXCEPT !.spenders = <<<<new, 2>>>>],
    Forward(<<1, 1>>, new, 1), Forward(<<1, 2, 3>>, new, 1),
    [Forward(<<1, 2, 3>>, new, 1) EXCEPT !.actions = 3],
    [Forward(<<1, 2, 3>>, new, 1) EXCEPT !.actions = 3,
       !.spenders = <<<<new, 1>>, <<new, 2>>, <<new, 1>>>>],
    [Forward(<<1, 2>>, new, 1) EXCEPT !.spenders = <<<<new, 2>>, <<new, 1>>>>],
    [Forward(<<1, 2>>, new, 1) EXCEPT !.spenders = <<<<new, 1>>, <<old, 2>>>>],
    Forward(<<1, 4>>, new, 1), Forward(<<4, 1>>, old, 1) }

Alone == {[t1 |-> At(x, p)] : x \in OddTxs \cup GoodTxs, p \in Places}

(* Two anywhere, and a third that wants two exits. *)
Rivals ==
  {[t1 |-> At(x, p), t2 |-> At(y, q), t3 |-> At(Forward(<<2, 3>>, new, 1), Place(2, 1, 3))] :
     x \in GoodTxs, y \in GoodTxs, p \in Places, q \in Places}

MCInputs ==
  [exits      : {Three, Twins, Reuse},
   candidates : Alone \cup Rivals,
   unresolved : {{}, {"e3", "e9"}},
   now        : {4}]

=============================================================================
