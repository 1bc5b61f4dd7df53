----------------------------- MODULE ZcashRead ------------------------------
(***************************************************************************)
(* readZcash and readTxs of verifier/src/rpc/zebra.ts, over the retrying   *)
(* rpc of verifier/src/rpc/jsonrpc.ts, against a Zcash node whose chain    *)
(* grows and reorganizes while it is read.  Each call is one step: the     *)
(* node answers it from the chain of that moment, so two calls of one read *)
(* may see two chains.                                                     *)
(*                                                                         *)
(* readPayoutCandidates reads its transactions the same way, once it has   *)
(* found them.                                                             *)
(***************************************************************************)
EXTENDS ChainOrder, FiniteSets

CONSTANTS
  Txids,       \* the transactions of the issuers' addresses
  FromHeight,  \* the least fromHeight of the issuers
  Retries,     \* how often a failed call is tried again
  MaxReorg,    \* the node replaces at most this many blocks at once
  MaxHeight    \* bound: the chain grows no further

(* A transaction is final once it is deeper than any reorganization. *)
ASSUME ReadAssumption ==
  /\ Confirmations \in Nat /\ MaxReorg \in Nat /\ MaxReorg < Confirmations
  /\ FromHeight \in Nat /\ Retries \in Nat /\ MaxHeight \in Nat \ {0}
  /\ None \notin Int

VARIABLES
  chain,     \* the node's best chain: a sequence of [txs, time]
  pc,        \* the call the reader makes next, or how the read ended
  attempts,  \* failed attempts of that call
  tip,       \* the height the read started at
  todo,      \* listed transactions not yet read
  current,   \* the mined transaction whose block is asked for
  blocks,    \* height -> the block read there
  out        \* txid -> [height, index, confirmations, time]

node == chain
reader == <<pc, attempts, tip, todo, current, blocks, out>>
vars == <<node, reader>>
-----------------------------------------------------------------------------
(* The node.                                                               *)

TxsOf(block) == {block.txs[i] : i \in DOMAIN block.txs}

MinedAt(c, t) == {h \in DOMAIN c : t \in TxsOf(c[h])}

Mined(t) == MinedAt(chain, t) # {}

HeightOf(t) == CHOOSE h \in MinedAt(chain, t) : TRUE

(* JavaScript's indexOf. *)
IndexOf(block, t) ==
  IF t \in TxsOf(block)
  THEN (CHOOSE i \in DOMAIN block.txs : block.txs[i] = t) - 1
  ELSE -1

Orders(S) ==
  {s \in [1..Cardinality(S) -> S] : \A i, j \in DOMAIN s : s[i] = s[j] => i = j}

(* The chains that go on from c with n more blocks. *)
Extensions(c, n) ==
  LET free == {t \in Txids : MinedAt(c, t) = {}}
      new  == [txs : UNION {Orders(S) : S \in SUBSET free}, time : Len(c)..Len(c) + n]
  IN  {c \o b : b \in {x \in [1..n -> new] :
         /\ \A i, j \in 1..n : i # j => TxsOf(x[i]) \cap TxsOf(x[j]) = {}
         /\ \A i \in 1..n : x[i].time - Len(c) \in {i - 1, i}}}

Mine ==
  /\ Len(chain) < MaxHeight
  /\ chain' \in Extensions(chain, 1)
  /\ UNCHANGED reader

(* A longer branch wins over the last d blocks. *)
Reorganize(d) ==
  /\ d < Len(chain) /\ Len(chain) < MaxHeight
  /\ chain' \in Extensions(SubSeq(chain, 1, Len(chain) - d), d + 1)
  /\ UNCHANGED reader
-----------------------------------------------------------------------------
(* The reader.                                                             *)

Init ==
  /\ chain \in Extensions(<<[txs |-> << >>, time |-> 1]>>, 1)
  /\ pc = "getblockcount"
  /\ attempts = 0
  /\ tip = 0
  /\ todo = {}
  /\ current = None
  /\ blocks = << >>
  /\ out = << >>

Put(f, x, y) == [z \in DOMAIN f \cup {x} |-> IF z = x THEN y ELSE f[z]]

(* Slips: the attempts are counted afresh when they run out; one try too many;
   a transaction that cannot be read is passed over. *)
RetryForever ==
  /\ pc \in {"getblockcount", "getaddresstxids", "getrawtransaction", "getblock"}
  /\ attempts' = IF attempts < Retries THEN attempts + 1 ELSE 0
  /\ UNCHANGED <<node, pc, tip, todo, current, blocks, out>>

OneTryMore ==
  /\ pc \in {"getblockcount", "getaddresstxids", "getrawtransaction", "getblock"}
  /\ IF attempts <= Retries
     THEN attempts' = attempts + 1 /\ UNCHANGED pc
     ELSE pc' = "failed" /\ UNCHANGED attempts
  /\ UNCHANGED <<node, tip, todo, current, blocks, out>>

PassOver ==
  /\ pc = "getrawtransaction" /\ todo # {}
  /\ \E t \in todo : todo' = todo \ {t}
  /\ UNCHANGED <<node, pc, attempts, tip, current, blocks, out>>

(* A call that fails is tried again, and when it has failed too often the
   whole read fails. *)
CallFails ==
  /\ pc \in {"getblockcount", "getaddresstxids", "getrawtransaction", "getblock"}
  /\ pc = "getrawtransaction" => todo # {}
  /\ IF attempts < Retries
     THEN attempts' = attempts + 1 /\ UNCHANGED pc
     ELSE pc' = "failed" /\ UNCHANGED attempts
  /\ UNCHANGED <<node, tip, todo, current, blocks, out>>

GetBlockCount ==
  /\ pc = "getblockcount"
  /\ tip' = Len(chain)
  /\ pc' = "getaddresstxids" /\ attempts' = 0
  /\ UNCHANGED <<node, todo, current, blocks, out>>

GetAddressTxids ==
  /\ pc = "getaddresstxids"
  /\ todo' = {t \in Txids : Mined(t) /\ HeightOf(t) \in FromHeight..tip}
  /\ pc' = "getrawtransaction" /\ attempts' = 0
  /\ UNCHANGED <<node, tip, current, blocks, out>>

Entry(tx, block) ==
  [height |-> tx.height, index |-> IndexOf(block, tx.id),
   confirmations |-> tx.confirmations, time |-> block.time]

(* A slip: a block confirms itself twice. *)
DepthPlusOne(h) == Len(chain) - h + 2

Depth(h) == Len(chain) - h + 1

(* A mined transaction.  A node that does not give its confirmations has them
   counted from the height the read started at. *)
GetMined(t) ==
  /\ pc = "getrawtransaction" /\ t \in todo /\ Mined(t)
  /\ \E c \in {Depth(HeightOf(t)), tip - HeightOf(t) + 1} :
       LET tx == [id |-> t, height |-> HeightOf(t), confirmations |-> c]
       IN  IF HeightOf(t) \in DOMAIN blocks
           THEN /\ out' = Put(out, t, Entry(tx, blocks[HeightOf(t)]))
                /\ todo' = todo \ {t}
                /\ UNCHANGED <<pc, current>>
           ELSE /\ current' = tx
                /\ pc' = "getblock"
                /\ UNCHANGED <<out, todo>>
  /\ attempts' = 0
  /\ UNCHANGED <<node, tip, blocks>>

GetBlock ==
  /\ pc = "getblock"
  /\ blocks' = Put(blocks, current.height, chain[current.height])
  /\ out' = Put(out, current.id, Entry(current, chain[current.height]))
  /\ todo' = todo \ {current.id}
  /\ current' = None
  /\ pc' = "getrawtransaction" /\ attempts' = 0
  /\ UNCHANGED <<node, tip>>

(* A transaction a reorganization took out of the chain: the node still has
   it, or else the call fails. *)
GetUnmined(t) ==
  /\ pc = "getrawtransaction" /\ t \in todo /\ ~Mined(t)
  /\ out' = Put(out, t, [height |-> None, index |-> 0, confirmations |-> 0,
                         time |-> None])
  /\ todo' = todo \ {t}
  /\ attempts' = 0
  /\ UNCHANGED <<node, pc, tip, current, blocks>>

Finish ==
  /\ pc = "getrawtransaction" /\ todo = {}
  /\ pc' = "read"
  /\ UNCHANGED <<node, attempts, tip, todo, current, blocks, out>>

(* The read is over; the node goes on. *)
Over == pc \in {"read", "failed"} /\ UNCHANGED vars

Read ==
  \/ GetBlockCount \/ GetAddressTxids
  \/ \E t \in todo : GetMined(t) \/ GetUnmined(t)
  \/ GetBlock \/ Finish \/ CallFails

Next == Mine \/ (\E d \in 1..MaxReorg : Reorganize(d)) \/ Read \/ Over

(* Every call ends: fetch is given 30 seconds, then it fails. *)
Spec == Init /\ [][Next]_vars /\ WF_vars(Read)
-----------------------------------------------------------------------------
(* What the read must satisfy.                                             *)

TypeOK ==
  /\ Len(chain) \in 1..MaxHeight + 1
  /\ pc \in {"getblockcount", "getaddresstxids", "getrawtransaction",
             "getblock", "read", "failed"}
  /\ attempts \in 0..Retries
  /\ tip <= Len(chain)
  /\ todo \subseteq Txids /\ DOMAIN out \subseteq Txids
  /\ todo \cap DOMAIN out = {}
  /\ DOMAIN blocks \subseteq DOMAIN chain
  /\ pc = "getblock" => current.id \in todo

(* The place of t in the chain as it is now. *)
TruePlace(t, e) ==
  /\ MinedAt(chain, t) = {e.height}
  /\ e.index = IndexOf(chain[e.height], t)
  /\ e.time = chain[e.height].time

(* A read that succeeds has missed nothing that was final when it started,
   and has that in its true place, whatever the node did meanwhile. *)
FinalAtStartIsRead ==
  pc = "read" =>
    \A t \in Txids :
      Mined(t) /\ HeightOf(t) >= FromHeight /\ tip - HeightOf(t) + 1 >= Confirmations =>
        t \in DOMAIN out /\ Final(out[t]) /\ TruePlace(t, out[t])

(* What is reported as final stays mined at the height reported: no
   reorganization the node may still make moves it. *)
FinalHeightsHold ==
  \A t \in DOMAIN out : Final(out[t]) => MinedAt(chain, t) = {out[t].height}

(* A chain that keeps changing, and calls that keep failing, do not keep the
   read from ending. *)
ReadEnds == <>(pc \in {"read", "failed"})

(* readTxs (zebra.ts:23): each transaction comes with its height, its position
   in its block and its block's time.  Stated for those reported as final. *)
PlacesAsDocumented ==
  \A t \in DOMAIN out : Final(out[t]) => TruePlace(t, out[t])

=============================================================================
