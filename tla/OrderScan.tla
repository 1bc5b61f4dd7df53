----------------------------- MODULE OrderScan -------------------------------
(***************************************************************************)
(* readPayoutCandidates of verifier/src/rpc/zebra.ts beside readZcash.     *)
(* Where readZcash lists the transactions of the issuers in one call, this *)
(* lists those of the order addresses of every exit key of account 0, in   *)
(* batches of Gap addresses, until a batch has none; of what it then reads *)
(* the way readZcash does it keeps those that spend from an address it     *)
(* asked about.                                                            *)
(***************************************************************************)
EXTENDS ZcashRead, Sequences

CONSTANTS
  Kinds,     \* which reads are made: "stamps", "payouts" or both
  Keys,      \* the exit keys of account 0, in the parameter file's order,
             \*   each [from, to]; to is None for a key still in use
  Gap,       \* ORDER_GAP
  Touches,   \* txid -> the orders <<key, index>> whose addresses it has
  Spends     \* txid -> those it spends from (None: it does not parse)

(* There is an exit key of account 0 (cli.ts:100 asks for one of any). *)
ASSUME ScanAssumption ==
  /\ Gap \in Nat \ {0}
  /\ Len(Keys) \in Nat \ {0} /\ DOMAIN Keys = 1..Len(Keys)
  /\ \A t \in Txids :
       /\ Touches[t] \subseteq (DOMAIN Keys) \X Nat
       /\ Spends[t] = None \/ Spends[t] \subseteq Touches[t]

VARIABLES
  reads,   \* which of the two reads this is
  key,     \* the exit key being scanned
  start,   \* the first index of its next batch
  ours     \* the orders asked about

scan == <<reads, key, start, ours>>
-----------------------------------------------------------------------------
ScanInit ==
  /\ Init
  /\ reads \in Kinds
  /\ key = 1 /\ start = 0 /\ ours = {}

Batch == {<<key, i>> : i \in start..start + Gap - 1}

(* The heights at which transactions count for key k. *)
Period(k) == Keys[k].from..(IF Keys[k].to = None THEN tip ELSE Keys[k].to)

FoundIn(batch) ==
  {t \in Txids : /\ Touches[t] \cap batch # {}
                 /\ Mined(t) /\ HeightOf(t) \in Period(key)}

(* A slip: every key has one batch. *)
OneBatch ==
  /\ pc = "getaddresstxids" /\ reads = "payouts"
  /\ todo' = todo \cup FoundIn(Batch)
  /\ ours' = ours \cup Batch
  /\ IF key < Len(Keys)
     THEN key' = key + 1 /\ start' = 0 /\ UNCHANGED pc
     ELSE pc' = "getrawtransaction" /\ UNCHANGED <<key, start>>
  /\ attempts' = 0
  /\ UNCHANGED <<node, tip, current, blocks, out, reads>>

(* One batch of a key, then the next batch, the next key or the reading. *)
ScanBatch ==
  /\ pc = "getaddresstxids" /\ reads = "payouts"
  /\ todo' = todo \cup FoundIn(Batch)
  /\ ours' = ours \cup Batch
  /\ IF FoundIn(Batch) # {}
     THEN start' = start + Gap /\ UNCHANGED <<key, pc>>
     ELSE IF key < Len(Keys)
          THEN key' = key + 1 /\ start' = 0 /\ UNCHANGED pc
          ELSE pc' = "getrawtransaction" /\ UNCHANGED <<key, start>>
  /\ attempts' = 0
  /\ UNCHANGED <<node, tip, current, blocks, out, reads>>

ReadBoth ==
  \/ ScanBatch
  \/ reads = "stamps" /\ GetAddressTxids /\ UNCHANGED scan
  \/ (\/ GetBlockCount
      \/ \E t \in todo : GetMined(t) \/ GetUnmined(t)
      \/ GetBlock \/ Finish \/ CallFails) /\ UNCHANGED scan

ScanNext ==
  \/ ReadBoth
  \/ (Mine \/ (\E d \in 1..MaxReorg : Reorganize(d)) \/ Over) /\ UNCHANGED scan

ScanSpec ==
  ScanInit /\ [][ScanNext]_<<vars, scan>> /\ WF_<<vars, scan>>(ReadBoth)

(* What the read gives: a transaction that only pays an order address is left
   out, one that does not parse is not. *)
PayoutCandidates ==
  {t \in DOMAIN out : Spends[t] = None \/ Spends[t] \cap ours # {}}
-----------------------------------------------------------------------------
(* What the reads must satisfy.                                            *)

ScanTypeOK ==
  /\ TypeOK
  /\ reads \in Kinds /\ key \in DOMAIN Keys /\ start \in Nat
  /\ ours \subseteq (DOMAIN Keys) \X Nat
  /\ pc \in {"getrawtransaction", "getblock", "read"} =>
       (reads = "payouts" <=> ours # {})

SpendsOf(t) == IF Spends[t] = None THEN Touches[t] ELSE Spends[t]

Indexes == {o[2] : o \in UNION {Touches[t] : t \in Txids}}

FinalAtStart(t) == Mined(t) /\ tip - HeightOf(t) + 1 >= Confirmations

(* Final at the start, within the period of key k. *)
CountsFor(t, k) == FinalAtStart(t) /\ HeightOf(t) \in Period(k)

(* A read of the issuers' transactions that succeeds has missed none that was
   final when it started, and has each in its true place, whatever the node
   did meanwhile. *)
StampsRead ==
  reads = "stamps" => FinalAtStartIsRead

(* A read of the payouts that succeeds has missed none that was final when it
   started either, except beyond a gap: a whole earlier batch of its key's
   order addresses that had no final transaction. *)
PayoutsRead ==
  pc = "read" /\ reads = "payouts" =>
    \A t \in Txids, k \in DOMAIN Keys :
      \A i \in {i \in Indexes : <<k, i>> \in SpendsOf(t)} :
        CountsFor(t, k) =>
          \/ t \in PayoutCandidates /\ Final(out[t]) /\ TruePlace(t, out[t])
          \/ \E b \in 0..(i \div Gap) - 1 :
               \A u \in Txids :
                 (\E j \in b * Gap..(b + 1) * Gap - 1 : <<k, j>> \in Touches[u])
                   => ~CountsFor(u, k)

=============================================================================
