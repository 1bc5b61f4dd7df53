---------------------------- MODULE PayoutRules -----------------------------
(***************************************************************************)
(* The rules that decide whether a Zcash transaction forwards the exits it *)
(* names (SPEC.md 10.4): the tests of buildPayoutLedger in                 *)
(* verifier/src/ledger.ts, each as a predicate of its own.                 *)
(*                                                                         *)
(* An exit is [hash, index, time]: the hash a record names it by and its   *)
(* order index.  A candidate is                                            *)
(*   [height, index, confirmations, version, parses, ownTxid, otherPool    *)
(*                       as in StampRules                                  *)
(*    intoPool           zatoshi into the Ironwood pool, negative when     *)
(*                       they leave it (None: no Ironwood part)            *)
(*    actions            of its Ironwood part                              *)
(*    outputs            how many transparent outputs it has               *)
(*    record             the hashes of the first one if it is a version 3  *)
(*                       record, else None                                 *)
(*    spenders]          the key hash of each input, in order (None: not   *)
(*                       a P2PKH spend)                                    *)
(* The key hash of order i under exit key k is the pair <<k, i>>.          *)
(***************************************************************************)
EXTENDS ChainOrder, KeyRuns, SequencesExt

CONSTANT
  ExitKeys    \* params.zcash.exitKeys: a set of [account, key, from, to]

-----------------------------------------------------------------------------
(* P1 *)
IsV6(z) == z.version = 6 /\ z.parses /\ z.ownTxid

(* P2 *)
Shields(z) ==
  /\ ~z.otherPool
  /\ z.intoPool # None /\ z.intoPool > 0
  /\ z.outputs = 1
  /\ z.record # None
  /\ IsInjective(z.record)
  /\ Len(z.record) <= z.actions

(* P3, and a slip: a key may come back in a later run. *)
AnyRuns(z) ==
  /\ z.spenders # << >> /\ None \notin Range(z.spenders)
  /\ Len(RunKeys(z.spenders)) = Len(z.record)

OneRunPerExit(z) ==
  /\ z.spenders # << >> /\ None \notin Range(z.spenders)
  /\ IsInjective(RunKeys(z.spenders))
  /\ Len(RunKeys(z.spenders)) = Len(z.record)

(* V1: exactly one of the exits E has hash h. *)
OnlyExit(E, e, h) == {x \in DOMAIN E : E[x].hash = h} = {e}

(* V2: key is order i's under an exit key valid at this height. *)
KeysAt(account, height) ==
  {k \in ExitKeys :
     /\ k.account = account
     /\ k.from <= height /\ (k.to = None \/ height <= k.to)}

OrderKey(key, i, height) == \E k \in KeysAt(0, height) : key = <<k.key, i>>

(* The exits a record names, one or none per hash. *)
NamedBy(E, z) ==
  {e \in DOMAIN E : \E j \in DOMAIN z.record : OnlyExit(E, e, z.record[j])}

KnownAt(E, z, j) == \E e \in DOMAIN E : OnlyExit(E, e, z.record[j])

PaidAt(E, z, j) ==
  \E e \in DOMAIN E :
    /\ OnlyExit(E, e, z.record[j])
    /\ OrderKey(RunKeys(z.spenders)[j], E[e].index, z.height)

(* Everything but V4. *)
Forwards(E, z) ==
  /\ Final(z) /\ IsV6(z) /\ Shields(z) /\ OneRunPerExit(z)
  /\ \A j \in DOMAIN z.record : PaidAt(E, z, j)

=============================================================================
