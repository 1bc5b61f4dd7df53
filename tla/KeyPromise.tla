----------------------------- MODULE KeyPromise ------------------------------
(***************************************************************************)
(* What the tools that keep keys in files promise: a path that holds a key *)
(* holds that key for good, and an address is shown only of a key that is  *)
(* kept.  Coins are sent to an address once it was shown, so a key that is *)
(* replaced or was never kept is money lost.                               *)
(***************************************************************************)
CONSTANTS Paths, Keys

VARIABLES
  key,     \* path -> the key it holds, for the paths that hold one
  shown    \* the pairs <<path, key>> whose address was shown

Init ==
  /\ \E S \in SUBSET Paths : key \in [S -> Keys]
  /\ shown = {}

Keep(p, k) ==
  /\ p \notin DOMAIN key
  /\ key' = [x \in DOMAIN key \cup {p} |-> IF x = p THEN k ELSE key[x]]
  /\ UNCHANGED shown

Show(p) ==
  /\ p \in DOMAIN key
  /\ shown' = shown \cup {<<p, key[p]>>}
  /\ UNCHANGED key

Next == \E p \in Paths : Show(p) \/ \E k \in Keys : Keep(p, k)

Spec == Init /\ [][Next]_<<key, shown>>

=============================================================================
