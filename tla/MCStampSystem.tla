--------------------------- MODULE MCStampSystem ----------------------------
(***************************************************************************)
(* StampSystem with few requests and stamps, two confirmations and a       *)
(* deadline of two ticks.                                                  *)
(***************************************************************************)
EXTENDS StampSystem

CONSTANTS s1, t1, t2

MCIssuers == {[hash |-> "issuer", from |-> 0, to |-> None]}

=============================================================================
