------------------------------ MODULE MCStamper ------------------------------
(***************************************************************************)
(* Stamper on two kinds of beginnings.  In one, two runs that make keys    *)
(* overlap with each other and with the signing of a few requests, on      *)
(* files that are there, empty, half written or not there.  In the other   *)
(* the key is in its file and requests lie around every boundary: a fee    *)
(* that grows with the change output and one that does not, change just    *)
(* below and at the dust limit, coins just short, sums at the width of an  *)
(* amount, coins misstated, repeated or somebody else's.                   *)
(***************************************************************************)
EXTENDS Stamper

MCCommands ==
  [keygen |-> <<"issuer">>, requestkeygen |-> <<"request">>,
   testwallet |-> <<"ufvk", "uivk">>]

(* A coin is <<number, worth, owner>>. *)
MCWorth(c) == c[2]
MCOwner(c) == c[3]

Pays(ops, value, length) ==
  [value |-> value, script |-> [ops |-> ops, length |-> length, to |-> "anyone"]]

Postage == [value |-> 54, script |-> PayTo("anyone")]
Script  == Pays("p2sh", 60, 23)
Record  == [value |-> 0, script |-> RecordV2Script("h")]
Long    == Pays("return", 0, 84)
Burning == Pays("return", 1, 40)
Dusty   == Pays("p2pkh", 53, 25)
Odd     == Pays("p2pkh", 60, 26)
Other   == Pays("other", 60, 300)
Huge    == Pays("p2pkh", 2000, 25)

OutputSeqs ==
  {<< >>, <<Postage>>, <<Record, Postage>>, <<Script, Record>>, <<Postage, Script, Postage>>,
   <<Record, Record>>, <<Long>>, <<Burning>>, <<Dusty>>, <<Odd>>, <<Other>>, <<Huge, Postage>>}

Amounts == {<< >>} \cup {<<v>> : v \in 50..260} \cup {<<v, 70>> : v \in 50..150}
             \cup {<<v, 1000>> : v \in 1000..1100} \cup {<<40, 40, 40, v>> : v \in 1..60}

Request(amounts, outs, m) ==
  [inputs   |-> amounts,
   coins    |-> [i \in DOMAIN amounts |-> <<i, amounts[i], Old>>],
   totalIn  |-> MapThenSumSet(LAMBDA i : amounts[i], DOMAIN amounts),
   outputs  |-> outs,
   totalOut |-> MapThenSumSet(LAMBDA i : outs[i].value, DOMAIN outs),
   bytes    |-> MapThenSumSet(LAMBDA i : OutputBytes(outs[i].script.length), DOMAIN outs),
   marginal |-> m, branch |-> "nu6.3", expiry |-> 9]

Plain == Request(<<130, 70>>, <<Record, Postage>>, 20)

(* Requests that say what is not so, or what a node does not take. *)
Misstated ==
  {[Plain EXCEPT !.coins[1][2] = v] : v \in {129, 131, 300}}
    \cup {[Plain EXCEPT !.coins[1][2] = 129, !.coins[2][2] = 71],
          [Plain EXCEPT !.coins[1][2] = 70, !.coins[2][2] = 130],
          [Request(<<130, 130>>, <<Postage>>, 5) EXCEPT !.coins[2][1] = 1],
          [Plain EXCEPT !.coins[2][3] = "r1"], [Plain EXCEPT !.branch = "nu6"],
          Request(<<200>>, <<Postage>>, 1020)}

Amounting == {Request(a, o, m) : a \in Amounts, o \in OutputSeqs, m \in {0, 5, 20}}

MCInputs == Amounting \cup Misstated

-----------------------------------------------------------------------------
Holds(text, shared) == [key |-> Old, text |-> text, shared |-> shared]

Files ==
  {<< >>} \cup [{"issuer"} -> {Holds(t, FALSE) : t \in 0..3}]
    \cup [{"request"} -> {Holds(t, s) : t \in 2..3, s \in BOOLEAN}]
    \cup [{"ufvk"} -> {Holds(1, FALSE)}] \cup [{"uivk"} -> {Holds(3, FALSE)}]

Ready == [p \in {"issuer"} |-> Holds(3, FALSE)]

MCInit ==
  /\ \/ request \in {Plain, Request(<<130>>, <<Dusty>>, 5)} /\ file \in Files
     \/ /\ request \in MCInputs /\ file = Ready
        /\ run = [r \in Runs |-> [at |-> "done", command |-> "none", next |-> 1]]
  /\ StamperInit

MCSpec == MCInit /\ [][StamperNext]_stamperVars

=============================================================================
