---------------------------- MODULE MCSolanaRead ----------------------------
(***************************************************************************)
(* SolanaRead with three transactions of the fee account in pages of two,  *)
(* one of which may be anything: it breaks each rule in turn, pays around  *)
(* a fee that rises and falls, or has any log of up to MaxLines lines that *)
(* the runtime can write.                                                  *)
(***************************************************************************)
EXTENDS SolanaRead

CONSTANTS
  MaxLines,  \* bound: lines of a log
  Talk       \* the runtime's lines a program's own text may read like

MCFees == <<[from |-> 0, amount |-> 2], [from |-> 10, amount |-> 4],
            [from |-> 12, amount |-> 1], [from |-> 13, amount |-> 3]>>
-----------------------------------------------------------------------------
(* Logs.                                                                   *)

Event(holder, whole) ==
  [whole |-> whole, mint |-> "coin", holder |-> holder, burned |-> 7, harvested |-> 5]

Invoke(p) == [kind |-> "invoke", program |-> p]
Return == [kind |-> "return"]
Data(parts) == [kind |-> "data", parts |-> parts]
Text(like) == [kind |-> "text", like |-> like]

Lines ==
  {Invoke("sapling"), Invoke("token"), Return, Data(<<Event("holder", TRUE)>>),
   Data(<<None>>)} \cup {Text(like) : like \in Talk}

(* How many programs are running after the log, if the runtime can have
   written it; a log may be cut short anywhere. *)
Count(log, k) == Cardinality({i \in DOMAIN log : log[i].kind = k})

Depth(log) == Count(log, "invoke") - Count(log, "return")

Writable(log) ==
  \A n \in DOMAIN log :
    LET sofar == Depth(SubSeq(log, 1, n - 1))
    IN  IF log[n].kind = "invoke" THEN sofar < 2 ELSE sofar > 0

Logs == {log \in UNION {[1..n -> Lines] : n \in 0..MaxLines} : Writable(log)}

Log(parts) == <<Invoke("sapling"), Invoke("token"), Return, Data(parts), Return>>
-----------------------------------------------------------------------------
(* Transactions.                                                           *)

Redeem(h, z) == [kind |-> "redeem", holder |-> h, source |-> z]
Memo(text) == [kind |-> "memo", text |-> text]
Transfer(from, to, mint, by, n) ==
  [kind |-> "transfer", source |-> from, mint |-> mint, destination |-> to,
   authority |-> by, amount |-> n]
Else == [kind |-> "other"]

Public(a) == Memo([kind |-> "public", address |-> a])
Private(kid) == Memo([kind |-> "private", kid |-> kid])
Fee(n) == Transfer("holders", "fees", "zec", "holder", n)

Tx0(ixs) ==
  [failed |-> FALSE, time |-> 5, signer |-> "holder", ixs |-> ixs,
   logs |-> Log(<<Event("holder", TRUE)>>)]

Asks == Tx0(<<Redeem("holder", "holders"), Fee(2), Public("t1")>>)
GivesBack == Tx0(<<Memo([kind |-> "refund", of |-> 1]),
                   Transfer("fees", "holders", "zec", "owner", 2)>>)
Leaves == Tx0(<<Memo([kind |-> "exit", index |-> 3]),
                Transfer("holders", "bridge", "zec", "holder", 9), Else>>)
(* By SPEC.md a request and a refund, beside which something else goes to the fee
   account or comes from it. *)
AsksAndTips ==
  [Asks EXCEPT !.ixs = @ \o <<Transfer("strangers", "fees", "zec", "stranger", 1)>>]
GivesTwo ==
  [GivesBack EXCEPT !.ixs = @ \o <<Transfer("fees", "strangers", "zec", "owner", 4)>>]
Failed == [Asks EXCEPT !.failed = TRUE]

Priced == {[Asks EXCEPT !.time = t, !.ixs[2].amount = n] : t \in {-1, 0} \cup 9..17, n \in 0..4}

Odd ==
  { [Asks EXCEPT !.time = None],
    [Asks EXCEPT !.ixs = Tail(@)],
    [Asks EXCEPT !.ixs = @ \o <<Redeem("holder", "holders")>>],
    [Asks EXCEPT !.ixs[1].source = None],
    [Asks EXCEPT !.logs = Log(<<Event("stranger", TRUE)>>)],
    [Asks EXCEPT !.logs = Log(<<Event("holder", FALSE)>>)],
    [Asks EXCEPT !.logs = Log(<<None, Event("holder", TRUE)>>)],
    [Asks EXCEPT !.logs = Log(<<Event("holder", TRUE), Event("holder", TRUE)>>)],
    [Asks EXCEPT !.ixs[3] = Public(None)],
    [Asks EXCEPT !.ixs[3] = Private(1)],
    [Asks EXCEPT !.ixs[3] = Private(None)],
    [Asks EXCEPT !.ixs[3] = Memo([kind |-> "none"])],
    [Asks EXCEPT !.ixs = @ \o <<Public("t2")>>],
    [Asks EXCEPT !.ixs = @ \o <<Fee(3)>>],
    AsksAndTips,
    [Asks EXCEPT !.ixs = @ \o <<Transfer("holders", "bridge", "zec", "holder", 9)>>],
    [Asks EXCEPT !.ixs[2] = Else],
    [Asks EXCEPT !.ixs[2].source = "strangers"],
    [Asks EXCEPT !.ixs[2].mint = "coin"],
    [Asks EXCEPT !.ixs[2].authority = "stranger"],
    GivesBack,
    [GivesBack EXCEPT !.ixs[2].mint = "coin"],
    [GivesBack EXCEPT !.ixs[2].authority = "stranger"],
    [GivesBack EXCEPT !.ixs = @ \o <<GivesBack.ixs[2]>>],
    GivesTwo,
    [GivesTwo EXCEPT !.ixs = @ \o <<Memo([kind |-> "refund", of |-> 2])>>],
    [GivesBack EXCEPT !.ixs = @ \o <<Memo([kind |-> "refund", of |-> 2])>>],
    [GivesBack EXCEPT !.ixs[2].source = "strangers"],
    [GivesBack EXCEPT !.ixs = @ \o <<Public("t1")>>] }

OddExits ==
  { Leaves, Failed, Asks,
    [Leaves EXCEPT !.time = None],
    [Leaves EXCEPT !.ixs[1].text.index = None],
    [Leaves EXCEPT !.ixs[3] = Public("t1")],
    [Leaves EXCEPT !.ixs[2].mint = "coin"],
    [Leaves EXCEPT !.ixs[2].authority = "stranger"],
    [Leaves EXCEPT !.ixs[2].amount = 0],
    [Leaves EXCEPT !.ixs[3] = Leaves.ixs[2]] }

All(a, b, c, x) ==
  [s \in 1..MaxTxs \cup Exits |->
     IF s = 1 THEN a ELSE IF s = 2 THEN b ELSE IF s = 3 THEN c ELSE x]

Run(tx, given) == [tx |-> tx, given |-> given]

(* The middle transaction is any; the page after it may hold no success. *)
MCInputs ==
  {Run(All(a, b, c, Leaves), << >>) :
     a \in {Asks, Failed}, b \in Odd \cup {Asks, Failed}, c \in {GivesBack, Failed}}
  \cup {Run(All(Asks, b, Failed, Leaves), << >>) : b \in Priced}
  \cup {Run(All(Failed, [Asks EXCEPT !.logs = log], Failed, Leaves), << >>) : log \in Logs}
  \cup {Run(All(Asks, Leaves, Failed, x), g) :
          x \in OddExits, g \in {<<9>>, <<9, 2, 9>>}}

=============================================================================
