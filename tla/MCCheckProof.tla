---------------------------- MODULE MCCheckProof -----------------------------
(***************************************************************************)
(* CheckProof on small inputs: a private stamp or a forward of one to      *)
(* three exits, good or with one thing wrong with it, at heights where     *)
(* keys begin and end; a node that answers with the transaction, with its  *)
(* signatures replaced or with another one; proofs made by the wallet and  *)
(* proofs with one field changed.                                          *)
(***************************************************************************)
EXTENDS CheckProof

CONSTANTS k1, k2, stranger,   \* two issuer keys and somebody else's
          old, new, far,      \* exit keys; far is of another account
          gold                \* a coin

MCIssuers == {[hash |-> k1, from |-> 1, to |-> 2],
              [hash |-> k2, from |-> 2, to |-> None]}

MCRequestKeys == {[id |-> 1, from |-> 0, to |-> 3]}

MCExitKeys == {[account |-> 0, key |-> old, from |-> 1, to |-> 2],
               [account |-> 0, key |-> new, from |-> 2, to |-> None],
               [account |-> 1, key |-> far, from |-> 2, to |-> None]}

MCSignatures == {"s1", "s2", "s3", "s4", "x1", "x2", "x3", "h1"}

MCHash == [s \in MCSignatures |-> <<s>>]

(* The last second of a 29 February and a first second of a year. *)
LeapDay == 951868799

NewYear == 978307200

-----------------------------------------------------------------------------
(* What Solana holds. *)
Request(s, mode, kid, fee) ==
  [mode |-> mode, hash |-> <<MCHash[s], MCHash[s]>>, burned |-> 7,
   harvested |-> 5, fee |-> fee, source |-> s, dest |-> "d1", kid |-> kid,
   time |-> 1]

MCRequests ==
  "s1" :> Request("s1", "private", 1, 1) @@ "s2" :> Request("s2", "public", 0, 1)
    @@ "s3" :> Request("s3", "private", 2, 1) @@ "s4" :> Request("s4", "private", 1, 6)

Exit(s, i) == [hash |-> MCHash[s], index |-> i, sent |-> 9, time |-> NewYear]

(* x3 is named by some forwards, but no exit of this name was made. *)
MCExits == "x1" :> Exit("x1", 1) @@ "x2" :> Exit("x2", 2)

-----------------------------------------------------------------------------
(* Transactions.  Every coin is worth 3. *)
Coins3(n) == [i \in 1..n |-> 3]

Sign(keys) ==
  [i \in DOMAIN keys |->
     [form |-> IF keys[i] = None THEN "other" ELSE "plain", key |-> keys[i],
      over |-> <<"t1", i, Coins3(Len(keys)), keys>>]]

Pays(who, value) == [value |-> value, script |-> PayTo(who)]

ToScript(value) == [value |-> value, script |-> [ops |-> "p2sh", length |-> 23]]

Says(script) == [value |-> 0, script |-> script]

Note(who, value, rseed, memo) ==
  [receiver |-> who, value |-> value, rseed |-> rseed, memo |-> memo]

Padding == Note("nobody", 0, 9, None)

StampReceipt(s, harvested) ==
  [coin |-> gold, burned |-> 7, harvested |-> harvested, fee |-> 1,
   signature |-> s, time |-> LeapDay]

PrivateTx(s, keys) ==
  [txid |-> "t1", version |-> 6, parses |-> TRUE, inputs |-> Sign(keys),
   outputs |-> <<Says(RecordV2Script(MCHash[s])), Pays(k2, 9)>>,
   intoPool |-> 2, otherPool |-> FALSE,
   notes |-> <<Padding, Note("alice", 2, 1, StampText(StampReceipt(s, 5)))>>]

GoodStamp == PrivateTx("s1", <<k2>>)

PrivateTxs ==
  { GoodStamp, PrivateTx("s1", <<k1, k2>>), PrivateTx("s1", <<k1>>),
    PrivateTx("s2", <<k2>>), PrivateTx("s3", <<k2>>),
    PrivateTx("s1", <<stranger>>), PrivateTx("s1", <<k2, stranger>>),
    PrivateTx("s1", <<None>>), PrivateTx("s1", << >>),
    [GoodStamp EXCEPT !.outputs = Append(@, Pays(stranger, 1))],
    [GoodStamp EXCEPT !.outputs = Append(@, ToScript(1))],
    [GoodStamp EXCEPT !.outputs = @ \o @],
    [GoodStamp EXCEPT !.outputs = Tail(@)],
    [GoodStamp EXCEPT !.outputs[1] = Says(RecordV2Script(MCHash["s3"]))],
    [GoodStamp EXCEPT !.outputs[1] = Says(RecordV3Script(RecordV3(<<MCHash["s1"]>>)[1]))],
    [GoodStamp EXCEPT !.outputs[1].script = Return(<<76, 23>>, RecordV2(MCHash["s1"]))],
    [GoodStamp EXCEPT !.outputs[1].script.data.version = 0],
    [GoodStamp EXCEPT !.inputs[1].form = "pushdata"],
    [GoodStamp EXCEPT !.notes = <<Padding>> \o @],
    [GoodStamp EXCEPT !.intoPool = 3], [GoodStamp EXCEPT !.otherPool = TRUE],
    [GoodStamp EXCEPT !.intoPool = None, !.version = 5, !.notes = << >>],
    [GoodStamp EXCEPT !.notes[2].memo = StampText(StampReceipt("s1", 6))],
    [GoodStamp EXCEPT !.notes[2].memo.burned.exact = FALSE],
    [GoodStamp EXCEPT !.notes[2].memo.received.part = 1],
    [GoodStamp EXCEPT !.notes[2].memo.link = "s3"],
    [GoodStamp EXCEPT !.notes[2].memo.at.date.day = 30],
    [GoodStamp EXCEPT !.notes[2].memo = None],
    [GoodStamp EXCEPT !.notes[1] = Note("alice", 2, 2, None)] }

PayoutReceipt(s, bridged) ==
  [source |-> "sell", coin |-> IF s = "h1" THEN None ELSE gold, sent |-> 9,
   bridged |-> bridged, fee |-> 1, received |-> bridged - 1, signature |-> s,
   time |-> NewYear]

Index(s) == CASE s \in {"x1", "h1"} -> 1 [] s = "x2" -> 2 [] OTHER -> 3

(* A forward of exits ss by exit key, coins inputs each, to one wallet each. *)
ForwardTx(ss, key, coins, to) ==
  [txid |-> "t1", version |-> 6, parses |-> TRUE,
   inputs |-> Sign(FlattenSeq([j \in DOMAIN ss |-> [c \in 1..coins |-> <<key, Index(ss[j])>>]])),
   outputs |-> <<Says(RecordV3Script(RecordV3([j \in DOMAIN ss |-> MCHash[ss[j]]])[1]))>>,
   intoPool |-> 5, otherPool |-> FALSE,
   notes |->
     [j \in DOMAIN ss |-> Note(to[j], 3 * coins - 1, j,
                                 PayoutText(PayoutReceipt(ss[j], 3 * coins)))]
       \o IF Len(ss) = 1 THEN <<Padding>> ELSE << >>]

GoodForward == ForwardTx(<<"x1", "x2">>, new, 1, <<"alice", "bob">>)

GoodRecord == RecordV3(<<MCHash["x1"], MCHash["x2"]>>)[1]

WithScript(script) == [GoodForward EXCEPT !.outputs[1].script = script]

(* GoodForward with another receipt in its first note. *)
Saying(receipt) == [GoodForward EXCEPT !.notes[1].memo = PayoutText(receipt)]

ForwardTxs ==
  { GoodForward, ForwardTx(<<"x1">>, new, 2, <<"alice">>),
    ForwardTx(<<"x1">>, old, 1, <<"alice">>), ForwardTx(<<"x2", "x1">>, old, 1, <<"bob", "alice">>),
    ForwardTx(<<"x3", "x1">>, new, 1, <<"bob", "alice">>),
    ForwardTx(<<"x1", "x3">>, new, 1, <<"alice", "bob">>),
    ForwardTx(<<"x3">>, new, 1, <<"alice">>), ForwardTx(<<"x1">>, far, 1, <<"alice">>),
    ForwardTx(<<"x1">>, stranger, 1, <<"alice">>),
    ForwardTx(<<"x1", "x1">>, new, 1, <<"alice", "bob">>),
    [GoodForward EXCEPT !.inputs = Sign(<<<<new, 2>>, <<new, 1>>>>)],
    [GoodForward EXCEPT !.inputs = Sign(<<<<new, 1>>, <<new, 2>>, <<new, 1>>>>)],
    [GoodForward EXCEPT !.inputs = Sign(<<<<new, 1>>, <<new, 2>>, None>>)],
    [GoodForward EXCEPT !.outputs = Append(@, Pays(stranger, 1))],
    [GoodForward EXCEPT !.otherPool = TRUE],
    [GoodForward EXCEPT !.intoPool = -1],
    [GoodForward EXCEPT !.inputs[2].form = "pushdata"],
    WithScript(Return(<<76, 41>>, GoodRecord)), WithScript(Return(<<42>>, GoodRecord)),
    WithScript(Return(<<42>>, [GoodRecord EXCEPT !.extra = 1])),
    WithScript(RecordV2Script(MCHash["x1"])), WithScript(PayTo(stranger)),
    ForwardTx(<<"x1", "x2", "x3", "h1">>, new, 1, <<"alice", "bob", "alice", "bob">>),
    Saying(PayoutReceipt("x1", 6)), Saying(PayoutReceipt("x2", 3)),
    Saying([PayoutReceipt("x1", 4) EXCEPT !.fee = 2]),
    Saying([PayoutReceipt("x1", 3) EXCEPT !.fee = 0, !.received = 3]),
    Saying([PayoutReceipt("x1", 3) EXCEPT !.received = 3]),
    Saying([PayoutReceipt("x1", 3) EXCEPT !.sent = 8]),
    Saying([PayoutReceipt("x1", 3) EXCEPT !.time = LeapDay]),
    Saying([PayoutReceipt("x1", 3) EXCEPT !.source = "send"]),
    [GoodForward EXCEPT !.notes[1].memo.chain = "robinhood"],
    ForwardTx(<<"h1">>, new, 1, <<"alice">>), ForwardTx(<<"h1">>, far, 1, <<"alice">>) }

(* Two exits of one wallet. *)
SameWallet == ForwardTx(<<"x1", "x2">>, new, 1, <<"alice", "alice">>)

-----------------------------------------------------------------------------
(* Bytes of the same txid whose inputs claim a key without its signature, or
   bear its signature of another transaction, or its own behind a push of
   another form; and other transactions. *)
Claim(b, form, key, over) ==
  [b EXCEPT !.inputs =
     [i \in DOMAIN @ |-> [form |-> form, key |-> key[i], over |-> over]]]

(* Some inputs claim a stranger's key, with the stranger's own signature. *)
Resigned(b, some) ==
  LET keys == [i \in DOMAIN b.inputs |->
                 IF i \in some THEN stranger ELSE b.inputs[i].key]
  IN  [b EXCEPT !.inputs =
         [i \in DOMAIN @ |->
            IF i \in some
            THEN [form |-> "plain", key |-> stranger,
                  over |-> <<b.txid, i, Coins3(Len(keys)), keys>>]
            ELSE @[i]]]

MCServed(b) ==
  LET issuer == [i \in DOMAIN b.inputs |-> k2]
      order == [i \in DOMAIN b.inputs |-> <<new, i>>]
  IN  {b, Claim(b, "plain", issuer, None), Claim(b, "long", order, None),
       Claim(b, "plain", issuer, <<"t2", 1, Coins3(Len(b.inputs)), issuer>>),
       Resigned(b, DOMAIN b.inputs), Resigned(b, {Len(b.inputs)}),
       [b EXCEPT !.txid = "t2"], [b EXCEPT !.parses = FALSE]}

(* The one-field changes of a proof. *)
Changes(p) ==
  {p, [p EXCEPT !.txid = "t2"], [p EXCEPT !.pool = "orchard"],
   [p EXCEPT !.action = 3 - @], [p EXCEPT !.action = 9],
   [p EXCEPT !.receiver = "mallory"], [p EXCEPT !.value = 3],
   [p EXCEPT !.rseed = 7], [p EXCEPT !.index = 3], [p EXCEPT !.index = 4],
   [p EXCEPT !.account = 1], [p EXCEPT !.account = 2],
   [p EXCEPT !.kind = "bare"], [p EXCEPT !.kind = "junk"]}

Plain(kind) ==
  [kind |-> kind, txid |-> "t1", pool |-> "ironwood", action |-> 1,
   receiver |-> "alice", value |-> 2, rseed |-> 1, account |-> 0, index |-> 0]

Kind(b) == IF b \in PrivateTxs THEN "stamp" ELSE "payout"

MCGivenFor(b) ==
  CASE b = GoodStamp -> Changes(ProofOf("stamp", b, 2, 0, 1))
    [] b = GoodForward -> Changes(ProofOf("payout", b, 1, 0, 1))
    [] b.notes = << >> -> {Plain("stamp")}
    [] OTHER -> {ProofOf(Kind(b), b, a, c, 1) : a \in DOMAIN b.notes, c \in {0, 1}}

MCWallets == {{"alice"}, {"bob"}}

World(b, place, coins, built) ==
  [mined |-> b, height |-> place[1], confirmations |-> place[2],
   coins |-> coins, built |-> built]

Places == {<<1, 4>>, <<2, 3>>, <<3, 2>>, <<3, 1>>, <<0, 9>>, <<None, 0>>}

Found == {World(b, p, Coins3(Len(b.inputs)), None) :
            b \in PrivateTxs \cup ForwardTxs, p \in Places}

MCSameWallet == {World(SameWallet, p, Coins3(2), None) : p \in Places}

(* What the stamper was asked to build. *)
Asked(s, fee, coin, marginal) ==
  [branch |-> "nu6.3", ours |-> "nu6.3", ironwood |-> TRUE, target |-> 2,
   expiry |-> 3, marginal |-> marginal, issuer |-> k2, coin |-> coin,
   receipt |-> [StampReceipt(s, 5) EXCEPT !.fee = fee], kid |-> 1, holder |-> "w1",
   key |-> "q1", sealed |-> Seal("q1", 1, "w1", "alice")]

Orders ==
  LET ask  == Asked("s1", 1, 8, 1)
      timed(t) == [ask EXCEPT !.receipt.time = t]
  IN  {Asked(s, f, c, m) : s \in {"s1", "s2", "s3", "s4"}, f \in {1, 6},
                           c \in {7, 8}, m \in {0, 1}}
        \cup {[ask EXCEPT !.branch = "nu6"], [ask EXCEPT !.ironwood = FALSE],
              [ask EXCEPT !.expiry = 2], [ask EXCEPT !.sealed = None],
              [ask EXCEPT !.sealed = Seal("q1", 1, "w1", None)],
              [ask EXCEPT !.sealed.type = "sapling"], [ask EXCEPT !.kid = 2],
              [ask EXCEPT !.key = "q2"], [ask EXCEPT !.holder = "w2"],
              [ask EXCEPT !.issuer = k1], [ask EXCEPT !.receipt.coin = None]}
        \cup {timed(t) : t \in {-1, 0, LeapDay + 1, NewYear, LastTime, LastTime + 1}}

BuiltWorlds ==
  UNION {{World(b, p, <<r.coin>>, r) : b \in Builds(r, "t1"), p \in Places} :
           r \in Orders}

MCInputs == Found \cup BuiltWorlds

=============================================================================
