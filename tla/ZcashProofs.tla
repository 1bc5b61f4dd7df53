----------------------------- MODULE ZcashProofs ------------------------------
(***************************************************************************)
(* OrderScan, and so ZcashRead, for every number of transactions, keys and *)
(* confirmations, every schedule of blocks, reorganizations and failures:  *)
(* what was final when a read started is found in its true place, and what *)
(* is reported as final stays where it is.                                 *)
(***************************************************************************)
EXTENDS OrderScan, SequenceTheorems, TLAPS

Block == [txs : {<< >>} \cup UNION {Orders(S) : S \in SUBSET Txids}, time : Nat]

(* Each transaction is in one block of c at most. *)
Once(c) == \A t \in Txids : \A g, h \in MinedAt(c, t) : g = h

ChainInv == chain \in Seq(Block) /\ Once(chain)

(* The blocks that were final when the read started, and that are by now. *)
Fixed(h) == tip - h + 1 >= Confirmations

Deep(h) == Len(chain) - h + 1 >= Confirmations

FixedAt(t, h) == h \in MinedAt(chain, t) /\ Fixed(h)

Reading == pc \in {"getrawtransaction", "getblock", "read"}

(* The calls come in their order, and nothing is read before its call. *)
InOrder ==
  /\ tip \in Nat
  /\ pc = "getblockcount" => todo = {} /\ ours = {} /\ key = 1 /\ start = 0
  /\ pc \in {"getblockcount", "getaddresstxids"} => DOMAIN out = {} /\ DOMAIN blocks = {}
  /\ pc = "read" => todo = {}
  /\ reads # "payouts" => ours = {}

BlocksTrue == \A h \in DOMAIN blocks : Fixed(h) => blocks[h] = chain[h]

CurrentTrue ==
  pc = "getblock" =>
    /\ current.height \in DOMAIN chain
    /\ current.confirmations \in Int
    /\ current.confirmations >= Confirmations =>
         MinedAt(chain, current.id) = {current.height} /\ Deep(current.height)
    /\ \A h \in Int : FixedAt(current.id, h) =>
         h = current.height /\ current.confirmations >= Confirmations

FinalStays ==
  \A t \in DOMAIN out : Final(out[t]) =>
    MinedAt(chain, t) = {out[t].height} /\ Deep(out[t].height)

(* The entry e of t is final and true of the block at height h. *)
TrueAt(t, h, e) ==
  /\ Final(e) /\ e.height = h
  /\ e.index = IndexOf(chain[h], t)
  /\ e.time = chain[h].time

OutTrue == \A t \in DOMAIN out, h \in Int : FixedAt(t, h) => TrueAt(t, h, out[t])

(* What a read has to find is found, or will be read. *)
Listed ==
  reads = "stamps" /\ Reading =>
    \A t \in Txids, h \in Int :
      FixedAt(t, h) /\ h >= FromHeight => t \in todo \cup DOMAIN out

Counts(t, k) == \E h \in Int : FixedAt(t, h) /\ h \in Period(k)

Covers(k, n) == \A j \in 0..n - 1 : <<k, j>> \in ours

(* The scan of key k has ended at a batch, the q-th, that had nothing final. *)
KeyDone(k) ==
  \E q \in Nat :
    /\ Covers(k, (q + 1) * Gap)
    /\ \A u \in Txids :
         (\E j \in q * Gap..(q + 1) * Gap - 1 : <<k, j>> \in Touches[u]) => ~Counts(u, k)

Found ==
  \A t \in Txids, k \in DOMAIN Keys :
    Touches[t] \cap ours \cap ({k} \X Nat) # {} /\ Counts(t, k) => t \in todo \cup DOMAIN out

Scanned ==
  reads = "payouts" =>
    /\ Found
    /\ pc = "getaddresstxids" =>
         /\ \A k \in 1..key - 1 : KeyDone(k)
         /\ \E q \in Nat : start = q * Gap
         /\ Covers(key, start)
    /\ Reading => \A k \in DOMAIN Keys : KeyDone(k)

Inv ==
  /\ ScanTypeOK /\ ChainInv /\ InOrder
  /\ BlocksTrue /\ CurrentTrue /\ FinalStays /\ OutTrue
  /\ Listed /\ Scanned

-----------------------------------------------------------------------------
(* The chain.                                                              *)

LEMMA OrdersIn ==
  ASSUME NEW S, NEW s \in Orders(S)
  PROVE  \A i \in DOMAIN s : s[i] \in S
  BY DEF Orders

(* A chain that goes on from another is one, has its blocks and n more. *)
LEMMA Extended ==
  ASSUME NEW c \in Seq(Block), Once(c), NEW n \in Nat, NEW x \in Extensions(c, n)
  PROVE  /\ x \in Seq(Block) /\ Len(x) = Len(c) + n
         /\ \A h \in 1..Len(c) : x[h] = c[h]
         /\ Once(x)
  <1> DEFINE free == {t \in Txids : MinedAt(c, t) = {}}
             new  == [txs : UNION {Orders(S) : S \in SUBSET free},
                      time : Len(c)..Len(c) + n]
  <1>1. PICK b \in [1..n -> new] :
          /\ x = c \o b
          /\ \A i, j \in 1..n : i # j => TxsOf(b[i]) \cap TxsOf(b[j]) = {}
    BY DEF Extensions
  <1>2. Len(c) \in Nat /\ DOMAIN c = 1..Len(c)
    BY LenProperties
  <1>3. new \subseteq Block
    <2>1. Len(c)..Len(c) + n \subseteq Nat
      BY <1>2
    <2>2. UNION {Orders(S) : S \in SUBSET free} \subseteq UNION {Orders(S) : S \in SUBSET Txids}
      OBVIOUS
    <2>3. QED
      BY <2>1, <2>2 DEF Block
  <1>4. \A i \in 1..n : TxsOf(b[i]) \subseteq free
    <2>1. SUFFICES ASSUME NEW i \in 1..n PROVE TxsOf(b[i]) \subseteq free
      OBVIOUS
    <2>2. b[i] \in new
      OBVIOUS
    <2>3. PICK S \in SUBSET free : b[i].txs \in Orders(S)
      BY <2>2
    <2>4. QED
      BY <2>3, OrdersIn DEF TxsOf
  <1> HIDE DEF new
  <1>5. b \in Seq(Block) /\ Len(b) = n
    <2>1. b \in [1..n -> Block]
      BY <1>3
    <2>2. b \in Seq(Block)
      BY <2>1, SeqDef
    <2>3. QED
      BY <2>1, <2>2, LenProperties
  <1>6. /\ x \in Seq(Block) /\ Len(x) = Len(c) + n
        /\ \A h \in 1..Len(c) : x[h] = c[h]
        /\ \A h \in 1..Len(x) : h > Len(c) => x[h] = b[h - Len(c)] /\ h - Len(c) \in 1..n
    <2>1. /\ c \o b \in Seq(Block)
          /\ Len(c \o b) = Len(c) + Len(b)
          /\ \A i \in 1 .. Len(c) + Len(b) : (c \o b)[i] =
                IF i <= Len(c) THEN c[i] ELSE b[i - Len(c)]
      BY <1>5, ConcatProperties, Zenon
    <2>2. QED
      BY <2>1, <1>1, <1>2, <1>5
  <1>7. Once(x)
    <2>1. SUFFICES ASSUME NEW t \in Txids, NEW g \in MinedAt(x, t), NEW h \in MinedAt(x, t)
                   PROVE  g = h
      BY DEF Once
    <2>2. /\ g \in 1..Len(x) /\ h \in 1..Len(x) /\ t \in TxsOf(x[g]) /\ t \in TxsOf(x[h])
      BY <1>6, LenProperties DEF MinedAt
    <2>3. \A i \in 1..Len(c) : t \in TxsOf(c[i]) => t \notin free
      BY <1>2 DEF MinedAt
    <2>4. CASE g <= Len(c) /\ h <= Len(c)
      <3>1. g \in MinedAt(c, t) /\ h \in MinedAt(c, t)
        BY <2>2, <2>4, <1>2, <1>6 DEF MinedAt
      <3>2. QED
        BY <3>1 DEF Once
    <2>5. CASE g <= Len(c) /\ h > Len(c)
      BY <2>2, <2>3, <2>5, <1>2, <1>4, <1>6
    <2>6. CASE g > Len(c) /\ h <= Len(c)
      BY <2>2, <2>3, <2>6, <1>2, <1>4, <1>6
    <2>7. CASE g > Len(c) /\ h > Len(c)
      <3>1. t \in TxsOf(b[g - Len(c)]) \cap TxsOf(b[h - Len(c)])
        BY <2>2, <2>7, <1>6
      <3>2. g - Len(c) = h - Len(c)
        BY <3>1, <2>2, <2>7, <1>1, <1>6
      <3>3. QED
        BY <3>2, <2>2, <1>2, <1>6
    <2>8. QED
      BY <2>2, <2>4, <2>5, <2>6, <2>7, <1>2, <1>6
  <1>8. QED
    BY <1>6, <1>7

(* A step of the node makes the chain longer by one block and keeps all but
   the last MaxReorg. *)
Ahead ==
  /\ ChainInv'
  /\ Len(chain') = Len(chain) + 1
  /\ \A h \in 1..Len(chain) - MaxReorg : chain'[h] = chain[h]

LEMMA NodeSteps ==
  ASSUME ChainInv, Mine \/ \E d \in 1..MaxReorg : Reorganize(d)
  PROVE  Ahead /\ Len(chain) < MaxHeight /\ UNCHANGED reader
  <1>1. MaxReorg \in Nat /\ Len(chain) \in Nat
    BY ReadAssumption, LenProperties DEF ChainInv
  <1>2. CASE Mine
    <2>1. chain' \in Extensions(chain, 1)
      BY <1>2 DEF Mine
    <2>2. /\ chain' \in Seq(Block) /\ Len(chain') = Len(chain) + 1
          /\ \A h \in 1..Len(chain) : chain'[h] = chain[h]
          /\ Once(chain')
      BY <2>1, Extended DEF ChainInv
    <2>3. QED
      BY <1>1, <1>2, <2>2 DEF Mine, Ahead, ChainInv, Once
  <1>3. CASE \E d \in 1..MaxReorg : Reorganize(d)
    <2>1. PICK d \in 1..MaxReorg : Reorganize(d)
      BY <1>3
    <2> DEFINE m == Len(chain) - d
               c == SubSeq(chain, 1, m)
    <2>2. m \in 1..Len(chain)
      BY <2>1, <1>1 DEF Reorganize
    <2>3. /\ c \in Seq(Block) /\ Len(c) = m
          /\ \A h \in 1..m : c[h] = chain[h]
      <3>1. /\ SubSeq(chain, 1, m) \in Seq(Block)
            /\ Len(SubSeq(chain, 1, m)) = IF 1 <= m THEN m - 1 + 1 ELSE 0
            /\ \A i \in 1 .. m - 1 + 1 : SubSeq(chain, 1, m)[i] = chain[1 + i - 1]
        BY <2>2, <1>1, SubSeqProperties DEF ChainInv
      <3>2. QED
        BY <3>1, <2>2, <1>1
    <2>4. Once(c)
      <3>1. \A t \in Txids : MinedAt(c, t) \subseteq MinedAt(chain, t)
        BY <2>2, <2>3, <1>1, LenProperties DEF MinedAt, ChainInv
      <3>2. QED
        BY <3>1 DEF Once, ChainInv
    <2>5. chain' \in Extensions(c, d + 1)
      BY <2>1 DEF Reorganize
    <2> HIDE DEF c
    <2>6. /\ chain' \in Seq(Block) /\ Len(chain') = m + (d + 1)
          /\ \A h \in 1..m : chain'[h] = c[h]
          /\ Once(chain')
      <3>1. d \in Nat /\ d + 1 \in Nat
        BY <1>1
      <3>2. /\ chain' \in Seq(Block) /\ Len(chain') = Len(c) + (d + 1)
            /\ \A h \in 1..Len(c) : chain'[h] = c[h]
            /\ Once(chain')
        BY ONLY <2>3, <2>4, <2>5, <3>1, Extended
      <3>3. QED
        BY <2>3, <3>2
    <2>7. /\ Len(chain') = Len(chain) + 1
          /\ \A h \in 1..Len(chain) - MaxReorg : chain'[h] = chain[h]
      <3>1. \A h \in 1..Len(chain) - MaxReorg : h \in 1..m
        BY <1>1
      <3>2. ASSUME NEW h \in 1..Len(chain) - MaxReorg PROVE chain'[h] = chain[h]
        <4>1. h \in 1..m
          BY <3>1
        <4>2. chain'[h] = c[h] /\ c[h] = chain[h]
          BY ONLY <4>1, <2>3, <2>6
        <4>3. QED
          BY <4>2
      <3>3. Len(chain') = Len(chain) + 1
        BY <2>6, <1>1
      <3>4. QED
        BY <3>2, <3>3
    <2>8. QED
      BY <2>1, <2>6, <2>7 DEF Reorganize, Ahead, ChainInv, Once
  <1>4. QED
    BY <1>2, <1>3

-----------------------------------------------------------------------------
(* The node's steps.                                                       *)

LEMMA Lengths ==
  ASSUME ChainInv
  PROVE  Len(chain) \in Nat /\ DOMAIN chain = 1..Len(chain)
  BY LenProperties DEF ChainInv

(* The node's steps do not touch what is deep, or was final at the start. *)
LEMMA Settled ==
  ASSUME Inv, Ahead, UNCHANGED tip, NEW h \in Int, Fixed(h) \/ Deep(h)
  PROVE  /\ h \in DOMAIN chain' => h \in DOMAIN chain
         /\ h \in DOMAIN chain => chain'[h] = chain[h] /\ h \in DOMAIN chain'
         /\ \A t \in Txids : h \in MinedAt(chain, t)' <=> h \in MinedAt(chain, t)
         /\ Deep(h)'
  <1>1. /\ Len(chain) \in Nat /\ DOMAIN chain = 1..Len(chain)
        /\ Len(chain') = Len(chain) + 1 /\ DOMAIN chain' = 1..Len(chain')
    BY Lengths, LenProperties DEF Inv, Ahead, ChainInv
  <1>2. /\ tip \in Nat /\ tip <= Len(chain)
        /\ MaxReorg \in Nat /\ Confirmations \in Nat /\ MaxReorg < Confirmations
    BY ReadAssumption DEF Inv, InOrder, ScanTypeOK, TypeOK
  <1>3. h <= Len(chain) - MaxReorg /\ Deep(h)'
    BY <1>1, <1>2 DEF Fixed, Deep
  <1>4. \A g \in 1..Len(chain) - MaxReorg : chain'[g] = chain[g]
    BY DEF Ahead
  <1>5. /\ h \in DOMAIN chain' <=> h \in DOMAIN chain
        /\ h \in DOMAIN chain => chain'[h] = chain[h]
    BY <1>1, <1>2, <1>3, <1>4
  <1>6. QED
    BY <1>3, <1>5 DEF MinedAt

LEMMA SettledAt ==
  ASSUME Inv, Ahead, UNCHANGED tip, NEW t \in Txids
  PROVE  /\ \A h \in Int : FixedAt(t, h)' <=> FixedAt(t, h)
         /\ \A h \in Int : MinedAt(chain, t) = {h} /\ Deep(h) =>
              MinedAt(chain, t)' = {h} /\ Deep(h)'
  <1>1. \A h \in Int : FixedAt(t, h)' <=> FixedAt(t, h)
    <2>1. SUFFICES ASSUME NEW h \in Int PROVE FixedAt(t, h)' <=> FixedAt(t, h)
      OBVIOUS
    <2>2. Fixed(h)' <=> Fixed(h)
      BY DEF Fixed
    <2>3. Fixed(h) => (h \in MinedAt(chain, t)' <=> h \in MinedAt(chain, t))
      BY Settled
    <2>4. QED
      BY <2>2, <2>3 DEF FixedAt
  <1>2. ASSUME NEW h \in Int, MinedAt(chain, t) = {h}, Deep(h)
        PROVE  MinedAt(chain, t)' = {h} /\ Deep(h)'
    <2>1. h \in MinedAt(chain, t)' /\ Deep(h)'
      BY <1>2, Settled
    <2>2. \A g \in MinedAt(chain, t)' : g = h
      BY <2>1 DEF Ahead, ChainInv, Once
    <2>3. QED
      BY <2>1, <2>2
  <1>3. QED
    BY <1>1, <1>2

LEMMA SettledCounts ==
  ASSUME Inv, Ahead, UNCHANGED <<tip, scan>>
  PROVE  /\ \A t \in Txids, k \in DOMAIN Keys : Counts(t, k)' <=> Counts(t, k)
         /\ \A k \in DOMAIN Keys : KeyDone(k) => KeyDone(k)'
  <1>1. \A t \in Txids, k \in DOMAIN Keys : Counts(t, k)' <=> Counts(t, k)
    BY SettledAt DEF Counts, Period
  <1>2. ours' = ours
    BY DEF scan
  <1>3. QED
    BY <1>1, <1>2 DEF KeyDone, Covers

LEMMA NodeKeeps ==
  ASSUME Inv, Mine \/ \E d \in 1..MaxReorg : Reorganize(d), UNCHANGED scan
  PROVE  Inv'
  <1>1. /\ Ahead /\ Len(chain) < MaxHeight
        /\ UNCHANGED <<pc, attempts, tip, todo, current, blocks, out>>
        /\ UNCHANGED <<reads, key, start, ours>>
    BY NodeSteps DEF Inv, reader, scan
  <1>2. /\ Len(chain) \in Nat /\ DOMAIN chain = 1..Len(chain)
        /\ Len(chain') = Len(chain) + 1 /\ DOMAIN chain' = 1..Len(chain')
    BY <1>1, Lengths, LenProperties DEF Inv, Ahead, ChainInv
  <1>3. ScanTypeOK' /\ ChainInv' /\ InOrder'
    <2>1. ScanTypeOK'
      BY <1>1, <1>2, ReadAssumption DEF Inv, ScanTypeOK, TypeOK, InOrder
    <2>2. QED
      BY <1>1, <2>1 DEF Inv, InOrder, Ahead
  <1>4. todo \subseteq Txids /\ DOMAIN out \subseteq Txids /\ DOMAIN blocks \subseteq DOMAIN chain
    BY DEF Inv, ScanTypeOK, TypeOK
  <1>5. BlocksTrue'
    <2>1. SUFFICES ASSUME NEW h \in DOMAIN blocks, Fixed(h) PROVE blocks[h] = chain'[h]
      BY <1>1 DEF BlocksTrue, Fixed
    <2>2. h \in Int /\ h \in DOMAIN chain
      BY <1>2, <1>4
    <2>3. chain'[h] = chain[h]
      BY <1>1, <2>1, <2>2, Settled
    <2>4. QED
      BY <2>1, <2>3 DEF Inv, BlocksTrue
  <1>6. CurrentTrue'
    <2>1. SUFFICES ASSUME pc = "getblock" PROVE CurrentTrue'
      BY <1>1 DEF CurrentTrue
    <2>2. current.id \in Txids /\ current.height \in DOMAIN chain /\ current.height \in Int
      BY <1>2, <1>4, <2>1 DEF Inv, ScanTypeOK, TypeOK, CurrentTrue
    <2>3. /\ \A h \in Int : FixedAt(current.id, h)' <=> FixedAt(current.id, h)
          /\ MinedAt(chain, current.id) = {current.height} /\ Deep(current.height) =>
               MinedAt(chain, current.id)' = {current.height} /\ Deep(current.height)'
      <3>1. \A t \in Txids : /\ \A h \in Int : FixedAt(t, h)' <=> FixedAt(t, h)
                             /\ \A h \in Int : MinedAt(chain, t) = {h} /\ Deep(h) =>
                                  MinedAt(chain, t)' = {h} /\ Deep(h)'
        BY <1>1, SettledAt
      <3>2. QED
        BY <1>1, <2>2, <3>1 DEF MinedAt, FixedAt, Fixed, Deep
    <2>4. QED
      BY <1>1, <1>2, <2>1, <2>2, <2>3 DEF Inv, CurrentTrue
  <1>7. FinalStays'
    <2>1. SUFFICES ASSUME NEW t \in DOMAIN out, Final(out[t])
                   PROVE  MinedAt(chain, t)' = {out[t].height} /\ Deep(out[t].height)'
      BY <1>1 DEF FinalStays, Final
    <2>2. MinedAt(chain, t) = {out[t].height} /\ Deep(out[t].height)
      BY <2>1 DEF Inv, FinalStays
    <2>3. out[t].height \in Int
      BY <2>2, <1>2 DEF MinedAt
    <2>4. t \in Txids
      BY <1>4
    <2>5. QED
      BY <1>1, <2>2, <2>3, <2>4, SettledAt DEF Deep
  <1>8. OutTrue'
    <2>1. SUFFICES ASSUME NEW t \in DOMAIN out, NEW h \in Int, FixedAt(t, h)'
                   PROVE  TrueAt(t, h, out[t])'
      BY <1>1 DEF OutTrue
    <2>2. FixedAt(t, h) /\ t \in Txids
      BY <1>1, <1>4, <2>1, SettledAt
    <2>3. chain'[h] = chain[h]
      BY <1>1, <2>2, Settled DEF FixedAt, MinedAt
    <2>4. TrueAt(t, h, out[t])
      BY <2>2 DEF Inv, OutTrue
    <2>5. QED
      BY <1>1, <2>3, <2>4 DEF TrueAt, Final
  <1>9. Listed'
    <2>1. \A t \in Txids, h \in Int : FixedAt(t, h)' => FixedAt(t, h)
      BY <1>1, SettledAt
    <2>2. QED
      BY <1>1, <2>1 DEF Inv, Listed, Reading
  <1>10. Scanned'
    <2>1. /\ \A t \in Txids, k \in DOMAIN Keys : Counts(t, k)' <=> Counts(t, k)
          /\ \A k \in DOMAIN Keys : KeyDone(k) => KeyDone(k)'
      BY <1>1, SettledCounts DEF scan
    <2>2. SUFFICES ASSUME reads = "payouts" PROVE Scanned'
      BY <1>1 DEF Scanned
    <2>3. Found'
      BY <1>1, <2>1, <2>2 DEF Inv, Scanned, Found
    <2>4. \A k \in 1..key - 1 : k \in DOMAIN Keys
      BY ScanAssumption DEF Inv, ScanTypeOK
    <2>5. QED
      BY <1>1, <2>1, <2>2, <2>3, <2>4 DEF Inv, Scanned, Reading, Covers
  <1>11. QED
    BY <1>3, <1>5, <1>6, <1>7, <1>8, <1>9, <1>10 DEF Inv

-----------------------------------------------------------------------------
(* The reader's steps.                                                     *)

LEMMA OneHeight ==
  ASSUME ChainInv, NEW t \in Txids, NEW h \in MinedAt(chain, t)
  PROVE  MinedAt(chain, t) = {h} /\ HeightOf(t) = h /\ Mined(t)
  <1>1. MinedAt(chain, t) = {h}
    BY DEF ChainInv, Once
  <1>2. QED
    BY <1>1 DEF HeightOf, Mined

(* The steps that leave the node and what was read alone. *)
Same == UNCHANGED <<chain, tip, scan>>

LEMMA SameSettled ==
  ASSUME Same
  PROVE  /\ \A t, h : FixedAt(t, h)' <=> FixedAt(t, h)
         /\ \A h : Deep(h)' <=> Deep(h)
         /\ \A t, k : Counts(t, k)' <=> Counts(t, k)
         /\ \A k, n : Covers(k, n)' <=> Covers(k, n)
         /\ \A k : KeyDone(k)' <=> KeyDone(k)
  <1>1. chain' = chain /\ tip' = tip /\ ours' = ours
    BY DEF Same, scan
  <1>2. /\ \A t, h : FixedAt(t, h)' <=> FixedAt(t, h)
        /\ \A h : Deep(h)' <=> Deep(h)
    BY <1>1 DEF FixedAt, Fixed, Deep
  <1>3. \A t, k : Counts(t, k)' <=> Counts(t, k)
    BY <1>1, <1>2 DEF Counts, Period
  <1>4. \A k, n : Covers(k, n)' <=> Covers(k, n)
    BY <1>1 DEF Covers
  <1>5. QED
    BY <1>2, <1>3, <1>4 DEF KeyDone

(* A transaction is read: it moves from what is to read to what was read. *)
LEMMA EntryKeeps ==
  ASSUME Inv, Same, NEW t \in todo, NEW e,
         pc \in {"getrawtransaction", "getblock"}, pc' = "getrawtransaction",
         out' = Put(out, t, e), todo' = todo \ {t}, attempts' = 0,
         Final(e) => MinedAt(chain, t) = {e.height} /\ Deep(e.height),
         \A h \in Int : FixedAt(t, h) => TrueAt(t, h, e),
         DOMAIN blocks' \subseteq DOMAIN chain, BlocksTrue'
  PROVE  Inv'
  <1>1. /\ chain' = chain /\ tip' = tip
        /\ reads' = reads /\ key' = key /\ start' = start /\ ours' = ours
    BY DEF Same, scan
  <1>2. /\ DOMAIN out' = DOMAIN out \cup {t} /\ out'[t] = e
        /\ \A u \in DOMAIN out \ {t} : out'[u] = out[u]
    BY DEF Put
  <1>3. todo' \cup DOMAIN out' = todo \cup DOMAIN out
    BY <1>2
  <1>4. ScanTypeOK'
    BY <1>1, <1>2, ReadAssumption DEF Inv, ScanTypeOK, TypeOK
  <1>5. ChainInv' /\ InOrder'
    BY <1>1 DEF Inv, ChainInv, Once, InOrder
  <1>6. FinalStays'
    <2>1. SUFFICES ASSUME NEW u \in DOMAIN out', Final(out'[u])
                   PROVE  MinedAt(chain, u) = {out'[u].height} /\ Deep(out'[u].height)
      BY <1>1 DEF FinalStays, Deep, Final
    <2>2. CASE u = t
      BY <1>2, <2>1, <2>2
    <2>3. CASE u # t
      BY <1>2, <2>1, <2>3 DEF Inv, FinalStays
    <2>4. QED
      BY <2>2, <2>3
  <1>7. OutTrue'
    <2>1. SUFFICES ASSUME NEW u \in DOMAIN out', NEW h \in Int, FixedAt(u, h)
                   PROVE  TrueAt(u, h, out'[u])
      BY <1>1, SameSettled DEF OutTrue, TrueAt, Final
    <2>2. CASE u = t
      BY <1>2, <2>1, <2>2
    <2>3. CASE u # t
      BY <1>2, <2>1, <2>3 DEF Inv, OutTrue
    <2>4. QED
      BY <2>2, <2>3
  <1>8. Listed'
    BY <1>1, <1>3, SameSettled DEF Inv, Listed, Reading
  <1>9. Scanned'
    <2>1. SUFFICES ASSUME reads = "payouts" PROVE Scanned'
      BY <1>1 DEF Scanned
    <2>2. Found'
      BY <1>1, <1>3, <2>1, SameSettled DEF Inv, Scanned, Found
    <2>3. QED
      BY <1>1, <2>1, <2>2, SameSettled DEF Inv, Scanned, Reading
  <1>10. CurrentTrue'
    BY DEF CurrentTrue
  <1>11. QED
    BY <1>4, <1>5, <1>6, <1>7, <1>8, <1>9, <1>10 DEF Inv

LEMMA GetUnminedKeeps ==
  ASSUME Inv, NEW t \in todo, GetUnmined(t), UNCHANGED scan
  PROVE  Inv'
  <1> DEFINE e == [height |-> None, index |-> 0, confirmations |-> 0, time |-> None]
  <1>1. /\ pc = "getrawtransaction" /\ pc' = pc /\ out' = Put(out, t, e)
        /\ todo' = todo \ {t} /\ attempts' = 0 /\ UNCHANGED <<chain, tip, blocks>>
        /\ MinedAt(chain, t) = {}
    BY DEF GetUnmined, node, Mined
  <1>2. ~Final(e)
    BY DEF Final
  <1>3. \A h \in Int : ~FixedAt(t, h)
    BY <1>1 DEF FixedAt
  <1>4. DOMAIN blocks' \subseteq DOMAIN chain /\ BlocksTrue'
    BY <1>1 DEF Inv, ScanTypeOK, TypeOK, BlocksTrue, Fixed
  <1>5. Same
    BY <1>1 DEF Same
  <1> HIDE DEF e
  <1>6. QED
    BY <1>1, <1>2, <1>3, <1>4, <1>5, EntryKeeps

(* What the node says of a mined transaction. *)
LEMMA Answered ==
  ASSUME Inv, NEW t \in todo, Mined(t), NEW h, h = HeightOf(t),
         NEW c \in {Depth(h), tip - h + 1}
  PROVE  /\ MinedAt(chain, t) = {h} /\ h \in DOMAIN chain /\ h \in Nat /\ c \in Int
         /\ c >= Confirmations => Deep(h)
         /\ Fixed(h) => c >= Confirmations
  <1>1. t \in Txids /\ ChainInv /\ tip \in Nat /\ tip <= Len(chain)
    BY DEF Inv, ScanTypeOK, TypeOK, InOrder
  <1>2. PICK g \in MinedAt(chain, t) : TRUE
    BY DEF Mined
  <1>3. h = g /\ MinedAt(chain, t) = {h}
    BY <1>1, <1>2, OneHeight
  <1>4. h \in DOMAIN chain /\ h \in Nat /\ Len(chain) \in Nat
    BY <1>1, <1>2, <1>3, Lengths DEF MinedAt
  <1>5. QED
    BY <1>1, <1>3, <1>4, ReadAssumption DEF Depth, Deep, Fixed

LEMMA GetMinedKeeps ==
  ASSUME Inv, NEW t \in todo, GetMined(t), UNCHANGED scan
  PROVE  Inv'
  <1> DEFINE h == HeightOf(t)
  <1>1. PICK c \in {Depth(h), tip - h + 1} :
          LET x == [id |-> t, height |-> h, confirmations |-> c]
          IN  IF h \in DOMAIN blocks
              THEN /\ out' = Put(out, t, Entry(x, blocks[h]))
                   /\ todo' = todo \ {t}
                   /\ UNCHANGED <<pc, current>>
              ELSE /\ current' = x
                   /\ pc' = "getblock"
                   /\ UNCHANGED <<out, todo>>
    BY DEF GetMined
  <1> DEFINE x == [id |-> t, height |-> h, confirmations |-> c]
  <1>2. /\ pc = "getrawtransaction" /\ attempts' = 0 /\ Mined(t)
        /\ UNCHANGED <<chain, tip, blocks>> /\ Same
    BY DEF GetMined, node, Same
  <1>3. /\ MinedAt(chain, t) = {h} /\ h \in DOMAIN chain /\ h \in Nat /\ c \in Int
        /\ c >= Confirmations => Deep(h)
        /\ Fixed(h) => c >= Confirmations
    BY <1>2, Answered
  <1>4. \A g \in Int : FixedAt(t, g) => g = h /\ Fixed(h)
    BY <1>3 DEF FixedAt
  <1>5. DOMAIN blocks' \subseteq DOMAIN chain /\ BlocksTrue'
    BY <1>2 DEF Inv, ScanTypeOK, TypeOK, BlocksTrue, Fixed
  <1> HIDE DEF h
  <1>6. CASE h \in DOMAIN blocks
    <2> DEFINE e == Entry(x, blocks[h])
    <2>1. out' = Put(out, t, e) /\ todo' = todo \ {t} /\ pc' = pc
      BY <1>1, <1>6
    <2>2. /\ e.height = h /\ e.index = IndexOf(blocks[h], t)
          /\ e.confirmations = c /\ e.time = blocks[h].time
      BY DEF Entry
    <2> HIDE DEF e
    <2>3. Final(e) => MinedAt(chain, t) = {e.height} /\ Deep(e.height)
      BY <1>3, <2>2 DEF Final
    <2>4. \A g \in Int : FixedAt(t, g) => TrueAt(t, g, e)
      <3>1. Fixed(h) => blocks[h] = chain[h]
        BY <1>6 DEF Inv, BlocksTrue
      <3>2. h # None
        BY <1>3, ReadAssumption
      <3>3. QED
        BY <1>3, <1>4, <2>2, <3>1, <3>2 DEF TrueAt, Final
    <2>5. QED
      BY <1>2, <1>5, <2>1, <2>3, <2>4, EntryKeeps
  <1>7. CASE h \notin DOMAIN blocks
    <2>1. current' = x /\ pc' = "getblock" /\ out' = out /\ todo' = todo
      BY <1>1, <1>7
    <2>2. x.id = t /\ x.height = h /\ x.confirmations = c
      OBVIOUS
    <2> HIDE DEF x
    <2>3. /\ reads' = reads /\ key' = key /\ start' = start /\ ours' = ours
      BY DEF scan
    <2>4. CurrentTrue'
      BY <1>2, <1>3, <1>4, <2>1, <2>2 DEF CurrentTrue, FixedAt, Fixed, Deep
    <2>5. ScanTypeOK' /\ ChainInv' /\ InOrder'
      BY <1>2, <2>1, <2>2, <2>3, ReadAssumption
      DEF Inv, ScanTypeOK, TypeOK, InOrder, ChainInv, Once
    <2>6. FinalStays' /\ OutTrue'
      BY <1>2, <2>1, SameSettled DEF Inv, FinalStays, OutTrue, TrueAt, Final
    <2>7. Listed'
      BY <1>2, <2>1, <2>3, SameSettled DEF Inv, Listed, Reading
    <2>8. Scanned'
      BY <1>2, <2>1, <2>3, SameSettled DEF Inv, Scanned, Found, Reading
    <2>9. QED
      BY <1>5, <2>4, <2>5, <2>6, <2>7, <2>8 DEF Inv
  <1>8. QED
    BY <1>6, <1>7

LEMMA GetBlockKeeps ==
  ASSUME Inv, GetBlock, UNCHANGED scan
  PROVE  Inv'
  <1> DEFINE t == current.id
             h == current.height
             e == Entry(current, chain[h])
  <1>1. /\ pc = "getblock" /\ pc' = "getrawtransaction" /\ attempts' = 0
        /\ blocks' = Put(blocks, h, chain[h]) /\ out' = Put(out, t, e)
        /\ todo' = todo \ {t} /\ UNCHANGED <<chain, tip>> /\ Same
    BY DEF GetBlock, node, Same
  <1>2. /\ t \in todo /\ h \in DOMAIN chain
        /\ current.confirmations \in Int
        /\ current.confirmations >= Confirmations => MinedAt(chain, t) = {h} /\ Deep(h)
        /\ \A g \in Int : FixedAt(t, g) => g = h /\ current.confirmations >= Confirmations
    BY <1>1 DEF Inv, ScanTypeOK, TypeOK, CurrentTrue
  <1>3. /\ e.height = h /\ e.index = IndexOf(chain[h], t)
        /\ e.confirmations = current.confirmations /\ e.time = chain[h].time
    BY DEF Entry
  <1>4. h \in Int /\ h # None
    BY <1>2, Lengths, ReadAssumption DEF Inv
  <1> HIDE DEF t, h, e
  <1>5. Final(e) => MinedAt(chain, t) = {e.height} /\ Deep(e.height)
    BY <1>2, <1>3 DEF Final
  <1>6. \A g \in Int : FixedAt(t, g) => TrueAt(t, g, e)
    BY <1>2, <1>3, <1>4 DEF TrueAt, Final
  <1>7. DOMAIN blocks' \subseteq DOMAIN chain /\ BlocksTrue'
    <2>1. /\ DOMAIN blocks' = DOMAIN blocks \cup {h} /\ blocks'[h] = chain[h]
          /\ \A g \in DOMAIN blocks \ {h} : blocks'[g] = blocks[g]
      BY <1>1 DEF Put
    <2>2. DOMAIN blocks' \subseteq DOMAIN chain
      BY <1>2, <2>1 DEF Inv, ScanTypeOK, TypeOK
    <2>3. QED
      BY <1>1, <2>1, <2>2 DEF Inv, BlocksTrue, Fixed
  <1>8. QED
    BY <1>1, <1>2, <1>5, <1>6, <1>7, EntryKeeps

LEMMA GetBlockCountKeeps ==
  ASSUME Inv, GetBlockCount, UNCHANGED scan
  PROVE  Inv'
  <1>1. /\ pc = "getblockcount" /\ pc' = "getaddresstxids" /\ attempts' = 0
        /\ tip' = Len(chain) /\ UNCHANGED <<chain, todo, current, blocks, out>>
        /\ UNCHANGED <<reads, key, start, ours>>
    BY DEF GetBlockCount, node, scan
  <1>2. /\ todo = {} /\ ours = {} /\ key = 1 /\ start = 0
        /\ DOMAIN out = {} /\ DOMAIN blocks = {}
    BY <1>1 DEF Inv, InOrder
  <1>3. Len(chain) \in Nat
    BY Lengths DEF Inv
  <1>4. ScanTypeOK' /\ ChainInv' /\ InOrder'
    BY <1>1, <1>2, <1>3, ReadAssumption DEF Inv, ScanTypeOK, TypeOK, ChainInv, Once, InOrder
  <1>5. BlocksTrue' /\ CurrentTrue' /\ FinalStays' /\ OutTrue' /\ Listed'
    BY <1>1, <1>2 DEF BlocksTrue, CurrentTrue, FinalStays, OutTrue, Listed, Reading
  <1>6. Scanned'
    <2>1. Found'
      BY <1>1, <1>2 DEF Found
    <2>2. Gap \in Nat /\ 0 = 0 * Gap
      BY ScanAssumption
    <2>3. Covers(1, 0)'
      BY DEF Covers
    <2>4. ~Reading'
      BY <1>1 DEF Reading
    <2>5. QED
      BY <1>1, <1>2, <2>1, <2>2, <2>3, <2>4 DEF Scanned
  <1>7. QED
    BY <1>4, <1>5, <1>6 DEF Inv

LEMMA GetAddressTxidsKeeps ==
  ASSUME Inv, reads = "stamps", GetAddressTxids, UNCHANGED scan
  PROVE  Inv'
  <1>1. /\ pc = "getaddresstxids" /\ pc' = "getrawtransaction" /\ attempts' = 0
        /\ todo' = {t \in Txids : Mined(t) /\ HeightOf(t) \in FromHeight..tip}
        /\ UNCHANGED <<chain, tip, current, blocks, out>> /\ Same
        /\ UNCHANGED <<reads, key, start, ours>>
    BY DEF GetAddressTxids, node, scan, Same
  <1>2. DOMAIN out = {} /\ DOMAIN blocks = {} /\ ours = {} /\ tip \in Nat
    BY <1>1 DEF Inv, InOrder
  <1>3. ScanTypeOK' /\ ChainInv' /\ InOrder'
    BY <1>1, <1>2, ReadAssumption DEF Inv, ScanTypeOK, TypeOK, ChainInv, Once, InOrder
  <1>4. BlocksTrue' /\ CurrentTrue' /\ FinalStays' /\ OutTrue' /\ Scanned'
    BY <1>1, <1>2 DEF BlocksTrue, CurrentTrue, FinalStays, OutTrue, Scanned
  <1>5. Listed'
    <2>1. SUFFICES ASSUME NEW t \in Txids, NEW h \in Int, FixedAt(t, h), h >= FromHeight
                   PROVE  t \in todo'
      BY <1>1, SameSettled DEF Listed
    <2>2. Mined(t) /\ HeightOf(t) = h
      BY <2>1, OneHeight DEF Inv, FixedAt
    <2>3. h <= tip
      BY <1>2, <2>1, ReadAssumption DEF FixedAt, Fixed
    <2>4. QED
      BY <1>1, <1>2, <2>1, <2>2, <2>3, ReadAssumption
  <1>6. QED
    BY <1>3, <1>4, <1>5 DEF Inv

LEMMA FinishKeeps ==
  ASSUME Inv, Finish, UNCHANGED scan
  PROVE  Inv'
  <1>1. /\ pc = "getrawtransaction" /\ pc' = "read" /\ todo = {}
        /\ UNCHANGED <<chain, tip, attempts, todo, current, blocks, out>> /\ Same
        /\ UNCHANGED <<reads, key, start, ours>>
    BY DEF Finish, node, scan, Same
  <1>2. ScanTypeOK' /\ ChainInv' /\ InOrder'
    BY <1>1 DEF Inv, ScanTypeOK, TypeOK, ChainInv, Once, InOrder
  <1>3. BlocksTrue' /\ CurrentTrue' /\ FinalStays' /\ OutTrue'
    BY <1>1, SameSettled
    DEF Inv, BlocksTrue, CurrentTrue, FinalStays, OutTrue, TrueAt, Final, Fixed
  <1>4. Listed' /\ Scanned'
    BY <1>1, SameSettled DEF Inv, Listed, Scanned, Found, Reading
  <1>5. QED
    BY <1>2, <1>3, <1>4 DEF Inv

(* A call that fails changes nothing but the count, or ends the read. *)
LEMMA CallFailsKeeps ==
  ASSUME Inv, CallFails, UNCHANGED scan
  PROVE  Inv'
  <1>1. /\ UNCHANGED <<chain, tip, todo, current, blocks, out>> /\ Same
        /\ UNCHANGED <<reads, key, start, ours>>
        /\ \/ attempts < Retries /\ attempts' = attempts + 1 /\ pc' = pc
           \/ pc' = "failed" /\ attempts' = attempts
    BY DEF CallFails, node, scan, Same
  <1>2. ScanTypeOK' /\ ChainInv' /\ InOrder'
    BY <1>1, ReadAssumption DEF Inv, ScanTypeOK, TypeOK, ChainInv, Once, InOrder
  <1>3. BlocksTrue' /\ CurrentTrue' /\ FinalStays' /\ OutTrue'
    <2>1. CurrentTrue'
      BY <1>1, SameSettled DEF Inv, CurrentTrue
    <2>2. QED
      BY <1>1, <2>1, SameSettled DEF Inv, BlocksTrue, FinalStays, OutTrue, TrueAt, Final, Fixed
  <1>4. Listed' /\ Scanned'
    BY <1>1, SameSettled DEF Inv, Listed, Scanned, Found, Reading
  <1>5. QED
    BY <1>2, <1>3, <1>4 DEF Inv

(* A batch in which nothing counts ends the scan of its key. *)
LEMMA ScanBatchKeeps ==
  ASSUME Inv, ScanBatch
  PROVE  Inv'
  <1>1. /\ pc = "getaddresstxids" /\ reads = "payouts" /\ attempts' = 0
        /\ todo' = todo \cup FoundIn(Batch) /\ ours' = ours \cup Batch
        /\ UNCHANGED <<chain, tip, current, blocks, out, reads>>
        /\ \/ FoundIn(Batch) # {} /\ start' = start + Gap /\ key' = key /\ pc' = pc
           \/ /\ FoundIn(Batch) = {} /\ key < Len(Keys)
              /\ key' = key + 1 /\ start' = 0 /\ pc' = pc
           \/ /\ FoundIn(Batch) = {} /\ ~(key < Len(Keys))
              /\ pc' = "getrawtransaction" /\ key' = key /\ start' = start
    BY DEF ScanBatch, node
  <1>2. /\ Gap \in Nat \ {0} /\ DOMAIN Keys = 1..Len(Keys) /\ Len(Keys) \in Nat
        /\ key \in DOMAIN Keys /\ start \in Nat /\ tip \in Nat
        /\ ours \subseteq (DOMAIN Keys) \X Nat
        /\ DOMAIN out = {} /\ DOMAIN blocks = {}
    BY <1>1, ScanAssumption DEF Inv, ScanTypeOK, InOrder
  <1>3. Batch \subseteq (DOMAIN Keys) \X Nat /\ <<key, start>> \in Batch
    BY <1>2 DEF Batch
  <1>4. ScanTypeOK' /\ ChainInv' /\ InOrder'
    <2>1. FoundIn(Batch) \subseteq Txids
      BY DEF FoundIn
    <2>2. TypeOK'
      BY <1>1, <1>2, <2>1, ReadAssumption DEF Inv, ScanTypeOK, TypeOK
    <2>3. key' \in DOMAIN Keys /\ start' \in Nat /\ ours' \subseteq (DOMAIN Keys) \X Nat
      BY <1>1, <1>2, <1>3
    <2>4. ours' # {}
      BY <1>1, <1>3
    <2>5. QED
      BY <1>1, <2>2, <2>3, <2>4 DEF Inv, ScanTypeOK, ChainInv, Once, InOrder
  <1>5. BlocksTrue' /\ CurrentTrue' /\ FinalStays' /\ OutTrue' /\ Listed'
    BY <1>1, <1>2 DEF BlocksTrue, CurrentTrue, FinalStays, OutTrue, Listed
  <1>6. \A t \in Txids, k \in DOMAIN Keys : Counts(t, k)' <=> Counts(t, k)
    BY <1>1 DEF Counts, FixedAt, Fixed, Period
  <1>7. \A t \in Txids : Touches[t] \cap Batch # {} /\ Counts(t, key) => t \in FoundIn(Batch)
    <2>1. SUFFICES ASSUME NEW t \in Txids, Touches[t] \cap Batch # {},
                          NEW h \in Int, FixedAt(t, h), h \in Period(key)
                   PROVE  t \in FoundIn(Batch)
      BY DEF Counts
    <2>2. Mined(t) /\ HeightOf(t) = h
      BY <2>1, OneHeight DEF Inv, FixedAt
    <2>3. QED
      BY <2>1, <2>2 DEF FoundIn
  <1>8. Found'
    <2>1. SUFFICES ASSUME NEW t \in Txids, NEW k \in DOMAIN Keys, NEW n \in Nat,
                          <<k, n>> \in Touches[t], <<k, n>> \in ours', Counts(t, k)
                   PROVE  t \in todo'
      BY <1>6 DEF Found
    <2>2. CASE <<k, n>> \in ours
      <3>1. Touches[t] \cap ours \cap ({k} \X Nat) # {}
        BY <2>1, <2>2
      <3>2. QED
        BY <1>1, <1>2, <2>1, <3>1 DEF Inv, Scanned, Found
    <2>3. CASE <<k, n>> \in Batch
      <3>1. k = key
        BY <2>3 DEF Batch
      <3>2. QED
        BY <1>1, <1>7, <2>1, <2>3, <3>1
    <2>4. QED
      BY <1>1, <2>1, <2>2, <2>3
  <1>9. PICK q \in Nat : start = q * Gap
    BY <1>1 DEF Inv, Scanned
  <1>10. start + Gap = (q + 1) * Gap /\ \A j \in 0..start + Gap - 1 : <<key, j>> \in ours'
    <2>1. start + Gap = (q + 1) * Gap
      BY <1>2, <1>9
    <2>2. \A j \in 0..start - 1 : <<key, j>> \in ours
      BY <1>1 DEF Inv, Scanned, Covers
    <2>3. \A j \in start..start + Gap - 1 : <<key, j>> \in Batch
      BY DEF Batch
    <2>4. \A j \in 0..start + Gap - 1 : j \in 0..start - 1 \/ j \in start..start + Gap - 1
      BY <1>2
    <2>5. QED
      BY <1>1, <2>1, <2>2, <2>3, <2>4
  <1>11. FoundIn(Batch) = {} => \A k \in {key} : KeyDone(k)'
    <2>1. SUFFICES ASSUME FoundIn(Batch) = {}, NEW k \in {key} PROVE KeyDone(k)'
      OBVIOUS
    <2>2. ASSUME NEW u \in Txids, NEW j \in start..start + Gap - 1,
                 <<k, j>> \in Touches[u]
          PROVE  ~Counts(u, k)'
      <3>1. <<k, j>> \in Batch
        BY <2>1 DEF Batch
      <3>2. ~Counts(u, key)
        BY <1>7, <2>1, <2>2, <3>1
      <3>3. QED
        BY <1>2, <1>6, <2>1, <3>2
    <2>3. Covers(k, (q + 1) * Gap)'
      BY <1>2, <1>10, <2>1 DEF Covers
    <2>4. \A u \in Txids :
            (\E j \in q * Gap..(q + 1) * Gap - 1 : <<k, j>> \in Touches[u]) => ~Counts(u, k)'
      <3>1. q * Gap..(q + 1) * Gap - 1 = start..start + Gap - 1
        BY <1>2, <1>9, <1>10
      <3>2. QED
        BY <2>2, <3>1
    <2>5. QED
      BY <2>3, <2>4 DEF KeyDone
  <1>12. \A k \in 1..key - 1 : k \in DOMAIN Keys /\ KeyDone(k)'
    <2>1. SUFFICES ASSUME NEW k \in 1..key - 1 PROVE k \in DOMAIN Keys /\ KeyDone(k)'
      OBVIOUS
    <2>2. k \in DOMAIN Keys
      BY <1>2
    <2>3. PICK p \in Nat :
            /\ Covers(k, (p + 1) * Gap)
            /\ \A u \in Txids :
                 (\E j \in p * Gap..(p + 1) * Gap - 1 : <<k, j>> \in Touches[u]) => ~Counts(u, k)
      BY <1>1 DEF Inv, Scanned, KeyDone
    <2>4. Covers(k, (p + 1) * Gap)'
      BY <1>1, <2>3 DEF Covers
    <2>5. QED
      BY <1>6, <2>2, <2>3, <2>4 DEF KeyDone
  <1>13. Scanned'
    <2>1. CASE FoundIn(Batch) # {} /\ start' = start + Gap /\ key' = key /\ pc' = pc
      <3>1. q + 1 \in Nat /\ start' = (q + 1) * Gap /\ Covers(key, start)'
        BY <1>2, <1>10, <2>1 DEF Covers
      <3>2. QED
        BY <1>1, <1>8, <1>12, <2>1, <3>1 DEF Scanned, Reading, Covers, KeyDone
    <2>2. CASE FoundIn(Batch) = {} /\ key < Len(Keys)
               /\ key' = key + 1 /\ start' = 0 /\ pc' = pc
      <3>1. \A k \in 1..key' - 1 : k \in 1..key - 1 \/ k = key
        BY <1>2, <2>2
      <3>2. \A k \in 1..key' - 1 : KeyDone(k)'
        BY <1>11, <1>12, <2>2, <3>1
      <3>3. 0 = 0 * Gap /\ Covers(key, start)'
        BY <1>2, <2>2 DEF Covers
      <3>4. QED
        BY <1>1, <1>8, <2>2, <3>2, <3>3 DEF Scanned, Reading, KeyDone
    <2>3. CASE FoundIn(Batch) = {} /\ ~(key < Len(Keys))
               /\ pc' = "getrawtransaction" /\ key' = key /\ start' = start
      <3>1. \A k \in DOMAIN Keys : k \in 1..key - 1 \/ k = key
        BY <1>2, <2>3
      <3>2. \A k \in DOMAIN Keys : KeyDone(k)'
        BY <1>11, <1>12, <2>3, <3>1
      <3>3. QED
        BY <1>8, <2>3, <3>2 DEF Scanned
    <2>4. QED
      BY <1>1, <2>1, <2>2, <2>3
  <1>14. QED
    BY <1>4, <1>5, <1>13 DEF Inv

-----------------------------------------------------------------------------
(* The invariant and what follows from it.                                 *)

LEMMA Start == ScanInit => Inv
  <1> SUFFICES ASSUME ScanInit PROVE Inv
    OBVIOUS
  <1>1. /\ pc = "getblockcount" /\ attempts = 0 /\ tip = 0 /\ todo = {}
        /\ DOMAIN blocks = {} /\ DOMAIN out = {}
        /\ reads \in Kinds /\ key = 1 /\ start = 0 /\ ours = {}
    BY DEF ScanInit, Init
  <1> DEFINE g == [txs |-> << >>, time |-> 1]
             c == <<g>>
  <1>2. c \in Seq(Block) /\ Len(c) = 1
    <2>1. g \in Block
      BY DEF Block
    <2>2. QED
      BY <2>1
  <1>3. Once(c)
    BY <1>2 DEF Once, MinedAt, TxsOf
  <1>4. chain \in Extensions(c, 1)
    BY DEF ScanInit, Init
  <1> HIDE DEF g, c
  <1>5. chain \in Seq(Block) /\ Len(chain) = 2 /\ Once(chain)
    <2>1. 1 \in Nat /\ 1 + 1 = 2
      OBVIOUS
    <2>2. /\ chain \in Seq(Block) /\ Len(chain) = Len(c) + 1
          /\ Once(chain)
      BY ONLY <1>2, <1>3, <1>4, <2>1, Extended
    <2>3. QED
      BY <1>2, <2>1, <2>2
  <1>6. ScanTypeOK /\ ChainInv /\ InOrder
    BY <1>1, <1>5, ReadAssumption, ScanAssumption DEF ScanTypeOK, TypeOK, ChainInv, InOrder
  <1>7. BlocksTrue /\ CurrentTrue /\ FinalStays /\ OutTrue /\ Listed
    BY <1>1 DEF BlocksTrue, CurrentTrue, FinalStays, OutTrue, Listed, Reading
  <1>8. Scanned
    BY <1>1 DEF Scanned, Found, Reading
  <1>9. QED
    BY <1>6, <1>7, <1>8 DEF Inv

LEMMA Steps ==
  ASSUME Inv, [ScanNext]_<<vars, scan>>
  PROVE  Inv'
  <1>1. CASE ScanBatch
    BY <1>1, ScanBatchKeeps
  <1>2. CASE reads = "stamps" /\ GetAddressTxids /\ UNCHANGED scan
    BY <1>2, GetAddressTxidsKeeps
  <1>3. CASE GetBlockCount /\ UNCHANGED scan
    BY <1>3, GetBlockCountKeeps
  <1>4. CASE (\E t \in todo : GetMined(t) \/ GetUnmined(t)) /\ UNCHANGED scan
    BY <1>4, GetMinedKeeps, GetUnminedKeeps
  <1>5. CASE GetBlock /\ UNCHANGED scan
    BY <1>5, GetBlockKeeps
  <1>6. CASE Finish /\ UNCHANGED scan
    BY <1>6, FinishKeeps
  <1>7. CASE CallFails /\ UNCHANGED scan
    BY <1>7, CallFailsKeeps
  <1>8. CASE (Mine \/ (\E d \in 1..MaxReorg : Reorganize(d))) /\ UNCHANGED scan
    BY <1>8, NodeKeeps
  <1>9. CASE UNCHANGED <<vars, scan>>
    <2>1. /\ UNCHANGED <<chain, pc, attempts, tip, todo, current, blocks, out>> /\ Same
          /\ UNCHANGED <<reads, key, start, ours>>
      BY <1>9 DEF vars, node, reader, scan, Same
    <2>2. ScanTypeOK' /\ ChainInv' /\ InOrder'
      BY <2>1 DEF Inv, ScanTypeOK, TypeOK, ChainInv, Once, InOrder
    <2>3. BlocksTrue' /\ CurrentTrue' /\ FinalStays' /\ OutTrue'
      <3>1. CurrentTrue'
        BY <2>1, SameSettled DEF Inv, CurrentTrue
      <3>2. QED
        BY <2>1, <3>1, SameSettled
        DEF Inv, BlocksTrue, FinalStays, OutTrue, TrueAt, Final, Fixed
    <2>4. Listed' /\ Scanned'
      BY <2>1, SameSettled DEF Inv, Listed, Scanned, Found, Reading
    <2>5. QED
      BY <2>2, <2>3, <2>4 DEF Inv
  <1>10. QED
    BY <1>1, <1>2, <1>3, <1>4, <1>5, <1>6, <1>7, <1>8, <1>9 DEF ScanNext, ReadBoth, Over

(* What a reader keeps whatever the node does: the blocks it holds and the
   entries it has made are those of the chain wherever they matter, and what
   it has to find is found or about to be read (zebra.ts readZcash, readTxs
   and readPayoutCandidates). *)
THEOREM ScanInvariance == ScanSpec => []Inv
  <1>1. Inv /\ [ScanNext]_<<vars, scan>> => Inv'
    BY Steps
  <1>2. QED
    BY Start, <1>1, PTL DEF ScanSpec

(* The type invariant of the reader and of the scan for payouts (zebra.ts). *)
THEOREM ReaderTypes == ScanSpec => []ScanTypeOK
  <1>1. Inv => ScanTypeOK
    BY DEF Inv
  <1>2. QED
    BY <1>1, ScanInvariance, PTL

(* An entry that is final by the confirmations it was given keeps its height
   for good (zebra.ts readTxs; CONFIRMATIONS in verify.ts). *)
THEOREM FinalHolds == ScanSpec => []FinalHeightsHold
  <1>1. Inv => FinalHeightsHold
    BY DEF Inv, FinalStays, FinalHeightsHold
  <1>2. QED
    BY <1>1, ScanInvariance, PTL

(* What was final at the start is where its height says, and is read there. *)
LEMMA FinalRead ==
  ASSUME Inv, NEW t \in Txids, FinalAtStart(t)
  PROVE  /\ HeightOf(t) \in Int /\ FixedAt(t, HeightOf(t))
         /\ t \in DOMAIN out => Final(out[t]) /\ TruePlace(t, out[t])
  <1>1. PICK h \in MinedAt(chain, t) : TRUE
    BY DEF FinalAtStart, Mined
  <1>2. MinedAt(chain, t) = {h} /\ HeightOf(t) = h
    BY <1>1, OneHeight DEF Inv
  <1>3. h \in Int /\ FixedAt(t, h)
    BY <1>1, <1>2, Lengths DEF Inv, MinedAt, FinalAtStart, FixedAt, Fixed
  <1>4. ASSUME t \in DOMAIN out PROVE Final(out[t]) /\ TruePlace(t, out[t])
    <2>1. TrueAt(t, h, out[t])
      BY <1>3, <1>4 DEF Inv, OutTrue
    <2>2. QED
      BY <1>2, <2>1 DEF TrueAt, TruePlace
  <1>5. QED
    BY <1>2, <1>3, <1>4

(* A read of the issuers' transactions that succeeds has all that was final
   when it started, each in its true place (zebra.ts readZcash). *)
THEOREM StampsFound == ScanSpec => []StampsRead
  <1>1. Inv => StampsRead
    <2>1. SUFFICES ASSUME Inv, reads = "stamps", pc = "read", NEW t \in Txids,
                          FinalAtStart(t), HeightOf(t) >= FromHeight
                   PROVE  t \in DOMAIN out /\ Final(out[t]) /\ TruePlace(t, out[t])
      BY DEF StampsRead, FinalAtStartIsRead, FinalAtStart
    <2>2. t \in DOMAIN out
      BY <2>1, FinalRead DEF Inv, Listed, Reading, InOrder
    <2>3. QED
      BY <2>1, <2>2, FinalRead
  <1>2. QED
    BY <1>1, ScanInvariance, PTL

LEMMA WholeBatches ==
  ASSUME NEW n \in Nat \ {0}, NEW q \in Nat, NEW i \in Nat, (q + 1) * n <= i
  PROVE  q \in 0..(i \div n) - 1
  <1> DEFINE d == i \div n
  <1>1. d \in Int /\ i < (d + 1) * n
    OBVIOUS
  <1> HIDE DEF d
  <1>2. ASSUME d <= q PROVE FALSE
    <2>1. PICK e \in Nat : q = d + e
      <3>1. q - d \in Nat /\ q = d + (q - d)
        BY <1>1, <1>2
      <3>2. QED
        BY <3>1
    <2>2. (q + 1) * n = (d + 1) * n + e * n
      BY <1>1, <2>1
    <2>3. e * n >= 0
      OBVIOUS
    <2>4. QED
      BY <1>1, <2>2, <2>3
  <1>3. QED
    BY <1>1, <1>2 DEF d

(* A read of the payouts that succeeds has all that was final when it started
   and counts for a key, but for what lies beyond a batch of that key's order
   addresses that had none (zebra.ts readPayoutCandidates, ORDER_GAP). *)
THEOREM PayoutsFound == ScanSpec => []PayoutsRead
  <1>1. Inv => PayoutsRead
    <2>1. SUFFICES ASSUME Inv, pc = "read", reads = "payouts",
                          NEW t \in Txids, NEW k \in DOMAIN Keys, NEW i,
                          <<k, i>> \in SpendsOf(t), CountsFor(t, k)
                   PROVE  \/ t \in PayoutCandidates /\ Final(out[t]) /\ TruePlace(t, out[t])
                          \/ \E b \in 0..(i \div Gap) - 1 :
                               \A u \in Txids :
                                 (\E j \in b * Gap..(b + 1) * Gap - 1 : <<k, j>> \in Touches[u])
                                   => ~CountsFor(u, k)
      BY DEF PayoutsRead
    <2>2. <<k, i>> \in Touches[t] /\ i \in Nat /\ Gap \in Nat \ {0}
      BY <2>1, ScanAssumption DEF SpendsOf
    <2>3. \A u \in Txids : CountsFor(u, k) => Counts(u, k)
      BY <2>1, FinalRead DEF CountsFor, Counts
    <2>4. PICK q \in Nat :
            /\ Covers(k, (q + 1) * Gap)
            /\ \A u \in Txids :
                 (\E j \in q * Gap..(q + 1) * Gap - 1 : <<k, j>> \in Touches[u]) => ~Counts(u, k)
      BY <2>1 DEF Inv, Scanned, Reading, KeyDone
    <2>5. CASE i < (q + 1) * Gap
      <3>1. <<k, i>> \in ours
        BY <2>2, <2>4, <2>5 DEF Covers
      <3>2. t \in DOMAIN out
        BY <2>1, <2>2, <2>3, <3>1 DEF Inv, Scanned, Found, InOrder
      <3>3. t \in PayoutCandidates
        BY <2>1, <3>1, <3>2 DEF PayoutCandidates, SpendsOf
      <3>4. QED
        BY <2>1, <3>2, <3>3, FinalRead DEF CountsFor
    <2>6. CASE ~(i < (q + 1) * Gap)
      <3>1. q \in 0..(i \div Gap) - 1
        BY <2>2, <2>6, WholeBatches
      <3>2. QED
        BY <2>3, <2>4, <3>1
    <2>7. QED
      BY <2>5, <2>6
  <1>2. QED
    BY <1>1, ScanInvariance, PTL

=============================================================================
