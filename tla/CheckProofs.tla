----------------------------- MODULE CheckProofs -----------------------------
(***************************************************************************)
(* CheckProof for every transaction, every answer of a node and every      *)
(* proof.                                                                  *)
(***************************************************************************)
EXTENDS CheckProof, CountProofs, SequenceTheorems

-----------------------------------------------------------------------------
(* Records.  What their writers write their readers read, and the two      *)
(* readers of each agree on every script.                                  *)

(* The scripts there are, of an OP_RETURN whose record names members of H: its
   length follows from its push and its data. *)
Data(H) == [version : Nat, hashes : Seq(H), extra : Nat]

Returns(H) == {Return(push, data) : push \in Seq(Nat), data \in Data(H)}

LEMMA ShortSeq ==
  ASSUME NEW S, NEW q \in Seq(S)
  PROVE  /\ Len(q) \in Nat
         /\ q # << >> <=> Len(q) >= 1
  BY EmptySeq, LenProperties

LEMMA OneOrTwo ==
  ASSUME NEW push \in Seq(Nat), NEW a \in Nat, NEW b \in Nat
  PROVE  /\ push = <<a>> <=> Len(push) = 1 /\ push[1] = a
         /\ push = <<a, b>> <=> Len(push) = 2 /\ push[1] = a /\ push[2] = b
  <1>1. <<a>> \in Seq(Nat) /\ <<a, b>> \in Seq(Nat)
    OBVIOUS
  <1>2. Len(push) = 1 /\ push[1] = a => push = <<a>>
    BY <1>1, SeqEqual
  <1>3. Len(push) = 2 /\ push[1] = a /\ push[2] = b => push = <<a, b>>
    BY <1>1, SeqEqual
  <1>4. QED
    BY <1>2, <1>3

LEMMA SizeOfV3 ==
  ASSUME NEW H, NEW hashes \in Seq(H)
  PROVE  Size([version |-> 3, hashes |-> hashes, extra |-> 0]) = 5 + 18 * Len(hashes)
  <1>1. Len(hashes) \in Nat
    BY ShortSeq
  <1>2. QED
    BY <1>1 DEF Size, HashLen

(* The writer's push is minimal. *)
LEMMA WrittenMinimal ==
  ASSUME NEW n \in 1..77
  PROVE  Minimal(IF n > 75 THEN <<76, n>> ELSE <<n>>, n)
  BY DEF Minimal

(* A version 3 record of one to four hashes is written, and read back as the
   hashes it was made of; more or none are refused (record.rs:42-83). *)
THEOREM RecordV3RoundTrip ==
  ASSUME NEW H, NEW hashes \in Seq(H)
  PROVE  /\ RecordV3(hashes) # << >> <=> Len(hashes) \in 1..4
         /\ Len(hashes) \in 1..4 => ParseV3Script(RecordV3Script(RecordV3(hashes)[1])) = hashes
  <1> DEFINE r == [version |-> 3, hashes |-> hashes, extra |-> 0]
  <1>1. RecordV3(hashes) = IF Len(hashes) \in 1..4 THEN <<r>> ELSE << >>
    BY DEF RecordV3, MaxExits
  <1>2. ASSUME Len(hashes) \in 1..4 PROVE ParseV3Script(RecordV3Script(r)) = hashes
    <2>1. Size(r) \in 1..77
      <3>1. Size(r) = 5 + 18 * Len(hashes)
        BY SizeOfV3
      <3>2. \A n \in 1..4 : 5 + 18 * n \in 1..77
        OBVIOUS
      <3>3. QED
        BY <1>2, <3>1, <3>2
    <2>2. ParseV3(r) = hashes
      BY <1>2 DEF ParseV3, MaxExits
    <2> HIDE DEF r
    <2>3. QED
      BY <2>1, <2>2, WrittenMinimal DEF ParseV3Script, RecordV3Script, Return
  <1>3. QED
    BY <1>1, <1>2

(* A version 2 record is read back as the hash it was made of, by either
   reader (record.rs:10-26, private/proof.rs:256-268, private.ts:69-75). *)
THEOREM RecordV2RoundTrip ==
  ASSUME NEW h
  PROVE  /\ RecordHash(RecordV2Script(h)) = <<h>>
         /\ RecordV2Hash(RecordV2Script(h)) = <<h>>
  <1>1. Size(RecordV2(h)) = 23
    BY DEF Size, RecordV2, HashLen
  <1>2. QED
    BY <1>1 DEF RecordHash, RecordV2Hash, RecordV2Script, Return, RecordV2

(* The two readers of version 3 records, in Rust and in TypeScript, give the
   same hashes for every OP_RETURN, minimal push or not, and a record that is
   read is exactly what record_v3_script writes of the hashes
   (record.rs:75-83, payout.ts:128-142). *)
THEOREM ReadersAgree ==
  ASSUME NEW H, NEW s \in Returns(H)
  PROVE  /\ ParseV3Script(s) = RecordV3Hashes(s)
         /\ ParseV3Script(s) # << >> => s = RecordV3Script(RecordV3(ParseV3Script(s))[1])
  <1>1. PICK push \in Seq(Nat), data \in Data(H) : s = Return(push, data)
    BY DEF Returns
  <1>2. s.ops = "return" /\ s.push = push /\ s.data = data
    BY <1>1 DEF Return
  <1>3. /\ data.hashes \in Seq(H) /\ Len(data.hashes) \in Nat
        /\ data.extra \in Nat /\ Size(data) \in Nat
    BY ShortSeq DEF Data, Size, HashLen
  <1>4. data.hashes # << >> /\ Len(data.hashes) <= 4 <=> Len(data.hashes) \in 1..4
    <2>1. data.hashes # << >> <=> Len(data.hashes) >= 1
      BY <1>3, ShortSeq
    <2>2. \A n \in Nat : n >= 1 /\ n <= 4 <=> n \in 1..4
      OBVIOUS
    <2>3. QED
      BY <1>3, <2>1, <2>2
  <1>5. Minimal(push, Size(data)) <=>
          \/ Len(push) = 2 /\ push[1] = 76 /\ push[2] > 75 /\ push[2] = Size(data)
          \/ Len(push) = 1 /\ push[1] \in 1..75 /\ push[1] = Size(data)
    <2>1. /\ push = <<Size(data)>> <=> Len(push) = 1 /\ push[1] = Size(data)
          /\ push = <<76, Size(data)>> <=>
               Len(push) = 2 /\ push[1] = 76 /\ push[2] = Size(data)
      BY <1>3, OneOrTwo
    <2>2. QED
      BY <2>1 DEF Minimal
  <1>6. ParseV3Script(s) = RecordV3Hashes(s)
    BY <1>2, <1>4, <1>5 DEF ParseV3Script, RecordV3Hashes, ParseV3, MaxExits
  <1>7. ASSUME ParseV3Script(s) # << >>
        PROVE  s = RecordV3Script(RecordV3(ParseV3Script(s))[1])
    <2>1. /\ Minimal(push, Size(data)) /\ data.version = 3 /\ data.extra = 0
          /\ Len(data.hashes) \in 1..4 /\ ParseV3Script(s) = data.hashes
      BY <1>2, <1>7 DEF ParseV3Script, ParseV3, MaxExits
    <2>2. data = [version |-> 3, hashes |-> data.hashes, extra |-> 0]
      BY <2>1 DEF Data
    <2>3. RecordV3(ParseV3Script(s)) = <<data>>
      BY <2>1, <2>2 DEF RecordV3, MaxExits
    <2>4. push = IF Size(data) > 75 THEN <<76, Size(data)>> ELSE <<Size(data)>>
      <3>1. CASE push = <<76, Size(data)>> /\ Size(data) > 75
        BY <3>1
      <3>2. CASE push = <<Size(data)>> /\ Size(data) \in 1..75
        BY <3>2
      <3>3. QED
        BY <2>1, <3>1, <3>2 DEF Minimal
    <2>5. QED
      BY <1>1, <2>3, <2>4 DEF RecordV3Script
  <1>8. QED
    BY <1>6, <1>7

-----------------------------------------------------------------------------
(* Receipts.  The text of one is read back as it was written.              *)
(* SMT alone is asked where numbers are large.                             *)

(* The year of a day of an era, which its divisors of 1460 and 36524 days make
   up for the leap days: a century of the era, a day of it and a year. *)
LEMMA EraYear ==
  ASSUME NEW doe \in Nat, doe <= 146096
  PROVE  LET y == YearOfEra(doe)
         IN  y \in Nat /\ y <= 399 /\ FirstDay(y) <= doe /\ doe <= FirstDay(y) + 365
  <1>1. CASE doe = 146096
    <2>1. YearOfEra(146096) = 399 /\ FirstDay(399) = 145731
      BY SMT DEF YearOfEra, FirstDay
    <2>2. QED
      BY <1>1, <2>1, SMT
  <1>2. CASE doe < 146096
    <2>1. PICK b \in Nat : b <= 3 /\ doe \div 36524 = b
                             /\ 36524 * b <= doe /\ doe < 36524 * b + 36524
      <3>1. doe \div 36524 \in Nat /\ doe \div 36524 <= 3
            /\ 36524 * (doe \div 36524) <= doe /\ doe < 36524 * (doe \div 36524) + 36524
        BY <1>2, SMT
      <3>2. QED
        BY <3>1, SMT
    <2>2. PICK s \in Nat : doe = 36524 * b + s /\ s <= 36523
      <3>1. doe - 36524 * b \in Nat /\ doe = 36524 * b + (doe - 36524 * b)
            /\ doe - 36524 * b <= 36523
        BY <2>1, SMT
      <3>2. QED
        BY <3>1, SMT
    <2>3. PICK q \in Nat : doe \div 1460 = q /\ 1460 * q <= doe /\ doe < 1460 * q + 1460
      <3>1. doe \div 1460 \in Nat /\ 1460 * (doe \div 1460) <= doe
            /\ doe < 1460 * (doe \div 1460) + 1460
        BY SMT
      <3>2. QED
        BY <3>1, SMT
    <2>4. PICK p \in Nat : q = 25 * b + p /\ p <= 25
      <3>1. q - 25 * b \in Nat /\ q = 25 * b + (q - 25 * b) /\ q - 25 * b <= 25
        BY <2>1, <2>2, <2>3, SMT
      <3>2. QED
        BY <3>1, SMT
    <2>5. PICK x \in Int : x = 36500 * b + (s - p)
      BY SMT
    <2>6. YearOfEra(doe) = x \div 365
      <3>1. doe \div 146096 = 0
        BY <1>2, SMT
      <3>2. doe - q + b - 0 = x
        BY <2>2, <2>4, <2>5, SMT
      <3>3. YearOfEra(doe) = (doe - q + b - 0) \div 365
        BY <2>1, <2>3, <3>1, SMT DEF YearOfEra
      <3>4. QED
        BY <3>2, <3>3, SMT
    <2>7. 1460 * p <= s + 24 * b /\ s + 24 * b < 1460 * p + 1460
      BY <2>2, <2>3, <2>4, SMT
    <2>8. \E y \in Nat : /\ y = x \div 365 /\ y <= 399
                         /\ FirstDay(y) <= doe /\ doe <= FirstDay(y) + 365
      <3>1. PICK u \in Nat : u = s - p /\ u <= 36499
        <4>1. s - p \in Nat /\ s - p <= 36499
          BY <2>2, <2>4, <2>7, SMT
        <4>2. QED
          BY <4>1, SMT
      <3>2. PICK w \in Nat : w <= 99 /\ 365 * w <= u /\ u < 365 * w + 365
        <4>1. u \div 365 \in Nat /\ u \div 365 <= 99
              /\ 365 * (u \div 365) <= u /\ u < 365 * (u \div 365) + 365
          BY <3>1, SMT
        <4>2. QED
          BY <4>1, SMT
      <3>3. PICK k \in Nat : k <= 24 /\ 4 * k <= w /\ w < 4 * k + 4
        <4>1. w \div 4 \in Nat /\ w \div 4 <= 24 /\ 4 * (w \div 4) <= w /\ w < 4 * (w \div 4) + 4
          BY <3>2, SMT
        <4>2. QED
          BY <4>1, SMT
      <3>4. (36500 * b + u) \div 365 = 100 * b + w
        BY <2>1, <3>2, SMT
      <3>5. (100 * b + w) \div 4 = 25 * b + k
        BY <3>3, SMT
      <3>6. (100 * b + w) \div 100 = b
        BY <3>2, SMT
      <3>7. FirstDay(100 * b + w) = 36524 * b + 365 * w + k
        <4>1. FirstDay(100 * b + w) = 365 * (100 * b + w) + (25 * b + k) - b
          BY <3>5, <3>6, SMT DEF FirstDay
        <4>2. QED
          BY <4>1, SMT
      <3>8. k <= p /\ p <= k + 1
        BY <2>1, <2>2, <2>4, <2>7, <3>1, <3>2, <3>3, SMT
      <3>9. 36524 * b + 365 * w + k <= 36524 * b + s /\ 36524 * b + s <= 36524 * b + 365 * w + k + 365
        BY <3>1, <3>2, <3>8, SMT
      <3>10. 100 * b + w \in Nat /\ 100 * b + w = x \div 365 /\ 100 * b + w <= 399
        BY <2>1, <2>5, <3>1, <3>2, <3>4, SMT
      <3>11. FirstDay(100 * b + w) <= doe /\ doe <= FirstDay(100 * b + w) + 365
        BY <2>2, <3>7, <3>9, SMT
      <3>12. QED
        BY <3>10, <3>11, SMT
    <2>9. QED
      BY <2>6, <2>8, SMT
  <1>3. QED
    BY <1>1, <1>2, SMT

LEMMA DateOfDay ==
  ASSUME NEW year \in Nat, NEW doy \in Nat, doy <= 365
  PROVE  /\ MarchYear(Dated(year, doy)) = year
         /\ DayOfYear(Dated(year, doy)) = doy
         /\ Dated(year, doy).year = IF doy >= 306 THEN year + 1 ELSE year
  <1>1. PICK mp \in Nat : mp = (5 * doy + 2) \div 153 /\ mp <= 11 /\ (mp < 10 <=> doy < 306)
    <2>1. LET mp == (5 * doy + 2) \div 153
          IN  mp \in Nat /\ mp <= 11 /\ (mp < 10 <=> doy < 306)
      BY SMT
    <2>2. QED
      BY <2>1, SMT
  <1>2. /\ Dated(year, doy).year = IF mp < 10 THEN year ELSE year + 1
        /\ Dated(year, doy).month = IF mp < 10 THEN mp + 3 ELSE mp - 9
        /\ Dated(year, doy).day = doy - ((153 * mp + 2) \div 5) + 1
    BY <1>1, SMT DEF Dated
  <1>3. /\ mp < 10 => (mp + 3 + 9) % 12 = mp /\ ~(mp + 3 <= 2)
        /\ ~(mp < 10) => (mp - 9 + 9) % 12 = mp /\ mp - 9 <= 2
    BY <1>1, SMT
  <1>4. (Dated(year, doy).month + 9) % 12 = mp
    BY <1>2, <1>3, SMT
  <1>5. MarchYear(Dated(year, doy)) = year
    BY <1>2, <1>3, SMT DEF MarchYear
  <1>6. DayOfYear(Dated(year, doy)) = doy
    <2>1. (153 * mp + 2) \div 5 \in Int
      BY SMT
    <2>2. QED
      BY <1>2, <1>4, <2>1, SMT DEF DayOfYear
  <1>7. QED
    BY <1>1, <1>2, <1>5, <1>6, SMT

(* Every day to the last of the year 9999. *)
LEMMA DaysRoundTrip ==
  ASSUME NEW days \in Nat, days <= 2932896
  PROVE  /\ DaysFrom(Civil(days)) = days
         /\ Civil(days).year \in Nat /\ Civil(days).year <= 9999
  <1>1. PICK n \in Nat : n = days + 719468 /\ 719468 <= n /\ n <= 3652364
    BY SMT
  <1>2. PICK era \in Nat, doe \in Nat : /\ era = n \div 146097 /\ doe = n % 146097 /\ era <= 24
                                       /\ doe <= 146096 /\ n = 146097 * era + doe
    <2>1. n \div 146097 \in Nat /\ n \div 146097 <= 24
      BY <1>1, SMT
    <2>2. n % 146097 \in Nat /\ n % 146097 <= 146096
      BY SMT
    <2>3. n = 146097 * (n \div 146097) + (n % 146097)
      BY SMT
    <2>4. QED
      BY <2>1, <2>2, <2>3, SMT
  <1>3. PICK y \in Nat : y = YearOfEra(doe) /\ y <= 399
                           /\ FirstDay(y) <= doe /\ doe <= FirstDay(y) + 365
    BY <1>2, EraYear, SMT
  <1>4. PICK first \in Nat : first = FirstDay(y)
    <2>1. FirstDay(y) \in Nat
      BY <1>3, SMT DEF FirstDay
    <2>2. QED
      BY <2>1, SMT
  <1>5. PICK doy \in Nat : doe = first + doy /\ doy <= 365 /\ doy = doe - first
    <2>1. doe - first \in Nat /\ doe = first + (doe - first) /\ doe - first <= 365
      BY <1>3, <1>4, SMT
    <2>2. QED
      BY <2>1, SMT
  <1>6. PICK year \in Nat : year = y + era * 400
    BY SMT
  <1>7. Civil(days) = Dated(year, doy)
    BY <1>1, <1>2, <1>3, <1>4, <1>5, <1>6, SMT DEF Civil, EraDay, DatedInEra
  <1>8. MarchYear(Civil(days)) = year /\ DayOfYear(Civil(days)) = doy
    BY <1>5, <1>7, DateOfDay, SMT
  <1>9. year \div 400 = era /\ year % 400 = y
    BY <1>3, <1>6, SMT
  <1>10. DaysFrom(Civil(days)) = era * 146097 + first + doy - 719468
    <2>1. DaysFrom(Civil(days)) = DaysTo(year, doy)
      BY <1>8, SMT DEF DaysFrom
    <2>2. QED
      BY <1>4, <1>9, <2>1, SMT DEF DaysTo
  <1>11. era * 146097 + first + doy - 719468 = days
    BY <1>1, <1>2, <1>5, SMT
  <1>12. ~(doy >= 306 /\ year >= 9999)
    <2>1. ASSUME doy >= 306, year >= 9999 PROVE FALSE
      <3>1. era = 24 /\ y = 399
        BY <1>2, <1>3, <1>6, <2>1, SMT
      <3>2. FirstDay(399) = 145731
        BY SMT DEF FirstDay
      <3>3. QED
        BY <1>1, <1>2, <1>4, <1>5, <2>1, <3>1, <3>2, SMT
    <2>2. QED
      BY <2>1, SMT
  <1>13. Civil(days).year \in Nat /\ Civil(days).year <= 9999
    <2>1. year <= 9999
      BY <1>2, <1>3, <1>6, SMT
    <2>2. Civil(days).year = IF doy >= 306 THEN year + 1 ELSE year
      BY <1>5, <1>7, DateOfDay, SMT
    <2>3. (IF doy >= 306 THEN year + 1 ELSE year) \in Nat
          /\ (IF doy >= 306 THEN year + 1 ELSE year) <= 9999
      BY <1>12, <2>1, SMT
    <2>4. QED
      BY <2>2, <2>3, SMT
  <1>14. QED
    BY <1>10, <1>11, <1>13, SMT

LEMMA TimeRoundTrip ==
  ASSUME NEW t \in Nat, t \div 86400 <= 2932896
  PROVE  ParseIso(Iso(t)) = t
  <1>1. PICK days \in Nat, s \in Nat : /\ days = t \div 86400 /\ s = t % 86400
                                      /\ t = 86400 * days + s /\ s < 86400
                                      /\ days <= 2932896
    BY SMT
  <1>2. /\ Iso(t) = [date |-> Civil(days), clock |-> Clock(s)]
    BY <1>1, SMT DEF Iso
  <1>3. DaysFrom(Civil(days)) = days /\ Civil(days).year \in Nat /\ Civil(days).year <= 9999
    BY <1>1, DaysRoundTrip, SMT
  <1>4. Clock(s).hour * 3600 + Clock(s).minute * 60 + Clock(s).second = s
    <2>1. Clock(s).hour = s \div 3600 /\ Clock(s).minute = (s \div 60) % 60 /\ Clock(s).second = s % 60
      BY SMT DEF Clock
    <2>2. (s \div 3600) * 3600 + ((s \div 60) % 60) * 60 + (s % 60) = s
      <3>1. s \div 3600 = (s \div 60) \div 60
        BY SMT
      <3>2. s = (s \div 60) * 60 + (s % 60)
        BY SMT
      <3>3. s \div 60 = ((s \div 60) \div 60) * 60 + ((s \div 60) % 60)
        BY SMT
      <3>4. QED
        BY <3>1, <3>2, <3>3, SMT
    <2>3. QED
      BY <2>1, <2>2, SMT
  <1>5. Seconds(Iso(t)) = t
    <2>1. Seconds(Iso(t)) = days * 86400 + Clock(s).hour * 3600 + Clock(s).minute * 60 + Clock(s).second
      BY <1>2, <1>3, SMT DEF Seconds
    <2>2. PICK h \in Nat, m \in Nat, c \in Nat :
            Clock(s).hour = h /\ Clock(s).minute = m /\ Clock(s).second = c
      BY SMT DEF Clock
    <2>3. QED
      BY <1>1, <1>4, <2>1, <2>2, SMT
  <1>6. PICK year \in Nat : year = Iso(t).date.year /\ year <= 9999
    BY <1>2, <1>3, SMT
  <1>7. QED
    <2>1. year \in 0..LastYear
      <3>1. LastYear \in Nat /\ year <= LastYear
        BY <1>6, SMT DEF LastYear
      <3>2. QED
        BY <3>1, SMT
    <2>2. QED
      BY <1>5, <1>6, <2>1, SMT DEF ParseIso

LEMMA AmountRoundTrip ==
  ASSUME NEW v \in Nat, v <= MaxAmount, NEW unit \in Nat, unit > 0
  PROVE  ParseDecimal(Decimal(v, unit), unit) = v
  <1>1. (v \div unit) * unit + (v % unit) = v
    BY SMT
  <1>2. QED
    BY <1>1, SMT DEF ParseDecimal, Decimal

LEMMA Amounts ==
  ASSUME NEW v \in 0..MaxAmount
  PROVE  /\ ParseDecimal(Decimal(v, CoinUnit), CoinUnit) = v
         /\ ParseDecimal(Decimal(v, ZecUnit), ZecUnit) = v
         /\ v # None
  <1>1. /\ v \in Nat /\ v <= MaxAmount
        /\ CoinUnit \in Nat /\ CoinUnit > 0 /\ ZecUnit \in Nat /\ ZecUnit > 0
    BY ReceiptsAssumption
  <1>2. v # None
    BY <1>1, ParamsAssumption
  <1>3. QED
    BY <1>1, <1>2, AmountRoundTrip

LEMMA Times ==
  ASSUME NEW t \in 0..LastTime
  PROVE  ParseIso(Iso(t)) = t /\ t # None
  <1>1. t \in Nat /\ t <= LastTime /\ LastTime \in Nat
    BY ReceiptsAssumption
  <1>2. t \div 86400 <= 2932896
    <2>1. t \div 86400 <= LastTime \div 86400
      BY <1>1, SMT
    <2>2. LastTime \div 86400 \in Int /\ t \div 86400 \in Int
      BY <1>1, SMT
    <2>3. QED
      BY <2>1, <2>2, ReceiptsAssumption, SMT
  <1>3. t # None
    BY <1>1, ParamsAssumption, SMT
  <1>4. QED
    BY <1>1, <1>2, <1>3, TimeRoundTrip, SMT

(* The receipt of a harvest that Receipt::check allows is read back from its
   text, to the second and to the last unit (private/memo.rs:60-175). *)
THEOREM StampReceiptRoundTrip ==
  ASSUME NEW r \in [coin : Tokens \cup {None}, burned : 0..MaxAmount,
                    harvested : 0..MaxAmount, fee : 0..MaxAmount,
                    signature : Signatures, time : Int],
         StampReceiptOk(r), StampText(r) # None
  PROVE  ParseStamp(StampText(r)) = r
  <1>1. /\ ParseDecimal(Decimal(r.burned, CoinUnit), CoinUnit) = r.burned
        /\ ParseDecimal(Decimal(r.harvested, ZecUnit), ZecUnit) = r.harvested
        /\ ParseDecimal(Decimal(r.fee, ZecUnit), ZecUnit) = r.fee
        /\ None \notin {r.burned, r.harvested, r.fee}
    BY Amounts
  <1>2. ParseIso(Iso(r.time)) = r.time /\ r.time # None
    BY Times DEF StampReceiptOk
  <1>3. SaysStamp(StampText(r)) =
          [coin |-> r.coin, burned |-> r.burned, harvested |-> r.harvested,
           fee |-> r.fee, signature |-> r.signature, time |-> r.time]
    BY <1>1, <1>2 DEF SaysStamp, StampText
  <1>4. SaysStamp(StampText(r)) = r
    BY <1>3
  <1>5. StampText(r).form = "stamp"
    BY DEF StampText
  <1>6. QED
    BY <1>1, <1>2, <1>4, <1>5 DEF ParseStamp, StampIfExact

(* So is the receipt of an exit, to the end of the year 9999
   (payout/receipt.rs:75-225). *)
THEOREM PayoutReceiptRoundTrip ==
  ASSUME NEW r \in [source : {"sell", "harvest", "send"}, coin : Tokens \cup {None},
                    sent : 0..MaxAmount, bridged : 0..MaxAmount, fee : 0..MaxAmount,
                    received : 0..MaxAmount, signature : Signatures, time : 0..LastTime],
         PayoutReceiptOk(r), PayoutText(r) # None
  PROVE  ParsePayout(PayoutText(r)) = r
  <1>1. /\ ParseDecimal(Decimal(r.sent, ZecUnit), ZecUnit) = r.sent
        /\ ParseDecimal(Decimal(r.bridged, ZecUnit), ZecUnit) = r.bridged
        /\ ParseDecimal(Decimal(r.fee, ZecUnit), ZecUnit) = r.fee
        /\ ParseDecimal(Decimal(r.received, ZecUnit), ZecUnit) = r.received
        /\ None \notin {r.sent, r.bridged, r.fee, r.received}
    BY Amounts
  <1>2. ParseIso(Iso(r.time)) = r.time /\ r.time # None
    BY Times
  <1>3. SaysPayout(PayoutText(r)) =
          [source |-> r.source, coin |-> r.coin, sent |-> r.sent, bridged |-> r.bridged,
           fee |-> r.fee, received |-> r.received, signature |-> r.signature,
           time |-> r.time]
    BY <1>1, <1>2 DEF SaysPayout, PayoutText
  <1>4. SaysPayout(PayoutText(r)) = r
    BY <1>3
  <1>5. PayoutText(r).form = "payout"
    BY DEF PayoutText
  <1>6. QED
    BY <1>1, <1>2, <1>4, <1>5 DEF ParsePayout, PayoutIfExact

-----------------------------------------------------------------------------
(* The readers of a transaction, in the checker and in the verifier.       *)

LEMMA Positions ==
  ASSUME NEW q, q \in Seq(Range(q))
  PROVE  Len(q) \in Nat /\ DOMAIN q = 1..Len(q)
  BY LenProperties

LEMMA Scripts ==
  ASSUME NEW b, b.outputs \in Seq(Range(b.outputs))
  PROVE  /\ Len(ReturnsOf(b)) \in Nat /\ DOMAIN ReturnsOf(b) = 1..Len(ReturnsOf(b))
         /\ \A n \in DOMAIN ReturnsOf(b) : \E i \in DOMAIN b.outputs :
              ReturnsOf(b)[n] = b.outputs[i].script
  <1> DEFINE S == {i \in DOMAIN b.outputs : b.outputs[i].script.ops = "return"}
  <1>1. IsFiniteSet(S)
    <2>1. IsFiniteSet(DOMAIN b.outputs)
      BY Positions, FS_Interval
    <2>2. QED
      BY <2>1, FS_Subset
  <1>2. Cardinality(S) \in Nat /\ SetToSeq(S) \in [1..Cardinality(S) -> S]
    <2>1. Cardinality(S) \in Nat /\ \E f : f \in Bijection(1..Cardinality(S), S)
      BY <1>1, FS_CardinalityType DEF ExistsBijection
    <2>2. \E f \in [1..Cardinality(S) -> S] : IsInjective(f)
      BY <2>1 DEF Bijection, Injection
    <2> HIDE DEF S
    <2>3. SetToSeq(S) \in [1..Cardinality(S) -> S]
      BY <2>2 DEF SetToSeq
    <2>4. QED
      BY <2>1, <2>3
  <1>3. /\ DOMAIN ReturnsOf(b) = 1..Cardinality(S)
        /\ \A n \in 1..Cardinality(S) : ReturnsOf(b)[n] = b.outputs[SetToSeq(S)[n]].script
    BY <1>2 DEF ReturnsOf
  <1>4. Len(ReturnsOf(b)) = Cardinality(S)
    <2>1. PICK n \in Nat : n = Cardinality(S)
      BY <1>2
    <2>2. DOMAIN ReturnsOf(b) = 1..n
      BY <1>3, <2>1
    <2>3. Len(ReturnsOf(b)) = n
      BY <2>2
    <2>4. QED
      BY <2>1, <2>3
  <1>5. ASSUME NEW n \in 1..Cardinality(S) PROVE SetToSeq(S)[n] \in DOMAIN b.outputs
    <2>1. SetToSeq(S)[n] \in S
      BY <1>2
    <2>2. QED
      BY <2>1
  <1>6. QED
    BY <1>2, <1>3, <1>4, <1>5

(* What verifies is read by both as the keys that are pushed. *)
LEMMA VerifiedKeys ==
  ASSUME NEW b, NEW v, Verifies(b, v)
  PROVE  KeysOf(b) = Pushed(b) /\ SpendersOf(b) = Pushed(b)
  BY DEF Verifies, KeysOf, SpendersOf, Pushed

LEMMA ExitsRead ==
  ASSUME NEW b, IsTransaction(b), Len(b.outputs) = 1, Named(b) # << >>
  PROVE  ReadExits(b) = Named(b)
  <1> DEFINE s == b.outputs[1].script
  <1>1. 1 \in DOMAIN b.outputs /\ b.outputs # << >>
    BY Positions DEF IsTransaction
  <1>2. s.ops = "return"
    BY DEF Named, ParseV3Script
  <1>3. s \in Returns(Range(s.data.hashes))
    BY <1>1, <1>2 DEF IsTransaction, IsScript, Returns, Data
  <1>4. ParseV3Script(s) = RecordV3Hashes(s)
    <2> HIDE DEF s
    <2>1. QED
      BY <1>3, ReadersAgree
  <1>5. QED
    BY <1>1, <1>4 DEF ReadExits, Named

(* What the checker takes as a private stamp of the request its receipt names,
   the values of the coins given, the ledger takes as one. *)
LEMMA StampTaken ==
  ASSUME NEW v, v # None, IsTransaction(bytes), bytes.parses, Final(NodePlace),
         ChecksStamp(bytes, proof, IssuersAt(input.height), v),
         proof.kind = "stamp", TheRequest
  PROVE  TakenAsStamp
  <1> DEFINE z == StampCandidate(bytes)
             s == Receipt.signature
             in == [requests |-> Alone(Requests), refunds |-> {}, candidates |-> <<z>>]
  <1>1. /\ bytes.txid = proof.txid /\ StampShape(bytes, IssuersAt(input.height))
        /\ Verifies(bytes, v) /\ proof.action \in DOMAIN bytes.notes
        /\ RecordHash(ReturnsOf(bytes)[1]) = <<ExitHash(s)>>
    BY DEF ChecksStamp, Delivers, Receipt, ReadReceipt
  <1>2. /\ ~bytes.otherPool /\ bytes.intoPool = Postage /\ bytes.inputs # << >>
        /\ Range(KeysOf(bytes)) \subseteq IssuersAt(input.height)
        /\ \A o \in OthersOf(bytes) :
             ScriptKind(o.script) = "P2PKH" /\ o.script.to \in IssuersAt(input.height)
        /\ Len(ReturnsOf(bytes)) = 1
    BY <1>1 DEF StampShape
  <1>3. DOMAIN ReturnsOf(bytes) = {1}
    BY <1>2, Scripts DEF IsTransaction
  <1>4. s \in DOMAIN Requests /\ s \in DOMAIN Hash /\ Requests[s].hash[2] = ExitHash(s)
    BY SolanaAssumption DEF TheRequest, ExitHash
  <1>5. IsCandidate(z)
    <2>1. Final(z)
      BY DEF Final, NodePlace, StampCandidate
    <2>2. bytes.version = 6
      BY <1>2, ParamsAssumption DEF IsTransaction
    <2>3. z.spenders # {} /\ z.spenders \subseteq IssuersAt(z.height)
      <3>1. SpendersOf(bytes) = KeysOf(bytes)
        BY <1>1, VerifiedKeys
      <3>2. DOMAIN KeysOf(bytes) # {}
        <4>1. Len(bytes.inputs) >= 1 /\ DOMAIN bytes.inputs = 1..Len(bytes.inputs)
              /\ Len(bytes.inputs) \in Nat
          BY <1>2, ShortSeq, Positions DEF IsTransaction
        <4>2. 1 \in DOMAIN bytes.inputs
          BY <4>1
        <4>3. QED
          BY <4>2 DEF KeysOf
      <3>3. z.spenders = Range(KeysOf(bytes)) /\ z.height = input.height
        BY <3>1 DEF StampCandidate
      <3>4. QED
        BY <1>2, <3>2, <3>3 DEF Range
    <2>4. FromIssuers(z)
      BY <1>1, <2>3 DEF FromIssuers, StampCandidate
    <2>5. OneRecord(z)
      <3>1. z.opReturns = [n \in {1} |-> ReadRecord(ReturnsOf(bytes)[n])]
        BY <1>3 DEF StampCandidate
      <3>2. Len(z.opReturns) = 1
        BY <3>1
      <3>3. z.opReturns[1].version = 2
        BY <1>1, <3>1 DEF ReadRecord, RecordHash, RecordV2Hash
      <3>4. z.version = 6
        BY <2>2 DEF StampCandidate
      <3>5. QED
        BY <3>2, <3>3, <3>4 DEF OneRecord, RecordVersion, IsPrivate
    <2>6. QED
      BY <2>1, <2>4, <2>5 DEF IsCandidate
  <1>6. IsPrivate(z)
    BY <1>2, ParamsAssumption DEF IsTransaction, IsPrivate, StampCandidate
  <1>7. Alone(Requests)[s] = Requests[s] /\ DOMAIN Alone(Requests) = {s}
    BY DEF Alone
  <1>8. Names(Alone(Requests), z, s)
    <2>1. z.opReturns[1].hash = ExitHash(s)
      BY <1>1, <1>3 DEF StampCandidate, ReadRecord, RecordHash, RecordV2Hash
    <2>2. RecordVersion(z) = 2
      BY <1>6 DEF RecordVersion
    <2>3. QED
      BY <1>4, <1>7, <2>1, <2>2 DEF Names
  <1>9. PaysPool(z)
    <2>1. \A o \in z.outs : o.script \in IssuersAt(z.height)
      BY <1>2 DEF StampCandidate, Payee
    <2>2. QED
      BY <1>2, <2>1 DEF PaysPool, StampCandidate
  <1>10. Requests[s].mode = "private" /\ Deliverable(Requests[s])
    BY DEF TheRequest
  <1>11. /\ IsCandidate(in.candidates[1])
         /\ Names(in.requests, in.candidates[1], s)
         /\ RightMode(in.requests[s], in.candidates[1])
         /\ SameAmounts(in.requests[s], in.candidates[1])
         /\ PaysRequest(in.requests[s], in.candidates[1])
    <2>1. in.candidates[1] = z /\ in.requests = Alone(Requests)
      OBVIOUS
    <2> HIDE DEF in, z, s
    <2>2. QED
      BY <1>5, <1>6, <1>7, <1>8, <1>9, <1>10, <2>1
         DEF RightMode, SameAmounts, PaysRequest
  <1>12. RefundsOf(in, s) = {}
    BY DEF RefundsOf
  <1>13. Qualifies(in, 1, s)
    <2> HIDE DEF in, z, s
    <2>1. QED
      BY <1>11, <1>12 DEF Qualifies
  <1>14. QED
    BY <1>13 DEF TakenAsStamp

LEMMA NamedExits ==
  ASSUME NEW b, IsTransaction(b), Len(b.outputs) = 1, Named(b) # << >>
  PROVE  /\ Len(Named(b)) \in Nat \ {0} /\ DOMAIN Named(b) = 1..Len(Named(b))
         /\ Named(b) # None
  <1> DEFINE s == b.outputs[1].script
  <1>1. 1 \in DOMAIN b.outputs
    BY Positions DEF IsTransaction
  <1>2. s.ops = "return" /\ Named(b) = s.data.hashes
    BY DEF Named, ParseV3Script, ParseV3
  <1>3. Named(b) \in Seq(Range(s.data.hashes)) /\ Named(b) # None
    BY <1>1, <1>2 DEF IsTransaction, IsScript
  <1>4. QED
    BY <1>3, ShortSeq, LenProperties

LEMMA KeysInOrder ==
  ASSUME NEW b, IsTransaction(b)
  PROVE  /\ Len(b.inputs) \in Nat /\ DOMAIN b.inputs = 1..Len(b.inputs)
         /\ DOMAIN KeysOf(b) = 1..Len(b.inputs) /\ DOMAIN Pushed(b) = 1..Len(b.inputs)
  BY Positions DEF IsTransaction, KeysOf, Pushed

(* What the checker takes as a payout stamp of the exit its receipt names, the
   values of the coins given, the ledger takes as one. *)
LEMMA PayoutTaken ==
  ASSUME NEW v, v # None, IsTransaction(bytes), bytes.parses, Final(NodePlace),
         ChecksPayout(bytes, proof, KeysAt(proof.account, input.height), v),
         proof.kind = "payout", proof.account = 0, TheExit
  PROVE  TakenAsPayout
  <1> DEFINE z == PayoutCandidate(bytes)
             s == Receipt.signature
             E == Alone(Exits)
             record == Named(bytes)
             bad == {j \in DOMAIN z.record : ~PaidAt(E, z, j)}
  <1>1. /\ bytes.txid = proof.txid /\ PayoutShape(bytes) /\ Verifies(bytes, v)
    BY DEF ChecksPayout
  <1>2. PICK n \in DOMAIN record :
          /\ record[n] = ExitHash(s)
          /\ Ordered(bytes, proof, KeysAt(proof.account, input.height), n)
    BY DEF ChecksPayout, Receipt, ReadReceipt
  <1>3. /\ ~bytes.otherPool /\ bytes.intoPool # None /\ bytes.intoPool > 0
        /\ Len(bytes.outputs) = 1 /\ record # << >>
        /\ IsInjective(record) /\ Len(record) <= Len(bytes.notes)
        /\ None \notin Range(KeysOf(bytes))
        /\ IsInjective(RunKeys(KeysOf(bytes)))
        /\ Len(RunKeys(KeysOf(bytes))) = Len(record)
    BY <1>1 DEF PayoutShape
  <1>4. /\ Len(record) \in Nat \ {0} /\ DOMAIN record = 1..Len(record) /\ record # None
    BY <1>3, NamedExits
  <1>5. /\ z.record = record /\ z.spenders = KeysOf(bytes) /\ z.height = input.height
    <2>1. ReadExits(bytes) = record
      BY <1>3, ExitsRead
    <2>2. SpendersOf(bytes) = KeysOf(bytes)
      BY <1>1, VerifiedKeys
    <2>3. QED
      BY <2>1, <2>2 DEF PayoutCandidate
  <1>6. Final(z) /\ IsV6(z) /\ Shields(z)
    <2>1. bytes.version = 6
      BY <1>3 DEF IsTransaction
    <2>2. Final(z)
      BY DEF Final, NodePlace, PayoutCandidate
    <2>3. IsV6(z)
      BY <1>1, <2>1 DEF IsV6, PayoutCandidate
    <2>4. /\ z.otherPool = bytes.otherPool /\ z.intoPool = bytes.intoPool
          /\ z.outputs = Len(bytes.outputs) /\ z.actions = Len(bytes.notes)
      BY DEF PayoutCandidate
    <2>5. Shields(z)
      <3> HIDE DEF z, record
      <3>1. QED
        BY <1>3, <1>4, <1>5, <2>4 DEF Shields
    <2>6. QED
      BY <2>2, <2>3, <2>5
  <1>7. OneRunPerExit(z)
    <2>1. KeysOf(bytes) # << >>
      <3>1. Len(RunKeys(KeysOf(bytes))) >= 1
        BY <1>3, <1>4
      <3>2. \E i \in DOMAIN KeysOf(bytes) : RunAt(KeysOf(bytes), i) = 1
        <4>1. 1 \in DOMAIN RunKeys(KeysOf(bytes))
          BY <3>1, KeysInOrder, RunsNumbered
        <4>2. QED
          BY <4>1, KeysInOrder, RunsNumbered
      <3>3. QED
        BY <3>2
    <2>2. QED
      BY <1>3, <1>5, <2>1 DEF OneRunPerExit
  <1>8. /\ E[s] = Exits[s] /\ DOMAIN E = {s}
        /\ Exits[s].hash = ExitHash(s) /\ Exits[s].index = proof.index
    BY SolanaAssumption DEF TheExit, Alone, ExitHash
  <1>9. PaidAt(E, z, n)
    <2>1. OnlyExit(E, s, z.record[n])
      BY <1>2, <1>5, <1>8 DEF OnlyExit
    <2>2. OrderKey(RunKeys(z.spenders)[n], E[s].index, z.height)
      BY <1>2, <1>5, <1>8 DEF Ordered, OrderPubkey, OrderKey
    <2> HIDE DEF E, z, s
    <2>3. QED
      BY <1>8, <2>1, <2>2 DEF PaidAt
  <1>10. ASSUME NEW j \in DOMAIN record, j # n PROVE ~KnownAt(E, z, j)
    <2>1. record[j] # ExitHash(s)
      BY <1>2, <1>3, <1>10 DEF IsInjective
    <2>2. QED
      BY <1>5, <1>8, <2>1 DEF KnownAt, OnlyExit
  <1>11. bad # {} => ~KnownAt(E, z, Min(bad))
    <2>1. bad \in SUBSET Nat
      BY <1>4, <1>5
    <2> HIDE DEF z, E
    <2>2. bad # {} => Min(bad) \in bad
      <3> HIDE DEF bad
      <3>1. QED
        BY <2>1, MinIsLeast
    <2>3. bad # {} => Min(bad) \in DOMAIN record /\ Min(bad) # n
      BY <1>5, <1>9, <2>2
    <2>4. QED
      BY <1>10, <2>3
  <1>12. QED
    BY <1>6, <1>7, <1>11 DEF TakenAsPayout

-----------------------------------------------------------------------------
(* The inductive invariant: what has been found by each step, and why the  *)
(* verdict is what it is.                                                  *)

Read ==
  /\ bytes \in Served(mined) /\ bytes.parses
  /\ Decoded /\ Final(NodePlace) /\ ValidKeys # {}

Valued == Read /\ values \in [DOMAIN bytes.inputs -> Worth]

Checked == Valued /\ NoteChecks

Asked == Checked /\ (IsPayout => proof.account = 0)

Matched == Asked /\ OnSolana

NoValues == values = None \/ values \in [DOMAIN bytes.inputs -> Worth]

Offline ==
  /\ answer.why = "offline"
  /\ bytes \in Served(mined) /\ NoValues
  /\ answer.ok <=> Checks(bytes, AllIssuers, ExitKeys, values)

Failed(why) == answer.ok = FALSE /\ answer.why = why

Verdict ==
  \/ Offline
  \/ Failed("not a proof") /\ ~Decoded
  \/ Failed("chains not read")
  \/ Failed("not mined") /\ ~Final(NodePlace)
  \/ Failed("no key") /\ Final(NodePlace) /\ ValidKeys = {}
  \/ Failed("no value")
  \/ Failed("note") /\ Valued /\ ~NoteChecks
  \/ answer.ok /\ answer.why = "other account" /\ Checked /\ IsPayout /\ proof.account # 0
  \/ Failed("solana") /\ Asked /\ ~OnSolana
  \/ answer.ok /\ answer.why = "checked" /\ Matched /\ Taken

Typed ==
  /\ input \in Inputs
  /\ at \in {"make", "offline", "name", "tx", "coins", "note", "solana", "ledger", "done"}
  /\ bytes \in Served(mined) \cup {None}
  /\ NoValues

AnswerTyped ==
  /\ at # "done" => answer = None
  /\ at = "done" => \E ok \in BOOLEAN, why \in Reasons : answer = [ok |-> ok, why |-> why]

(* A proof was made of a note the wallet received. *)
Made ==
  wanted # None =>
    \/ proof \in MakesStamp(mined, wanted.wallet)
    \/ /\ proof \in MakesPayout(mined, wanted.wallet, wanted.account, wanted.index)
       /\ wanted.account = 0

Progress ==
  /\ IF at = "make" THEN wanted = None ELSE Made /\ proof.index \in Nat
  /\ at \in {"make", "offline", "name", "tx"} => bytes = None /\ values = None
  /\ at = "tx" => Decoded
  /\ at = "coins" => Read /\ values = None
  /\ at = "note" => Valued
  /\ at = "solana" => Checked
  /\ at = "ledger" => Matched
  /\ at = "done" => Verdict

CheckInv == Typed /\ AnswerTyped /\ Progress

LEMMA MatchedTaken == Typed /\ Matched => Taken
  <1> SUFFICES ASSUME Typed, Matched PROVE Taken
    OBVIOUS
  <1>1. /\ IsTransaction(bytes) /\ bytes.parses /\ Final(NodePlace) /\ OnSolana
        /\ values # << >> /\ values # None
        /\ Checks(bytes, ValidKeys, ValidKeys, values)
        /\ IsPayout => proof.account = 0
    BY ServedAssumption DEF Typed, Matched, Asked, Checked, Valued, Read, NoteChecks, mined
  <1>2. CASE proof.kind = "stamp"
    <2>1. ChecksStamp(bytes, proof, IssuersAt(input.height), values) /\ TheRequest
      BY <1>1, <1>2 DEF Checks, DecodesPayout, ValidKeys, IsPayout, OnSolana
    <2>2. TakenAsStamp
      BY <1>1, <1>2, <2>1, StampTaken
    <2>3. QED
      BY <1>2, <2>2 DEF Taken, IsPayout
  <1>3. CASE proof.kind = "payout"
    <2>1. ChecksPayout(bytes, proof, KeysAt(proof.account, input.height), values) /\ TheExit
          /\ proof.account = 0
      BY <1>1, <1>3 DEF Checks, DecodesStamp, ValidKeys, IsPayout, OnSolana
    <2>2. TakenAsPayout
      BY <1>1, <1>3, <2>1, PayoutTaken
    <2>3. QED
      BY <1>3, <2>2 DEF Taken, IsPayout
  <1>4. QED
    BY <1>1, <1>2, <1>3 DEF Checks, DecodesStamp, DecodesPayout

LEMMA InitCheck == Init => CheckInv
  BY DEF Init, CheckInv, Typed, AnswerTyped, Progress, NoValues

(* What has been found stays so while its sources do. *)
LEMMA Framed ==
  ASSUME UNCHANGED <<input, proof, bytes, values>>
  PROVE  /\ Read' <=> Read
         /\ Valued' <=> Valued
         /\ Checked' <=> Checked
         /\ Asked' <=> Asked
         /\ Matched' <=> Matched
         /\ Taken' <=> Taken
         /\ NoValues' <=> NoValues
         /\ NoteChecks' <=> NoteChecks
         /\ OnSolana' <=> OnSolana
         /\ ValidKeys' = ValidKeys /\ NodePlace' = NodePlace /\ mined' = mined
         /\ (IsPayout' <=> IsPayout) /\ (Decoded' <=> Decoded)
  <1>1. /\ ValidKeys' = ValidKeys /\ NodePlace' = NodePlace /\ mined' = mined
        /\ (IsPayout' <=> IsPayout) /\ (Decoded' <=> Decoded) /\ (NoValues' <=> NoValues)
    BY DEF ValidKeys, NodePlace, mined, IsPayout, Decoded, NoValues
  <1>2. Read' <=> Read
    BY <1>1 DEF Read
  <1>3. Valued' <=> Valued
    BY <1>2 DEF Valued
  <1>4. NoteChecks' <=> NoteChecks
    BY <1>1 DEF NoteChecks, Checks, DecodesStamp, DecodesPayout
  <1>5. Receipt' = Receipt
    BY DEF Receipt
  <1>6. OnSolana' <=> OnSolana
    BY <1>1, <1>5 DEF OnSolana, TheExit, TheRequest
  <1>7. Taken' <=> Taken
    <2>1. StampCandidate(bytes)' = StampCandidate(bytes)
      BY <1>1 DEF StampCandidate
    <2>2. PayoutCandidate(bytes)' = PayoutCandidate(bytes)
      BY <1>1 DEF PayoutCandidate
    <2>3. Alone(Exits)' = Alone(Exits) /\ Alone(Requests)' = Alone(Requests)
      BY <1>5 DEF Alone
    <2>4. TakenAsStamp' <=> TakenAsStamp
      BY <1>5, <2>1, <2>3 DEF TakenAsStamp
    <2>5. TakenAsPayout' <=> TakenAsPayout
      BY <2>2, <2>3 DEF TakenAsPayout
    <2>6. QED
      BY <1>1, <2>4, <2>5 DEF Taken
  <1>8. QED
    BY <1>1, <1>2, <1>3, <1>4, <1>6, <1>7 DEF Checked, Asked, Matched

LEMMA FramedMade ==
  ASSUME UNCHANGED <<input, proof, wanted>>
  PROVE  Made' <=> Made
  BY DEF Made, mined

(* The proof has been made or given. *)
LEMMA MadeOrGiven ==
  ASSUME CheckInv, [Next]_vars, at = "make", at' # "make"
  PROVE  Made' /\ proof'.index \in Nat /\ at' \in {"name", "offline"}
         /\ UNCHANGED <<input, bytes, values, answer>>
  <1>1. input \in Inputs /\ wanted = None
    BY DEF CheckInv, Typed, Progress
  <1>2. CASE \E w \in Wallets : Make(w)
    <2> PICK w \in Wallets : Make(w)
      BY <1>2
    <2>1. PICK p \in MakesStamp(input.mined, w) : Makes(p, w, 0, 0)
      BY DEF Make
    <2>2. proof' = p /\ wanted'.wallet = w /\ input' = input
      BY <2>1 DEF Makes
    <2>3. p.index \in Nat
      <3>1. PICK a : p = ProofOf("stamp", input.mined, a, 0, 0)
        BY DEF MakesStamp
      <3>2. p.index = 0
        BY <3>1 DEF ProofOf
      <3>3. QED
        BY <3>2
    <2>4. QED
      BY <2>1, <2>2, <2>3 DEF Makes, Made, mined
  <1>3. CASE \E w \in Wallets, e \in DOMAIN Exits : MakePayout(w, e)
    <2> PICK w \in Wallets, e \in DOMAIN Exits : MakePayout(w, e)
      BY <1>3
    <2>1. PICK p \in MakesPayout(input.mined, w, 0, Exits[e].index) :
            Makes(p, w, 0, Exits[e].index)
      BY DEF MakePayout
    <2>2. /\ proof' = p /\ wanted'.wallet = w /\ wanted'.account = 0
          /\ wanted'.index = Exits[e].index /\ input' = input
      BY <2>1 DEF Makes
    <2>3. p.index \in Nat
      <3>1. PICK a : p = ProofOf("payout", input.mined, a, 0, Exits[e].index)
        BY DEF MakesPayout
      <3>2. p.index = Exits[e].index
        BY <3>1 DEF ProofOf
      <3>3. Exits[e].index \in Nat
        BY SolanaAssumption
      <3>4. QED
        BY <3>2, <3>3
    <2>4. QED
      BY <2>1, <2>2, <2>3 DEF Makes, Made, mined
  <1>4. CASE \E p \in GivenFor(input.mined) : Given(p)
    BY <1>1, <1>4, IndexAssumption DEF Given, Made
  <1>5. QED
    BY <1>2, <1>3, <1>4
       DEF Next, vars, CheckOffline, NotAProof, Name, CallFails, AsksSolana, NotFinal, NoKey,
           Unparsed, ReadTx, NoValue, ReadCoins, BadNote, GoodNote, OtherAccount,
           NotOnSolana, ReadSolana, Judge, Printed

LEMMA NextCheck == CheckInv /\ [Next]_vars => CheckInv'
  <1> SUFFICES ASSUME CheckInv, [Next]_vars PROVE CheckInv'
    OBVIOUS
  <1> USE DEF CheckInv
  <1>1. CASE at = "make" /\ at' # "make"
    BY <1>1, MadeOrGiven DEF Typed, NoValues, AnswerTyped, Progress, mined
  <1>2. ASSUME at # "make", UNCHANGED <<input, wanted, proof>>
        PROVE  Made' /\ proof'.index \in Nat
    BY <1>2, FramedMade DEF Progress
  <1>3. ASSUME NEW why \in Reasons, at # "make", at # "done", Fail(why),
               Failed(why)' => Verdict'
        PROVE  CheckInv'
    <2>1. /\ at' = "done" /\ answer' = [ok |-> FALSE, why |-> why]
          /\ UNCHANGED <<input, wanted, proof, bytes, values>>
      BY <1>3 DEF Fail, Conclude
    <2>2. Verdict'
      BY <1>3, <2>1 DEF Failed
    <2>3. QED
      BY <1>2, <1>3, <2>1, <2>2 DEF Typed, NoValues, AnswerTyped, Progress, mined
  <1>4. ASSUME NEW b \in Served(input.mined),
               NEW v \in [DOMAIN b.inputs -> Worth] \cup {None}, CheckOffline(b, v)
        PROVE  CheckInv'
    <2>1. /\ at = "offline" /\ bytes' = b /\ values' = v /\ at' = "done"
          /\ answer' = [ok |-> Checks(b, AllIssuers, ExitKeys, v), why |-> "offline"]
          /\ UNCHANGED <<input, wanted, proof>>
      BY <1>4 DEF CheckOffline, Conclude
    <2>2. NoValues' /\ bytes' \in Served(mined')
      BY <2>1 DEF NoValues, mined
    <2>3. Checks(bytes, AllIssuers, ExitKeys, values)' = Checks(b, AllIssuers, ExitKeys, v)
      BY <2>1 DEF Checks, DecodesStamp, DecodesPayout
    <2>4. Offline'
      BY <2>1, <2>2, <2>3 DEF Offline
    <2>5. Checks(b, AllIssuers, ExitKeys, v) \in BOOLEAN
      BY DEF Checks
    <2>6. \E ok \in BOOLEAN, why \in Reasons : answer' = [ok |-> ok, why |-> why]
      BY <2>1, <2>5 DEF Reasons
    <2>7. QED
      BY <1>2, <2>1, <2>2, <2>4, <2>6 DEF Typed, AnswerTyped, Progress, Verdict, mined
  <1>5. CASE NotAProof
    <2>1. "not a proof" \in Reasons /\ at = "name" /\ Fail("not a proof")
          /\ UNCHANGED <<input, proof, bytes, values>> /\ ~Decoded
      BY <1>5 DEF NotAProof, Fail, Conclude, Reasons
    <2>2. QED
      BY <1>3, <2>1, Framed DEF Verdict
  <1>6. CASE Name
    BY <1>2, <1>6, Framed DEF Name, Typed, AnswerTyped, Progress, Decoded
  <1>7. CASE CallFails
    BY <1>3, <1>7 DEF CallFails, AsksSolana, Reasons, Verdict
  <1>8. CASE NotFinal
    <2>1. "not mined" \in Reasons /\ at = "tx" /\ Fail("not mined")
          /\ UNCHANGED <<input, proof, bytes, values>> /\ ~Final(NodePlace)
      BY <1>8 DEF NotFinal, Fail, Conclude, Reasons
    <2>2. ~Final(NodePlace')
      BY <2>1, Framed
    <2>3. QED
      BY <1>3, <2>1, <2>2 DEF Verdict
  <1>9. CASE NoKey
    <2>1. "no key" \in Reasons /\ at = "tx" /\ Fail("no key")
          /\ UNCHANGED <<input, proof, bytes, values>> /\ Final(NodePlace) /\ ValidKeys = {}
      BY <1>9 DEF NoKey, Fail, Conclude, Reasons
    <2>2. Final(NodePlace') /\ ValidKeys' = {}
      BY <2>1, Framed
    <2>3. QED
      BY <1>3, <2>1, <2>2 DEF Verdict
  <1>10. CASE \E b \in Served(input.mined) : Unparsed(b)
    BY <1>3, <1>10 DEF Unparsed, Reasons, Verdict
  <1>11. ASSUME NEW b \in Served(input.mined), ReadTx(b) PROVE CheckInv'
    <2>1. Read'
      BY <1>11 DEF ReadTx, Progress, Read, mined, Decoded, NodePlace, ValidKeys, IsPayout
    <2>2. QED
      BY <1>2, <1>11, <2>1 DEF ReadTx, Typed, NoValues, AnswerTyped, Progress, mined
  <1>12. CASE NoValue
    BY <1>3, <1>12 DEF NoValue, Reasons, Verdict
  <1>13. ASSUME NEW v \in [DOMAIN bytes.inputs -> Worth], ReadCoins(v) PROVE CheckInv'
    <2>1. Read'
      BY <1>13 DEF ReadCoins, Progress, Read, mined, Decoded, NodePlace, ValidKeys, IsPayout
    <2>2. QED
      BY <1>2, <1>13, <2>1 DEF ReadCoins, Typed, NoValues, AnswerTyped, Progress, Valued, mined
  <1>14. CASE BadNote
    <2>1. "note" \in Reasons /\ at = "note" /\ Fail("note")
          /\ UNCHANGED <<input, proof, bytes, values>> /\ Valued /\ ~NoteChecks
      BY <1>14 DEF BadNote, Fail, Conclude, Reasons, Progress
    <2>2. QED
      BY <1>3, <2>1, Framed DEF Verdict
  <1>15. CASE GoodNote
    <2>1. /\ at = "note" /\ at' = "solana" /\ Checked
          /\ UNCHANGED <<input, wanted, proof, bytes, values, answer>>
      BY <1>15 DEF GoodNote, Progress, Checked
    <2>2. QED
      BY <1>2, <2>1, Framed DEF Typed, AnswerTyped, Progress
  <1>16. CASE OtherAccount
    <2>1. /\ at = "solana" /\ at' = "done" /\ Checked /\ IsPayout /\ proof.account # 0
          /\ answer' = [ok |-> TRUE, why |-> "other account"]
          /\ UNCHANGED <<input, wanted, proof, bytes, values>>
      BY <1>16 DEF OtherAccount, AsksSolana, Conclude, Progress
    <2>2. Verdict'
      BY <2>1, Framed DEF Verdict
    <2>3. QED
      BY <1>2, <2>1, <2>2, Framed DEF Typed, AnswerTyped, Progress, Reasons
  <1>17. CASE NotOnSolana
    <2>1. "solana" \in Reasons /\ at = "solana" /\ Fail("solana")
          /\ UNCHANGED <<input, proof, bytes, values>> /\ Asked /\ ~OnSolana
      BY <1>17 DEF NotOnSolana, AsksSolana, Fail, Conclude, Reasons, Progress, Asked
    <2>2. QED
      BY <1>3, <2>1, Framed DEF Verdict
  <1>18. CASE ReadSolana
    <2>1. /\ at = "solana" /\ at' = "ledger" /\ Matched
          /\ UNCHANGED <<input, wanted, proof, bytes, values, answer>>
      BY <1>18 DEF ReadSolana, AsksSolana, Progress, Asked, Matched
    <2>2. QED
      BY <1>2, <2>1, Framed DEF Typed, AnswerTyped, Progress
  <1>19. CASE Judge
    <2>1. Matched /\ Taken
      BY <1>19, MatchedTaken DEF Judge, Progress
    <2>2. /\ at = "ledger" /\ at' = "done" /\ answer' = [ok |-> TRUE, why |-> "checked"]
          /\ UNCHANGED <<input, wanted, proof, bytes, values>>
      BY <1>19, <2>1 DEF Judge, Conclude
    <2>3. Verdict'
      BY <2>1, <2>2, Framed DEF Verdict
    <2>4. QED
      BY <1>2, <2>2, <2>3, Framed DEF Typed, AnswerTyped, Progress, Reasons
  <1>20. CASE UNCHANGED vars
    <2>1. UNCHANGED <<input, at, wanted, proof, bytes, values, answer>>
      BY <1>20 DEF vars
    <2>2. (Offline' <=> Offline) /\ (\A why : Failed(why)' <=> Failed(why))
      BY <2>1, Framed DEF Offline, Failed, Checks, DecodesStamp, DecodesPayout
    <2>3. Verdict' <=> Verdict
      BY <2>1, <2>2, Framed DEF Verdict
    <2>4. QED
      BY <2>1, <2>3, Framed, FramedMade DEF Typed, AnswerTyped, Progress
  <1>21. QED
    BY <1>1, <1>4, <1>5, <1>6, <1>7, <1>8, <1>9, <1>10, <1>11, <1>12, <1>13, <1>14,
       <1>15, <1>16, <1>17, <1>18, <1>19, <1>20 DEF Next, Printed, Makes, Make, MakePayout, Given

THEOREM CheckInvHolds == Spec => []CheckInv
  <1>1. Init => CheckInv
    BY InitCheck
  <1>2. CheckInv /\ [Next]_vars => CheckInv'
    BY NextCheck
  <1>3. QED
    BY <1>1, <1>2, PTL DEF Spec

-----------------------------------------------------------------------------
(* What the invariant gives.                                               *)

LEMMA AnswerGiven == CheckInv => (answer # None <=> at = "done")
  BY NoneAssumption DEF CheckInv, AnswerTyped

(* Every variable has its type, and a verdict is reached at the end only. *)
THEOREM CheckTypeCorrect == Spec => []TypeOK
  <1>1. CheckInv => TypeOK
    BY AnswerGiven DEF CheckInv, Typed, NoValues, TypeOK
  <1>2. QED
    BY <1>1, CheckInvHolds, PTL

(* What the checker has accepted the ledger's rules do not reject, whatever
   the transaction, its inputs and its scripts: the two implementations of
   the rules agree (checkproof.ts:180-215, 295-330). *)
THEOREM CheckRulesAgree == Spec => []RulesAgree
  <1>1. CheckInv => RulesAgree
    BY AnswerGiven DEF CheckInv, Progress, Verdict, Offline, Failed, RulesAgree
  <1>2. QED
    BY <1>1, CheckInvHolds, PTL

(* Bytes of the transaction's own txid that verify, a published key among the
   keys they push, push the keys of the transaction itself, and the values are
   those of the coins it spends. *)
LEMMA Genuine ==
  ASSUME input \in Inputs, bytes \in Served(mined), bytes.parses, bytes.txid = mined.txid,
         NEW v \in [DOMAIN bytes.inputs -> Worth], Verifies(bytes, v),
         NEW i \in DOMAIN bytes.inputs, bytes.inputs[i].key \in Published
  PROVE  v = input.coins /\ Pushed(bytes) = Pushed(mined)
  <1>1. bytes.inputs[i].over = Digest(bytes.txid, i, v, Pushed(bytes))
    BY DEF Verifies
  <1>2. bytes.inputs[i].over # None /\ bytes.inputs[i].over[1] = bytes.txid
    BY <1>1, NoneAssumption DEF mined, Digest
  <1>3. bytes.inputs[i].over = Digest(bytes.txid, i, input.coins, Pushed(mined))
    BY <1>1, <1>2, ServedAssumption DEF mined, Digest
  <1>4. QED
    BY <1>1, <1>3 DEF Digest

LEMMA SameTransaction ==
  ASSUME input \in Inputs, bytes \in Served(mined), bytes.parses, bytes.txid = mined.txid
  PROVE  /\ bytes.outputs = mined.outputs /\ bytes.notes = mined.notes
         /\ bytes.intoPool = mined.intoPool /\ bytes.otherPool = mined.otherPool
         /\ bytes.version = mined.version
         /\ DOMAIN bytes.inputs = DOMAIN mined.inputs
         /\ IsTransaction(bytes) /\ IsTransaction(mined) /\ mined.parses
         /\ Receipt = MinedReceipt
         /\ Named(bytes) = Named(mined) /\ ReturnsOf(bytes) = ReturnsOf(mined)
         /\ OthersOf(bytes) = OthersOf(mined)
         /\ Delivers(bytes, proof) <=> Delivers(mined, proof)
  <1>1. /\ bytes.outputs = mined.outputs /\ bytes.notes = mined.notes
        /\ bytes.intoPool = mined.intoPool /\ bytes.otherPool = mined.otherPool
        /\ bytes.version = mined.version
        /\ DOMAIN bytes.inputs = DOMAIN mined.inputs
        /\ IsTransaction(bytes) /\ IsTransaction(mined) /\ mined.parses
    BY ServedAssumption, MinedAssumption DEF mined
  <1>2. Receipt = MinedReceipt
    BY <1>1 DEF Receipt, MinedReceipt
  <1>3. /\ Named(bytes) = Named(mined) /\ ReturnsOf(bytes) = ReturnsOf(mined)
        /\ OthersOf(bytes) = OthersOf(mined)
    BY <1>1 DEF Named, ReturnsOf, OthersOf
  <1>4. Delivers(bytes, proof) <=> Delivers(mined, proof)
    BY <1>1 DEF Delivers
  <1>5. QED
    BY <1>1, <1>2, <1>3, <1>4

(* The verifier reads the transaction itself as it reads the bytes, if all its
   keys are keys. *)
LEMMA SameCandidates ==
  ASSUME input \in Inputs, bytes \in Served(mined), bytes.parses, bytes.txid = mined.txid,
         NEW v, Verifies(bytes, v), Pushed(bytes) = Pushed(mined),
         None \notin Range(Pushed(mined))
  PROVE  /\ StampCandidate(mined) = StampCandidate(bytes)
         /\ PayoutCandidate(mined) = PayoutCandidate(bytes)
  <1>1. SpendersOf(bytes) = Pushed(bytes)
    BY VerifiedKeys
  <1>2. SpendersOf(mined) = Pushed(mined)
    <2>1. ASSUME NEW i \in DOMAIN mined.inputs
          PROVE  mined.inputs[i].form \in {"plain", "pushdata"}
      <3>1. mined.inputs[i].key # None
        BY DEF Pushed, Range
      <3>2. QED
        BY <3>1, MinedAssumption DEF mined
    <2>2. QED
      BY <2>1 DEF SpendersOf, Pushed
  <1>3. ReadExits(bytes) = ReadExits(mined)
    BY SameTransaction DEF ReadExits
  <1>4. QED
    BY <1>1, <1>2, <1>3, SameTransaction DEF StampCandidate, PayoutCandidate

(* What a passed proof was checked against. *)
LEMMA PassedChecks ==
  ASSUME CheckInv, Passed
  PROVE  /\ input \in Inputs /\ bytes \in Served(mined) /\ bytes.parses
         /\ \/ ~Online /\ Checks(bytes, AllIssuers, ExitKeys, values)
            \/ Online /\ Checked /\ Checks(bytes, ValidKeys, ValidKeys, values)
                      /\ values # None
         /\ Online => (\/ answer.why = "other account" /\ IsPayout /\ proof.account # 0
                       \/ answer.why = "checked" /\ Matched)
         /\ proof.index \in Nat
  <1>1. at = "done" /\ Verdict /\ proof.index \in Nat /\ answer # None /\ answer.ok
    BY AnswerGiven DEF CheckInv, Progress, Passed
  <1>2. CASE Offline
    BY <1>1, <1>2 DEF Offline, Online, Checks, ChecksStamp, ChecksPayout, CheckInv, Typed
  <1>3. CASE Checked /\ ~Offline
    BY <1>1, <1>3
       DEF Verdict, Failed, Online, Checked, Valued, Read, NoteChecks, CheckInv, Typed
  <1>4. Offline \/ Checked
    BY <1>1 DEF Verdict, Failed, Matched, Asked
  <1>5. QED
    BY <1>2, <1>3, <1>4

(* An order's key of a published exit key is published. *)
LEMMA OrderKeysPublished ==
  ASSUME NEW k \in ExitKeys, NEW n \in Nat, n <= MaxIndex
  PROVE  OrderPubkey(k, n) \in Published
  BY IndexAssumption DEF Published

(* Bytes that pass for a private stamp, values given, are the transaction's
   own, signed for its coins by issuer keys alone. *)
LEMMA GenuineStamp ==
  ASSUME CheckInv, Passed, values # None, proof.txid = mined.txid, ~IsPayout
  PROVE  /\ Verifies(bytes, values) /\ values = input.coins
         /\ Pushed(bytes) = Pushed(mined)
         /\ Range(Pushed(mined)) \subseteq Vouching
         /\ None \notin Range(Pushed(mined))
  <1> DEFINE issuers == IF Online THEN IssuersAt(input.height) ELSE AllIssuers
  <1>1. /\ input \in Inputs /\ bytes \in Served(mined) /\ bytes.parses
        /\ values \in [DOMAIN bytes.inputs -> Worth]
    BY PassedChecks DEF CheckInv, Typed, NoValues
  <1>2. ChecksStamp(bytes, proof, issuers, values)
    BY PassedChecks DEF Checks, DecodesPayout, IsPayout, ValidKeys
  <1>3. /\ bytes.txid = mined.txid /\ Verifies(bytes, values)
        /\ bytes.inputs # << >> /\ Range(KeysOf(bytes)) \subseteq issuers
    BY <1>2 DEF ChecksStamp, StampShape
  <1>4. issuers \subseteq AllIssuers /\ AllIssuers \subseteq Published
    BY DEF IssuersAt, AllIssuers, Published
  <1>5. KeysOf(bytes) = Pushed(bytes)
    BY <1>3, VerifiedKeys
  <1>6. 1 \in DOMAIN bytes.inputs
    <2>1. IsTransaction(bytes)
      BY <1>1, ServedAssumption DEF mined
    <2>2. Len(bytes.inputs) \in Nat /\ Len(bytes.inputs) >= 1
          /\ DOMAIN bytes.inputs = 1..Len(bytes.inputs)
      BY <1>3, <2>1, ShortSeq, Positions DEF IsTransaction
    <2>3. QED
      BY <2>2
  <1>7. bytes.inputs[1].key \in Published
    BY <1>3, <1>4, <1>5, <1>6 DEF Pushed, Range
  <1>8. values = input.coins /\ Pushed(bytes) = Pushed(mined)
    BY <1>1, <1>3, <1>6, <1>7, Genuine
  <1>9. Range(Pushed(mined)) \subseteq issuers
    BY <1>3, <1>5, <1>8
  <1>10. QED
    BY <1>3, <1>4, <1>8, <1>9, NoneAssumption DEF Vouching

(* So are bytes that pass for a payout stamp: the run of the exit its receipt
   names is of the order's key, and holds what the receipt says. *)
LEMMA GenuinePayout ==
  ASSUME CheckInv, Passed, values # None, proof.txid = mined.txid, IsPayout
  PROVE  /\ Verifies(bytes, values) /\ values = input.coins
         /\ Pushed(bytes) = Pushed(mined)
         /\ None \notin Range(Pushed(mined))
         /\ IsInjective(RunKeys(Pushed(mined)))
         /\ \E j \in DOMAIN Named(mined), k \in Vouching :
              /\ Named(mined)[j] = ExitHash(MinedReceipt.signature)
              /\ RunKeys(Pushed(mined))[j] = OrderPubkey(k, proof.index)
              /\ RunInputs(Pushed(mined), j) =
                   {i \in DOMAIN mined.inputs :
                      mined.inputs[i].key = OrderPubkey(k, proof.index)}
              /\ MinedReceipt.bridged =
                   SumFunctionOnSet(input.coins, RunInputs(Pushed(mined), j))
  <1> DEFINE keys == IF Online THEN KeysAt(proof.account, input.height) ELSE ExitKeys
  <1>1. /\ input \in Inputs /\ bytes \in Served(mined) /\ bytes.parses
        /\ values \in [DOMAIN bytes.inputs -> Worth] /\ proof.index \in Nat
    BY PassedChecks DEF CheckInv, Typed, NoValues
  <1>2. ChecksPayout(bytes, proof, keys, values) /\ proof.index <= MaxIndex
    BY PassedChecks DEF Checks, DecodesPayout, DecodesStamp, IsPayout, ValidKeys
  <1>3. PICK j \in DOMAIN Named(bytes), k \in keys :
          /\ Named(bytes)[j] = ExitHash(Receipt.signature)
          /\ k.account = proof.account
          /\ RunKeys(KeysOf(bytes))[j] = OrderPubkey(k, proof.index)
          /\ Receipt.bridged = Coins(bytes, values, j)
    BY <1>2 DEF ChecksPayout, Ordered, Receipt, ReadReceipt, IsPayout
  <1>4. /\ bytes.txid = mined.txid /\ Verifies(bytes, values) /\ PayoutShape(bytes)
    BY <1>2 DEF ChecksPayout
  <1>5. IsTransaction(bytes)
    BY <1>1, ServedAssumption DEF mined
  <1>6. /\ None \notin Range(KeysOf(bytes)) /\ IsInjective(RunKeys(KeysOf(bytes)))
        /\ j \in DOMAIN RunKeys(KeysOf(bytes))
    <2>1. Len(RunKeys(KeysOf(bytes))) = Len(Named(bytes)) /\ DOMAIN Named(bytes) = 1..Len(Named(bytes))
      BY <1>4, <1>5, NamedExits DEF PayoutShape
    <2>2. DOMAIN RunKeys(KeysOf(bytes)) = 1..Len(RunKeys(KeysOf(bytes)))
      BY <1>5, KeysInOrder, RunsNumbered
    <2>3. QED
      BY <1>4, <2>1, <2>2 DEF PayoutShape
  <1>7. KeysOf(bytes) = Pushed(bytes)
    BY <1>4, VerifiedKeys
  <1>8. /\ RunInputs(Pushed(bytes), j) =
             {i \in DOMAIN Pushed(bytes) : Pushed(bytes)[i] = RunKeys(Pushed(bytes))[j]}
        /\ RunInputs(Pushed(bytes), j) # {}
    BY <1>5, <1>6, <1>7, KeysInOrder, WholeRun
  <1>9. k \in Vouching /\ k \in ExitKeys
    BY <1>3 DEF Vouching, KeysAt
  <1>10. PICK i \in DOMAIN bytes.inputs : bytes.inputs[i].key = OrderPubkey(k, proof.index)
    BY <1>3, <1>7, <1>8 DEF Pushed
  <1>11. values = input.coins /\ Pushed(bytes) = Pushed(mined)
    BY <1>1, <1>2, <1>4, <1>9, <1>10, OrderKeysPublished, Genuine
  <1>12. Named(bytes) = Named(mined) /\ Receipt = MinedReceipt
    BY <1>1, <1>4, SameTransaction
  <1>13. RunInputs(Pushed(mined), j) =
           {l \in DOMAIN mined.inputs : mined.inputs[l].key = OrderPubkey(k, proof.index)}
    BY <1>3, <1>7, <1>8, <1>11 DEF Pushed
  <1>14. Coins(bytes, values, j) = SumFunctionOnSet(input.coins, RunInputs(Pushed(mined), j))
    BY <1>7, <1>11 DEF Coins
  <1>15. QED
    BY <1>3, <1>4, <1>6, <1>7, <1>9, <1>11, <1>12, <1>13, <1>14

(* Whoever gives the bytes and the values of the coins, a proof passes only for
   a transaction that published keys have signed for: every input of a private
   stamp, the run of its exit of a payout stamp (private/proof.rs:195-246,
   payout/proof.rs:170-225, sig.rs). *)
THEOREM CheckUnforged == Spec => []Unforged
  <1>1. ASSUME CheckInv PROVE Unforged
    <2> SUFFICES ASSUME Passed, values # None, proof.txid = mined.txid
                 PROVE  Unforged
      BY DEF Unforged
    <2>1. CASE IsPayout
      <3>1. PICK j \in DOMAIN Named(mined), k \in Vouching :
              /\ Named(mined)[j] = ExitHash(MinedReceipt.signature)
              /\ RunInputs(Pushed(mined), j) =
                   {i \in DOMAIN mined.inputs :
                      mined.inputs[i].key = OrderPubkey(k, proof.index)}
        BY <1>1, <2>1, GenuinePayout
      <3>2. \A i \in RunInputs(Pushed(mined), j) :
              mined.inputs[i].key = OrderPubkey(k, proof.index)
        BY <3>1
      <3>3. QED
        BY <2>1, <3>1, <3>2 DEF Unforged
    <2>2. CASE ~IsPayout
      BY <1>1, <2>2, GenuineStamp DEF Unforged
    <2>3. QED
      BY <2>1, <2>2
  <1>2. QED
    BY <1>1, CheckInvHolds, PTL

(* The note is in the transaction and its receipt is true: of the coins in the
   chain, and, the chains asked, of the harvest or the exit on Solana
   (checkproof.ts:150-180, 260-295). *)
THEOREM CheckReceiptIsTrue == Spec => []ReceiptIsTrue
  <1>1. ASSUME CheckInv PROVE ReceiptIsTrue
    <2> SUFFICES ASSUME Passed, proof.txid = mined.txid
                 PROVE  ReceiptIsTrue
      BY DEF ReceiptIsTrue
    <2>1. input \in Inputs /\ bytes \in Served(mined) /\ bytes.parses
      BY <1>1, PassedChecks
    <2>2. CASE IsPayout
      <3>1. PICK keys : ChecksPayout(bytes, proof, keys, values)
        BY <1>1, <2>2, PassedChecks DEF Checks, DecodesStamp, IsPayout
      <3>2. /\ bytes.txid = mined.txid /\ Delivers(bytes, proof)
            /\ Receipt.received = proof.value
        BY <2>2, <3>1 DEF ChecksPayout, Receipt, ReadReceipt, IsPayout
      <3>3. Receipt = MinedReceipt /\ Delivers(mined, proof)
        BY <2>1, <3>2, SameTransaction
      <3>4. values # None => Bridged(Vouching, proof.index, MinedReceipt.bridged)
        BY <1>1, <2>2, GenuinePayout DEF Bridged
      <3>5. Online /\ proof.account = 0 => TheExit
        BY <1>1, <2>2, PassedChecks DEF Matched, OnSolana
      <3>6. QED
        BY <2>2, <3>2, <3>3, <3>4, <3>5 DEF ReceiptIsTrue, TheExit
    <2>3. CASE ~IsPayout
      <3>1. PICK keys : ChecksStamp(bytes, proof, keys, values)
        BY <1>1, <2>3, PassedChecks DEF Checks, DecodesPayout, IsPayout
      <3>2. bytes.txid = mined.txid /\ Delivers(bytes, proof)
        BY <3>1 DEF ChecksStamp
      <3>3. Receipt = MinedReceipt /\ Delivers(mined, proof)
        BY <2>1, <3>2, SameTransaction
      <3>4. Online => TheRequest
        BY <1>1, <2>3, PassedChecks DEF Matched, OnSolana
      <3>5. QED
        BY <2>3, <3>3, <3>4 DEF ReceiptIsTrue, TheRequest
    <2>4. QED
      BY <2>2, <2>3
  <1>2. QED
    BY <1>1, CheckInvHolds, PTL

(* Requests and exits are told apart by the hashes of their signatures. *)
LEMMA StampAmongAll ==
  ASSUME NEW z, NEW s \in DOMAIN Requests, IsPrivate(z),
         Qualifies([requests |-> Alone(Requests), refunds |-> {}, candidates |-> <<z>>], 1, s),
         s = Receipt.signature
  PROVE  Qualifies([requests |-> Requests, refunds |-> {}, candidates |-> <<z>>], 1, s)
  <1> DEFINE one == [requests |-> Alone(Requests), refunds |-> {}, candidates |-> <<z>>]
             all == [requests |-> Requests, refunds |-> {}, candidates |-> <<z>>]
  <1>1. one.requests = Alone(Requests) /\ one.candidates[1] = z
        /\ all.requests = Requests /\ all.candidates[1] = z
    OBVIOUS
  <1>2. Alone(Requests)[s] = Requests[s] /\ s \in DOMAIN Alone(Requests)
    BY DEF Alone
  <1>3. RefundsOf(all, s) = {}
    BY DEF RefundsOf
  <1> HIDE DEF one, all
  <1>4. /\ IsCandidate(z) /\ Names(Alone(Requests), z, s)
        /\ RightMode(Requests[s], z) /\ SameAmounts(Requests[s], z)
        /\ PaysRequest(Requests[s], z)
    BY <1>1, <1>2 DEF Qualifies, one
  <1>5. z.opReturns[1].hash = Hash[s]
    BY <1>2, <1>4, SolanaAssumption DEF Names, RecordVersion
  <1>6. \A q \in DOMAIN Requests : Requests[q].hash[2] = z.opReturns[1].hash <=> q = s
    BY <1>5, SolanaAssumption, HashAssumption DEF IsInjective
  <1>7. Names(Requests, z, s)
    BY <1>6 DEF Names, RecordVersion
  <1>8. Qualifies(all, 1, s)
    BY <1>1, <1>3, <1>4, <1>7 DEF Qualifies
  <1>9. QED
    BY <1>8 DEF all

LEMMA OneExit ==
  ASSUME NEW s \in DOMAIN Exits
  PROVE  OnlyExit(Exits, s, ExitHash(s))
  BY SolanaAssumption, HashAssumption DEF OnlyExit, ExitHash, IsInjective

LEMMA PayoutVouched ==
  ASSUME CheckInv, Passed, Online, proof.txid = mined.txid, IsPayout, proof.account = 0
  PROVE  LET z == PayoutCandidate(mined)
         IN  /\ Final(z) /\ IsV6(z) /\ Shields(z) /\ OneRunPerExit(z)
             /\ \E j \in DOMAIN z.record :
                  /\ z.record[j] = ExitHash(MinedReceipt.signature)
                  /\ PaidAt(Exits, z, j)
  <1> DEFINE z == PayoutCandidate(mined)
             s == MinedReceipt.signature
  <1>1. /\ input \in Inputs /\ bytes \in Served(mined) /\ bytes.parses
        /\ Matched /\ values # None
    BY PassedChecks
  <1>2. /\ Verifies(bytes, values) /\ Pushed(bytes) = Pushed(mined)
        /\ None \notin Range(Pushed(mined))
    BY <1>1, GenuinePayout
  <1>3. bytes.txid = mined.txid
    BY PassedChecks DEF Checks, DecodesStamp, ChecksPayout, IsPayout
  <1>4. z = PayoutCandidate(bytes) /\ MinedReceipt = Receipt
    BY <1>1, <1>2, <1>3, SameCandidates, SameTransaction
  <1>5. Final(z) /\ IsV6(z) /\ Shields(z) /\ OneRunPerExit(z)
    <2>1. TakenAsPayout
      BY <1>1, MatchedTaken DEF CheckInv, Taken
    <2>2. QED
      BY <1>4, <2>1 DEF TakenAsPayout
  <1>6. PICK j \in DOMAIN Named(mined), k \in Vouching :
          /\ Named(mined)[j] = ExitHash(s)
          /\ RunKeys(Pushed(mined))[j] = OrderPubkey(k, proof.index)
    BY <1>1, GenuinePayout
  <1>7. z.record = Named(mined)
    <2>1. z.outputs = Len(mined.outputs) /\ z.record = ReadExits(mined)
      BY DEF PayoutCandidate
    <2>2. Len(mined.outputs) = 1
      BY <1>5, <2>1 DEF Shields
    <2>3. IsTransaction(mined) /\ Named(mined) # << >>
      BY <1>1, <1>3, <1>6, SameTransaction
    <2>4. QED
      BY <2>1, <2>2, <2>3, ExitsRead
  <1>8. s \in DOMAIN Exits /\ Exits[s].index = proof.index
    BY <1>1, <1>4 DEF Matched, OnSolana, TheExit
  <1>9. z.spenders = Pushed(mined) /\ z.height = input.height
    <2>1. SpendersOf(bytes) = Pushed(bytes)
      BY <1>2, VerifiedKeys
    <2>2. QED
      BY <1>2, <1>4, <2>1 DEF PayoutCandidate
  <1>10. k \in KeysAt(0, input.height)
    BY <1>6 DEF Vouching
  <1>11. PaidAt(Exits, z, j)
    <2>1. OnlyExit(Exits, s, z.record[j])
      BY <1>6, <1>7, <1>8, OneExit
    <2>2. OrderKey(RunKeys(z.spenders)[j], Exits[s].index, z.height)
      BY <1>6, <1>8, <1>9, <1>10 DEF OrderKey, OrderPubkey
    <2> HIDE DEF z, s
    <2>3. QED
      BY <1>8, <2>1, <2>2 DEF PaidAt
  <1>12. QED
    BY <1>5, <1>6, <1>7, <1>11

LEMMA StampVouched ==
  ASSUME CheckInv, Passed, Online, proof.txid = mined.txid, ~IsPayout
  PROVE  ValidStamp(MinedReceipt.signature)
  <1>1. /\ input \in Inputs /\ bytes \in Served(mined) /\ bytes.parses
        /\ Matched /\ values # None
    BY PassedChecks
  <1>2. /\ Verifies(bytes, values) /\ Pushed(bytes) = Pushed(mined)
        /\ None \notin Range(Pushed(mined))
    BY <1>1, GenuineStamp
  <1>3. PICK issuers : ChecksStamp(bytes, proof, issuers, values)
    BY PassedChecks DEF Checks, DecodesPayout, IsPayout
  <1>4. bytes.txid = mined.txid /\ bytes.intoPool = Postage
    BY <1>3 DEF ChecksStamp, StampShape
  <1>5. StampCandidate(mined) = StampCandidate(bytes) /\ MinedReceipt = Receipt
        /\ IsTransaction(bytes)
    BY <1>1, <1>2, <1>4, SameCandidates, SameTransaction
  <1>6. TakenAsStamp
    BY <1>1, MatchedTaken DEF CheckInv, Taken
  <1>7. IsPrivate(StampCandidate(mined))
    BY <1>4, <1>5, ParamsAssumption DEF IsTransaction, IsPrivate, StampCandidate
  <1>8. Receipt.signature \in DOMAIN Requests
    BY <1>1 DEF Matched, OnSolana, TheRequest
  <1>9. QED
    BY <1>5, <1>6, <1>7, <1>8, StampAmongAll DEF ValidStamp, TakenAsStamp

(* A passed proof is vouched for by the whole verifier: the transaction is by
   the ledger's rules, all requests or exits known, a stamp of the request or
   pays the exit that the receipt names, whatever signatures the node put into
   the bytes (checkproof.ts:180-215, 295-330). *)
THEOREM CheckVouchedFor == Spec => []VouchedFor
  <1>1. CheckInv => VouchedFor
    BY StampVouched, PayoutVouched DEF VouchedFor
  <1>2. QED
    BY <1>1, CheckInvHolds, PTL

-----------------------------------------------------------------------------
(* A wallet's own proof passes.                                            *)

(* One record, read back as the hash it says. *)
LEMMA RecordRead ==
  ASSUME NEW s, IsScript(s), ReadRecord(s).version = 2
  PROVE  RecordHash(s) = <<ReadRecord(s).hash>>
  <1>1. RecordV2Hash(s) # << >> /\ ReadRecord(s).hash = RecordV2Hash(s)[1]
    BY DEF ReadRecord
  <1>2. /\ s.ops = "return" /\ s.length = 25 /\ s.push = <<23>> /\ s.data.version = 2
        /\ RecordV2Hash(s) = s.data.hashes /\ RecordHash(s) = s.data.hashes
    BY <1>1 DEF RecordV2Hash, RecordHash
  <1>3. /\ s.data.hashes \in Seq(Range(s.data.hashes)) /\ s.data.extra \in Nat
        /\ s = Return(s.push, s.data)
    BY <1>2 DEF IsScript
  <1>4. Len(s.data.hashes) = 1
    <2>1. Len(s.data.hashes) \in Nat /\ Len(s.data.hashes) >= 1 /\ Len(s.push) = 1
      BY <1>1, <1>2, <1>3, ShortSeq
    <2>2. 25 = 2 + (5 + 18 * Len(s.data.hashes) + s.data.extra)
      <3>1. s.length = 1 + Len(s.push) + (5 + 18 * Len(s.data.hashes) + s.data.extra)
        BY <1>3 DEF Return, Size, HashLen
      <3>2. QED
        BY <1>2, <2>1, <3>1
    <2>3. ASSUME NEW n \in Nat, NEW x \in Nat, n >= 1, 25 = 2 + (5 + 18 * n + x) PROVE n = 1
      BY <2>3
    <2>4. QED
      BY <1>3, <2>1, <2>2, <2>3
  <1>5. s.data.hashes = <<s.data.hashes[1]>>
    <2>1. <<s.data.hashes[1]>> \in Seq(Range(s.data.hashes))
      BY <1>3, <1>4, ElementOfSeq
    <2>2. QED
      BY <1>3, <1>4, <2>1, SeqEqual
  <1>6. QED
    BY <1>1, <1>2, <1>5

(* A transaction whose keys are keys, each pushed plainly, verifies for the
   coins it spends. *)
LEMMA OwnVerifies ==
  ASSUME input \in Inputs, None \notin Range(Pushed(mined)),
         \A i \in DOMAIN mined.inputs : mined.inputs[i].form = "plain",
         Len(input.coins) = Len(mined.inputs)
  PROVE  Verifies(mined, input.coins)
  <1>1. ASSUME NEW i \in DOMAIN mined.inputs
        PROVE  mined.inputs[i].over = Digest(mined.txid, i, input.coins, Pushed(mined))
    <2>1. mined.inputs[i].key # None
      BY DEF Pushed, Range
    <2>2. QED
      BY <2>1, MinedAssumption DEF mined
  <1>2. QED
    BY <1>1 DEF Verifies

LEMMA PlainKeys ==
  ASSUME \A i \in DOMAIN mined.inputs : mined.inputs[i].form = "plain"
  PROVE  KeysOf(mined) = Pushed(mined) /\ SpendersOf(mined) = Pushed(mined)
  BY DEF KeysOf, SpendersOf, Pushed

(* The coins are as many as the inputs. *)
LEMMA CoinsOfInputs ==
  ASSUME input \in Inputs
  PROVE  /\ IsTransaction(mined) /\ mined.parses
         /\ DOMAIN input.coins = DOMAIN mined.inputs
         /\ Len(mined.inputs) \in Nat /\ DOMAIN mined.inputs = 1..Len(mined.inputs)
         /\ Len(input.coins) = Len(mined.inputs)
  <1>1. IsTransaction(mined) /\ mined.parses /\ DOMAIN input.coins = DOMAIN mined.inputs
    BY MinedAssumption DEF mined
  <1>2. Len(mined.inputs) \in Nat /\ DOMAIN mined.inputs = 1..Len(mined.inputs)
    BY <1>1, Positions DEF IsTransaction
  <1>3. QED
    BY <1>1, <1>2

LEMMA OwnStampChecks ==
  ASSUME input \in Inputs, proof.kind = "stamp", proof \in MakesStamp(mined, wanted.wallet),
         \A i \in DOMAIN mined.inputs : mined.inputs[i].form = "plain",
         OwnStamp(proof.action),
         NEW issuers, IssuersAt(input.height) \subseteq issuers,
         NEW v \in {None, input.coins}
  PROVE  /\ ChecksStamp(mined, proof, issuers, v)
         /\ IssuersAt(input.height) # {} /\ mined.inputs # << >> /\ Final(NodePlace)
         /\ LET r == Requests[MinedReceipt.signature]
            IN  r.mode = "private" /\ Deliverable(r)
  <1> DEFINE z == StampCandidate(mined)
             m == MinedReceipt
             s == m.signature
             record == ReturnsOf(mined)[1]
  <1>1. /\ m = ParseStamp(mined.notes[proof.action].memo) /\ m # None
        /\ s \in DOMAIN Requests /\ mined.notes[proof.action].value = Postage
        /\ ValidStamp(s)
    BY DEF OwnStamp, MinedReceipt, ReadReceipt
  <1>2. /\ proof.txid = mined.txid /\ proof.pool = "ironwood" /\ mined.intoPool # None
        /\ Delivers(mined, proof) /\ proof.value = Postage
    <2> DEFINE found == {a \in DOMAIN mined.notes :
                           mined.notes[a].receiver \in wanted.wallet
                             /\ mined.notes[a].value = Postage}
    <2>1. found # {} /\ mined.intoPool # None /\ proof = ProofOf("stamp", mined, Min(found), 0, 0)
      BY DEF MakesStamp
    <2>2. found \in SUBSET Nat
      BY CoinsOfInputs, Positions DEF IsTransaction
    <2>3. Min(found) \in found
      <3> HIDE DEF found
      <3>1. QED
        BY <2>1, <2>2, MinIsLeast
    <2>4. QED
      BY <2>1, <2>3 DEF ProofOf, Delivers
  <1>3. mined.version = 6 /\ IsPrivate(z)
    BY <1>2, CoinsOfInputs DEF IsTransaction, IsPrivate, StampCandidate
  <1>4. /\ Final(z) /\ FromIssuers(z) /\ OneRecord(z)
        /\ Names(Requests, z, s) /\ PaysPool(z)
        /\ Requests[s].mode = "private" /\ Deliverable(Requests[s])
    <2> DEFINE in == [requests |-> Requests, refunds |-> {}, candidates |-> <<z>>]
    <2>1. in.candidates[1] = z /\ in.requests = Requests /\ Qualifies(in, 1, s)
      BY <1>1 DEF ValidStamp
    <2> HIDE DEF in, z, s
    <2>2. QED
      BY <1>3, <2>1 DEF Qualifies, IsCandidate, PaysRequest, RightMode
  <1>5. /\ Range(Pushed(mined)) \subseteq IssuersAt(input.height)
        /\ Range(Pushed(mined)) # {}
    BY <1>4, PlainKeys DEF FromIssuers, StampCandidate
  <1>6. mined.inputs # << >>
    <2>1. \E i : i \in DOMAIN mined.inputs
      BY <1>5 DEF Pushed, Range
    <2>2. QED
      BY <2>1
  <1>7. None \notin IssuersAt(input.height)
    BY NoneAssumption DEF IssuersAt, Published, AllIssuers
  <1>8. /\ ~mined.otherPool /\ mined.intoPool = Postage
        /\ \A o \in OthersOf(mined) : ScriptKind(o.script) = "P2PKH" /\ o.script.to \in issuers
    <2>1. z.otherPool = mined.otherPool /\ z.intoPool = mined.intoPool
          /\ z.outs = {[script |-> Payee(o.script), value |-> o.value] : o \in OthersOf(mined)}
          /\ z.height = input.height
      BY DEF StampCandidate
    <2>2. ASSUME NEW o \in OthersOf(mined) PROVE Payee(o.script) \in IssuersAt(input.height)
      <3> DEFINE q == [script |-> Payee(o.script), value |-> o.value]
      <3>1. q \in z.outs /\ q.script = Payee(o.script)
        BY <2>1
      <3> HIDE DEF z, q
      <3>2. QED
        BY <1>4, <2>1, <3>1 DEF PaysPool
    <2>3. QED
      BY <1>4, <1>7, <2>1, <2>2 DEF PaysPool, Payee
  <1>9. Len(ReturnsOf(mined)) = 1 /\ RecordHash(record) = <<ExitHash(s)>>
    <2>1. z.opReturns = [i \in DOMAIN ReturnsOf(mined) |-> ReadRecord(ReturnsOf(mined)[i])]
      BY DEF StampCandidate
    <2>2. /\ Len(ReturnsOf(mined)) \in Nat
          /\ DOMAIN ReturnsOf(mined) = 1..Len(ReturnsOf(mined))
          /\ \A n \in DOMAIN ReturnsOf(mined) : IsScript(ReturnsOf(mined)[n])
      BY CoinsOfInputs, Scripts DEF IsTransaction
    <2>3. Len(z.opReturns) = Len(ReturnsOf(mined))
      BY <2>1, <2>2
    <2>4. Len(ReturnsOf(mined)) = 1 /\ z.opReturns[1].version = 2
      <3> HIDE DEF z
      <3>1. QED
        BY <1>3, <1>4, <2>3 DEF OneRecord, RecordVersion
    <2>5. z.opReturns[1] = ReadRecord(record) /\ IsScript(record)
      BY <2>1, <2>2, <2>4
    <2>6. ReadRecord(record).hash = ExitHash(s)
      <3>1. z.opReturns[1].hash = Requests[s].hash[2]
        BY <1>3, <1>4 DEF Names, RecordVersion
      <3>2. QED
        BY <1>1, <2>5, <3>1, SolanaAssumption DEF ExitHash
    <2>7. QED
      BY <2>4, <2>5, <2>6, RecordRead
  <1>10. v = None \/ Verifies(mined, v)
    BY <1>5, <1>7, CoinsOfInputs, OwnVerifies
  <1>11. StampShape(mined, issuers)
    BY <1>5, <1>6, <1>8, <1>9, PlainKeys DEF StampShape
  <1>12. ChecksStamp(mined, proof, issuers, v)
    BY <1>1, <1>2, <1>5, <1>9, <1>10, <1>11, CoinsOfInputs DEF ChecksStamp
  <1>13. QED
    BY <1>4, <1>5, <1>6, <1>12 DEF Final, NodePlace, StampCandidate

LEMMA OwnPayoutChecks ==
  ASSUME input \in Inputs, proof.kind = "payout",
         proof \in MakesPayout(mined, wanted.wallet, wanted.account, wanted.index),
         \A i \in DOMAIN mined.inputs : mined.inputs[i].form = "plain",
         OwnStamp(proof.action),
         NEW keys, KeysAt(0, input.height) \subseteq keys,
         NEW v \in {None, input.coins}
  PROVE  /\ ChecksPayout(mined, proof, keys, v) /\ DecodesPayout(proof)
         /\ KeysAt(0, input.height) # {} /\ mined.inputs # << >> /\ Final(NodePlace)
         /\ proof.account = 0 /\ proof.index = wanted.index
  <1> DEFINE z == PayoutCandidate(mined)
             m == MinedReceipt
             s == m.signature
  <1>1. /\ m = ParsePayout(mined.notes[proof.action].memo) /\ m # None
        /\ s \in DOMAIN Exits /\ m.received = mined.notes[proof.action].value
        /\ wanted.account = 0 /\ wanted.index = Exits[s].index
        /\ Forwards(Exits, z)
    BY DEF OwnStamp, MinedReceipt, ReadReceipt
  <1>2. PICK j \in DOMAIN z.record :
          /\ z.record[j] = ExitHash(s)
          /\ m.bridged = SumFunctionOnSet(input.coins, RunInputs(Pushed(mined), j))
    BY DEF OwnStamp, MinedReceipt
  <1>3. /\ proof.txid = mined.txid /\ proof.pool = "ironwood" /\ mined.intoPool # None
        /\ Delivers(mined, proof) /\ proof.value = m.received
        /\ proof.account = 0 /\ proof.index = Exits[s].index /\ ~(proof.index > MaxIndex)
    <2> DEFINE found == {a \in DOMAIN mined.notes :
                           /\ mined.notes[a].receiver \in wanted.wallet
                           /\ ParsePayout(mined.notes[a].memo) # None}
    <2>1. /\ found # {} /\ mined.intoPool # None /\ ~(wanted.index > MaxIndex)
          /\ proof = ProofOf("payout", mined, Min(found), wanted.account, wanted.index)
      BY DEF MakesPayout
    <2>2. found \in SUBSET Nat
      BY CoinsOfInputs, Positions DEF IsTransaction
    <2>3. Min(found) \in found
      <3> HIDE DEF found
      <3>1. QED
        BY <2>1, <2>2, MinIsLeast
    <2>4. QED
      BY <1>1, <2>1, <2>3 DEF ProofOf, Delivers
  <1>4. DecodesPayout(proof)
    BY <1>1, <1>3, SolanaAssumption, IndexAssumption DEF DecodesPayout
  <1>5. /\ Final(z) /\ Shields(z) /\ OneRunPerExit(z) /\ PaidAt(Exits, z, j)
    BY <1>1, <1>2 DEF Forwards
  <1>6. /\ z.otherPool = mined.otherPool /\ z.intoPool = mined.intoPool
        /\ z.outputs = Len(mined.outputs) /\ z.actions = Len(mined.notes)
        /\ z.record = ReadExits(mined) /\ z.height = input.height
        /\ z.spenders = Pushed(mined)
    BY PlainKeys DEF PayoutCandidate
  <1> HIDE DEF z
  <1>7. Len(mined.outputs) = 1 /\ ReadExits(mined) # None
    BY <1>5, <1>6 DEF Shields
  <1>8. ReadExits(mined) = Named(mined) /\ Named(mined) # << >>
    <2> DEFINE q == mined.outputs[1].script
    <2>1. RecordV3Hashes(q) # << >> /\ q.ops = "return"
      BY <1>7 DEF ReadExits, RecordV3Hashes
    <2>2. 1 \in DOMAIN mined.outputs
      BY <1>7, CoinsOfInputs, Positions DEF IsTransaction
    <2>3. q \in Returns(Range(q.data.hashes))
      BY <2>1, <2>2, CoinsOfInputs DEF IsTransaction, IsScript, Returns, Data
    <2>4. ParseV3Script(q) = RecordV3Hashes(q)
      <3> HIDE DEF q
      <3>1. QED
        BY <2>3, ReadersAgree
    <2>5. Named(mined) # << >>
      BY <2>1, <2>4 DEF Named
    <2>6. QED
      BY <1>7, <2>5, CoinsOfInputs, ExitsRead
  <1>9. Pushed(mined) # << >> /\ None \notin Range(Pushed(mined))
    BY <1>5, <1>6 DEF OneRunPerExit
  <1>10. PayoutShape(mined)
    BY <1>5, <1>6, <1>7, <1>8, PlainKeys DEF PayoutShape, Shields, OneRunPerExit
  <1>11. PICK k \in KeysAt(0, input.height) :
           RunKeys(Pushed(mined))[j] = OrderPubkey(k, proof.index)
    <2>1. PICK e \in DOMAIN Exits :
            /\ OnlyExit(Exits, e, z.record[j])
            /\ OrderKey(RunKeys(z.spenders)[j], Exits[e].index, z.height)
      BY <1>5 DEF PaidAt
    <2>2. e = s
      <3>1. OnlyExit(Exits, s, z.record[j])
        BY <1>1, <1>2, OneExit
      <3>2. QED
        BY <2>1, <3>1 DEF OnlyExit
    <2>3. QED
      BY <1>3, <1>6, <2>1, <2>2 DEF OrderKey, OrderPubkey
  <1>12. k \in keys /\ k.account = proof.account
    BY <1>3, <1>11 DEF KeysAt
  <1>13. v = None \/ (Verifies(mined, v) /\ m.bridged = Coins(mined, v, j))
    BY <1>2, <1>9, CoinsOfInputs, OwnVerifies, PlainKeys DEF Coins
  <1>14. ChecksPayout(mined, proof, keys, v)
    <2>1. j \in DOMAIN Named(mined) /\ Named(mined)[j] = ExitHash(s)
          /\ Ordered(mined, proof, keys, j)
      BY <1>2, <1>6, <1>8, <1>11, <1>12, PlainKeys DEF Ordered
    <2>2. QED
      BY <1>1, <1>3, <1>10, <1>12, <1>13, <2>1, CoinsOfInputs DEF ChecksPayout
  <1>15. Final(NodePlace)
    BY <1>5 DEF z, Final, NodePlace, PayoutCandidate
  <1>16. mined.inputs # << >>
    <2>1. mined.inputs = << >> => Pushed(mined) = << >>
      BY DEF Pushed
    <2>2. QED
      BY <1>9, <2>1
  <1>17. QED
    BY <1>1, <1>3, <1>4, <1>11, <1>14, <1>15, <1>16

LEMMA OwnIsAccepted == CheckInv => GenuineAccepted
  <1>1. ASSUME CheckInv, answer # None, wanted # None, Honest, OwnStamp(proof.action)
        PROVE  answer.ok
    <2>1. at = "done" /\ Verdict /\ Made /\ input \in Inputs
      BY <1>1, AnswerGiven DEF CheckInv, Progress, Typed
    <2>2. /\ answer.why # "chains not read" /\ answer.why # "no value"
          /\ bytes \in {None, mined} /\ values \in {None, input.coins}
          /\ \A i \in DOMAIN mined.inputs : mined.inputs[i].form = "plain"
      BY <1>1 DEF Honest
    <2>3. \/ proof.kind = "stamp" /\ proof \in MakesStamp(mined, wanted.wallet)
          \/ /\ proof.kind = "payout" /\ proof.account = 0
             /\ proof \in MakesPayout(mined, wanted.wallet, wanted.account, wanted.index)
      <3>1. CASE proof \in MakesStamp(mined, wanted.wallet)
        BY <3>1 DEF MakesStamp, ProofOf
      <3>2. CASE /\ proof \in MakesPayout(mined, wanted.wallet, wanted.account, wanted.index)
                 /\ wanted.account = 0
        BY <3>2 DEF MakesPayout, ProofOf
      <3>3. QED
        BY <1>1, <2>1, <3>1, <3>2 DEF Made
    <2>4. proof.kind = "stamp" => proof \in MakesStamp(mined, wanted.wallet)
      BY <2>3
    <2>5. proof.kind = "payout" =>
            proof \in MakesPayout(mined, wanted.wallet, wanted.account, wanted.index)
      BY <2>3
    <2>6. IssuersAt(input.height) \subseteq AllIssuers /\ KeysAt(0, input.height) \subseteq ExitKeys
      BY DEF IssuersAt, AllIssuers, KeysAt
    <2>7. /\ Final(NodePlace) /\ ValidKeys # {} /\ mined.inputs # << >>
          /\ \A v \in {None, input.coins} :
               Checks(mined, AllIssuers, ExitKeys, v) /\ Checks(mined, ValidKeys, ValidKeys, v)
      <3>1. CASE proof.kind = "stamp"
        BY <1>1, <2>1, <2>2, <2>4, <2>6, <3>1, OwnStampChecks
           DEF Checks, DecodesStamp, ValidKeys, IsPayout
      <3>2. CASE proof.kind = "payout"
        BY <1>1, <2>1, <2>2, <2>5, <2>6, <3>2, OwnPayoutChecks
           DEF Checks, ValidKeys, IsPayout
      <3>3. QED
        BY <2>3, <3>1, <3>2
    <2>8. bytes \in Served(mined) => bytes = mined
      BY <2>1, <2>2, NoneAssumption DEF mined
    <2>9. CASE Offline
      BY <2>2, <2>7, <2>8, <2>9 DEF Offline
    <2>10. ASSUME Valued PROVE bytes = mined /\ NoteChecks
      <3>1. bytes = mined /\ values \in [DOMAIN bytes.inputs -> Worth] /\ bytes \in Served(mined)
        BY <2>8, <2>10 DEF Valued, Read
      <3>2. values # None /\ values = input.coins
        BY <2>1, <2>2, <3>1, NoneAssumption DEF mined
      <3>3. values # << >>
        <4>1. Len(mined.inputs) \in Nat /\ Len(mined.inputs) >= 1
              /\ DOMAIN mined.inputs = 1..Len(mined.inputs)
          BY <2>1, <2>7, CoinsOfInputs, ShortSeq DEF IsTransaction
        <4>2. 1 \in DOMAIN values
          BY <3>1, <4>1
        <4>3. QED
          BY <4>2
      <3>4. QED
        BY <2>7, <3>1, <3>2, <3>3 DEF NoteChecks
    <2>11. ASSUME bytes = mined PROVE OnSolana
      <3>1. Receipt = MinedReceipt
        BY <2>11 DEF Receipt, MinedReceipt
      <3>2. CASE proof.kind = "stamp"
        <4>1. LET r == Requests[MinedReceipt.signature]
              IN  r.mode = "private" /\ Deliverable(r)
          BY <1>1, <2>1, <2>2, <2>4, <2>6, <3>2, OwnStampChecks
        <4>2. TheRequest
          BY <1>1, <3>1, <3>2, <4>1 DEF OwnStamp, TheRequest, MinedReceipt
        <4>3. QED
          BY <3>2, <4>2 DEF OnSolana, IsPayout
      <3>3. CASE proof.kind = "payout"
        <4>1. proof.index = wanted.index
          BY <1>1, <2>1, <2>2, <2>5, <3>3, OwnPayoutChecks
        <4>2. TheExit
          BY <1>1, <3>1, <3>3, <4>1 DEF OwnStamp, TheExit, MinedReceipt
        <4>3. QED
          BY <3>3, <4>2 DEF OnSolana, IsPayout
      <3>4. QED
        BY <2>3, <3>2, <3>3
    <2>12. QED
      BY <2>1, <2>2, <2>3, <2>7, <2>9, <2>10, <2>11
         DEF Verdict, Failed, Asked, Checked, Decoded, IsPayout
  <1>2. QED
    BY <1>1 DEF GenuineAccepted

(* A wallet's proof of its own stamp passes, the node telling the truth: the
   checks refuse no stamp that the verifier's rules allow
   (private/proof.rs:195-246, payout/proof.rs:170-225, checkproof.ts). *)
THEOREM CheckGenuineAccepted == Spec => []GenuineAccepted
  BY OwnIsAccepted, CheckInvHolds, PTL

-----------------------------------------------------------------------------
(* What the stamper builds is accepted.                                    *)

(* What it has built for a request it did not refuse. *)
LEMMA BuiltFields ==
  ASSUME NEW r, NEW t, NEW b \in Builds(r, t)
  PROVE  /\ ~Refuses(r)
         /\ b.txid = t /\ b.version = 6 /\ b.parses /\ ~b.otherPool /\ b.intoPool = Postage
         /\ b.inputs = <<[form |-> "plain", key |-> r.issuer,
                          over |-> <<t, 1, <<r.coin>>, <<r.issuer>>>>]>>
         /\ b.outputs =
              <<[value |-> 0, script |-> RecordV2Script(ExitHash(r.receipt.signature))],
                [value |-> BuildChange(r), script |-> PayTo(r.issuer)]>>
         /\ b.notes \in BuildNotes(r)
  BY DEF Builds

(* Of its notes one is worth the postage, and its memo is the receipt. *)
LEMMA BuiltNote ==
  ASSUME NEW r, NEW notes \in BuildNotes(r), NEW a \in DOMAIN notes,
         notes[a].value = Postage
  PROVE  notes[a].receiver = ReceiverOf(r) /\ notes[a].memo = StampText(r.receipt)
  <1>1. Postage # 0
    BY ParamsAssumption
  <1> DEFINE note == [receiver |-> ReceiverOf(r), value |-> Postage, rseed |-> 1,
                      memo |-> StampText(r.receipt)]
             padding == [receiver |-> None, value |-> 0, rseed |-> 2, memo |-> None]
  <1>2. notes = <<note, padding>> \/ notes = <<padding, note>>
    BY DEF BuildNotes
  <1>3. notes[a] = note \/ notes[a] = padding
    BY <1>2
  <1>4. notes[a] = note
    BY <1>1, <1>3
  <1>5. QED
    BY <1>4


(* It has one OP_RETURN script, its record, and pays the change to the issuer. *)
LEMMA BuiltOutputs ==
  ASSUME NEW b, NEW h, NEW k, NEW change,
         b.outputs = <<[value |-> 0, script |-> RecordV2Script(h)],
                       [value |-> change, script |-> PayTo(k)]>>
  PROVE  /\ ReturnsOf(b) = <<RecordV2Script(h)>>
         /\ OthersOf(b) = {[value |-> change, script |-> PayTo(k)]}
  <1>1. RecordV2Script(h).ops = "return" /\ PayTo(k).ops = "p2pkh"
    BY DEF RecordV2Script, Return, PayTo
  <1>2. /\ DOMAIN b.outputs = {1, 2}
        /\ b.outputs[1] = [value |-> 0, script |-> RecordV2Script(h)]
        /\ b.outputs[2] = [value |-> change, script |-> PayTo(k)]
    OBVIOUS
  <1>3. {i \in DOMAIN b.outputs : b.outputs[i].script.ops = "return"} = {1}
    BY <1>1, <1>2
  <1>4. SetToSeq({1}) = <<1>>
    <2>1. Cardinality({1}) = 1
      BY FS_Singleton
    <2>2. <<1>> \in [1..1 -> {1}] /\ IsInjective(<<1>>)
      BY DEF IsInjective
    <2>3. SetToSeq({1}) \in [1..1 -> {1}]
      BY <2>1, <2>2 DEF SetToSeq
    <2>4. QED
      BY <2>3
  <1>5. ReturnsOf(b) = <<RecordV2Script(h)>>
    <2>1. ReturnsOf(b) = [n \in DOMAIN <<1>> |-> b.outputs[<<1>>[n]].script]
      BY <1>3, <1>4 DEF ReturnsOf
    <2>2. QED
      BY <1>2, <2>1
  <1>6. OthersOf(b) = {[value |-> change, script |-> PayTo(k)]}
    <2>1. Range(b.outputs) = {b.outputs[1], b.outputs[2]}
      BY <1>2 DEF Range
    <2>2. QED
      BY <1>1, <1>2, <2>1 DEF OthersOf
  <1>7. QED
    BY <1>5, <1>6

(* The verifier reads it as a private stamp of one record, from and to the
   issuer. *)
LEMMA BuiltCandidate ==
  ASSUME NEW r, NEW t, NEW b \in Builds(r, t), t = proof.txid
  PROVE  LET z == StampCandidate(b)
         IN  /\ z.height = input.height /\ z.confirmations = input.confirmations
             /\ z.version = 6 /\ z.parses /\ z.ownTxid /\ z.spenders = {r.issuer}
             /\ z.opReturns = <<[version |-> 2, hash |-> ExitHash(r.receipt.signature),
                                 burned |-> 0, harvested |-> 0]>>
             /\ z.outs = {[script |-> r.issuer, value |-> BuildChange(r)]}
             /\ z.intoPool = Postage /\ ~z.otherPool
  <1> DEFINE z == StampCandidate(b)
             h == ExitHash(r.receipt.signature)
  <1> DEFINE spent == [form |-> "plain", key |-> r.issuer,
                       over |-> <<t, 1, <<r.coin>>, <<r.issuer>>>>]
  <1>1. /\ b.txid = t /\ b.version = 6 /\ b.parses /\ ~b.otherPool /\ b.intoPool = Postage
        /\ b.inputs = <<spent>>
        /\ b.outputs = <<[value |-> 0, script |-> RecordV2Script(h)],
                         [value |-> BuildChange(r), script |-> PayTo(r.issuer)]>>
    BY BuiltFields
  <1>2. ReturnsOf(b) = <<RecordV2Script(h)>>
        /\ OthersOf(b) = {[value |-> BuildChange(r), script |-> PayTo(r.issuer)]}
    BY <1>1, BuiltOutputs
  <1>3. z.spenders = {r.issuer}
    <2>1. SpendersOf(b) = <<r.issuer>>
      BY <1>1 DEF SpendersOf
    <2>2. QED
      BY <2>1 DEF StampCandidate, Range
  <1>4. z.opReturns = <<[version |-> 2, hash |-> h, burned |-> 0, harvested |-> 0]>>
    <2>1. ReadRecord(RecordV2Script(h))
            = [version |-> 2, hash |-> h, burned |-> 0, harvested |-> 0]
      <3>1. RecordV2Hash(RecordV2Script(h)) = <<h>>
        BY RecordV2RoundTrip
      <3>2. QED
        BY <3>1 DEF ReadRecord
    <2>2. z.opReturns = [i \in DOMAIN <<RecordV2Script(h)>> |-> ReadRecord(<<RecordV2Script(h)>>[i])]
      BY <1>2 DEF StampCandidate
    <2> HIDE DEF z
    <2>3. QED
      BY <2>1, <2>2
  <1>5. z.outs = {[script |-> r.issuer, value |-> BuildChange(r)]}
    <2>1. Payee(PayTo(r.issuer)) = r.issuer
      BY DEF Payee, PayTo, ScriptKind
    <2>2. z.outs = {[script |-> Payee(o.script), value |-> o.value] : o \in OthersOf(b)}
      BY DEF StampCandidate
    <2> HIDE DEF z
    <2>3. QED
      BY <1>2, <2>1, <2>2
  <1>6. z.height = input.height /\ z.confirmations = input.confirmations
        /\ z.version = 6 /\ z.parses /\ z.ownTxid /\ z.intoPool = Postage /\ ~z.otherPool
    BY <1>1 DEF StampCandidate
  <1> HIDE DEF z
  <1>7. QED
    BY <1>3, <1>4, <1>5, <1>6 DEF z

(* By the rules it is the stamp of the request its receipt names, if that was
   private, deliverable and of those amounts. *)
LEMMA BuiltQualifies ==
  ASSUME NEW r, NEW s, NEW z,
         s = r.receipt.signature, s \in DOMAIN Requests,
         Final(z), r.issuer \in IssuersAt(z.height),
         z.version = 6, z.parses, z.ownTxid, z.spenders = {r.issuer},
         z.opReturns = <<[version |-> 2, hash |-> ExitHash(s), burned |-> 0, harvested |-> 0]>>,
         z.outs = {[script |-> r.issuer, value |-> BuildChange(r)]},
         z.intoPool = Postage, ~z.otherPool,
         Requests[s].mode = "private", Requests[s].fee <= Requests[s].harvested,
         RequestKeyInForce(Requests[s].kid, Requests[s].time)
  PROVE  Qualifies([requests |-> Requests, refunds |-> {}, candidates |-> <<z>>], 1, s)
  <1> DEFINE in == [requests |-> Requests, refunds |-> {}, candidates |-> <<z>>]
             record == [version |-> 2, hash |-> ExitHash(s), burned |-> 0, harvested |-> 0]
  <1>1. in.candidates[1] = z /\ in.requests = Requests /\ RefundsOf(in, s) = {}
    BY DEF RefundsOf
  <1>2. IsPrivate(z) /\ RecordVersion(z) = 2
    BY DEF IsPrivate, RecordVersion
  <1>3. Len(z.opReturns) = 1 /\ z.opReturns[1] = record
    OBVIOUS
  <1>4. FromIssuers(z)
    BY DEF FromIssuers
  <1>5. OneRecord(z)
    BY <1>2, <1>3 DEF OneRecord
  <1>6. Names(Requests, z, s)
    <2>1. z.opReturns[1].hash = Hash[s]
      BY <1>3 DEF ExitHash
    <2>2. \A q \in DOMAIN Requests : Requests[q].hash[2] = z.opReturns[1].hash <=> q = s
      BY <2>1, SolanaAssumption, HashAssumption DEF IsInjective
    <2>3. QED
      BY <1>2, <2>2 DEF Names
  <1>7. PaysPool(z)
    BY DEF PaysPool
  <1>8. PaysRequest(Requests[s], z)
    BY <1>2, <1>7 DEF PaysRequest, Deliverable
  <1> HIDE DEF in
  <1>9. Qualifies(in, 1, s)
    BY <1>1, <1>2, <1>4, <1>5, <1>6, <1>8
       DEF Qualifies, IsCandidate, RightMode, SameAmounts
  <1>10. QED
    BY <1>9 DEF in

(* The wallet that makes a proof of what was built makes it of the note that
   was sealed to it, and that note is its own stamp. *)
LEMMA BuiltIsOwn ==
  ASSUME input \in Inputs, input.built # None, proof.kind = "stamp",
         proof \in MakesStamp(mined, wanted.wallet),
         Final(NodePlace), input.built.issuer \in IssuersAt(input.height),
         LET m == input.built.receipt
         IN  /\ m.signature \in DOMAIN Requests
             /\ LET q == Requests[m.signature]
                IN  /\ q.mode = "private" /\ RequestKeyInForce(q.kid, q.time)
                    /\ <<m.burned, m.harvested, m.fee>> = <<q.burned, q.harvested, q.fee>>
  PROVE  OwnStamp(proof.action)
  <1> DEFINE r == input.built
             s == r.receipt.signature
             a == proof.action
             z == StampCandidate(mined)
  <1>1. /\ mined \in Builds(r, mined.txid)
        /\ r.receipt # None /\ StampText(r.receipt) # None
        /\ r.receipt \in [coin : Tokens \cup {None}, burned : 0..MaxAmount,
                          harvested : 0..MaxAmount, fee : 0..MaxAmount,
                          signature : Signatures, time : Int]
    BY BuiltAssumption, NoneAssumption DEF mined
  <1>2. /\ ~Refuses(r) /\ mined.notes \in BuildNotes(r)
    <2> HIDE DEF r
    <2>1. QED
      BY <1>1, BuiltFields
  <1>3. a \in DOMAIN mined.notes /\ mined.notes[a].value = Postage /\ proof.txid = mined.txid
        /\ mined.notes[a].receiver \in wanted.wallet
    <2> DEFINE found == {n \in DOMAIN mined.notes :
                           mined.notes[n].receiver \in wanted.wallet
                             /\ mined.notes[n].value = Postage}
    <2>1. found # {} /\ proof = ProofOf("stamp", mined, Min(found), 0, 0)
      BY DEF MakesStamp
    <2>2. found \in SUBSET Nat
      BY CoinsOfInputs, Positions DEF IsTransaction
    <2>3. Min(found) \in found
      <3> HIDE DEF found
      <3>1. QED
        BY <2>1, <2>2, MinIsLeast
    <2>4. QED
      BY <2>1, <2>3 DEF ProofOf
  <1>4. mined.notes[a].memo = StampText(r.receipt)
    <2> HIDE DEF r, a
    <2>1. QED
      BY <1>2, <1>3, BuiltNote
  <1>5. StampReceiptOk(r.receipt) /\ r.receipt.fee <= r.receipt.harvested
    BY <1>2 DEF Refuses, StampReceiptOk
  <1>6. ReadReceipt(proof.kind, mined.notes[a].memo) = r.receipt
    BY <1>1, <1>4, <1>5, StampReceiptRoundTrip DEF ReadReceipt
  <1>7. /\ z.height = input.height /\ z.confirmations = input.confirmations
        /\ z.version = 6 /\ z.parses /\ z.ownTxid /\ z.spenders = {r.issuer}
        /\ z.opReturns = <<[version |-> 2, hash |-> ExitHash(s), burned |-> 0, harvested |-> 0]>>
        /\ z.outs = {[script |-> r.issuer, value |-> BuildChange(r)]}
        /\ z.intoPool = Postage /\ ~z.otherPool
    <2> HIDE DEF r, z
    <2>1. QED
      BY <1>1, <1>3, BuiltCandidate DEF z
  <1>8. Final(z) /\ r.issuer \in IssuersAt(z.height)
    BY <1>7 DEF Final, NodePlace
  <1>9. ValidStamp(s)
    <2>1. /\ s \in DOMAIN Requests /\ Requests[s].mode = "private"
          /\ Requests[s].fee = r.receipt.fee /\ Requests[s].harvested = r.receipt.harvested
          /\ RequestKeyInForce(Requests[s].kid, Requests[s].time)
      OBVIOUS
    <2>2. Requests[s].fee <= Requests[s].harvested
      BY <1>5, <2>1
    <2>3. r.receipt.signature = s
      OBVIOUS
    <2> HIDE DEF z, s, r
    <2>4. QED
      BY <1>7, <1>8, <2>1, <2>2, <2>3, BuiltQualifies DEF ValidStamp, z
  <1>10. QED
    BY <1>1, <1>3, <1>6, <1>9 DEF OwnStamp

(* What the stamper builds is never in vain: once it is final under an issuer
   key still published, the wallet the request was sealed to proves it, the node
   telling the truth (private/build.rs:58-190, private/proof.rs:195-290). *)
THEOREM CheckBuiltAccepted == Spec => []BuiltIsAccepted
  <1>1. CheckInv => BuiltIsAccepted
    <2> SUFFICES ASSUME CheckInv,
                        answer # None, wanted # None, ~IsPayout, Honest, input.built # None,
                        Final(NodePlace), input.built.issuer \in IssuersAt(input.height),
                        LET m == input.built.receipt
                        IN  /\ m.signature \in DOMAIN Requests
                            /\ LET q == Requests[m.signature]
                               IN  /\ q.mode = "private" /\ RequestKeyInForce(q.kid, q.time)
                                   /\ <<m.burned, m.harvested, m.fee>>
                                         = <<q.burned, q.harvested, q.fee>>
                 PROVE  answer.ok
      BY DEF BuiltIsAccepted
    <2>1. at = "done" /\ Made /\ input \in Inputs
      BY AnswerGiven DEF CheckInv, Progress, Typed
    <2>2. proof.kind = "stamp" /\ proof \in MakesStamp(mined, wanted.wallet)
      <3>1. proof \notin MakesPayout(mined, wanted.wallet, wanted.account, wanted.index)
        <4> SUFFICES ASSUME proof \in MakesPayout(mined, wanted.wallet, wanted.account, wanted.index)
                     PROVE  FALSE
          OBVIOUS
        <4>1. PICK a : proof = ProofOf("payout", mined, a, wanted.account, wanted.index)
          BY DEF MakesPayout
        <4>2. proof.kind = "payout"
          BY <4>1 DEF ProofOf
        <4>3. QED
          BY <4>2 DEF IsPayout
      <3>2. proof \in MakesStamp(mined, wanted.wallet)
        BY <2>1, <3>1 DEF Made
      <3>3. PICK a : proof = ProofOf("stamp", mined, a, 0, 0)
        BY <3>2 DEF MakesStamp
      <3>4. QED
        BY <3>2, <3>3 DEF ProofOf
    <2>3. OwnStamp(proof.action)
      BY <2>1, <2>2, BuiltIsOwn
    <2>4. QED
      BY <2>3, OwnIsAccepted DEF GenuineAccepted
  <1>2. QED
    BY <1>1, CheckInvHolds, PTL

=============================================================================
