------------------------------ MODULE Receipts -------------------------------
(***************************************************************************)
(* The receipts in the memos of stamps' notes, as stamper-core writes and  *)
(* reads them: private/memo.rs (version 2, of a harvest) and               *)
(* payout/receipt.rs (version 3, of an exit).  Pure operators.             *)
(*                                                                         *)
(* A receipt of a harvest is                                               *)
(*   [coin, burned, harvested, fee, signature, time];                      *)
(* one of an exit is                                                       *)
(*   [source, coin, sent, bridged, fee, received, signature, time],        *)
(* source being "sell", "harvest" or "send".  A memo is a record of what   *)
(* its nine lines say, or None for any other text; coin stands for a       *)
(* ticker and a mint.                                                      *)
(***************************************************************************)
EXTENDS ChainOrder

CONSTANTS
  Signatures,  \* the signatures and names of harvests and exits
  Hood,        \* of these, the names of exits on Robinhood Chain
  Tokens,      \* the coins that are well formed
  CoinUnit,    \* 10^6
  ZecUnit,     \* 10^8
  MaxAmount,   \* the largest u64
  LastTime     \* the last second of the year 9999

ASSUME ReceiptsAssumption ==
  /\ Hood \subseteq Signatures
  /\ CoinUnit \in Nat \ {0} /\ ZecUnit \in Nat \ {0}
  /\ MaxAmount \in Nat
  /\ LastTime \in Nat /\ LastTime \div 86400 <= 2932896
  /\ None \notin Tokens

-----------------------------------------------------------------------------
(* Amounts.  Written otherwise, with a leading zero or too few digits after
   the point, an amount is not exact.                                      *)

Decimal(v, unit) == [whole |-> v \div unit, part |-> v % unit, exact |-> TRUE]

ParseDecimal(d, unit) ==
  IF d.exact /\ d.whole * unit + d.part <= MaxAmount
  THEN d.whole * unit + d.part
  ELSE None

-----------------------------------------------------------------------------
(* Times.                                                                  *)

(* Years are counted from 1 March, in eras of 400 years of 146097 days.  Of an
   era's day, its year, and of its year, the first day. *)
YearOfEra(doe) ==
  (doe - (doe \div 1460) + (doe \div 36524) - (doe \div 146096)) \div 365

FirstDay(yoe) == 365 * yoe + (yoe \div 4) - (yoe \div 100)

(* The date of a day of a year, both counted from March. *)
Dated(year, doy) ==
  LET mp == (5 * doy + 2) \div 153
  IN  [year  |-> IF mp < 10 THEN year ELSE year + 1,
       month |-> IF mp < 10 THEN mp + 3 ELSE mp - 9,
       day   |-> doy - ((153 * mp + 2) \div 5) + 1]

DatedInEra(era, doe, yoe) == Dated(yoe + era * 400, doe - FirstDay(yoe))

EraDay(era, doe) == DatedInEra(era, doe, YearOfEra(doe))

(* Days since 1970-01-01 as year, month and day. *)
Civil(days) == EraDay((days + 719468) \div 146097, (days + 719468) % 146097)

Clock(s) ==
  [hour |-> s \div 3600, minute |-> (s \div 60) % 60, second |-> s % 60]

Iso(t) == [date |-> Civil(t \div 86400), clock |-> Clock(t % 86400)]

(* A slip: January and February count to their own year. *)
YearOf(date) == date.year

MarchYear(date) == IF date.month <= 2 THEN date.year - 1 ELSE date.year

DayOfYear(date) ==
  ((153 * ((date.month + 9) % 12) + 2) \div 5) + date.day - 1

DaysTo(year, doy) == (year \div 400) * 146097 + FirstDay(year % 400) + doy - 719468

(* The inverse of Civil. *)
DaysFrom(date) == DaysTo(MarchYear(date), DayOfYear(date))

Seconds(at) ==
  DaysFrom(at.date) * 86400
    + at.clock.hour * 3600 + at.clock.minute * 60 + at.clock.second

(* A time is read if it is written as Iso writes it, in a year of four
   digits. *)
LastYear == 9999

ParseIso(at) ==
  IF at.date.year \in 0..LastYear /\ Iso(Seconds(at)) = at THEN Seconds(at) ELSE None

-----------------------------------------------------------------------------
(* Receipts of a harvest.                                                  *)

(* Receipt::check *)
StampReceiptOk(r) ==
  /\ r.coin \in Tokens
  /\ r.signature \in Signatures \ Hood
  /\ r.fee <= r.harvested
  /\ r.time \in 0..LastTime

StampText(r) ==
  [form |-> "stamp", coin |-> r.coin,
   burned |-> Decimal(r.burned, CoinUnit),
   harvested |-> Decimal(r.harvested, ZecUnit),
   fee |-> Decimal(r.fee, ZecUnit),
   received |-> Decimal(r.harvested - r.fee, ZecUnit),
   name |-> r.signature, at |-> Iso(r.time), link |-> r.signature]

(* What a memo's lines say, if each can be read. *)
SaysStamp(memo) ==
  [coin |-> memo.coin,
   burned |-> ParseDecimal(memo.burned, CoinUnit),
   harvested |-> ParseDecimal(memo.harvested, ZecUnit),
   fee |-> ParseDecimal(memo.fee, ZecUnit),
   signature |-> memo.name, time |-> ParseIso(memo.at)]

StampIfExact(memo, r) ==
  IF /\ None \notin {r.burned, r.harvested, r.fee, r.time}
     /\ StampReceiptOk(r)
     /\ StampText(r) = memo
  THEN r ELSE None

(* Receipt::parse: the receipt the memo is exactly the text of, else None. *)
ParseStamp(memo) ==
  IF memo = None \/ memo.form # "stamp" THEN None
  ELSE StampIfExact(memo, SaysStamp(memo))

-----------------------------------------------------------------------------
(* Receipts of an exit.                                                    *)

(* PayoutReceipt::text's checks.  An exit on Robinhood Chain names no coin. *)
PayoutReceiptOk(r) ==
  /\ r.signature \in Signatures
  /\ IF r.signature \in Hood
     THEN r.source \in {"sell", "send"} /\ r.coin = None
     ELSE \/ r.source \in {"sell", "harvest"} /\ r.coin \in Tokens
          \/ r.source = "send" /\ r.coin = None
  /\ r.time >= 0
  /\ r.fee <= r.bridged /\ r.received = r.bridged - r.fee

PayoutText(r) ==
  [form |-> "payout", source |-> r.source, coin |-> r.coin,
   sent |-> Decimal(r.sent, ZecUnit), bridged |-> Decimal(r.bridged, ZecUnit),
   fee |-> Decimal(r.fee, ZecUnit), received |-> Decimal(r.received, ZecUnit),
   chain |-> IF r.signature \in Hood THEN "robinhood" ELSE "solana",
   name |-> r.signature, at |-> Iso(r.time), link |-> r.signature]

SaysPayout(memo) ==
  [source |-> memo.source, coin |-> memo.coin,
   sent |-> ParseDecimal(memo.sent, ZecUnit),
   bridged |-> ParseDecimal(memo.bridged, ZecUnit),
   fee |-> ParseDecimal(memo.fee, ZecUnit),
   received |-> ParseDecimal(memo.received, ZecUnit),
   signature |-> memo.name, time |-> ParseIso(memo.at)]

PayoutIfExact(memo, r) ==
  IF /\ None \notin {r.sent, r.bridged, r.fee, r.received, r.time}
     /\ PayoutReceiptOk(r)
     /\ PayoutText(r) = memo
  THEN r ELSE None

(* PayoutReceipt::parse *)
ParsePayout(memo) ==
  IF memo = None \/ memo.form # "payout" THEN None
  ELSE PayoutIfExact(memo, SaysPayout(memo))

(* The receipt a memo holds for a proof of this kind. *)
ReadReceipt(kind, memo) ==
  IF kind = "payout" THEN ParsePayout(memo) ELSE ParseStamp(memo)

=============================================================================
