# Formal models of the stamp verifier and the stamper

The repository holds two programs around one bridge. On Solana a holder redeems a coin, pays a fee and asks, in
a memo, for a *stamp*: a Zcash transaction by a published issuer that names the request and pays a postage. An
issuer that cannot stamp a request gives the fee back. Later parts of the protocol add *private* stamps (the
postage goes to a shielded receiver sealed in the request) and *payouts* (a bridge forwards the ZEC of an exit
into the shielded pool). `SPEC.md` gives the rules by name (R1-R5, Z1-Z3, V1-V5, E1-E3, P1-P3); this project
uses the same names.

- `verifier/` (TypeScript) reads both chains and decides: which requests are stamped, refunded, pending,
  overdue, and whether the issuers' invariant holds; and, as `check-proof`, checks one proof.
- `stamper-core/` (Rust) builds the issuers' transactions and makes and checks the proofs a receiver can show.
  `stamp-proof-wasm/` is its WebAssembly face, which `check-proof` calls.

What makes this code hard is not its size. The verifier reads two chains that go on while they are read, from
nodes that list things in their own order; the same rules are written twice, in two languages; and what it
prints accuses somebody.

## Inventory

For each component: its state, its operations, whom it meets, what is hard, what must hold.

| component | source | state | operations | model |
|---|---|---|---|---|
| stamp ledger | `verifier/src/ledger.ts`, `private.ts` | maps filled by one call: refunds, stamps, rejections, states | `buildLedger`, `privateCandidate` | `Ledger` over `StampRules`; promise in `StampPromise`; `LedgerProofs` |
| payout ledger | `verifier/src/ledger.ts`, `payout.ts` | the same, for exits | `buildPayoutLedger` | `PayoutLedger` over `PayoutRules`, `KeyRuns`; `PayoutProofs` |
| Zcash reader | `verifier/src/rpc/zebra.ts`, `jsonrpc.ts` | tip, blocks kept by height, what was read; attempts of a call | `readZcash`, `readPayoutCandidates`, `readTxs`, `rpc` | `ZcashRead`, `OrderScan`; `ZcashProofs` |
| Solana reader | `verifier/src/rpc/solana.ts` | cursor, signatures, what was found, what was unreadable | `readSolana`, `readExitRequests` | `SolanaRead`; `SolanaProofs` |
| Solana classifier | `verifier/src/solana/tx.ts`, `params.ts` | none | `classify`, `classifyExit`, `programData`, `requiredFee` | `SolanaTx`; `SolanaProofs` |
| verification runs | `verifier/src/cli.ts` | what was read so far of one run | `main` | `StampSystem`; `SystemProofs` |
| check-proof | `verifier/src/checkproof.ts` | the calls of one check | `checkProof`, `checkPayoutProof` | `CheckProof`; `CheckProofs` |
| proofs | `stamper-core/src/private/proof.rs`, `payout/proof.rs`, `payout/mod.rs`, `stamp-proof-wasm/src/lib.rs`, `bin/stamp-proof.rs` | none | `make`, `check` of both kinds | `StampProof` over `KeyRuns`; offline in `CheckProof`; `CheckProofs` |
| receipts | `stamper-core/src/private/memo.rs`, `payout/receipt.rs` | none | `text`, `parse` of both | `Receipts`; `CheckProofs` |
| builder | `stamper-core/src/build.rs`, `bin/stamper.rs` | the key that was loaded | `build`, `zip317_fee`, `sign` | `Build`, `Stamper`; `StamperProofs` |
| private builder | `stamper-core/src/private/build.rs`, `private/seal.rs` | none | `build_private`, `seal`, `open` | `PrivateBuild`; `CheckProofs` |
| parameters | `verifier/src/params.ts`, `params/*.json` | the file | `checkParams`, periods of keys and fees | constants and their assumptions |
| exit keys | `stamper-core/src/payout/exit_key.rs`, `verifier/src/payout.ts` | none | derivation, `exitKeysAt` | `PayoutRules` (periods), `StampProof`; derivation abstract |
| key files | `stamper-core/src/key.rs`, `private/seal.rs`, `bin/stamper.rs`, `bin/stamp-proof.rs` | the files | `write_new`, `read`, `keygen`, `request-keygen`, `testwallet`, `address`, `request-pubkey` | `KeyFile`; promise in `KeyPromise`; `StamperProofs` |
| transactions and records | `stamper-core/src/{tx,record,address}.rs`, readers in `private.ts`, `payout.ts` | none | `txid`, `sighash_all`, `record_v2`, `record_v3`, their readers, scripts | `Wire`; `CheckProofs` |
| other codecs, formatting | `verifier/src/zcash/*`, `record.ts`, `format.ts` | none | pure functions | taken as data |

How they meet. `cli.ts` calls the Solana reader (which calls the classifier on each transaction), then the Zcash
reader, then takes the clock, then hands everything to the ledgers; there are no callbacks, and concurrency is
between one run and the two chains. `check-proof` calls a Zcash node, the checker (Rust, through WebAssembly),
Solana, and the ledger's own functions on a single transaction. The stamper never talks to the verifier: they
agree only through the shape of a transaction and a memo. The stamper's own commands meet in the key files: one run
makes them, others read them, and nothing but the file system orders them.

What is hard, and what must hold, per component (`PROJECT.json`, `hazards`, has each at its line):

- *Ledger.* Candidates come in the node's order and compete; rejected, late and duplicate ones mix; refunds are
  partial, repeated or misdirected; a refund and a stamp race. Must hold: the stamp is the first qualifying
  candidate in chain order; nothing else uses up a request; a rejection is true; a refund counts once; the
  invariant is reported broken exactly when it is.
- *Payout ledger.* A forward names up to four exits, so V4 is about sets. Must hold: a forward pays all its exits
  or none; overlapping forwards are settled in chain order; a transaction's money is counted once.
- *Zcash reader.* Separate calls see separate chains; blocks are kept; calls fail and are retried. Must hold: what
  was final at the start is found, in its true place; nothing is called final that can still move; the read ends.
- *Solana reader and classifier.* Paging under arrivals; a log in which programs nest; a fee that may be that of
  any moment of a day. Must hold: each transaction exactly once; the classification is the specification's.
- *Runs.* The two sides of one verdict are of different moments. Must hold: verdicts of complete runs agree over
  time; the late mining of a stamp does not put an honest issuer in breach.
- *Proofs and check-proof.* A txid covers neither the signatures nor the coins' values, and the node may answer
  with anything. Must hold: what passes is true on both chains and stands under the ledger's rules; what is
  genuine, or built by the stamper, passes.
- *Builders.* Boundary arithmetic of fee, change and dust in 64 bits; values and owners of coins are taken from
  the caller. Must hold: money is conserved, the fee is that of the transaction built, little is lost, a refusal is
  for real want of money, and what is mined is what was printed.
- *Key files.* `exists`, open and write are separate calls; runs overlap and die between them; one command writes
  two files. Must hold: a key that is in a file is never replaced, and an address, to which coins will be sent, is
  printed only of a key that is kept.
- *Transactions and records.* Written in Rust, read in both languages. Must hold: what is written is read back, and
  both readers read the same; a signature binds everything about the coins.

## Modules and the code

`ChainOrder` is the order of transactions and finality (`ledger.ts`), used by both ledgers, the Zcash reader and
the proofs.

`StampRules` is each test of `buildLedger` and `privateCandidate` as a predicate; at its end `Qualifies`, `IsFirst`
and `StateOf` say what the whole of them should amount to. `Ledger` runs the tests in the code's order: one action
per way an iteration of a loop ends (`NotFinal` ... `Accept`), `Report` for the states and the invariant. The
code's sorts are the choice of a least element, so elements that compare equal come in either order.
`StampPromise` is the abstract specification: a request is awarded the first qualifying candidate, then every
request gets the state the rules determine. It knows no loop, no rejection and no total. `Ledger` implements it
(`KeepsPromise`), with the three shared variables as the refinement mapping.

`PayoutRules` and `PayoutLedger` are the same for `buildPayoutLedger`. `KeyRuns` is how its loop, and `shape_of` of
`payout/proof.rs`, split a forward's inputs into runs of one key: where a run starts, which run an input is in, the
key of each. `SpentInRuns` is the specification's wording (a splitting of the inputs into consecutive runs), and
`JudgedByTheRules` compares the two. The key hash of order *i* under exit key *k* is the pair `<<k, i>>`.

`ZcashRead` has a node whose chain is a sequence of blocks, mined and reorganized by actions of its own
(`Mine`, `Reorganize`: a branch one block longer wins over the last *d*), and a reader that makes one call per step: `GetBlockCount`, `GetAddressTxids`, `GetMined`
or `GetUnmined`, `GetBlock`. `CallFails` is the retry loop of `jsonrpc.ts`. A node that gives no confirmations has
them counted from the tip (`zebra.ts:40`): both values are possible. `OrderScan` adds `readPayoutCandidates`:
batches of order addresses per exit key until one is empty, then the same reading, then the filter by spends.

`SolanaTx` is pure: the log reader as the stack of programs after each line (`Stacks`), the payloads read and the
instructions picked out as sets of their places, the fee as a minimum over the entries of a day, and `Classify`,
`ClassifyExit` with their rules in the code's order. A log line is what the runtime wrote or a
program's text together with the line it could be taken for. `SolanaRead` is the paging and fetching, with
`Arrive` for transactions that come meanwhile; `SpecRequest`, `SpecRefund` and `SpecExit` are SPEC.md's own words,
in which the program executing at a line is the one started last and not yet ended (`RunningAt`). They count the
transfers that have everything SPEC.md asks for (`FeesPaid`: source, mint, destination and authority; `FeesReturned`:
the amount too), where the code counts all that go to, or come from, the fee account. `FeeAlone` and
`RefundAlone` say when the two counts are the same. The decimals of a `TransferChecked` are left out: the token
program fails one whose decimals are not the mint's, and the mint is compared.

`StampSystem` composes: requests and refunds (Solana), broadcast and mined stamps (Zcash), an issuer and runs of
the verifier. A run is `ReadSolana`, then, later, `Conclude`: the Zcash side and the clock as they are then, and
the verdict of `StampRules`, which `Ledger` is proved to compute. The issuer is external (nothing in the
repository stamps or refunds by itself): it refunds only a request of which no stamp is mined, and may have
several stamps in the mempool.

`Receipts` is both memo formats and their parsers with the arithmetic of amounts and dates: a line is the value it
says, written exactly or not; the calendar is the code's, in eras of 400 years. `StampProof` is `make` and `check`
of both kinds of proof; an input is the key it names and what its signature is over, since a txid covers neither.
`PrivateBuild` is `build_private`, its seal included: it opens to the receiver with the request key it was sealed
to, the key's number and the holder, and to nothing otherwise. `CheckProof` is the command around them, one action per call, early return and
rule: `Make`, `MakePayout` or `Given`, then the node's answers, the checker, Solana, the ledger. `CheckOffline` is
the other user of the same checker, the tool `stamp-proof`, which checks with the coins' values or without, against
all the published issuers and without the chain. The outputs of a transaction are scripts of `Wire`, and each side
reads them with its own reader: the checker with `RecordHash` and `ParseV3Script`, the ledger with `RecordV2Hash` and
`RecordV3Hashes` (`ReadRecord`, `ReadExits`).

`Wire` is `tx.rs`, `record.rs` and the scripts of `address.rs`, pure. A digest is the pair of its personalization and
what it covers, so that equal digests mean equal contents; a script is its framing, its length, and of an OP_RETURN
the bytes of the push and the data. The verifier's readers of records stand at its end.

`Build` is `build` of `build.rs` up to the amounts: checks in their order, then fee and change modulo `Word`.
`KeyFile` has one step per call to the file system: `Begin` and `RefuseToReplace` are the two ends of
`path.exists()`, `Create` and `AlreadyThere` those of the open with `create_new`, `Write` puts a part or all of the
text in place, `Show` prints; `Die` is a kill or an error before any of them. A key is named after the run that
generates it (random keys differ). `testwallet` goes through two files. `KeyPromise` says what all this is for, with
no step in between: keep a key where none is, show a key that is kept. The mapping takes a file for a key once all of
its characters are there (`Kept`); the newline after them changes nothing.
`Stamper` composes the three: `stamper sign` loads the key (`Load`, `NoKey`), runs `Build`'s steps and signs the result
(`Signing`), while the steps of `KeyFile` go on; then a node, which is external, takes the transaction or not
(`Mine`): each coin once, each signature by the coin's owner over what the coins are really worth, and not more paid
out than in. So a request may misstate its coins, and `MinedAsPrinted` asks what that can lead to.

Each `MC...` module only gives constants their values; the `.cfg` beside it is a run. Definitions called a *slip*
in a comment are wrong on purpose: `PROJECT.json` (`mutants`) puts each in place of the definition after it and
TLC must find the property broken. One is named for what it forgets, e.g. `AsListed` for `NextCandidate`.

## What the runs check

Passing runs; distinct states in parentheses.

- **ledger** (208 thousand). Every pair of good candidates over eight places of a four-block chain (before, at and
  after key boundaries and the refund's time, tied positions, not final, not mined, without a time) beside a third
  that competes; or one candidate that breaks one rule in one way; four sets of requests (both modes, a shared
  hash, undeliverable, fee above the amount); five sets of refunds. Checks `KeepsPromise` (refinement),
  `FirstInChainWins`, `EveryCandidateAccounted`, `RejectionsHonest`, `RefundedOnce`, `InvariantHonest`. Three
  candidates are enough for an award, a duplicate and an outsider in any order; every comparison of heights, times
  and periods has values on both sides and at equality.
- **payout** (43 thousand). Two forwards of one or two exits at any of six places with a third that wants two
  exits, or one forward that is odd in one of nineteen ways; exits that share a hash or an order; a retired key.
  Three forwards over three exits is the least at which an overlap is not transitive.
- **zcash_read** (263 thousand). Two transactions, a chain of up to five blocks, reorganizations of one block at
  any moment, confirmations 2, one retry per call; both reads. `StampsRead`, `PayoutsRead`, `FinalHeightsHold` and
  the liveness `ReadEnds`.
- **system** (2.0 million). One request, two stamps, a deadline of two ticks, four ticks, four blocks, two
  confirmations, block times one tick off the clock, one unreadable transaction per run. `VerdictsAgree` is an
  action property over successive complete runs; `LateStampHarmless` is about V5.
- **stamper** (186 thousand). Two kinds of beginnings. In one, two runs of any of `keygen`, `request-keygen` and
  `testwallet` and two requests, on files that are there whole, half written, readable by others or missing, with
  `sign` anywhere in between: two runs are enough for an overlap, as a third finds the file there. In the other, the
  key is in its file and twelve output lists meet close to five hundred coin lists around every boundary, with
  `Word` = 2048 so that sums wrap and `Dust` = 54, and requests that misstate values (also so that the sum is
  right), name a coin twice, another's coin or another branch. `KeepsKeys` is the refinement of `KeyPromise`;
  `AllFilesKept` is about the two files of a test wallet; `MinedAsPrinted` about the whole; the others about the
  builder. A digest without the coins' amounts, as transactions before version 5 had it, breaks `MinedAsPrinted`.
- **solana_read** (107 thousand). Three transactions in pages of two with any of the middle one's classification
  cases, any log of up to five lines the runtime can write (cut short anywhere), amounts and times around a fee
  schedule that rises and falls within a day; given exits, repeated ones too. `EachReadOnce` (of the history and of the
  given exits), `ReadEnds`, and `ClassifiedByTheRules`: requests are those of SPEC.md with `FeeAlone`, refunds those
  with `RefundAlone`, exits those of SPEC.md; see below for what the first two show.
- **check_proof** (366 thousand). Private stamps and forwards, right or with one thing wrong, records in a push that
  is not minimal among them; transactions built by `PrivateBuild` from seals that open or do not; proofs made by
  either wallet, or given with one field changed; a node that replaces signatures, answers with another transaction or
  gives any of three values per coin; the same proofs checked offline with and without values. `Unforged`,
  `ReceiptIsTrue`, `VouchedFor`, `RulesAgree`, `GenuineAccepted`, `BuiltIsAccepted`. `GenuineAccepted` is of inputs
  signed in plain pushes, which is what wallets write: the checker refuses a script in another form of push.

Runs that TLC refutes, each a disagreement of a document or comment with the code (`PROJECT.json`, `findings`):

- **stale_block** / `PlacesAsDocumented`: a block is read for one of its two transactions and kept, then replaced by one
  that holds the other alone; the other, reported final, gets its place and time in the block that is gone (position
  1 for 0). A transaction the kept block did not hold gets position -1. `StampsRead` shows what is unaffected:
  whatever was final when the read started.
- **unread** / `UnreadNeverInvalid`: an unreadable refund leaves its request overdue and the invariant broken,
  which SPEC.md says a failed read never does.
- **solana_talk** / `EventsAsDocumented`: a program's own text can read like the runtime's line.
- **same_wallet** / `MadeIsAccepted` (a bug): a wallet paid twice by one forward cannot make the second proof.
- **unread_exits** / `PassedIsStamp`: check-proof lets V1 pass for exits it has not read, so it checks less than
  SPEC.md says beside V4.

One disagreement with SPEC.md is stated by a property that passes, since it can be said exactly: `ClassifiedByTheRules`
has the code ask for more than SPEC.md does. SPEC.md:63-68 (R5) has "Exactly one top-level instruction" be a transfer
from the holder's account to the fee account by the holder; the code counts every transfer to the fee account
(`tx.ts:170-171`) and compares the other accounts of the one left (173). So a request beside which a stranger sends 1
to the fee account (`AsksAndTips` of `MCSolanaRead`) is a request by SPEC.md, and its fee is taken, but the code finds
"R5: 2 transfers to the fee account" and lists it nowhere. Likewise SPEC.md:140-143 counts the transfers that return the
fee and the memos that name the request, and the code every transfer from the fee account and every memo (132-135): a
refund beside which something else leaves the fee account (`GivesTwo`) is one by SPEC.md but not to the code, and the
request it refunds becomes overdue. Both inputs are in the *solana_read* run, whose property without `FeeAlone` or
without `RefundAlone` TLC refutes.

Deadlock is checked except in `stamper` (whose runs return) and `system` (whose clock and chain stop at their
bounds). Every bound on a counter is a named constant (`MaxTime`, `MaxHeight`, `MaxTxs`, `MaxLines`, `MaxUnread`).

### Assumptions about the world

- **Fairness.** Only the reader's own steps are fair: `WF(Read)`, `WF(ReadBoth)`, `WF(GoesOn)`. `fetch` is given 30
  seconds and attempts are bounded (`jsonrpc.ts`), so each call ends and the single-threaded program goes on. No
  fairness is asked of the chains, and none of failures. In `SolanaRead` a failing listing ends the run, a failing
  transaction does not.
- **Reorganizations** are shallower than the confirmations asked for (`MaxReorg < Confirmations`); that is what
  finality means here.
- **A run is shorter than `Confirmations` blocks** (`RunBlocks`). The Solana side is read first (`cli.ts:113`), so
  with longer runs a refund made after it was read would be missed while a stamp broadcast meanwhile became final,
  and two verdicts could contradict each other.
- **Clocks.** A block's time is what its miner says, `Skew` off the clock. SPEC.md:154-156 concedes that times are
  compared as they are; `LateStampHarmless` states exactly what is left of V5 then.
- The node lists the fee account's history newest first and only appends to it. In `CheckProof` the node is trusted
  for a transaction's height and confirmations and for nothing else.
- **Files.** A call to the file system happens at once, and what it did stays: a killed process loses nothing it
  wrote. No file is removed or edited but by these commands, and no two commands share a file unless they are to
  (`PathsAssumption`: a file that is a command's only one is nobody's first or second of two).
- **Keys and signatures.** Generated keys differ; only a key's holder signs with it.
- Hashes of different signatures differ (`HashAssumption`; the *ledger* run has shared ones), and only a key's
  holder signs for it.
- `TLC` computes in 32 bits: times in the *check_proof* run end at 2^31, and a coin's unit is small. `Receipts` has
  these as constants.

## What is proved

Every safety property of the passing runs, invariants and action properties and both refinements, is a theorem.
`tlapm` checks `CountProofs`, `LedgerProofs`, `PayoutProofs`, `ZcashProofs`, `SolanaProofs`, `SystemProofs`,
`StamperProofs` and `CheckProofs` to the last leaf: for every value of the constants that satisfies the named
assumptions, hence for every set of requests, refunds and candidates in any order, every number of transactions,
exit keys and confirmations, every number of runs, commands and files, every request to sign, every transaction and
log on Solana and every answer of a node to check-proof.

The assumptions are those of what the run is given. `ParamsAssumption`, `FeesAssumption`: what `checkParams` lets
pass. `InputsAssumption`, `PayoutAssumption`, `MinedAssumption`, `SolanaAssumption`,
`IndexAssumption`, `BuiltAssumption`, `BuildAssumption`, `SumsAssumption` and the two `ReadAssumption`s: the inputs have
the shapes their decoders give them. `ScanAssumption`, `SystemAssumption`: the world, as above. `KeyAssumption`,
`PathsAssumption`, `StamperAssumption`: the commands' files. `HashAssumption`: hashes of distinct signatures differ.
`ServedAssumption` is stronger than a shape. Bytes with the transaction's txid agree with it in all that a txid
covers, and, of what it does not cover: a signature of a published key that is over this txid is over the amounts and
scripts of the transaction's real coins, so the holder of such a key never signs a transaction over coins misstated to
it. Any other key or signature, and the values, may be what the node likes. `ReceiptsAssumption`: the bounds of a date and an amount. `NoneAssumption`: none is no value. TLC evaluates each of
them in the runs.

- **CountProofs.** What the others count with. The least of a set of numbers (`Minimum`, from the well-foundedness of
  the order); the runs of consecutive inputs of one key (`RunsNumbered`, `NextRun`, `WholeRun`: the runs are numbered
  without gaps, each is a whole stretch of inputs of one key, its neighbours are of others); and sums over a finite
  set (`SumsOf`, `SumAdd`, `SumRenamed`), whose definition is recursive: that it takes in one more element wherever it
  is taken in is shown by a least counterexample on the cardinality, in place of an induction.
- **LedgerProofs.** `Inv` is `TypeOK` with three parts. `RefundInv`: the refunds reached are the earliest ones, and
  `refundedAt` holds the earliest matching time of each request; without it the code's single comparison in V5
  could not be turned into the rule "no matching refund is earlier" (`EarliestRefundDecides`). `StampInv`: beside
  V4 itself, that every request with a qualifying candidate among those reached has a stamp; V4 alone is not
  inductive, since nothing would keep a later candidate from being the first one accepted. `ReportInv`: the states
  come after both loops. From it: `TypesKept`, `FirstWins`, `Honesty`, `Accounting`, `InvariantTrue` and
  `Refinement`, `Spec => Promise!Spec`: an accepting step is an `Award`, the report is `Conclude`, the rest stutter.
  `RefundsCountOnce` adds `SumInv`: the total is the sum of the fees over the requests that have a refund time, which a
  refund that repeats another's request does not change.
- **PayoutProofs.** `Inv` is `TypeOK`, `AllOrNothing`, `EarlierForwardWins` and that candidates are tried in order.
  `AllOrNothing` needs types for the stamps' ids, and `EarlierForwardWins` needs both the order and the fact that
  a stamp's forward was tried. From it: `WholeForwards`, `EarlierWins`, `HonestStates`. `VerdictsOfSpec` rests on
  `ForwardsAgree`: the runs the code counts are the only splitting SPEC.md 10.4 can mean, for any number of inputs.
  `PoolCountsOnce`: each accepted transaction is in the total once, however many exits it pays.
- **ZcashProofs.** A block is *fixed* if it was final when the read started (`Fixed`, from the tip then) and *deep* if it
  is final now. `NodeSteps`: a step of the node keeps all but the last `MaxReorg` blocks and makes the chain longer,
  so by `MaxReorg < Confirmations` it touches neither kind (`Settled`) and a deep block stays deep. `Inv` says that the
  blocks kept agree with the chain where they are fixed (`BlocksTrue`: a kept block that is not may be stale, which is
  what *stale_block* shows), that an entry is true if its transaction was fixed (`OutTrue`) and final only if its
  block is deep (`FinalStays`), the same of the transaction a call is in progress for (`CurrentTrue`), and that what
  has to be found is found or still to be read (`Listed`, `Found`). For the payouts, a key's scan ends at a
  batch with nothing fixed in it (`KeyDone`), which is the gap of `PayoutsRead`. From it `ReaderTypes`, `FinalHolds`,
  `StampsFound` and `PayoutsFound`, for any number of calls and steps of the node in between.
- **SolanaProofs.** The read: `ReadInv` says that while pages are listed the signatures kept are those of every success
  from the cursor to where the listing began (`Listing`), whatever has arrived above, and that afterwards the successes
  are split without repetition between what was found, what could not be read and what is still to fetch
  (`Fetching`). From it `SolanaTyped` and `SolanaReadOnce`, for any page size and history. The classification: the code
  keeps a stack, SPEC.md speaks of the program that is executing. `Stacked` relates them: the stack is the programs of
  the lines that have started and not ended, oldest first, and each of these lines has as many ends still to come
  before its own as there are lines above it; every line keeps it (`StackedStep`), so the top is what is running
  (`TopIsRunning`) and the events read are those the program emitted (`EventsAre`). The fee: an entry counts for the day
  exactly if it is in force at some moment of it (`InForceThatDay`), so comparing with the least is SPEC.md's "any
  moment" (`EnoughIs`). `SolanaClassified` puts these together for requests, refunds and exits, with what
  the code counts beyond SPEC.md stated as `FeeAlone` and `RefundAlone`. Its hypothesis
  `PlainLogs`, that no program's own text is worded like a line of the runtime, is what *solana_talk* shows to be
  needed; the logs of *solana_read* satisfy it.
- **SystemProofs.** First, what the rules of `StampRules` come to here: `StampIff`, the stamp of a request in a run is the
  lowest of its transactions that are final and not later than a refund the run has read. `Settled` is what must
  be true of a stamp for it to be found by every later run: final, in time whether or not the run knew of the refund, and below
  every other that is in time. The step that needs an argument is `Conclude`: the run read the refunds before it read
  Zcash. `RefundKnown` is that argument: a refund made since was of a request without a mined stamp (`ReadInv`), so
  a stamp of it is younger than the run and, by `RunBlocks < Confirmations`, not final. So what a complete run finds is
  settled (`FoundIsSettled`), what is settled is found again (`SettledIsFound`), and no step of the world unsettles it.
  From it `Agreement`, `LateStamps` and `TypesKept`.
- **StamperProofs.** Three parts, of `KeyFile`, of `Build` and of `Stamper` over both.
  The key files: `KeyInv` is the types with `Owned` (a run's key is only in files of its command), `Progress` (the
  files before the one it is at hold its key whole, all of them once it prints), `ShownKept` (an address printed is of a
  key in its file) and `AllFilesKept`. The last two alone are not inductive: the step that prints needs `Progress`,
  and the step that begins needs `Owned`, since nothing may hold its key yet. What every step keeps is `KeysStay`: a
  file that holds a key goes on holding it. From it `NoneMissing`, and `Refinement`, `KeySpec => Promise!Spec`: the
  write that completes the text is `Keep`, `Show` and `ReadBack` are `Show`, the rest stutter.
  The arithmetic: `BuildInv` says a result is the outcome of the checks and of the arithmetic on the request.
  `AmountsAreWords` is the type of the result, sums that wrap included. The other four theorems then are arithmetic:
  `FitsExact` turns amounts modulo `Word` into exact ones, `ChangeCosts` bounds what a change output adds.
  The tool: `StamperInv` carries `KeyInv` and `BuildInv` into the composition and adds that the key loaded is
  still in its file and that the transaction is that key's, signed over what the request stated. `NothingMisspent`:
  in a mined transaction the node's digest equals the signed one, and digests are injective (`SignatureBinds`), so
  every coin was the signer's and worth what was stated. `MinedIsPrinted` adds the money: the stated sums are then the
  real ones and below the word, so the fee the tool printed, computed modulo `Word` from what its caller said
  (`WrapsOnce`, `CoveredFee`), is the fee paid. `StamperLosesNothing` and `StamperKeepsKeys` carry the parts' theorems
  over to the whole.
- **CheckProofs.** The formats first. `RecordV3RoundTrip`, `RecordV2RoundTrip`: what is written is read back.
  `ReadersAgree`: the Rust and the TypeScript reader give the same hashes for every OP_RETURN of any push, and read
  only what `record_v3_script` writes, so that no two scripts are the same record. `StampReceiptRoundTrip`,
  `PayoutReceiptRoundTrip`: so are receipts, which takes that the calendar's two directions are inverse on every
  day from the first year to 9999. Then the shapes: what the checker takes as a stamp the ledger's rules take
  (`StampTaken`, `PayoutTaken`), each side reading with its own reader. `CheckInv` says of each point of the command what
  is known there, of the bytes, the values, the note and Solana, with the answer's reason at the end. From it
  `CheckTypeCorrect`, `CheckRulesAgree` (one way: what the checker accepts the ledger does), `CheckUnforged`, `CheckReceiptIsTrue` and `CheckVouchedFor`: in the last three the
  bytes and values came from an untrusted node, and it is the agreement of the signatures' digests with the txid that
  makes them the transaction's own. Conversely `CheckGenuineAccepted`: a wallet's proof of its own stamp meets no
  refusal; and `CheckBuiltAccepted`, that what `build_private` makes is such a stamp, by way of the fee, change,
  record, note and receipt it writes.

Only model-checked: liveness (`ReadEnds` of both readers), for which this prover has no rules over `ENABLED`, and the
five properties TLC refutes. No module declares a RECURSIVE operator; functions and sums that are recursive are reasoned
about through least counterexamples.

## What is not modelled

- The byte parsers of `verifier/src/zcash/tx.ts`, version 1 records, base58, bech32m, F4Jumble and amount formatting
  are pure functions with shared test vectors; the models take what they return. A memo's lines are values, not
  characters, and the names of exits (`hood:0x..`) are names.
- Cryptography: signing, sealing, note commitments and key derivation are what they bind (equality), and a seal
  opens or does not.
- `cli.ts`'s options and printing, `checkParams` (its refusals are the named assumptions), and the command-line
  tools' reading of files other than key files.
- What a loss of power leaves of a key file: `write_new` does not flush the file to the disk before the address is
  printed (`key.rs:41-43`), so the promise of `KeyPromise` is one about killed processes, not about the machine.
- A key file that the operator removes or replaces by hand, and whether the network named is that of the node.

## Plan

Done, in this order: the stamp ledger with its promise and proofs, the payout ledger with proofs, the Zcash
reader, the system, the builder with proofs, the Solana reader and classifier, proofs and check-proof with the
private builder, the scan of order addresses, the receipts; then the key files with their promise and proofs, the
transactions and records with proofs, the signing tool over both with proofs, the offline check, and proofs over the
Zcash reader and over the system; then the counting lemmas, and with them the totals of both ledgers, the runs of
a forward, what is mined of a signed transaction, the receipts' calendar, all of check-proof, and the Solana reader and
classifier.

What could come next:

1. `StampSystem` with the Zcash side read call by call: `VerdictsAgree` from what `ZcashProofs` proves of a read, in
   place of an atomic one.
2. `OrderScan` with an exit key whose period starts above the tip, and the two payout readings of one run composed
   with `PayoutLedger`.
3. An abstract specification of a read (a snapshot of what was final when it began, with what was out of reach), which
   `ZcashRead` and `SolanaRead` both implement.
