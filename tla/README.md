# Formal models of computermoney (`cm`)

`cm` is a Bitcoin wallet for agents: a command line, an MCP server and a seller
daemon around one append-only, signed ledger file per wallet. This directory holds
TLA+ models of its core, TLC configurations that check them on small instances,
and TLAPS proofs, for every instance, of all safety properties the passing runs check.

All source paths below are relative to the repository (`src/ledger.rs` and so on);
`PROJECT.json` maps every definition to the lines it models.

## 1. Inventory

| Component | State it keeps | Operations | Correct when |
|---|---|---|---|
| `ledger.rs` | the entries in memory, `ledger.jsonl`, the sidecars `pending/<txid>.tx` | `append`, `record_*`, `update_status`, sidecar files, the folds (`latest_status`, `pending`, `sp_utxos`, `spent_since`, ...), `reconcile` | the book is true to the money: nothing moves unrecorded, no refund of moved money, Final only at 3 confirmations, every payment settles |
| `pay.rs` | none | `send`, `sp_send`, `send_spending_sp`: build, sidecar, Pending entry, broadcast | a crash between two steps loses nothing and pays nothing twice |
| `chain.rs` | none (esplora) | `confirmations`, `broadcast`, `rebroadcast_hex`, `deposits_to`, `build_signed*` | "dead" is only said of what cannot confirm |
| `scan.rs` | `scan.json`, `SCAN_LOCK` | `scan_to_tip`, `track_spends`, `tx_pays_me`, `anchor_birth` | silent-payment income is booked exactly once and becomes spendable |
| `serve.rs` | one opened ledger, one UDP socket, timers | `run`, `chain_watch`, `scan_fresh` | deposits are booked, buyers are answered |
| `protocol.rs`, `net.rs` | the session's index and address | `Receiver::handle`, `run_receiver`, `run_payer` | a fresh address per request, nothing credited on a claim |
| `tunnel.rs` | a WireGuard session | `connect`, `accept_any`, `recv`, `pay` | stray datagrams harm nobody |
| `policy.rs` | `policy.json` | `check_amount`, `check_address`, fee cap, `ensure_mainnet_capped` | no payment outside the limits on any path |
| `paywall.rs` | price, set of redeemed header texts | `handle`, `verify_payment` | one txid buys once, for the price |
| `fetch.rs` | one fetch | first GET, pay, paid retries | who pays gets the body |
| `mcp.rs`, `main.rs` | the unlocked wallet, `SERVING` and `PAYWALL` | `send_payment`, `pay_peer`, `sp_pay`, setup, serve, publish, paywall, reports | one command pays once and reports its own payment; one daemon for each wallet; flags true to their threads |
| `storage.rs` | identity directories, seed files, the `default` marker, the lock file | `save_new_wallet`, `pick_identity`, `load_wallet`, `lock_dir` | one environment always finds the same wallet, whose words were shown |
| `wallet.rs` | none | seed to keys and identity | an identity is a seed on a network |
| `sp.rs` | none | codes, one-time keys of the sender, search of the receiver | what is paid is found, what is found can be spent |
| `discover.rs` | the card on the DHT | `publish`, `resolve` | the card of a running seller says where to dial |

How they interact. Every process opens the ledger file itself and works on the copy
in its memory; `append` adds a line to the shared file and to that copy only. `cm
serve` keeps one copy for its whole life, a command a copy for one run. The wallet
lock (`storage::lock_dir`) is taken by `serve::run` alone, so commands and MCP calls
write beside the daemon. In the MCP server the daemon, the paywall and the tool
calls are threads of one process; `SCAN_LOCK` serialises their scans. Buyers and
sellers meet over a lossy UDP socket shared by all buyers, over HTTP, and through
the chain, which both see through esplora with a delay.

What is hard here: crashes between two durable steps, copies of the ledger that are
old when they are used, a count or a total read before a network call and used after
it, lost, early or untrue messages, retries of what was already done, replaced
blocks and forgotten transactions, sums at the edge of 64 bits, a secret that two
parties derive from different views of one transaction, and a store that several
processes create and load at the same time. The hazards in
`PROJECT.json` list them line by line.

## 2. Modules

| Module | Models | State | Interleaving |
|---|---|---|---|
| `Ledger` | entries and folds of `ledger.rs`, as operators on sequences | none | none |
| `Payment` | abstract: what is promised about each payment | `book`, `money` | |
| `SendPath` | `pay::send`, `ledger::reconcile`, sidecars, the network | `disk`, `sidecars`, `net`, per process `mem`, `pc`, ... | every file or network access is a step; any number of processes and daemons |
| `SpScan` | `scan_to_tip`, `SCAN_LOCK`, `chain_watch`'s scan, the reports | `disk`, `checkpoint`, `lock`, blocks, per thread `led`, `mem`, `pc` | threads of processes |
| `Receive` | `serve::run`, `FramedTunnel`, `run_receiver`, `run_payer`, `chain_watch` with its deposits and its scan | `disk`, `led`, the session, socket buffers, buyers, their transactions | one daemon with two ledgers, several buyers, chain |
| `Paywall` | `paywall.rs` and `fetch.rs` | `used`, price, backlog, per buyer state | one seller that handles one request at a time, several buyers and other clients, esplora |
| `Spend` | the policy, its call sites, the endpoint loop, the read-back | `policy`, `clock`, `disk`, `moved`, per payer `mem`, `pc` | several payers |
| `SilentPay` | `sp.rs`, `tx_matches` and `input_pubkey` of `scan.rs`, the input secrets of `chain.rs`, as operators over the integers modulo a prime | none | none |
| `CoinSelect` | `select_largest_first`, `recommended_feerate` of `chain.rs`, as operators | none | none |
| `SilentSend` | `pay::sp_send` up to the signed transaction, the payee's scan of it, other wallets' transactions | payee, coins, transaction, what is found | one payment |
| `SpSpend` | `send_spending_sp`, `sp_send` from the signed transaction on, `record_sp_spent`, `reconcile`, `track_spends` | `disk`, `sidecars`, inputs, `net`, per process `mem`, `pc`, `todo` | several processes, chain |
| `WalletStore` | `storage.rs`, setup, the MCP session with cm_serve and cm_paywall, `cm serve`, `cm publish` | `dirs`, `seedfile`, `marker`, `lock`, `card`, per process `pc`, `wallet`, flags, `daemon` | sessions and shells; every file access of a setup is a step |
| `LedgerProofs` | lemmas on the folds of `Ledger`, induction and sums | | |
| `SendPathProofs`, `ReceiveProofs`, `WalletStoreProofs`, `SpScanProofs`, `SpSpendProofs`, `SpendProofs`, `SilentSendProofs` | theorems about the module of that name; `WalletStoreProofs` also holds those about `Paywall` | | |
| `MC*` | instances for TLC (symmetry, sets of outputs and policies) | | |

Correspondence. A module's `pc` holds the place in the function a process executes;
an action is the code from one access of something shared to the next, and has the
name of the Rust function (or of the call) it stands for. `disk` is the ledger file,
`mem` or `led` an opened `Ledger`. Each `?` of the code is either an error action
(`pass_error`, `scan_error`, `session_error`, ...) or a crash, with the same effect
on files: both stop where they are. `SendPath!Block`, `Evict`, `Reorg` and `Deliver`
are the Bitcoin network as `chain.rs` sees it; a transaction is its txid and the
output it spends, which may be another payment's change.

`SendPath` shows the inside of `pay::send`; `Spend` shows the gates before it and
takes the entry and the broadcast as one step each; `Receive` and `Paywall` show the
two ways a seller is paid and take the payer's send as one step. `SpScan` shows what
happens to income that no address announces, and takes as given which outputs match;
`SilentSend` shows why they do. `SpSpend` shows what becomes of income when it is
spent: it extends the picture of `SendPath` by several inputs and by the `SpSpent`
entries, and takes the steps of one reconciled txid together. `WalletStore` shows how
a process gets its wallet and who may run a daemon on it, which the other modules
assume. All of them but `Paywall`, `Spend`, `SilentSend` and `WalletStore` use the
folds of `Ledger`.

In `SilentPay` the point `s*G` is the number `s` modulo a prime `Q`, so that sums,
products and negation are those of the curve's group; one of a point and its negative
is even, and an x-only key is its even point. The hashes are constants: any function
into the scalars. Sender and receiver are translated separately, from `sp.rs` and
`chain.rs` and from `scan.rs`, and meet only in the transaction. Other wallets'
transactions (`foreign_tx`) are built from the rules of BIP-352 and not from the code:
which inputs count (`Eligible`: P2PKH, P2SH-P2WPKH, P2WPKH, Taproot key paths, and script
paths unless the internal key is the NUMS point), the sum of their keys, and the one-time keys.
The scanner reads fewer of them. `scan.rs:13-16` says that P2PKH and P2SH-P2WPKH inputs are
skipped and that a payment which mixes them in is mis-scanned; Taproot script paths are
skipped too, which it does not say. `PaymentArrives` therefore excludes transactions with
an input of these kinds (`Mixed`), and for the others the foreign transactions are the
reference definition for the receiver.

`Receive` has the daemon's two ledgers: the one it keeps (`led`), and the one `scan_fresh` opens
for each scan, whose entries reach the file and not `led`; a restart reads them. Its entries may
then repeat a `seq`, as with two processes. Its chain only grows; replaced blocks are in
`SendPath` and `SpScan`. Address 0, which `cm_setup` and `cm_address` show without a ledger
entry (`mcp.rs:469`, `mcp.rs:521-523`), is handed out by the daemon too; `NoAddressReuse` is about
the addresses the daemon hands out.

In `Paywall` the X-Payment header is a text: the digits of a txid in lower or in upper case,
both of which `is_txid` takes and esplora understands. `used` holds texts, as the code does.
Other clients may present the txid of any payment at any time (`other_get`), also before the
payer's own GETs are answered: the race-claim that `paywall.rs:11-13` documents.

`Payment` is the abstract specification: a payment is booked before its money moves,
Failed is booked only for money at home and holds it there, Final only for buried
money, and both are the last word. `SendPath` implements it with `book` the effective
status in the file and `money` the place of the transaction (`ImplementsPayment`).

## 3. Runs

| Run | Instance | Checks |
|---|---|---|
| `send_single` | 1 process, 3 transactions, 1 coin, 2 faults | types, `WriteAhead`, `Recoverable`, `FailedNeverMoved`, `BookedIsConfirmed`, `SeqIncreases`, `TerminalForever`, refinement of `Payment` |
| `send_adverse` | 1 process, 2 transactions, 1 fault, 1 reorganisation (it lowers every confirmed transaction), hidden mempools, fair | `FinalIsBuried`, `Settles` |
| `scan_shared` | the WATCH tick and a report in one process | `NoDoubleBooking`, `IncomeBooked` |
| `scan_alone` | a report run again and again, 3 outputs (one dust), 1 error, 1 crash, 1 replaced block, fair | types, `NoDoubleBooking`, `IncomeBooked`, `SpendableIsFinal`, `IncomeFinal`, `SpendNoticed` |
| `receive` | 2 buyers, 2 lost datagrams or failed queries, 1 crash | types, `NoAddressReuse`, `ReceivedIsReal`, `DeliveryGate` |
| `receive_income` | 1 buyer, 1 silent payment, 1 lost datagram or failed query, 1 crash, fair | `DeliveryGate`, `PaymentBooked` |
| `paywall` | 2 buyers, 2 prices, 1 fault or restart, a GET of another client, fair | types, `OneBuyPerClaim`, `SoldForThePrice`, `PaidGetsBody` |
| `spend_single` | 1 payer, 3 commands, 8 policies, 2 endpoints, 8-valued words | types, `PolicyHolds`, `DailyCap` |
| `silent_send` | Q = 1009, 3 coins, 2 received outputs, 7 amounts, 3 fee answers, 2 payees, foreign transactions of up to 3 inputs of all kinds BIP-352 tells apart | types, `PaymentArrives`, `FoundIsSpendable`, `SelectionSolvent` |
| `sp_spend` | 2 processes, 2 transactions, 2 received outputs, 1 coin, 1 fault | types, `SpBooksMatchChain` |
| `wallet_store` | an MCP session and 3 shells with 3 environments, 2 new seeds, 1 crash | types, `DaemonsApart`, `OneIdentity` |

`receive_books` (`MCReceive`) checks `PaymentBooked` also for two buyers and a crash; it passes
in about three minutes.

One run shows a disagreement between the code and what it says of itself (`findings` in
`PROJECT.json` quote it): `spend_retry` (`MCSpend`) violates `PaidOnce`. An error after the
payment was booked or sent moves the endpoint loop on, and the next endpoint is paid too.

The following configurations are counterexamples as well; most mark the edge of a
property that holds in a run above, and those with a quotation are also in `findings`
of `PROJECT.json`. They are run with `tlc -config X.cfg M`; those with two properties with
`-continue`, or with one property at a time.

| Configuration (module) | Violates | The edge it marks |
|---|---|---|
| `send_two_writers` (`MCSendPath`) | `Recoverable`, `SeqIncreases` | the daemon's sweep deletes the sidecar of a payment booked after it opened the ledger (`pay.rs:7-10`: "the sidecar lets reconcile rebroadcast it"); two entries get one `seq` (`ledger.rs:57` calls it monotonic) |
| `send_reopened` (`MCSendPath`) | `TerminalForever` | of two processes that reconcile one payment, the one with the older count writes last: Soft after Final (`ledger.rs:515`: "both terminal — off the work queue") |
| `send_hidden_mempool` (`MCSendPath`) | `FailedNeverMoved` | a miner that keeps what esplora has evicted confirms a payment already given back |
| `send_reorg` (`MCSendPath`) | `Recoverable` | the sidecar is gone after the first confirmation, which a replaced block takes back |
| `send_sidecar_leak` (`MCSendPath`) | `SidecarsCleaned` | a crash between the last status and `remove_sidecar` leaves the file for ever |
| `scan_serve_only` (`MCSpScan`) | `IncomeFinal` | the daemon never advances the income its own scanner books (`ledger.rs:340`: "a Pending entry the reconcile loop advances to Final") |
| `scan_stale_view` (`MCSpScan`) | `NoDoubleBooking`, `FinalForever` | the ledger is opened before the lock, and after a failed pass the waiting thread books again; a second output of a Final transaction, booked later, makes it Pending again |
| `receive_init_dropped` (`MCReceive`) | `InitAnswered` | an open session consumes and drops the next buyer's only initiation (`tunnel.rs:40-42`: "Our one initiation sits in the seller's socket buffer until it services it") |
| `paywall_two_cases` (`Paywall`) | `OneBuyPerTxid` | a txid buys once in lower and once more in upper case (`paywall.rs:128-129`: "one txid buys once") |
| `paywall_lost_reply` (`Paywall`) | `PaidGetsBodyAnyway` | a broken connection ends a paid fetch (`docs/mcp-usage.md:29`: "the URL is retried until the content comes back") |
| `spend_pair` (`MCSpend`) | `ReportedIsOwn` | with two payers the newest Sent entry that cm_pay reads back is the other one's (`mcp.rs:920-921`: "read the newest one back for its txid") |
| `spend_pair_cap` (`MCSpend`) | `DailyCap` | two processes read the day's total before either books |
| `silent_testnet` (`MCSilentSend`) | `CodeAccepted` | a testnet wallet refuses testnet codes (`sp.rs:75`: signet is "cm's only non-mainnet network") |
| `sp_evicted` (`MCSpSpend`) | `GivenBack` | the income consumed by a payment that is evicted and found dead stays written off (`ledger.rs:34`: "A Failed send never moved money") |
| `wallet_race` (`MCWalletStore`) | `OneIdentity`, `CardKeepsEndpoint` | two setups at once: one shows its words next to the other's address; cm_setup replaces the card of a running seller by one without endpoint (`mcp.rs:177`: "it just reports it") |
| `wallet_wedged` (`MCWalletStore`) | `NotWedged`, `BackupIsRight` | a setup that dies after making the directory can never be repeated (`storage.rs:310`: "recreate it with `cm setup`"); with CM_MNEMONIC set, setup shows the words of a new wallet and the address of another (`mcp.rs:462`: "the only recovery") |
| `wallet_testnets` (`MCWalletStore`) | `NetworksApart` | testnet and signet share an identity directory (`storage.rs:328`: "this wallet belongs to a different network") |

## 4. Bounds

* Transactions: three over one coin are the least number with a conflict and a chain
  of unconfirmed change at once (`a` and `b` spend the coin, `c` spends `a`'s change).
  Two are enough for liveness and for hidden mempools, which need a conflict only, and
  for `SpSpend`, whose transactions conflict in income, in the coin or in both.
* Confirmations stop at `MaxConfs`, 3 and one more for each reorganisation:
  `from_confirmations` does not tell higher counts apart, and no run of replaced blocks
  takes such a count below 3. A reorganisation takes one confirmation off every
  confirmed transaction, one with three included.
* `MaxFaults`, `MaxErrors`, `MaxCrashes`, `MaxReorgs` bound what goes wrong; one or
  two suffice to hit each step and, for two, the recovery itself.
* `SpScan`: `MaxHeight` 4 leaves income of block 2 room to become Final and income is
  not mined where it could not; two outputs of one transaction and a dust output are
  the shapes the code tells apart (330 sats is the code's `DUST_FLOOR`).
  `START_LOOKBACK` is 1 instead of 144, so that the lookback can miss income.
* `Receive`: two buyers make every ordering of sessions; a Notify may name either one's
  transaction. Budgets and session time-outs may run out at any moment at which the
  socket holds nothing to read, so a late Notify, a payment after its session and an
  address that arrives too late all occur.
* `Paywall`: `RETRIES` 2 instead of 5, so that the first paid GET can
  be early and the second one the last. `MaxFaults` 1 counts broken connections, failed
  lookups and broadcasts, and restarts together. `MaxOthers` 1: one other client presents a txid, in
  either hex case and at any moment, also before the payer does. `Prompt` assumes that a payment shows on esplora
  before the last retry; the code gives it five attempts two seconds apart, and a slower
  esplora leaves the buyer without the body.
* `Spend`: `Word` 8 stands for 2^64, so that 7 + 1 wraps; amounts 1, 2 and 7 are below,
  at and far above the caps; `Window` 1 and three clock values let payments leave the
  window. `max_fee`, `max_payment` and `daily_limit` are each set or absent.
* `SilentSend`: the prime is large enough for the chosen keys and tweaks to be of both
  parities and for no accidental match; two keys cancel, and two received outputs
  cancel with a coin, so that the errors of the library happen. `PaymentArrives` excludes
  transactions whose keys cancel (`Cancelled`), which on the curve happen only by design,
  and coincidences of hashes (`Coincidence`): an output for somebody else that holds one of
  the payee's one-time keys, or no key where the search ends. With 256 bits neither is met;
  with arbitrary hash functions into a small field both are possible, and then the scanner
  does find too much or too little. Two coins of equal worth leave the order of selection
  open. Amounts lie below, at and above `SP_MIN_SATS` and above all funds; `MaxU64` is
  an amount whose target saturates; a fee answer above the cap is among `MCEstimates`. Three
  outpoints for three foreign inputs give every order of the smallest one.
* `SpSpend`: entries carry `seq` 0 (`SendPath` has the numbers), a transaction is buried in
  one step, evictions are in `EvictSpec` only. What is spendable at the start is Final.
* `WalletStore`: two new seeds are enough for a second wallet, which a correct setup never
  makes; setups run one at a time (`ParallelSetups` FALSE) but beside every other operation.
  The environments differ in passphrase, network, `CM_ID` (one that matches two identities)
  and `CM_MNEMONIC`; a process keeps its environment.

## 5. Fairness

* `SendPath`: a begun operation goes on (weak fairness of its own steps); an opened
  ledger is reconciled again and again (strong fairness: the daemon's WATCH timer,
  `cm balance` and MCP calls; sends may come in between); blocks are found, and a
  transaction that returns to the mempool again and again is mined some day (strong
  fairness, because esplora may evict it in between). Faults are bounded, nobody has
  to send. `Settles` promises nothing once a block was replaced: a Soft payment has lost
  its sidecar, and if it does not come back nothing can rebroadcast it or call it dead.
* `SpScan`: threads go on, a waiting thread gets the lock (`std::sync::Mutex` blocks
  until it does), reports that reconcile are run now and then, blocks are found.
* `Receive`: the daemon's loop goes on and is restarted, and transactions confirm.
  Buyers may stop anywhere. WATCH needs no fairness of its own: the timers are looked
  at whenever the socket is quiet, and the buyers are finitely many. With an endless
  stream of buyers the drain loop of `serve::run` could put WATCH off for ever; the
  model does not claim otherwise.
* `Paywall`: the seller's loop and a begun fetch go on, a broadcast transaction
  reaches esplora.

## 6. What is proved

Each theorem holds for every value of the constants: any number of processes, buyers,
payers, transactions, outputs, prices and policies, any bounds on faults and time. The
constants only have to satisfy the named `ConstAssumption` of their module: kinds of
values do not overlap (a buyer is no number, a txid no output, `NoTx` no transaction,
`MaxHeight` is not 0, `Word` is not 0). Those of `SilentSend` are in three parts:
`FieldAssumption` (`Q` is a prime above 2, the hashes are functions into the nonzero scalars),
`WalletAssumption` (an outpoint names one coin or one received output, its key exists, all of
them together are worth less than 64 bits hold) and `InputAssumption` (amounts and rates are
numbers, foreign inputs are well formed). Where a theorem needs more, it has an `ASSUME` of its own; a
configuration of section 3 then shows that the assumption is needed. The proofs have one
shape: a type invariant `TypeInv` (types, and the few facts the types rest on), an inductive
invariant checked by TLC first, one step per action, and a last step that combines
`Init`, the step and the property with `PTL`. Where many actions do the same to one
part of the state, a lemma says what a step writes (`WriteStep`, `EntryWritten`) or
what it does to one process (`ProcStep`, `PayerStep`), and the invariants are
proved from it.

`LedgerProofs`: what an appended entry does to `latest_status`, `recorded`, `pending`,
`has_sp_output`, `sp_spent_set`, to increasing numbers and to outpoints booked once. A
maximum of a set of positions (`LastPosition`) comes from the well-foundedness of `<`.
The library's induction theorems have an operator as parameter, which the installed provers
do not instantiate; `Induct` states induction for a set of numbers instead, and each use
names the set of the numbers for which its claim holds. From it follow the existence of the
function that the fold of `MapThenSumSet` iterates (`SumExists`), that its value does not
depend on the order of summation (`SumFacts`), that a part is not above the whole (`SumMono`) and
that equal terms give equal sums (`SumSame`).

`SendPathProofs`:

* `TypeCorrect`, and `WriteAheadHolds` without further assumptions. `WriteAhead` is not
  inductive by itself: a step that broadcasts must know that its entry is durable.
  `WriteAheadInv` adds that a process about to broadcast and every txid in a process's
  memory, queue or rebroadcast step is in `recorded(disk)`.
* `FinalIsBuriedHolds`, without further assumptions. `GateInv`: a count that a pass has
  read, and the count behind each Final of the file, is above the chain's by no more than
  the blocks replaced since.
* `SeqIncreasesHolds`, `TerminalForeverHolds`, under `OneWriter` (one process at a time,
  which the wallet lock is meant to give; `send_two_writers` and `send_reopened` show the need). `ViewInv`: the process's memory is the file,
  what it has queued or works on is not terminal, what it has signed is not booked.
* `RecoverableHolds`, `FailedNeverMovedHolds`, `BookedIsConfirmedHolds` under
  `SingleWriter` (one process, no reorganisation, no hidden mempool). The invariant is
  `RecoveryInv`: `WriteAheadInv`; `WriterInv`, what the writer knows at each step (its
  memory is the file, the count it has read is not above the chain's, what it is about to
  call dead is not known to the network, what it sweeps is not recorded); and `BookInv`,
  with a stronger form of `Recoverable`: a recorded payment that is neither terminal nor
  confirmed has its sidecar, known to the network or not, because an eviction may come at
  any time.
* `ImplementsPaymentHolds` under `SingleWriter`: the refinement of `Payment`, step by step
  from the same invariant.

`ReceiveProofs`, without further assumptions: `ReceiveTypeCorrect`, `ReceivedIsRealHolds`,
`DeliveryGateHolds`, `NoAddressReuseHolds`. The type invariant already needs `PaidInv` (a
buyer pays nothing before it is told an address, and only there) and `NumberInv` (the index
of an entry is below its position, and a session's counter above all indexes in the file,
so that `next_address_index` finds a maximum). For the addresses, `ReuseInv`: every index a
buyer knows or will still read from its socket is in the file, no two buyers share one, and
an index between the durable entry and the answer is known to nobody.

`Paywall`, without further assumptions: `PaywallTypeCorrect`, `OneBuyPerClaimHolds`,
`SoldForThePriceHolds`. They are the last section of `WalletStoreProofs`,
which extends both modules (a `cm` wallet has both daemons); the definitions of `Paywall` have
names of their own for that, `PaywallSpec`, `PaywallTypeOK` and so on. `RedeemInv`: a text that
was sold is in the set, and the one being looked up is not; `FetchInv`: what a fetch has done
by the time it is somewhere.

`WalletStoreProofs`: `WalletStoreTypeCorrect` and `DaemonsApartHolds` without further
assumptions (`LockInv`: a directory's lock is held just by the daemon that works on it);
`OneIdentityHolds` under `Sequential` (setups do not overlap). `IdentityInv`: at most one
generated wallet exists, whatever died on the way to it, and a load without `CM_MNEMONIC`
can give nothing else.

`SpScanProofs`:

* `SpScanTypeCorrect`, `SpendableIsFinalHolds` (`FinalInv`: the same of every txid the file
  calls Final, spent or not) and `IncomeBookedHolds`, without further assumptions. For the
  last, `ViewInv` (what a pass believes booked is booked) and `WalkInv` (a pass never goes
  beyond the chain, and what is due below its next block is booked or still to be looked at).
* `NoDoubleBookingAlone` under `OneScanner` (one thread; failures, crashes and replaced blocks
  are allowed): its view is the file.
* `NoDoubleBookingShared` under `SharedLock` (any number of threads of one process; no failed
  pass, no replaced block; an outpoint names one output). `SharedInv`: a booked output is
  at or below the checkpoint, or the pass under way has dealt with it, or every open ledger
  shows it. This is why it does no harm that a ledger is opened before the lock is waited
  for: what the thread does not see lies below the checkpoint it reads under the lock.

`SpSpendProofs`, for `Spec` (a mempool that forgets nothing), without further assumptions:
`SpSpendTypeCorrect` and `SpBooksMatchChainHolds`. Already the types need that the income
stays Final, or reconcile would queue it. `SpendInv` adds: a view is a part of the file
(`ViewInv`); a send has all its inputs still to book until its broadcast (`SendInv`); only
what is in the file reaches the network (`ChainInv`); what is booked as spent is spent
(`SpentInv`); a Failed send can never be accepted again, because what it conflicts with is
never forgotten (`DeadInv`, where `sp_evicted` has its counterexample); and each output a
recorded send consumes is booked, or carried by the send that will book it, or the send was
cut short (`FreeInv`). A send is cut short (`cut`) when its command ends with an error between its
entry and its last booking. That takes no fault: when another process has rebroadcast
the entry first, esplora answers "already known" or "already in block chain", which
`reconcile` takes for success and `chain::broadcast` for an error.

`SpendProofs`:

* `SpendTypeCorrect` and `PolicyAlwaysHolds`, without further assumptions. `GateInv`: what
  the gates that a payer has passed have established still holds at the entry; a retry on the next
  endpoint starts before the first gate, and the address a peer tells comes before
  `check_address`.
* `PaidOnceHolds` under `OneEndpoint`, and `DirectPaidOnceHolds` without it: the loop over
  further endpoints is the only way for one command to be booked twice. `OnceInv`: numbers
  of commands are new, a payer before its entry has none in the file, and a command with
  one endpoint has no retry left.
* `DailyCapHolds` under `OnePayer` and `NoWrap` (a daily limit and an amount that the wallet can
  pay add up without overflow; `spend_pair_cap` shows the need of the first, and `check_amount`
  adds with the machine's wrapping `+`, hence the second). `CapInv`: from `check_amount` on until
  the entry is written the day has room for the amount, for every later cutoff too, since
  a later window holds a part of the same entries. An amount above the funds may wrap and
  pass the gate; it gets no further than the build.

`SilentSendProofs`: `SendTypeCorrect`, `SelectionSolventHolds`, `FoundIsSpendableHolds` and
`PaymentArrivesHolds`, without further assumptions, for any prime, any hash functions, coins,
amounts, fee answers, payees and foreign transactions.

* `SelectionSolvent` needs no invariant: it is about one send. The first `k` of the coins in
  order of worth are worth no less than any `k` coins (`Greedy`, by replacing one coin of
  the other set at a time), `select_largest_first` stops at the least `k` that reaches its target
  (`SelectFacts`), and the target covers the fee that bdk computes for that many
  inputs and a change output (`FeeCovered`, `TargetCovered`).
* `SendInv` is the invariant for the others: types, `Built` (every transaction the payee meets
  has the payments `paid`, which hold the one-time keys `0 .. n - 1` of its inputs, one each),
  nothing is found before the scan, and the two properties. That `Built` holds of the code's
  own transaction is `SendBuilt`, and of a BIP-352 transaction `ForeignBuilt`; that it says what
  the scanner computes needs that the transaction is not `Mixed`.
* Both sides derive one secret (`SharedSecret`): the sum of keys does not depend on the order bdk
  shuffled the inputs into (`KeySumFacts`), the key the scanner takes from an input is the
  even point of the signer (`SameKey`, `SameKeys`), the input without a key counts on neither
  side (`SublistFacts`), and products commute (`ModTimes`, `TimesSwap`). That a product of two scalars
  is a scalar, so that none of the steps fails, is Euclid's lemma (`Euclid`).
* The search of the receiver (`receive_loop`) goes on as long as it finds a key, so it stops early
  at a gap; `LoopExact` shows by counting that with the keys `0 .. n - 1` present and the
  next one absent it takes just the payments.

## 7. What is only model-checked

* Liveness (`Settles`, `IncomeFinal`, `SpendNoticed`, `PaymentBooked`, `PaidGetsBody`): it rests on
  fairness and `ENABLED`, which are out of the prover's reach.
* The configurations that show a counterexample: each is a behaviour of one instance.
* `OneBuyPerTxid`, `ReportedIsOwn`, and `TerminalForever` with two processes do not hold (`paywall_two_cases`,
  `spend_pair`, `send_reopened`).
* `NoDoubleBooking` with threads under one lock and a failed pass does not hold
  (`scan_stale_view`), and with a replaced block it is not claimed.

Every invariant and every action property of the passing runs, and the refinement of
`Payment`, is stated by a theorem of section 6.

## 8. Not modelled, and why

* Hashes, signatures, bech32m, the cipher of the seed file and WireGuard's Noise
  handshake: a hash is an arbitrary function, a signature names its key, and whether a
  datagram authenticates is given.
* Derivation paths of `wallet.rs`: a pure function; an address is its index, a secret a
  scalar.
* `discover::resolve` and the reach of a DHT record: queries without state of ours. A
  publication takes effect at once or not at all.
* Torn ledger writes: an `append` or a `scan.json` write is atomic in the models. The code
  refuses to open a ledger with a torn line and has no repair, so no behaviour follows.
* What a reply of cm_serve claims: it says "serving" before its thread has the lock; the
  model has the thread that dies afterwards, and no property about the reply's text.
* HTTP parsing, but for the text of the X-Payment header, which the set of redeemed payments
  stores as it was sent (`Paywall` has its two cases of hex digits); methods other than GET, a
  price of 0 on the command line, JSON-RPC, argument parsing and all other text: no state depends
  on them.
* `chain::confirmations` asks for the status and then for the tip height. The models take the two
  requests as one, as of the second; a block that arrives between them only raises the count
  to what it is then, and a transaction whose own block is replaced between them is read one
  step later than it was.
* A payer of another kind that settles two issued addresses with one transaction
  (`has_txid` tells deposits apart by txid only); `cm` itself never does.

## 9. Plan

Done: `Ledger`, `Payment`, `SendPath`, `SpScan`, `Receive`, `Paywall`, `Spend`, `SilentPay`,
`CoinSelect`, `SilentSend`, `SpSpend`, `WalletStore`; the proofs of section 6.

Left, in this order:

1. `SpSpend` with evictions: what of `SpendInv` survives in `EvictSpec`.
2. `Payment` for several processes: which of its promises the send path keeps without
   `SingleWriter`.
3. `Receive`: payers that settle two addresses with one transaction.
