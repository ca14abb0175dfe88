# Verification of cardano-api

TLA+ models of the parts of this repository whose correctness is hard to test,
the TLC runs that check them on small instances, and theorems about them that
TLAPS checks for every instance. Paths below are relative to the repository.

## The system

`cardano-api` is a NestJS service over four stores and services, each reached
through one provider:

| Store or service | Used for | Provider |
|---|---|---|
| PostgreSQL (db-sync), through `@tangocrypto/tango-ledger` | the Cardano ledger, read only | `TangoLedgerService` |
| ScyllaDB | accounts, applications, subscriptions, webhooks | `ScyllaService` and the mappers of `src/providers` |
| Redis | rate limit counters, metering | `ThrottlerStorageRedisService`, `Metering` |
| Ogmios, over HTTP | submitting and evaluating transactions | `OgmiosService` |

Every request passes two global guards and then one controller and service. Any
number of processes of the service run side by side; they share nothing but
the stores. Inside a process, handlers interleave at each `await`.

### Inventory

For each component: its state, its operations, what is hard about it, and what
makes it correct.

- **Coin selection** (`src/common/utils.ts` 29-86, 146-156, `src/models/Value.ts`).
  Works on a list of outputs of its caller's, which it sorts and empties, and
  calls itself once on what is left of it to top the change up. Hard: the
  nested call shares the list, its exception is swallowed, it brings assets
  that raise the very minimum it is to reach. Correct: value is conserved, the
  change is an output the ledger accepts, the limit on inputs holds, an error
  means that there was nothing left to help.
- **Guards** (`src/auth`, `throttler-storage-redis.service.ts`). State: the
  applications in ScyllaDB, one counter with a life per user in Redis.
  Operations: look up the application, count the request in one Lua script,
  compare. Hard: the limit belongs to an application and the counter to a user,
  keys expire, commands are repeated, Redis loses keys, applications change
  between the two guards. Correct: budgets per window, a counter always ends,
  nobody is counted for somebody else's application.
- **Lists by cursor** (`Utils.getUtxos`, `getAllUtxos`, and the same scheme in
  the services of addresses, assets, blocks, policies, pools, scripts, stakes and
  transactions). State: the cursor the client holds; and, unintended, the
  `lastIndex` of the one regular expression that decides in which form the name of
  an asset is shown (`utils.ts` 25), which every request of the process shares. Hard:
  the ledger moves between two pages, forwards and, in a rollback, backwards; some
  cursors hold a column that changes, or one that several rows share. Correct:
  nothing twice, nothing missed, a snapshot where the order allows one, one name for
  one asset.
- **Address and wallet coin selection** (`addresses.service.ts` 116-136,
  `stakes.service.ts` 54-82). Walks addresses and their outputs and calls coin
  selection on what it has so far. Hard: outputs of several addresses are read
  at different moments, failed tries are swallowed. Correct: no output counts twice,
  a refusal is genuine although no try saw the whole wallet at one moment.
- **Transaction building** (`transactions.service.ts` 135-321,
  `serialization.util.ts` 562-761, `multisig-transaction.ts`). Computes
  outputs, mint, burn, commission, change and fee, and adjusts the fee to the
  size of the transaction. Correct: inputs and mint equal outputs, burn and fee.
- **Submission and evaluation** (`transactions.service.ts` 124-133, 323-334,
  `ogmios.service.ts`). One call each, no retry, nothing remembered; a transaction
  that pays the commission gets the last of the server's witnesses only when it is
  submitted. Hard: an answer is lost and the client calls again; the chain's time
  runs between building and submitting. Correct: success is told only of what the
  chain has, an error of what it has only where an answer was lost or another call
  got it there.
- **Metering** (`src/providers/metering/metering.ts`, `metering.service.ts`).
  Counters and quotas in Redis hashes, a mempool ranking, confirmation queues,
  and the connection itself with two callback slots. Hard: several callers open or
  close at once, a reset against concurrent accounting, a price read long before the
  mint is counted, a queue emptied before its entries are parsed. Correct: who keeps a
  slot is called back, no counter loses a failure, no event goes to two
  processes.
- **Webhooks** (`src/webhooks`, `src/providers/webhooks`). State: the table
  `webhooks` in ScyllaDB. Conditional writes, each read back in a second query;
  partial updates through a mapper. Hard: clients of one account work on the same
  webhook, replicas lag, a write whose client was told of a timeout goes on. Correct:
  what is removed stays removed, what is acknowledged has happened, updates of
  different columns do not undo each other.
- **Accounts** (`src/providers/account`). Reads; one loop over pages, which nothing calls.
- **Native scripts and metadata** (`serialization.util.ts` 829-974, 1144-1332,
  `stakes.service.ts` 101-115). Recursive functions between JSON and
  the library's scripts and metadata, the keys made on the way, and the slot at which
  a script expires. Hard: the script goes through the client twice, and what it left
  out must come back the same; the transaction's time to live, keys, fee and witnesses
  come from four places. Correct: one policy from the first call to the mint, a
  transaction the ledger takes, metadata that says what was asked for.
- **Lookups, mappers, DTOs, bootstrap.** No state and no decisions.

`PROJECT.json` lists the hazards of this code, each at its line, with the
properties that cover it.

## Modules

| Module | What it is |
|---|---|
| `CoinSelection` | the state machine of `Utils.coinSelection` |
| `PlainSelection` | what a call on outputs without assets may answer: the abstract specification that `CoinSelection` implements and `WalletSelection` uses |
| `CoinSelectionProofs` | the theorems of `CoinSelection`, the implementation of `PlainSelection` among them |
| `MCCoinSelection` | outputs, requests and prices for TLC |
| `RateLimit` | the two guards, the script, Redis and the client's failures |
| `RateLimitProofs` | its theorems |
| `MCRateLimit` | users, applications and rates for TLC |
| `UtxoWalk` | a walk over the pages of an address's outputs, on a moving ledger |
| `OutputListing` | what a listing of an address's outputs promises: the abstract specification `UtxoWalk` implements |
| `Listing` | the twelve other lists by cursor, over a table that changes |
| `AssetNames` | the form in which names of assets are shown, and the state it depends on |
| `ListsProofs` | the theorems of `UtxoWalk`, `Listing` and `AssetNames` |
| `MCUtxoWalk` | outputs, rows and names for TLC; runs the three lists one at a time |
| `TxBuild` | the balance of a transaction: `buildTx`, the draft, the adjusted fee |
| `TransactionProofs` | the theorems of `TxBuild`, `Submission` and `Minting` |
| `MCTxBuild` | requests for TLC |
| `WalletSelection` | coin selection for an address and for a wallet, on a moving ledger |
| `WalletSelectionProofs` | its theorems |
| `MCWalletSelection` | a wallet's addresses and outputs for TLC |
| `Webhooks` | the webhooks of an account, its clients and the replicas of its partition |
| `WebhooksProofs` | its theorems |
| `MCWebhooks` | columns, values and bodies for TLC |
| `MeteringConnection` | `open`, `close` and the events of the Redis client |
| `MeteringAccount` | an account's failure counters, resets, mints and fees |
| `MeteringQueue` | the queue of confirmations due at a slot |
| `MCMetering` | callers, webhooks, mints and events for TLC; runs the parts one at a time |
| `MeteringProofs` | the theorems of the three parts, and of the parts side by side |
| `Int32` | the integers of the serialization library, and their width |
| `Trees` | trees as functions from paths, for values the code goes through by recursion |
| `NativeScript` | native scripts from JSON and back, their keys, locks and meaning |
| `Metadata` | the metadata of a transaction, from JSON to what is signed |
| `Submission` | calls that submit one transaction, the node's decision and its answers |
| `Minting` | the way of a mint from the script to the chain; composes the three above |
| `MCMinting` | scripts, metadata and keys for TLC |
| `Sums` | lemmas on sums over finite sets, for the proofs about quantities |

### CoinSelection

The function and the call it makes of itself are two frames; each has its
request, limit, selection and sum, and they share `inputs`, as they share the
array. A turn of the loop is `Skip`, `Take` or `Exhaust`; `Settle` is the code
between the loop and the nested call, `SettleTopUp` the nested call's own end,
`Finish` the end of the outer one. Exceptions are outcomes; the nested frame's
is caught. Quantities are exact integers. The serialised size of an output
enters as the table `MinUtxo` from the assets an output holds to its minimum,
of which the theorems assume that it is positive and that one output for two
bundles is not dearer than two outputs: it is a price per byte plus a constant.
The code prices the change at the address of the first input; the model's table
has one price for all addresses.
The sort leaves the order of equal outputs to the caller's list, so the model
may pop any largest one. What the model adds is `discarded`, a history.

`PlainSelects` relates the calls without assets to `PlainSelection`, which says in a
few set definitions what the two loops, the nested call and the swallowed exception
come to: the largest outputs that reach the amount, then those that top dust up, where
the limit allows both.

A request with no value at all against any wallet makes the code read
`selection[0].address` of an empty selection: that is the outcome `typeError`.

### RateLimit

A request is in one of three stages: waiting for ScyllaDB (which may also fail, and
the request is then refused), waiting for the
script to run, waiting for the script's result. `Count` is one run of the
script, atomic in Redis, and `Answer` the guard's comparison and answer when
the result arrives; the verdict depends on nothing that changes in between, so
the history of what was let through is written in `Count`. `Resend` and `Fail`
are the Redis client after a broken connection: the command is sent again or
given up, although it may have run. `LoseCounter` is a restart or failover of
Redis, `Deactivate` the dashboard. The service only reads `applications`, so
`owner` and `rate` are chosen once and kept. A request let through whose answer is then
lost counts as let through: the history errs on the side of more.

The clock ticks in units of the key's life. As in Redis, a key whose remaining
life is 0 still exists for that instant; the script then renews the life without
resetting the count, and the model keeps that case. Handlers without
authentication (`@Public()`) do not occur in the repository.

### UtxoWalk

The cursor is the key of the last output handed out; `Start` is the position
that a missing or unreadable cursor is taken for. `Fetch` is one page of
`getUtxos` together with the turn of the loop in `getAllUtxos` that adds it to
the result. A client of `GET .../utxos` does the same with a size of its own
choice on every page (`Resize`). The ledger database is not in this
repository: `Commit` and `Rollback` say what it does to the rows of one address,
and `IsAnswer` what the query is used for, the first n outputs after a
position. Row ids are assumed to be given out in order and never again; a
transaction that is rolled back may come back under a new one. Page size 0, for
which the code reads `utxos[-1]`, ends in `error`, as does a query that fails
(`Break`).

### OutputListing

The walk as its callers see it: one operation that begins, waits, and answers once.
The answer has every output that stayed unspent meanwhile, and in descending order
without a rollback nothing that was not there at the beginning (`Promised`).
`UtxoWalk` maps to it by `Contract`: its `result` once done is the answer, a walk
still at `Start` has not begun, and a first page that is also the last is a listing
that waits for nothing. `WalletSelection` takes its listings from the same
`Promised`, so that what the wallet's walk relies on is what the pages give.

### Listing

A list is the columns its cursor holds, in the order in which the handler compares
them; the definitions from `AddressAssets` to `StakeAddresses` are one handler each.
`Page` is one call: the rows after `position`, one more than asked for, the next
cursor from the last row of the page. Row and columns are data of the ledger
database, which is outside the repository: rows come (`Insert`), go (`Delete`), and
owners of an asset change their quantity (`Requantify`). The database is taken to
sort each list by the columns of its cursor. `StayingRowsListedOnce` speaks of the
rows that have their values for themselves and keep them: an owner whose quantity
changes moves to another place in the list and may be seen twice or not at all, and so
may two delegations of one transaction, which share the cursor `tx_id`.

### AssetNames

`isPrintableUtf8` tests a name with a constant expression that has the flag `g`: its
`lastIndex` stays where the last match ended, and the next test, of another
name in whatever request, starts there. `Ends` says where in a name the runs of
characters that cannot be printed end; `ShowInHex` is a test that finds nothing and
sets the index back, `ShowAsItIs` one that finds a run. So a name that cannot be printed
may be taken for one that can: `MistakesFollowOthers` says exactly when.

### TxBuild

One call of `POST .../transactions/build`, from the payload to the transaction
handed back: one action per turn of the loops over inputs and recipients, the
commission (`getNftFee` reads Redis and may fail), the change, the draft with the
largest fee, the adjusted fee. The variables are those of the code; instead of
the list of outputs the model keeps what they sum up to (`paid`, `sent`), instead
of the body its price (`size`). Sizes are measured in the lovelace they cost.
Outputs asked for are one record, since the code passes them on and sums
them up. `minUTxOValue` is a parameter; both protocol files have it as null,
which compares as 0. A burnt asset is listed once.

Two conversions decide whether assets balance. The outputs carry whole quantities
(`BigNum`), while `buildTransactionMint` sums what is burnt and minted and makes an
integer of 32 bits of each sum: `minted` is what `buildTx` collects, `mint` what the
body then has (`NewI32` of `Int32`). And the code encodes the
names of inputs and of minted tokens, hands on those of burnt assets and of outputs
asked for as they are, and reads all of them as hexadecimal. `Encoded`,
`Unencoded` and `Recorded` say which asset of the ledger comes out. Two names
that are not hexadecimal at all are kept apart, though the library would cut
both short. Quantities are exact integers up to there; the JavaScript numbers they are
in the code round above 2^53, as lovelace would.

A transaction has at most one change output here, since `buildTx` never makes
more; the divisions by their number are left out. Witnesses and metadata are the
same in the draft and in the result and are part of the price of the rest.

### WalletSelection

The two callers of coin selection. `List` is `getAddresses`, `Begin` the first page
of `getAllUtxos` on the next address, `Collect` its last page with all that follows
without a wait: the try (`TryWallet`, `TryAddress`), and the step to the next
address, page or refusal (`GoOn`). The transactions of others (`Commit`) come in
between. It composes two of the modules above by what they show:

- a listing gives what `OutputListing` promises and `UtxoWalk` is proved to implement:
  outputs that were unspent at its first page, and of these all that still are at the
  last. The ledger is not rolled back here;
- `Selected` and `Thrown` of `PlainSelection` say what `Utils.coinSelection` does with a
  list of outputs without assets, and `CoinSelection` is proved to do just that. The
  limit of `MAX_TRANSACTION_INPUTS` is within `Cap`. The change is not kept;
  `CoinSelection` is about it.

The cursor is the place of an address in the order in which the ledger lists them; an
address is known from its first output on, so addresses appear before and behind the
cursor. For an address with no amount the minimum is asked for; a wallet with no
amount runs into the TypeError above, address by address.

### Webhooks

The database puts an account's conditional writes in one order (`log`), since all
its webhooks are in one partition; a replica has a part of them (`has`), and makes a
row of what it has, column by column (`Row`). A handler waits for the
subscription (`Lookup`), its write (`Decide`) and its read-back (`Read`).
`Acknowledge` is what it makes of the write's answer: ScyllaDB answers a conditional
write with a row either way, so the code's tests in `update` and `create` never
fail, and only removal asks whether it applied. Reads are at the driver's default
consistency, which is one replica's. `TimeOut` is the driver's; the write
it leaves behind may still be decided, or lost (`Lose`). A new webhook's id is a fresh
uuid; here it is the request's name. Columns that the service always sets itself
(`update_date`, `auth_token`) are left out; `network` to `active` are `Optional`.
A creation's fallback for `available` is not modelled, as it writes a new row.

### MeteringConnection, MeteringAccount, MeteringQueue

Three parts of one class that share no state but the connection, each a module.

`MeteringConnection`: `Open` and `Quit` are the calls; `QuitAnswered` is the rest of
`close` after its `await`; `Ready` and `End` the handlers of the client's events, which
call the one callback each has a slot for (`onRedisReady`, `onRedisEnd`);
`Established`, `Drop` and `Reconnect` the client library. A caller without a callback
gets a promise that settles through the same slot. `connect()` is rejected between
"connecting" and "ready", or when the attempt fails, and nobody handles that promise:
the process ends (`crashed`; `unhandled` and `GivenUp` say when it can). A caller that
waits for `ready` while another closes is `stranded`.

The library, ioredis 4, is not in the repository, and the configuration chooses between
its single client and its cluster's. So the model holds the library to little: it goes on
connecting until `quit` is called, and a `quit` called on a ready connection is sent and
followed by the end (`quitting` is then "ready"). Without a ready connection, reconnecting
for one, `quit` may be answered "OK" with no end to come, may end, or may be overtaken by
a connection being made; and a `connect()` before the end may take its place. In all of
these `quitting` is "early", and nothing is assumed.

`MeteringAccount`: one account's hash. `ResetKeys` and `ResetExec` are the two round
trips of `resetAccount`, of which the second may be repeated; `ProcessWebhook`,
`ResetWebhookFails`, `AddAccount` and `DeleteAccount` are one command or transaction
each. `BuildMint` is `getNftFee` as `buildTx` asks for it, `ProcessNft` the counting
of a mint that was submitted. `fails`, `minted` and the rest of the data are fields of
the same hash: what deletes the hash deletes them all, and a counter incremented
afterwards makes a hash without data, for which `getNftFee` gives no price at all
(`none`). `Below` has the counts up to which a price or a lower one is asked; nothing
orders the quota and the tiers, so each is the largest of the limits up to it. Who calls
these operations is outside the repository, so they come in any
order. Histories: `sinceRead` and `sinceClear` count failures since a reset looked and
since one was executed, `cheap` and `open` the mints at a price.

`MeteringQueue`: `AddConfirmationWebhook` is one execution of `RPUSH`, for the call or
its repetition; `Take` is `LRANGE` with `DEL`, `Parse` what `getConfirmationWebhooks`
does with the answer, `TakeAgain` a lost answer. Each event appended is accounted
for: still waiting, in a batch, handed over or gone.

### NativeScript, Metadata, Submission, Minting

A JSON value, a script and the library's metadata are trees: functions from paths to
what is there (`Trees`). Where the code calls itself on the parts of a value, the
modules say what becomes of it at each path; the parts a call never gets to are those
below a path that ends its way (`Grouped`, the domain in `BuildPolicyScript`). So nothing in
these modules is recursive, and the theorems below can be about all of it.

`NativeScript` has both directions (`BuildPolicyScript`, part by part `BuildPart`,
`PolicyScriptToJson`, `GetScriptKeys`, `FindScriptExpireSlot`, `InnerNativeScript`) and,
to check them against, what a script of the ledger means (`Holds`, `RequiredSigners`,
`Clause`). A key is the pair of who made it and at which path, so two keys are
equal exactly if the code hands on the same one. `Metadata` has `Merge` (lodash's
`merge` as the code uses it: two values are joined as long as both have a list or both
a map, and where they part one of them counts with all below it), the conversion to the
library's metadata and back, and the width of the library's integers, of which `Carries`,
`Agree` and `Hides` are the reference.

`Minting` puts them on the way a client goes: `BuildNativeScript` completes its script,
`GetNativeScriptAddress` and `EvaluateTx` take the script as it was returned, `BuildTx`
mints by it, burns by another, charges the commission and signs with the keys it is
given. A submission is the module `Submission`: a call is sent (`SubmitTx`), the node
decides (`JudgeTx`), answers (`AnswerTx`), or the answer is lost (`LoseTx`), and the
node of that module may find anything valid. `Submit`, `Judge`, `Answer` and `Lose` of
`Minting` are these steps with the transaction that was built, for which `Valid`
decides; no other step touches a call. `Valid` is what the node asks for besides inputs:
scripts that hold, the witness of the inputs, a fee that pays for all witnesses, mint
and outputs that agree, a time to live that is not over. Of the transaction `Minting`
keeps what these need; balance, change and size are in `TxBuild`.

What the code does with unusual scripts is kept and named rather than excluded:
a lock inside a group counts its date from slot 0, not from the chain's
slot; `after` holds with slot 0 only, since every transaction says it is valid from slot 0; of
several `before` the latest becomes the time to live, and those further down are not
looked for (`Hopeless`). A group without parts is not among the scripts: its
list is left out of the JSON, and the next call that needs it fails with a TypeError.

## Runs

| Run | Checks | Size |
|---|---|---|
| `coin_selection` | `PlainSelects`, `ChangeAdmissible`, `ValueConserved`, `WithinCap`, `TopUpPays`, `ExhaustionGenuine`, `Terminates` | 300,000 states |
| `coin_selection_insufficient` | finds `InsufficientIsTrue` violated | stops at the counterexample |
| `rate_limit` | `WindowBudget`, `CounterEnds`, `OnlyOwnersAreCounted`, `BurstBound`, `WindowCloses` | 167,000 states |
| `rate_limit_shared` | finds `RateHonoured` violated | stops at the counterexample |
| `utxo_walk` | `NoDuplicates`, `Complete`, `Simultaneous`, `WalkEnds`, `ImplementsListing`; `StayingRowsListedOnce`; `MistakesFollowOthers` | 673,000 states |
| `tx_build` | `LovelaceBalanced`, `AssetsBalanced`, `FeeSuffices`, `RefusalGenuine` | 102,000 states |
| `tx_build_unpaid` | finds `ValueConserved` violated | stops at the counterexample |
| `tx_build_burn` | finds `OnlyBurntIsMissing` violated | stops at the counterexample |
| `wallet_selection` | `NoDuplicates`, `RefusalGenuine`, `SelectionPays` | 320,000 states |
| `webhooks` | `RemovalIsFinal`, `OneRemoval`, `SuccessIsApplied`, `AnswerIsCurrent`, `UpdatesMerge` | 98,000 states |
| `metering` | `FailuresCounted`, `QuotaExceededByOpen`, `EventsAccounted`, `CallersAnswered` | 64,000 states |
| `minting` | `MintTypeOK`, `PolicyKept`, `BuiltIsValid`, `AnswerTrue`, `CargoKept` | 39,000 states |

The type invariants are theorems and are not run again, but for that of `Minting`,
which says more than types and is both. No run uses symmetry: the
outputs, callers and keys of an instance differ.

**coin_selection.** Lists of up to three outputs from ten kinds: lovelace only,
with one asset or two, with all their lovelace locked up, with a datum that
raises the minimum, and one below today's minimum. Seven requests, among them
one for nothing and one that lists an asset with quantity 0; limits of 1 to 3
inputs; with and without the top-up. Three outputs are the least that lets the
main loop select one, drop one and leave one for the top-up. The minimum of a plain output
is 2, so dust, exact change and change above the minimum all occur.
`ValueConserved` compares the outputs selected with request and change;
`ChangeAdmissible`, `WithinCap` and `TopUpPays` are about the top-up;
`ExhaustionGenuine` says what an error means; `Terminates` that every call ends. `PlainSelects`
is the implementation of `PlainSelection`, for the calls in which neither the outputs
nor the request have assets and the limit is not negative; a nested call that fails
after it has emptied the list is among them.
Deadlock is not checked: a call that has returned does nothing more.

**coin_selection_insufficient.** The message `Insufficient UTxO balance` is not
always true. An output whose lovelace is all locked up by its own assets is
dropped as soon as no asset it holds is missing, though together with another
such output it could leave change that is valid.

**rate_limit.** One user with two applications, one without; every choice of the
rates 1 per 3 ticks and 2 per tick; two requests in flight, each repeated at most
once by the client. `WindowBudget` bounds what one life of the counter lets
through, `BurstBound` what any stretch of time as long as the interval does where a
user's applications agree on it: twice the limit, since a stretch can touch two
windows. `CounterEnds`, `OnlyOwnersAreCounted` and `WindowCloses` are described
at their definitions. An interval of 3 ticks is the
least with a start, a middle and a last moment; the history reaches back 3 ticks,
the longest interval. The counter stops at 3, above both limits: no decision
tells larger counts apart.

**rate_limit_shared.** README.md 143-146 gives a rate per account and key.
With two applications of one user the windows are those of whichever
application opens them, so an application with a long interval is let through
in each of the short windows of the other: more than twice its limit within its
own interval.

**utxo_walk.** Three outputs, of which two can come from one transaction; up to
four transactions; rollbacks at any time; both orders; page sizes 0, 1 and 2. A
page boundary falls inside and between transactions, and the output the cursor
names may be spent or rolled back. `NoDuplicates` and `Complete` are what a
client needs; `Simultaneous` is why the default order matters: a descending walk
collects what was unspent at one moment, an ascending one may mix an output with
another made by spending it. `ImplementsListing` is the refinement of
`OutputListing`. The same run reads each of the other lists over three rows with three
or four different values, in both directions and in pages of 0, 1 and 2, which is the
least for a page boundary with a row before, at and after it; and shows four names: one
that can be printed, one with a run of other characters near its beginning, one with a
run further on, one with both. The three share nothing, so one moves at a time
(`focus`). Deadlock is not checked: ledger and walk both end.

**tx_build.** One or two inputs of seven kinds (too little for the fee, enough,
enough for the largest fee; with an asset of each kind of name), four
kinds of outputs, that leave change or do not and ask for an asset with a printable name,
with the empty one, or for none, burns of a part, of all and of more than there is, up to two
recipients, with and without commission and change address. The prices make
transactions fall on both sides of the largest size, and integers have so few bits that
what is minted is within their width or not. `LovelaceBalanced` and `FeeSuffices` say when
the ledger's rules are met and name the cases in which the code does not meet them, each
of which the run reaches. `AssetsBalanced` says exactly when an asset balances: if what
the inputs lose of it, what is burnt and what is asked for agree as the form of its name
demands (`Handled`), and what is minted of it fits (`Whole`). Of an asset with neither
nothing is said: one mistake can make up for the other. Most requests that ask for an asset
or burn one are not `Handled`, which is what the hazards at lines 157, 169 and 198
of `buildTx` come to. `RefusalGenuine` is about "not enough funds".

**tx_build_unpaid, tx_build_burn.** Two of these cases contradict a comment in the
code: the one that says value is conserved, and the one that says all
assets not burnt are added.

**wallet_selection.** Three addresses in pages of one, two outputs at the last; any
set of the four outputs is there at the start, and any may be made or spent at
any step; amounts 0, 1, 4 and 6 with a minimum of 2, limits of one and two inputs.
So a wallet's funds suffice at one address, only together, only within a larger
limit, or not at all; an address appears or is passed over while pages are read.
`RefusalGenuine` compares a refusal with the outputs that were there all the time;
an output spent or made during the walk may or may not count. `SelectionPays` bounds what
a client gets: within one address the outputs come from one moment, over a wallet they
may not. Deadlock is not checked: request and ledger end.

**webhooks.** Two requests of any kind, on the webhook there is or on one the other
creates, with three bodies; two replicas that get the writes in any order. Two
requests are enough for every race the properties name: two removals, a removal and
an update that was given up on, two updates. (With three requests and the invariants
alone TLC takes 4.3 million states and finds nothing else.) `SuccessIsApplied` and
`AnswerIsCurrent` leave out answers read from a replica that lacked a write, which is
what the code's choice of consistency means: such an answer can say success for an
update that was not applied, or not found for a webhook just created.
`UpdatesMerge` leaves out `confirmations`, which an update without them sets to
0. Deadlock is not checked: requests end.

**metering.** One part at a time, since they share no state. Two openers, two closers
and two connections that break: `CallersAnswered` says that every caller of `open` is
called back, and every caller of `close` that listens before the end to come, unless it
is forgotten in one of the ways it names. Two of these are hazards of the code: the later
of two callers takes the slot of the earlier, and a `connect()` that is rejected ends the
process. A closer that listens after the end, or called `quit` when there was no ready
connection, waits for an event that need not come, and the property promises it nothing. The
run reaches all of these; what the property catches is any other way to lose a caller:
an `open` that does not connect, a `close` that does not take the slot. Two resets
that may overlap, three failures of two webhooks: `FailuresCounted` bounds a counter
from both sides, so a reset leaves no old failure and loses none that came after it,
though it may keep a counter that appeared between its two round trips. Four mints,
one of two tokens, around a free quota of 1 and a first tier of 1: `QuotaExceededByOpen`
says by how much a limit can be exceeded, namely by what is built and not counted at one
time. An event and one that is not JSON, two takers, each event appended at most
twice: `EventsAccounted` says that an event is handed over once, and lost only with a lost answer
or with the one that cannot be parsed, which takes its whole batch along. Deadlock is not
checked: failures, mints and connections are bounded.

**minting.** Seventeen scripts: keys given and new, locks by slot, by date and by neither,
groups of each kind, one within another, one that asks for more parts than it has, a lock with parts. Each is completed, asked for its address and passed on
in an evaluation (`PolicyKept`); each is minted by, with and without another script that is burnt by
and the commission, with the keys asked for, one too many, or none (`BuiltIsValid`).
One script is submitted twice with lost answers while time passes its slot
(`AnswerTrue`): two calls are the least for a retry. The plainest one is minted with every pair
of twelve metadata values under two labels, of which one is an integer, and with quantities at the edge of the
library's integers, which have four bits here (`CargoKept`). What is not varied in one of
these four plays no part in its property. Deadlock is not checked: the way ends.

### Fairness

- `CoinSelection`: weak fairness of the next step; the function is synchronous.
- `RateLimit`: weak fairness of time, as Redis' clock runs by itself. Nothing is
  assumed of requests, of clients or of the dashboard.
- `UtxoWalk`: weak fairness of `Fetch`; the database answers or the query fails. Nothing is assumed
  of the ledger. `MaxTx` does not help a descending walk to end, since what comes
  in after its first page lies behind it.
- `MeteringConnection`: weak fairness of the client library's own steps, and only where
  it promises them: while nobody has called `quit` it makes connections and has
  them ready (`Connects`, `BecomesReady`) and reconnects after its delay; a `quit` that was
  sent on a ready connection is followed by the end (`EndsAsAsked`). Nothing is assumed of
  a `quit` without one, of the answer of `quit`, of callers, or of connections that break.
- None for `TxBuild`, `WalletSelection`, `Webhooks`, `MeteringAccount`,
  `MeteringQueue`, `Minting`, `Listing` and `AssetNames`, of which only safety is stated:
  their loops run over data that is given, or one await at a time.

## Theorems

TLAPS proves the following for every value of the constants the named assumptions of
each module allow, so for any number of outputs, callers, requests, rows and clients.
The assumptions are of four kinds: an instance is finite where the code holds it in
memory (`UtxoAssumption`, `TokensAssumption`, `TakerAssumption`); quantities, limits and
prices are numbers of the kind the code has there (`RateAssumption`, `TierAssumption`,
`CommissionAssumption`); markers differ from what they are to be told from
(`CallerAssumption`, `NoChangeAssumption`, `ValAssumption`); and two facts about the
ledger, the price of an output (`MinUtxoAssumption`, above) and that an output has an
index in its transaction. Those of `Minting` are named with its theorems. Every run
evaluates those of its modules.

- **Sums.** What the sum of a function over a finite set does when an element is added
  or removed, when sets are split, and when the function changes at one point. The
  library's induction over finite sets cannot be used here, since it takes a predicate
  for a parameter. `SetInduction` has a family of sets in its place: were the whole set
  not in it, there would be a smallest subset that is not (`MinimalSet`, from the
  well-foundedness of inclusion), and removing an element contradicts that.
- **CoinSelectionProofs.** `TypeCorrect`; then `IInv` adds to the types where the
  outputs are (selected, discarded or still in the list, and never two of these), that
  the limit is split correctly between the frames, that the main loop is over once the
  top-up has begun, and which change each stage can have. From it follow
  `ReturnedChangeIsAdmissible`, `SelectionWithinCap`, `TopUpReachesItsGoal` and
  `ExhaustionIsGenuine`. The heart is `ToppedUpChangeIsValid`: the nested call's own
  check, that its change is empty or meets its minimum, and the subadditivity of the
  price together give the minimum of the union; and `FulfilledMonotone`: what was
  useless when it was dropped is useless at the end. `ValueInv` adds that each frame's
  accumulator is what its selection is worth and that, once the main loop is over, what
  is selected is worth the request and the change, asset by asset; from it follows
  `SelectionConservesValue`. `BareInv` is about calls without assets: a loop has popped
  the largest outputs and not one too many (`Popped`), and the nested one wants what
  dust lacks. From it follows `PlainCallsAreAnswered`, the refinement: what is returned
  is an answer of `PlainSelection`, and an error comes only where that has none. The
  difficult half is the error: that no other choice serves needs that the largest
  outputs are worth most among as many (`CoversAreLarge`, `NoCover`), and that the
  nested call fails only where no top-up exists (`TopUpInVain`). `EveryStepIsProgress`:
  each step makes `StepsLeft` smaller, a natural number, so no call can go on for ever.
  That a call that can go on does is the fairness in `Terminates`.
- **RateLimitProofs.** `TypeCorrect`; `IInv` adds `KeyOk` (a key exists exactly while it
  has a life), `GrantsOk` (a count was let through only within its application's limit,
  and the counts remembered have a largest) and ownership of requests past the first
  guard. From it follow `CounterAlwaysEnds`, `OnlyTheOwnerIsCounted` and
  `WindowsKeepTheBudget`. The life of a key needs ownership: it is the interval of one
  of the user's applications only because nobody else's request gets to the script.
  `BurstInv` says, while no counter was lost, how the history relates to the counter:
  with no counter the last interval holds one window's worth at most; with one there is
  an age such that what was let through since is counted, what came before within one
  interval is one window's worth, and age and remaining life make an interval. From it
  follows `BurstsAreBounded`. `WindowsRunDown` is an action property: only time shortens
  a window, and no request or repeat prolongs one that is open.
- **ListsProofs.** For the walk: `TypeCorrect`; `IInv` adds `CursorOk`, `Behind` (all
  that is collected does not follow the cursor), `StillAhead` (all that must still be
  collected does) and `OldOnes` (outputs as old as the first page were unspent then).
  From it follow `NothingCollectedTwice`, `FinishedWalkIsComplete` and
  `DescendingWalkIsASnapshot`. `PageSplits` says what a page does to the rest of the
  outputs; with row ids that only grow it is all that is needed. `WalkImplementsListing`
  is the refinement: the ledger's steps are moves of the abstract one, a page is its
  beginning, its answer, both at once (`OnePageHasAll`), its failure or nothing, and the
  invariant gives what the answer promises. `EveryPageIsProgress` is an action property:
  a page after the first ends the walk or sets a cursor below the last, and no sequence of
  keys goes down for ever (`KeysAreWellFounded`). For the other lists: `ListTypeCorrect`;
  `StayingInv` says that a row that has stayed as it was is on a page so far exactly if
  it does not follow the cursor. It is inductive because the order of one or two columns
  is total and transitive (`Ordered`) and a page takes a beginning of what follows
  (`PageCuts`). From it follows `StayingRowsAreListedOnce`. For the names, `NamesInv`
  says where the expression was left: at the end of a run of the last name in which it
  found one, or at the beginning; from it `NamesTypeCorrect` and
  `NamesMistakenOnlyAfterOthers`.
- **TransactionProofs.** For `TxBuild`: `TypeCorrect`; `IInv` adds `Accounted` (what is not in the outputs
  is what can be spent less what is asked for) and `ChangeOk` (the change is that
  amount, whole in the draft stage, less the largest fee in the next). From it follow
  `LovelaceIsBalanced`, `FeeIsSufficient` and `RefusalIsGenuine`, for every value of
  `minUTxOValue`. `AssetIInv` adds to the types where each asset is (`AssetOk`): under one
  of its forms the inputs' (`TakenHas`, a sum over the inputs that had their turn) and, less
  what these lose (`TakenLoses`), with what is minted, the outputs'; under the other what is
  asked for and burnt; and that the mint field is `minted` as the library's integers. From
  it and the arithmetic modulo the width (`I32Facts`) follows `AssetsAreBalanced`, in both directions.
  For `Submission`: `SubmissionInv` says that the chain has the transaction exactly if
  it took one call's and no other's, and what each client was told of; from it follows
  `AnswersAreTrue`, for any number of calls and whatever the node finds valid.
  `MintingSubmits` is the refinement: every step of `Minting` is one of `Submission` or
  leaves its variables alone, so answers are true of a mint too (`MintAnswersAreTrue`).

  For `Minting`, with any scripts, burns and metadata, of any depth: `MintIInv` says that
  once the script is built the client's copy is complete, every key in it is among the texts
  it holds, one text for each key, and the policy is what the ledger reads in that copy
  (`Written`); that an address and an evaluation already given are the policy's; and that
  the transaction is what would be built again now of some of the keys given (`SignedBy`).
  The properties that are checked are not inductive without it: they compare two answers to
  one request, and what ties the two together is the script that went through the client.
  Three facts about scripts carry it. A script returned is complete (`ReturnedIsComplete`);
  it stands for the root it came from (`ReturnedRoot`); and a complete script gives the same
  root whoever builds it, at any slot (`CompleteRoot`). `PolicyIsKept` follows from these.
  `BuiltTransactionsAreValid` needs besides that all parts of a script hold at once
  if no group asks for too much (`AllHold`, which gives the set of parts and never
  argues by induction on depth), that the time to live is the slot of the only `before`
  (`ExpireFacts`, `TtlFacts`), that every key asked for is held (`NeededAreHeld`), and that
  the texts of these keys, and the server's two, are no more than the keys counted script by
  script (`WitnessesArePaid`). `CargoIsKept` follows from what merging keeps (`MergeFirst`,
  `MergeSecond`), what each value becomes (`ValueFacts`) and the library's arithmetic
  modulo its width (`I32Facts`); `MintTypeCorrect` needs the last too.
  Assumed are that JSON scripts are trees with the fields of `JsonScript` and groups
  have parts (`ScriptAssumption`, `BurnAssumption`: scripts to burn by are as the API
  returned them), that the client has one text of each key its scripts name
  (`OwnedAssumption`), that quantities are numbers and metadata are JSON objects (`CargoAssumption`),
  and that the server's configured script asks for its first and its last key and has no
  locks (`ServerAssumption`, as in `src/src/addresses/addresses.service.spec.ts` 34-35).
- **WalletSelectionProofs.** `TypeCorrect`; `IInv` adds `WalkOk`: what has been
  collected is at places before all that is yet to be listed, and up to the cursor if
  there is another page. From it follows `NothingTwice`. `SInv` adds that every output
  there all the time is collected or still ahead (`Coming`) and that what was collected
  at the last try did not serve (`FailedSoFar`). From it follow `SelectionsPay` and
  `RefusalIsGenuine`: a set that has no answer has no subset that has one (again since
  the largest outputs are worth most), so what failed on all that was collected fails on
  any part of what stayed.
- **WebhooksProofs.** `TypeCorrect`; `IInv` adds `LogOk` (one creation of a webhook, who
  wrote what) and `RequestOk` (where a request waits, and what a success or a removal
  means for the log). From it follow `RemovalsAreFinal`, `OneClientRemoves`,
  `SuccessIsReal` and `AnswersAreCurrent`; the central fact is that a webhook once
  removed never exists again, so a read-back that finds it after an update that did not
  apply is impossible on a replica that has all writes. `UpdatesAreMerged` is an action
  property, from the same invariant.
- **MeteringProofs.** `ConnectionTypeCorrect`, whose types say what the slots and
  waiting callers can hold; `WaitingCallersAreServed`, that the opener in the slot never waits
  without a connection on the way unless somebody has called `quit`, and that a `quit` that was
  sent can always be followed by its end (`ConnectionInv` adds that nobody waits for a
  connection that has ended, nor with the slot of one that is ready, and when an attempt of
  `open` can still be rejected). `FailInv`: what a reset that looked did not find had no
  failures then and has no more than were reported since (`Found`), and no counter has
  less than was reported since the last reset (`Kept`); from it `FailuresAreCounted`.
  `QuotaInv`: what went through at a price or a lower one, together with what waits to
  be counted, exceeds the limit by no more than what ever waited at once (`Room`), since
  a price is asked only while there is room below its limit; from it
  `QuotaExceededOnlyByOpen`, for any quota and tiers. `QueueInv`: each event appended is
  waiting, handed over, gone, or in one taker's batch (`Balance`); from it
  `EventsAreAccounted`. `PartsRunApart`: the three parts side by side implement each
  part alone, so all of this holds of the state as a whole; `MeteringTypeCorrect` is the
  first use of it.

### What is only model-checked

- The liveness properties `Terminates`, `WindowCloses`, `WalkEnds` and
  `CallersAnswered`: fairness and `ENABLED` are out of the prover's reach. The safety half of
  each is proved (`EveryStepIsProgress`, `WindowsRunDown`, `EveryPageIsProgress`,
  `WaitingCallersAreServed`).
- The runs that end in a violation have nothing to prove.

## Plan

Every invariant and every action property that a run checks is also a theorem. What is left
to model, in this order:

1. The counters of whitelists and products with their lives, uploads and the
   mempool's ranking, once the services that call them are known.
2. One request from `buildTx` to the chain with `TxBuild` and `Minting` in one state, so that the
   fee `Minting` counts in witnesses is the one `TxBuild` adjusts. Both are proved apart, and
   meet in the number of witnesses only.
3. `getAllWebhooks`, if it gets a caller.

## Not modelled

- Cryptography and serialisation (keys, mnemonics, derivation, signatures of messages,
  addresses, CBOR) belong to libraries, are called without state, and most of the functions
  that wrap them have no caller here. The cursor's encryption keeps keys apart and that is all the
  model uses.
- Single lookups are one query and one mapping; mappers, DTOs, configuration and
  deployment hold no state.
- Operations of `Metering` without a caller in the repository that are a single command
  (quotas of requests, uploads, whitelists, products, servers of the mempool): what they must guarantee is known
  only to their callers.
- `AccountService.findOne`, `findSlots` and `getPolicyId` have no caller. The loop of the
  first (`getAllWebhooks`, `account.service.ts` 79) asks for its first page again while
  there are more: it would not end for an account with more than a page of webhooks.
- Metadata in which one token has a list and another, at the same place, a map whose keys
  are positions of that list: lodash would overwrite the list's elements, the model keeps
  the list.
- Floating-point rounding above 2^53: lovelace does not get there, quantities of other
  assets can, and are exact in the models. Slots above 2^32, where the library's would wrap, are centuries away.

`PROJECT.json` gives the reason for each part left out.
