# Verification of the michi API and processing services

TLA+ models of the services in this repository, the TLC configurations that
check them on small instances, and proofs of their main safety properties for
every instance. `PROJECT.json` lists the runs, what each definition models line
by line, the hazards each property is for, and the findings.

    tlc -workers 2 -config MCMarketplace_core.cfg MCMarketplace     # a run
    tlapm MarketplaceProofs.tla                                      # the proofs

## The system

Two NestJS servers share one PostgreSQL database through
`libs/db/src/prisma.service.ts`. The **API service** serves clients and the
webhooks of Moralis, which reports the events of the contracts. The **processing
service** runs cron jobs and, for some chains, listens to a node itself. Every
handler and job is an `async` function. Nothing holds a transaction or a lock
over two queries, so **the unit of atomicity is one database call**: between two
awaits of one handler any other handler, on either server, may run.

| Component | State | Operations | Works with |
|---|---|---|---|
| Order book (`apis/marketplace`) | `orders`, `sales`, `users.nonce` | create an order, cancel (webhook), `POST /cancel`, purchase (webhook), `POST /sales` | reads wallet owners; its flags are repaired by the staleness job |
| Staleness job (`jobs/order-staleness-…`) | in memory: the rest of a run, updates fired and not awaited | hourly: page through live orders, regroup, correct `isStale` | the order book's rows |
| Pending-cancellation job | – | is a provider of no module, so never runs | – |
| Event ingestion (`apis/webhook`) | `processed_moralis_events` | post of a log body, confirmed or not, repeated until 200 | calls the handlers of the order book, of the registry and of balances |
| Wallet registry (`libs/common`, `libs/event-handler`, `apis/nft`) | `michi_wallets` | WalletCreated by webhook or listener with backfill, `GET /nft/:owner` refresh, hourly owner refresh | reads the chain |
| Token balances (`apis/tokens`, handlers of Deposit) | `wallet_tokens` | deposit (read, add, write), refresh by request, hourly sync | reads the chain |
| Points (`jobs/michi-points-…`, `points-backfiller`, `michi-staking-points`) | points of `users` and `accounts`, `last_points_processing_time`, `job_history`, `staking_info` | hourly accrual in batches, backfill of missed hours, staking points | reads balances and owners |
| Accounts (`apis/user`) | `users`, `accounts` | referral link, account with a referrer, accounts made by the points job | points |
| Third-party points (`libs/3pp`, `apis/points`) | `third_party_points` with staleness | lookup with cache, midnight job, retries with backoff | other services |
| Listener (`listeners/events-listener`) | subscriptions, `isListening` | start, provider error, reconnect | handlers of the registry, balances, staking |
| Stream sync (`jobs/moralis-stream-sync`) | Moralis streams and their addresses | hourly comparison and repair | Moralis |
| Approved tokens, snapshots, TGE, claims, wiring | none of their own | copy or look up | – |

### What is hard here, and what makes each part correct

* **Interleaving within a handler.** `createOrder` is up to six round trips
  (validate, insert, read rivals, one update per rival in `Promise.all`, read
  nonce, write nonce). An order must not be hidden (`isStale`) unless its
  participant has a rival at least as good; what races leave behind must be
  repaired; `users.nonce` must be that of an accepted order.
* **Fire and forget.** The staleness job's updates come from
  `forEach(async …)`: they land after later creates and cancellations, and a
  rejected one ends the process.
* **Repetition and loss.** Moralis posts a body until it gets a 200, also while
  the first post is being served, and the handler marks the transaction
  processed *before* doing its writes. Each write must happen at most once, and
  without a failure everything answered must be accounted for.
* **Two views of a range.** The registry fills gaps from the greatest index it
  knows, and the hourly job assigns owners by the position in a batch. No gap may
  be left below the greatest index, or positions and indices part.
* **Read, add, write** (balances, points, staking) by the webhook, the listener
  and jobs at once; totals must neither lose nor repeat a contribution.
* **Partial failure.** A purchase is two writes, a points run many.

`PROJECT.json` lists these hazards one by one, at their line.

## The modules

| Module | What it is |
|---|---|
| `Marketplace` | the order book and the staleness job |
| `MCMarketplace` | its requests, cancellations and sales for TLC |
| `MarketplaceProofs` | ten theorems about it |
| `EventIngestion` | Moralis' posts and the webhook handlers |
| `AtMostOnce` | abstract: a transaction is accepted once, then each of its writes is applied once or never |
| `MCEventIngestion`, `EventIngestionProofs` | its instance; three theorems, among them the refinement |
| `WalletRegistry` | `michi_wallets` of one chain: handlers, requests, hourly job |
| `MCWalletRegistry`, `WalletRegistryProofs` | its instance; four theorems |
| `TokenBalances` | the `wallet_tokens` rows of one wallet: deposits, requests, hourly sync |
| `MCTokenBalances`, `TokenBalancesProofs` | its instance; five theorems |
| `Accounts`, `AccountsProofs` | affiliate links, referrals, accounts made by the points jobs; six theorems |
| `PointsAccrual` | the hourly points job and the staking job |
| `Backfill` | what one backfill of one token pays for each hour |
| `MCPoints`, `PointsProofs` | the instance of these three; seven theorems |
| `ThirdPartyPoints` | the cache of other platforms' points |
| `EventsListener` | the listener of one chain and the stakes it records |
| `StreamSync` | the hourly sync of the Moralis streams |
| `StalenessPaging` | the pages in which the staleness job reads a large book |
| `MCServices`, `ServicesProofs` | the instance of these four; twelve theorems |
| `FiniteSums` | lemmas about sums over finite sets, for `PointsProofs` and `ServicesProofs` |

### Marketplace

`orders` is the table as a sequence, row *i* having id *i*; a row that
`deleteOrder` removed keeps its place with status `DELETED`. `proc[p]` is one
running handler: `pc` names the database call it makes next, `req` is the DTO or
event it serves, `me` the id it inserted, and `plan` the ids it has read and
still has to write. Each action is one such call with everything the code
computes around it:

    POST /order      CreateOrder, ValidateExisting, InsertOrder | RejectDuplicateNonce,
                     ReadExisting, MarkStale (one update of Promise.all), GetUserNonce, SetUserNonce
    cancel webhooks  CancelOrders, ReadCancelled, ReadOthers, Unstale
    POST /cancel     ProcessCancellationTx, MarkOrdersAsPendingCancellation
    purchase         CreateSale, DeleteOrder
    POST /sales      PostSale
    staleness job    StartStalenessJob, ReadActiveOrders(chain), UpdateOrderStaleness

`Expire`, `UpsertMichiWallet`, `Abort` (an error or a restart) and `AbortJob` are
the surroundings. Details the model keeps because results depend on them:

* rows hold lower-cased addresses, and some paths search by the checksummed
  one. `MixedCase` is the set of users for whom these differ, `FoundRaw` such a
  search;
* amounts are `Decimal` objects and `getOrdersToUnstale` compares them with `<`,
  that is by their digits as strings (`StringLess`); the job uses numbers;
* the rival query has no chain in its `where` clause;
* an update of a deleted row throws: in `Promise.all` that ends the handler while
  its other updates still land, and in the job it ends the process.

Left out: signatures, the collection address (one per chain), saved point totals.

### EventIngestion

A body is a transaction, an event type and a confirmation flag. `proc[p].pc` is
the next call (look the hash up, enter it, then the writes of the event's
handler, named for what they change). `applied` counts writes. `Receive` may take
a body any number of times until it is answered. `Fail` turns the current call
into a 500, except in the unstaling part of `cancelOrders`, which the code
catches; `Restart` drops everything being served.

### WalletRegistry

The chain is `minted` and `history` (the owners each wallet has had). `wallets`
is the table as a partial function from index to owner. A handler is a
WalletCreated event (webhook or listener: they read and write alike, but a
failure in the listener ends the process, the job included) or a request for
owned wallets whose rows are stale. The job reads the contract's counter,
backfills, and then goes through the table in batches: `BatchAt` is the query,
`SyncedOwner` the owner found by position, `NextBatch` the advance by
`BatchSize` whatever the batch held. `jumped` is a history variable: a request
has left a gap below the greatest index.

### TokenBalances

One wallet, registered and deployed: rows of different wallets never meet.
`onChain` is the chain, `table` the rows. A Deposit event is two calls
(`GetWalletTokenBalance`, which computes the `Sum`, and `SetSum`), a request
three (the balances on chain, the cached flags, one upsert of all tokens), and
the job takes the tokens it does not exclude one by one. `Upserted` is the
`ON CONFLICT` clause with SQL's three-valued OR, because a deposit leaves
`has_accrued_interest` NULL. `Sources` says who handles the chain's events: a
chain in both `LIVE_CHAIN_IDS` and `RPC_CHAIN_IDS` has its events handled twice,
by a Moralis stream and by the listener. `peak`, `credited` and `seen` are
history variables.

### Accounts

`accounts` is the table, keyed by address. An API request is
`GET /user/:address/affiliate/link` (`FindAccount`, `CreateAccount`,
`UpdateAccountAffiliateId`) or `POST /user` (`GetAccount`, `GetReferrer`,
`CreateAccountWithReferrer`); a points job of a chain passes through
`setUserPoints` (`FindExistingAccounts`, `CreateMany`, `UpsertUsers`). Two
creates of one address race, and the unique index decides: a request that loses
fails, a job that loses fails with its whole batch of points. An affiliate id is
new each time it is generated. `overlapped` is a history variable: an address
has had two link requests at once, of which the one answered first may be
overwritten.

### PointsAccrual and Backfill

`PointsAccrual` counts hours. Its clock runs in half hours, because
`roundToNearestHour` rounds. The hourly job is `GetBatch` (by index, the next
batch starts `WalletsPerBatch` further whatever the batch held), `GetBalances`
(with `isBackfillNeeded`, decided anew in every batch), `SetBackfill` (for all
wallets, in whatever batch), `SetPoints` and `SetLastPointsProcessingTime`. The
staking job is `FindStakingInfos` and, for each row, `FindUser`, `SetUser` (it
writes back what it read, plus the stake) and `SetUpdatedAt`. `PayHours` is
`setUserPoints`: each sum starts at `INITIAL_WALLET_POINTS`, which the conflict
clause takes off again. A wallet earns a point an hour; who owns it and what
balances earn are in `WalletRegistry`, `TokenBalances` and, for past hours, in
`Backfill`.

`Backfill` is the loop of `getWalletPointsToBackfill` for one token of one
wallet: the hour that is decremented before it is paid, the index into the
transfers that runs on over hours and pages, the multiplier of the hour. It
begins with any history of transfers and any hour of the last run.

History variables say where hours may be paid twice or overwritten, and the
properties except just those: `torn` (a run has failed after paying, or has
backfilled in two batches), `stakeTorn` (a failure between the two updates of a
staking row), `raced` (the hourly job has paid a user between the staking job's
read and its write). `slow` counts the half hours that runs have overrun.

### ThirdPartyPoints

`entry` is the row of each platform for one wallet. A request reads the rows and,
for each that is stale, asks the platform and upserts what it is told
(`HydrateFetch`, `SetThirdPartyPoints`). The midnight job reads the rows, asks
each platform up to `MaxAttempts` times (`FetchWithRetries` is an attempt of
`exponentialBackoff`), builds its rows and saves them in one statement, which the
rest of its batch may delay by hours. A platform may say 0 when it has failed,
which requests take for "no news" and the job for 0: `saidZero` and `held` are
history variables that say when this has happened.

### EventsListener

`handlers` counts the handlers of each event over all providers, since a start
that fails resets `isListening` and so leaves its handlers subscribed when the
next start subscribes again. A provider error while listening, and anything a
handler throws, end the process (`GoDown`). `leaked` and `missed` are history
variables: a stake was handed to two handlers, or to none.

### StreamSync and StalenessPaging

`StreamSync`: for each event of each live chain the job finds or creates the
stream, lists its addresses, removes *its own* once for each foreign one, and
adds its own unless it had listed it. Whether Moralis accepts the removal of an
address that is not there is left open. Where the chain has no such contract, the
address is undefined: the comparison with the first listed one throws
(`ListStreamAddresses`), and to a stream that lists none, such as one just
created, the job adds the undefined address, which Moralis rejects
(`RejectUndefinedAddress`, external); both end the run.

`StalenessPaging`: `ReadBatch` reads up to `BatchSize` orders from a token on, in
any order within a token (the query sorts by participant and currency, not by
type); `SettleGroups` decides the groups of the batch and goes on at the token of
its last order. The updates sent are made at any later time. `split` is a
history variable: groups that a batch has cut.

### The composed instances

`MCPoints` and `MCServices` put parts together that share no table and no call.
`part` is chosen in `Init`, and the others rest in one initial state, so that
the behaviours are those of each part by itself. The properties are stated in
the parts' own modules, and the theorems are about the parts' own specifications
(`AccountsSpec`, `PointsSpec`, `BackfillSpec`, `ThirdPartySpec`, `ListenerSpec`,
`StreamSyncSpec`, `PagingSpec`). `PointsCompose` and `ServicesCompose` prove that
every behaviour of the whole is one of each of its parts, so that these theorems
hold of what the runs check.

## What the runs check

| Run | Instance | Checks | Distinct states |
|---|---|---|---|
| `core` | 2 users, one with an all-lower-case address, 2 listings and a bid, 2 orders, 2 handlers and the job, 1 fault, purchases, cancellations and `POST /cancel` | `TypeOK`, `StaleHasRival`, `NonceIsOfAcceptedOrder`, `CancelledComesBackOnlyReported` | 2 829 578 |
| `repair` | the same without faults, with fairness | `StalenessConverges` | 1 505 844 |
| `sequential` | 2 users, listings and bids in 2 currencies, 3 orders, one request at a time, purchases | `ShownIsBest`, `NextNonceIsFree`, `DeletedWasSold`, `CancellationLeavesOneShown` | 1 337 056 |
| `unstale`, `two_chains`, `cancel_request` | as small as shows it | a finding each | |
| `ingestion` | 3 transactions, repeated posts, concurrent calls, 1 fault, with fairness | `TypeOK`, `AnsweredIsAccountedFor`, `ImplementsAtMostOnce`, `EventuallyAnswered`, `EventuallyHandled` | 132 880 |
| `registry` | 2 users, 3 wallets, a transfer, one handler at a time and the job, batches of 2, 1 fault, with fairness | `TypeOK`, `NoGaps`, `OwnersWereOwners`, `RegistryConverges` | 989 440 |
| `registry_gap` | the same | a finding | |
| `balances` | 2 tokens, one excluded from the job, a deposit handled by webhook and listener, a transfer, 2 handlers and the job, 1 fault, with fairness | `TypeOK`, `AccruedWasSeen`, `OvercountIsBounded`, `AccruedIsKept`, `BalancesConverge` | 284 846 |
| `points` | *accounts:* 2 addresses, 2 requests, 2 chains' jobs; *points:* 3 wallets of 2 owners, 2 stakers, 3 hours, 1 failed run, 1 stake; *backfill:* all histories of up to 3 transfers in 4 hours; with fairness | `TypeOK`, `ReferralsAreAcyclic`, `ReferralsStay`, `AnsweredLinksWork`, `PaymentsGoOn`; `TotalsAddUp`, `NotOverpaid`, `MissedHoursAreMadeUp`; `BackfillPaysBalances` | 1 213 480 |
| `services` | *third party:* 1 platform, 2 requests, the job with 2 attempts, 2 hours; *listener:* 3 events, 2 faults; *streams:* 3 streams in any earlier state, 1 fault; *paging:* all books of 4 orders over 2 tokens, any flags, batches of 3; with fairness | `TypeOK`, `FreshWasSaid`, `PointsSurvive`, `CollectionEnds`; `StakesAddUp`, `ListeningHearsAll`; `WatchedUnlessForeign`; `EveryGroupSettled` | 465 323 |

Every property has a mutant: a plausible mistake in one definition (named `Mut…`
beside it) with which TLC refutes the property under the same configuration.

**Bounds.** `MaxOrders`, `MaxFaults`, `MaxMinted` and `MaxTransfers` end the
otherwise endless tables and histories, nothing else. Two orders and two handlers
are what a race between creates needs (one to insert, one to hide it); three
orders give a group in which one is best, one is cancelled and one comes back;
prices 9 and 10 sort differently as strings. Three wallets with batches of two
make a second batch and a gap with a row above it. One fault is enough to stop a
handler or the job at any of its steps. One deposit handled twice gives every race
of two deposits of one token, and a transfer makes what is read on chain differ
from what is stored. The theorems below do not depend on
the bounds, nor on the number of handlers.

In `points`, two addresses can refer to each other, and two jobs can race for
the account of the one both pay; the tables of wallets are a full batch, two
batches, and one with a gap, over which batches overlap. `Horizon` is three
hours, in which a run can fail or overrun and the next but one has something to
make up; one stake and one failed run meet each other at every step of either
job. `InitialWalletPoints` is 3, so that a term left behind or taken twice cannot
be mistaken for hours. Three transfers fill a page of two and a second one, in one
hour or in three, on and between the hours, before and after the two cutoffs. In
`services`, two faults are a failed start and a crash after it; two hours make a
row stale; three streams, of which the last has no contract, leave one before and
one after a stream that fails; books of four orders with batches of three cut a
token's groups in every way.

**Why `sequential` has one request at a time.** With two handlers at once
`ShownIsBest` and `NextNonceIsFree` do not hold of this code, and no document
says they do. Two creates of one participant may each validate before the other's
row exists and leave both shown; a nonce decided on an old value may be written
last; the job's late updates restore an outdated choice. What holds then is
that nothing is hidden without a rival (`StaleHasRival`) and that the job brings
the flags back to order (`StalenessConverges`), which is what `core` and
`repair` check. What is proved of them (below) names the same conditions: one
request at a time, no request cut short, and for `ShownIsBest` no order inserted
while updates of the job are in flight.

**What becomes of a cancelled order.** `POST /cancel` has no condition on the
status (`prisma.service.ts:723`): when its update lands after the webhook's, the
CANCELLED rows of an all-lower-case address become PROCESSING_CANCELLATION,
which queries show. It happens in `core`, where the seller's address is of
that kind, and no document denies it, so `CancelledComesBackOnlyReported` does not
exclude it. It says that nothing else does this: not the creates, the job or the
unstaling, which write late to rows they have read while live; that no order
ever is ACTIVE again; that the report names the order; and that a
cancelled row is removed only when the chain has executed an order with its nonce
for its wallet, be it the other party's. Its mutant is a staleness update that
writes back the whole row it has read. The purchases in `core` and `repair` also
remove orders that a create handler or the job is about to update, and the best
order of a group.

**Fairness.** `Marketplace`: weak fairness of the job only: cron starts it every
hour and its queries get an answer. Nothing is assumed of clients or
handlers; a request may hang for ever. `StalenessConverges` says `[]<>`, since
a request may disturb the flags again at any time. `EventIngestion`: each call
being served goes on, and Moralis goes on posting each unanswered body; the
faults are bounded. `WalletRegistry`: only the job is fair; events may be lost and
requests never made. `RegistryConverges` is `<>[]` because minting and
transfers are bounded: it says that once they are over, the table ends at the
chain's owners unless a gap remains. `TokenBalances` likewise: `BalancesConverge`
rests on the job alone. Tokens in `TOKEN_EXCLUSION_LIST` are not synced, so
nothing is claimed of them. `Accounts`: the points job of each chain is fair,
since cron starts it again after a run that lost a race; requests are not.
`ThirdPartyPoints`: each call of the midnight job ends, by an answer, an error or
its timeout, but cron need not start it. `StreamSync`: cron starts the job and
Moralis answers. `StalenessPaging`: queries and updates that were sent are
answered. Nothing is assumed of the listener, which may stay down.

**What the properties except, and why.** `AnsweredLinksWork` leaves out
`overlapped` addresses, `TotalsAddUp` states only an upper bound for `raced`
users, `NotOverpaid` leaves out tables with gaps and `torn` runs, `StakesAddUp`
leaves out stakes that were `missed` or `leaked`, `EveryGroupSettled` claims only
the best of a group that was `split` and nothing of a book in which one token
fills a batch, `WatchedUnlessForeign` nothing of streams from a foreign one on.
In each of these cases the code does lose or repeat something, as the model shows
when the exception is taken out; no document of the repository promises
otherwise, so they are hazards in `PROJECT.json` and not findings.

## Findings

* `unstale` – after a cancellation the *lowest* bid is shown again
  (`getOrdersToUnstale` takes the smallest amount for bids too).
* `two_chains` – an order on one chain hides the participant's order for the same
  index on another (no chain in `getUserOrdersOnWallet`).
* `cancel_request` – `POST /cancel` answers "marked" and marks no row of a user
  whose checksummed address has an upper-case letter.
* `registry_gap` – when a request has registered a wallet above one whose event
  was lost, the hourly job gives its row the owner of the missing wallet, and
  the table names an owner who never had it.

## What is proved

For all values of the constants that satisfy the modules' named assumptions,
which say only that sets have the right element types and bounds are natural
numbers. What a theorem assumes beyond that is said where it is listed: four of
`MarketplaceProofs` do, `LinksWork` excepts overlapping requests, and
`CollectionRunsOut` wants the platforms to be finitely many.

* `MarketplaceProofs`
  * `TypeCorrect`, by `TypeInv`: `TypeOK`, and that a handler's request is of the
    kind its control point reads and, from the insertion on, that of its own row.
  * `StaleAlwaysHasRival`, by `StaleInv`: `StaleHasRival` alone is not inductive,
    because a handler's plan and the job's fired updates hide orders later. So
    the invariant adds that whatever they are still to hide has a rival already;
    rivals persist because rows are never dropped or rewritten
    (`RivalsRemain`), and the choice of the job has one because it keeps the
    first of each group (`CorrectionsHaveRival`).
  * `StaleOnlyForItsWallet` delimits the finding of `two_chains`: as long as nobody
    has orders for one index on two chains (`IndexOnOneChain`), an order is hidden only
    for one as good on the same wallet.
  * `NonceAlwaysAccepted`, by `NonceInv`: the handler that writes the nonce
    still refers to the row it inserted.
  * `DeletedAlwaysSold`, by `SoldInv`: a handler on its way to delete has its
    sale in the table, and the chain has executed an order it names.
  * `CancelledStaysUnlessReported`, for users of either kind: an action property,
    step by step (`StatusStep`) over `SoldInv`, which links a removal to what the
    chain has executed.
  * `NextNonceAlwaysFree`, with `OneAtATime` and no faults, by `NonceFreeInv`: the
    nonce of a row is saved, or its handler is still at work; and that handler
    gets to its end, because nobody removes the rivals in its plan. Without the two
    assumptions it is false of the code: a nonce decided on an old value may be
    written last, and a handler that fails has inserted its row already.
  * `ShownAlwaysBest`, with the same two, by `BestInv`: an order with a better one
    of its participant on the wallet is stale, or the handler that inserted the
    better one is on its way to it (`BestHidden`), and no update of the job in
    flight shows such an order (`WritesHarmless`). Two more hypotheses name what
    the code does not do. `InsertsBetweenUpdates`: no order is inserted
    while updates of the job are in flight, since those were decided without it;
    TLC refutes the theorem without this hypothesis. `HarmlessCancellations`: a
    cancellation that shows orders again leaves them at one price, as the finding
    of `unstale` is that it shows the wrong one (users with mixed-case addresses
    never get that far), and `POST /cancel` is used only where it marks nothing,
    since a late one brings cancelled orders back. The constants of `sequential` satisfy both constant
    hypotheses.
  * `CancellationsLeaveOne`, with `OneAtATime` alone, by `CancelInv`: when a handler
    is about to show orders again, its choice has one for each live order on the
    wallets of the cancelled (`ChoiceOK`), which the job, expiry and sales that are
    posted meanwhile leave alone (`RestsStep`).
  * `CompleteRunRepairs`, by `RepairInv`: whenever the staleness job starts, and until
    its last update has landed nothing fails, no order expires and nobody else writes
    to the orders (`Undisturbed`), exactly the best order of each group is left shown. For each
    chain that was read there is a choice of one order a group (`IsChoice`) such that
    every live order is as the choice has it or has an update in flight that makes it
    so (`Settles`).
* `EventIngestionProofs`
  * `AcceptedOnce`, the refinement of `AtMostOnce`, and `TypeCorrect`. `Inv`
    adds to the types that a handler past the unique insert is the only one of
    its transaction and that the writes it has still to do were never done.
  * `AnswersAreAccountedFor`, by `AccountedInv`: as long as nothing fails, an
    accepted transaction is handled or has a call that is still writing, and
    that call is on the way to the last write of its event (`LastWrites`).
* `WalletRegistryProofs`: three invariants, each on top of the last.
  * `TypeCorrect`, by `TypeInv`: everything handlers and the job hold is about
    minted wallets, and a place in a batch lies within the range of owners read
    (`PlaceInBatch`).
  * `BackfillLeavesNoGaps`, by `GapInv`: without a jump the table is contiguous
    *and* the range that any handler or the job is about to fill starts where the
    table is filled.
  * `OwnersAreGenuine`, by `OwnerInv`: what is in flight names past or present
    owners, and the job's batch is an unbroken range (`BatchIsInterval`), so that
    positions are indices.
  * `CompleteRunIsCurrent`, by `RunInv`: whenever the job starts on a table without
    gaps, and until it is done nothing is minted or transferred, nothing fails and
    nobody else writes, every minted wallet ends with a row that names its owner. The
    rows below the next batch are right at every place of the run, and none is
    missed between two batches (`BatchIsFull`).

* `TokenBalancesProofs`
  * `TypeCorrect`, by `TypeInv`, and `AccruedStays`, an action property over it:
    only upserts write rows, and an upsert takes the OR of the flags (`Upserts`).
  * `AccruedAlwaysSeen`, by `SeenInv`: the rows in flight are flagged for a reason
    too, including those a request flags a second time from the cached flags.
  * `OvercountAlwaysBounded`, by `CountInv`: what a deposit handler holds is over
    the bound by the deposit it is about to add, and what requests and the job
    hold was on chain.
  * `CompleteSyncIsRight`, by `SyncInv`: whenever a sync starts, and until it is done
    nothing happens on chain, nothing fails and nobody else writes, every token
    that is not excluded ends at its balance on chain, whatever races have left in
    its row.

* `AccountsProofs`, each on top of `AccountsTypeCorrect`
  * `ReferralsAlwaysStay`: whatever a step does, accounts only come and get ids
    (`AccountsGrow`).
  * `NoReferralCycles`, by `ReferralInv`: acyclicity alone is not inductive, an
    account could be created that closes a cycle. But a referrer has an account
    already, which the invariant adds; so a new account is nobody's referrer.
  * `LinksWork`, by `LinkInv`: of an address without overlapping requests there is
    one at most that asks for a link, and when it is about to write an id the
    account has none.
  * `PayeesAlwaysHaveAccounts`: when a job writes points, nobody it pays is
    without an account, whoever created it.
  * `LostRacesRunOut`: a job whose `createMany` fails was beaten to one at least of the
    accounts it had found missing, and no account goes away; so each lost race
    leaves fewer to lose. It is what `PaymentsGoOn` rests on.
* `PointsProofs`, of the jobs
  * `RunsMakeUp`, for any number of wallets, any table, any batch size and any
    failures. `MadeUpInv` says how many hours each wallet has got at every place of
    a run: all until the last complete run, all until this one's start if below the
    next batch, all but one once a backfill is done. `FewBefore` and `EmptyBatch`
    are the facts about batches: an index below the next batch's start is in this
    one, even over gaps, and an empty batch has no wallet behind it.
    `BackfillIsEnough` is the arithmetic of the rounded hours.
  * `NeverOverpaid`, the other bound. `PaidInv` says how many hours a wallet may have
    got at each place of a run; it needs that batches do not overlap, which is why
    the property excepts tables with gaps (`GaplessBatch`), and that a run
    backfills at most once, which is why it excepts `torn` ones. `StakesInv` is the
    same for a stake, whose row is dated only after it is paid: in between it is
    owed what the job has already written.
  * `PointsTypeCorrect`: that points are numbers rests on their being sums.
  * `TotalsAlwaysAddUp`, by `TotalsInv`: everybody who owns a wallet has a row by the
    time he is paid, and whoever has no row was paid no stake; the points that the
    staking job has read are still those of the user unless the jobs have raced.
* `PointsProofs`, of the backfill: `HoursPaidRight`, by `BackfillInv`. Somewhere in
  the history the loop has a place *k*: the rest of its page and the pages behind it
  are the transfers from there to some *e* (`Remaining`), the balance is that of
  the transfers before it (`Rewound`), and what lies beyond *e* is older than any
  hour to be paid (`Unfetched`). Histories are any sequences, so the index may cross
  any number of pages within one hour and of hours within one page.
* `PointsProofs`, of the whole: `PointsCompose` and `PointsTyped`.
* `FiniteSums`: a sum is a number (`SumIsInt`), takes its terms in any order
  (`SumTakes`) and grows with them (`SumGrows`). The library defines sums by a fold
  and states its induction theorems for operators. These lemmas take a smallest
  counterexample instead, a set rather than an operator (`SubsetInduction`).
* `ServicesProofs`, of third-party points, on top of `ThirdPartyTypeCorrect`
  * `PointsAlwaysSurvive`, by `SurvivalInv`: the rows the job is about to save are
    as good as those in the table.
  * `FreshPointsWereSaid`, by `FreshInv`: also the rows the job has read, those it
    has built, and every answer that is not written yet were said in time;
    what was said is forgotten only when it is said again (`SaysMore`).
  * `CollectionRunsOut`: a running job has so many steps before it at most
    (`StepsLeft`), of a sum over the platforms of the attempts left, and every step it
    takes leaves fewer (`AttemptTaken`), whatever platforms answer and requests do. It is
    what `CollectionEnds` rests on.
* `ServicesProofs`, of the listener: `ListenerTypeCorrect`; `AlwaysHearsAll`, by
  `HandlersInv`: of each start that has failed an event has one handler at most,
  and one of the start under way just if its turn has come;
  `StakesAlwaysAddUp`, of which the sum itself is inductive.
* `ServicesProofs`, of the stream sync: `SetUpStreamsStay`, an action property, by
  `StreamSyncInv`: the job has found the streams that exist, so it creates none
  again, and the foreign addresses it goes through are on the stream, so that of a
  stream without one nothing is removed. And `OneRunSetsUp`, by `WatchInv`: one run in
  which no call fails, but for removals, sets up every stream that has no foreign
  address or missing contract before or in it, and nothing later undoes that.
* `ServicesProofs`, of the pages: `PagingSettlesRight`, by `PagingInv`: of every order
  before the next page either the flag is right or the update that sets it right
  is on its way, and no update on its way is wrong but for a group that a page has
  cut (`SentInv`).
* `ServicesProofs`, of the whole: `ServicesCompose` and `ServicesTyped`.

The strengthened invariants were also checked as invariants by TLC before they
were proved.

**Only model-checked:** the liveness properties, because liveness under fairness is
out of the prover's reach. Every invariant and action property of the passing
runs is stated by a theorem. Of the liveness properties the half that is safety
is proved, all but that of `EventuallyAnswered`:

| Property | What is proved of it | What is left to TLC |
|---|---|---|
| `StalenessConverges` | a run that nothing disturbs leaves the flags right: `CompleteRunRepairs` | that such a run comes |
| `RegistryConverges` | a run that nothing disturbs leaves the table right, unless there is a gap: `CompleteRunIsCurrent` | that such a run comes, and that late handlers undo it only finitely often |
| `BalancesConverge` | a sync that nothing disturbs leaves the rows right: `CompleteSyncIsRight` | likewise |
| `WatchedUnlessForeign` | a run without failures sets the streams up for good: `OneRunSetsUp` | that such a run comes |
| `EveryGroupSettled` | a run that has ended with all its updates made has settled every group: `PagingSettlesRight` | that it ends |
| `EventuallyHandled` | without failures an answered body is handled or has a call at work for it: `AnswersAreAccountedFor` | that the call ends |
| `PaymentsGoOn` | there are only so many races to lose: `LostRacesRunOut` | that runs get on and are started again |
| `CollectionEnds` | a run has only so many steps: `CollectionRunsOut` | that it takes them |

The theorems about complete runs are of the form `Spec => [](Started /\
[][Undisturbed]_vars => [](done => right))`. They say of *every* start, whatever has
happened before it, what the run leaves if it is not disturbed; handlers may go
on reading meanwhile, and what they will write later is a disturbance then.

## What is not modelled, and the plan

The modules above are the parts that keep state. What is left to do on them:

1. The staleness job's pages within `Marketplace`, to replace the book that stands
   still in `StalenessPaging`. They are apart because the two together have every
   interleaving of both, which only a smaller instance of each would allow.
2. The loop of `getWalletNFTs`, which does not pass its cursor: `WalletRegistry`
   reads an owner's wallets in one answer.

Left out of the parts that are modelled:

* `WalletRegistry` takes one chain, since rows of different chains never meet;
* `TokenBalances` leaves out requests for wallets that are not deployed, which
  write nothing, and the row's `stale_at`, which nothing reads;
* `PointsAccrual` takes one point an hour for a wallet: rates by token name and
  level only scale it;
* `Backfill` takes the chains that Moralis serves: on Mantle the transfers come as
  an array, of which the backfiller takes `.result`, and every backfill throws;
* `StreamSync` leaves out the recreation of all streams in development;
* `ThirdPartyPoints` leaves out what platforms' answers look like and the upload to
  S3, which the services do not read.

Not modelled at all: the pending-cancellation job (no module provides it, so
there is no behaviour to check); the Moralis and node client (what it answers is
in its callers; the search for a block by date keeps no state); approved tokens
and snapshots, and TGE and claims (input and output without state of their own);
the wiring of the applications.
