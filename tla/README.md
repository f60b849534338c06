# Verification of the prediction market monorepo

TLA+ models of the parts of this repository whose correctness is hardest to test: the money, the
prices and the administration of on-chain markets, the pages and scripts that send transactions,
the pipeline of workers that turns news and proposals into markets, the routes they are served
by, and the way of a market from its expiry to its final result. Paths are relative to the
repository, which is mounted as `src/`; `C/` stands for
`contract/programs/prediction-market/src/`, `W/` for `workers/src/`, `B/` for
`prediction-market-back-end/src/` and `F/` for `ai-prediction-market-front-end/src/`.

## 1. The system

| Part | State it keeps | Operations | Talks to |
|---|---|---|---|
| On-chain market (`C/state/market.rs`, `C/instructions/market`) | the Market account: two ledgers (settlement: locked collateral and minted counters; pool: reserves, LP shares), fees, insurance, breaker, outcome; one USDC vault and two token accounts per market | create, mint and redeem complete sets, seed_pool, add and withdraw liquidity, swap, claim fees, reset breaker, resolution, settle_pool, claim_rewards, reclaim_dust | SPL token program; the global configuration |
| LP positions and insurance (`C/state/market.rs` LPPosition) | shares, principal and fee mark of each LP, `fee_per_share_cumulative`, the market's and the global insurance balance | the same instructions, seen by LP | market, configuration |
| Global configuration (`C/state/config.rs`, `C/instructions/admin`) | fees, minima, authority and nominee, pause, insurance balance, whitelist | configure, nominate and accept, pause, fee overrides, whitelist | every market |
| LMSR (`C/math`) | none | costs, prices and quotes from truncated series on Q64.64 fixed point | market |
| Crawler, extractor (`W/crawler.ts`, `W/extractor.ts`) | rows of news_items and candidates | fetch feeds, ask the model, publish candidates | queues news.raw, candidates |
| Generator (`W/generator.ts`) | rows of ai_markets | ask the model, insert a draft, publish it for validation | candidates, drafts.validate |
| Validator (`W/validator.ts`) | statuses of drafts and proposals | ask the model, write the verdict, publish approved drafts | drafts.validate, markets.publish |
| Publisher (`W/publisher.ts`, `W/shared/solana`) | address and status of a draft, status of its proposal | check, create the market on the chain, record it | markets.publish, Solana |
| Scheduler, resolver, dispute agent | statuses of markets, resolutions, disputes, rate limits | expire, resolve, review disputes, finalize, clean up | markets.resolve, disputes |
| Queue library (`W/shared/queue.ts`) | unacknowledged message, retry timers | consume, retry after 1 s, 5 s, 30 s, dead-letter | RabbitMQ |
| Worker configuration and heartbeats (`W/shared/config.ts`, `heartbeat.ts`) | cached configuration, `isEnabled` | limits, delay, switch-off by the admin panel | API, database |
| API (`B/routes/v1`) | proposals, rate limits, disputes, worker registry | propose, review, dispute, ingest, worker routes | database, queues |
| Web client (`F/lib/blockchain/solana/client.ts`, `F/features`) | the connected key, mutations under way | read the chain, build and send transactions, wait, try again | chain, API |
| Configuration scripts (`contract/scripts`) | none | read the configuration, edit it, write it back | chain |

What makes it hard:

* *On the chain* every instruction is atomic, so the difficulty is in long sequences of legal
  calls: the same USDC is tracked by several counters, each instruction updates its own
  selection of them, and rounding and `min`s decide what the last holder can claim. Prices come
  from truncated series.
* *In clients* an operation is several reads and several transactions. Each may land late, fail
  or expire; the wallet may be switched, another session act and the query client try again
  between any two of them.
* *In workers and routes* every handler writes several rows and messages one after another
  without a transaction. It may throw or die between two of them, its message may be delivered
  again, a retry lives only in a timer, workers may be switched off while they hold a message,
  and the model's answer to the same question may differ the second time.

What makes each part correct: the vault covers the ledgers, holders and LPs are paid what they
are owed and can leave, and all of it is the market users were promised (market); the pot covers
every claim and nobody is overpaid (LP fees); one market's insurance is not another's
(insurance); the position of the market maker is explained by trades, prices are odds, previews
are kept (LMSR); the authority comes from a nomination, a NO token has one market
(configuration); success means the transaction landed (clients); a story or candidate is never
lost, is published at most once, within the limit, and rows and chain agree (pipeline); a window
admits no more than its limit, a retry submits nothing twice (routes); a market is resolved once
and finalized only after its dispute window (resolution). PROJECT.json lists the places in the
code where these can go wrong.

## 2. Modules

| Module | Content |
|---|---|
| `BinaryMarket` | abstract: what a market promises its users |
| `MarketLedger` | the money of one market: one action per instruction; implements `BinaryMarket` |
| `MarketClaims` | what a comment of the program says and the program does not do |
| `MarketLedger_proofs` | seven theorems about `MarketLedger`, and that it implements `BinaryMarket` |
| `LpPositions`, `LpPositions_proofs` | shares, fee marks, principal and insurance of every LP; five theorems |
| `FixedPoint` | Q64.64 arithmetic, parameterised by the width of the word |
| `Lmsr` | cost, price, purchase, sale and the search for an amount, built on `FixedPoint` |
| `CurveMarket`, `CurveMarket_proofs` | the pool and the position that trades, leftovers and time weights move, priced by `Lmsr`; two theorems about them, four about the arithmetic, three about prices and the search |
| `Administration` | configuration, whitelist, mints and market accounts: who may change them |
| `WalletSessions`, `WalletSessions_proofs` | sessions of the web client and the scripts, on top of `Administration`; four theorems |
| `Intake`, `Intake_proofs` | crawlers, the ingest route, extractors, their queue, switches and connections; two theorems |
| `DraftPipeline`, `DraftPipeline_proofs` | generator, validator and publisher, their queues, the tables they share; five theorems |
| `ProposalApi`, `ProposalApi_proofs` | POST /propose and the worker routes, statement by statement; four theorems |
| `MarketStatus` | abstract: what the status of a market promises |
| `ResolutionLifecycle`, `ResolutionLifecycle_proofs` | scheduler, resolver, the routes that report, dispute and review, the tables they share; seven theorems, and that it implements `MarketStatus` |
| `LifecycleClaims` | what a document says of the resolver and it does not do |
| `MC...` | values, bounds and symmetry for TLC |

How they meet: a candidate message of `Intake` (`sent`) or `ProposalApi` (`sent`) is a candidate
of `DraftPipeline`; a market it publishes is one `ResolutionLifecycle` expires. A market account
of `Administration` is the one whose money is in `MarketLedger`; of that, `LpPositions` looks at
the LPs one by one and `CurveMarket` at the prices. `WalletSessions` extends `Administration`
and `CurveMarket` extends `Lmsr`, which extends `FixedPoint`.

### MarketLedger and BinaryMarket

A Solana instruction runs alone and is undone when it fails: an instruction is one action, every
`require!` and `checked_sub` a guard, a failed call no step. The variables are the fields of the
Market account, with the names of the source in the comments of the declaration, the balances of
the vault (`vault`), of the program's token accounts (`ata`) and of everybody else (`held`).
`pool_settled`, `is_completed`, the ratios, the breaker and the sentinel NO token that
create_market leaves are all there.

Abstracted:

* *Holders* are one account per side: what they can do together is what any number of them can
  do. A claim turns in any part of it.
* *Prices.* A purchase or a sale may meet any pair of `Quotes`; the ledger needs of the curve
  only that a token costs at most one USDC (`AmountsAssumption`). The curve has no such check,
  so this is an assumption about it. The refusal of trades in an imbalanced pool only removes
  behaviours. First liquidity must come at the opening odds, within `RatioTolerance` (200 basis
  points, `add_liquidity.rs:252`; `KeepsOdds`).
* *Time.* Three phases around `start_slot` and `ending_slot`; the 24-hour window of withdrawals
  may restart before any withdrawal, a cooldown may be over before any reset.
* *LP positions.* Shares are counted for the market. A withdrawal may meet any penalty of the
  schedule and any insurance compensation up to the market's contribution; a fee claim takes any
  part of the pot.
* *Fees* may be changed by the configuration or an override between any two trades.

`seeded`, `rulings` and `swept` are history variables that the properties use to say where the
program itself gives up a guarantee: seed_pool books its deposit twice, a resolution that does
not complete the market may be repeated, reclaim_dust empties the vault.

`BinaryMarket` knows neither pool nor ledger nor fee: tokens and USDC change hands, an outcome
is named and may be replaced until the market closes, then a token pays exactly its share, LPs
may leave, and the rest is swept. The mapping takes `stage` from `swept`, `settled`, `completed`
and `rulings`, `payout` and `held` as they are, and `cash` from the vault. A repeated
settle_pool is no step of it: the program accepts it, but nothing is left to settle.

### LpPositions

`shares`, `mark`, `invested`, `total`, `cum`, `pot` and the two insurance accounts, with one
action for every instruction that writes one of them. A trade brings any LP fee and any
insurance allocation, a later deposit gets any number of shares, a withdrawal brings any value:
prices are not needed. What other markets do to the global balance is `OtherMarketTrades` and
`OtherMarketCompensates`. `claimed` and `accrued` are history variables; a deposit forfeits what
was due and not claimed, as the code does (`Marked`), which is why `NeverOverpaid` is an
inequality.

### FixedPoint, Lmsr, CurveMarket

`FixedPoint` computes what `C/math/fixed_point.rs` computes, carry by carry: the half products
and the lost high half of `fp_mul`, the long division of `fp_div` with the doubling that may
overflow, the ten terms of `fp_ln`, the terms of `fp_exp` up to the first small one and the bits
its shift loses. An error or a panic is `Err`. With `W` bits on either side of the point instead
of 64 the constants of the code (ln 2, the largest exponent, the smallest logarithm) are those
of that width. `Lmsr` has the branches of `C/math/lmsr.rs` for every pair of signs, the
fallbacks (price of the moment, a hundredth of a USDC, half of the amount) and the binary search
as it stops. `CurveMarket` trades on it: buy, sell and withdrawal of an LP, with the effective
`b` of each stage, the caps on a trade and on the imbalance. Fees and minima are in the other
modules; of the breaker's three tests before a withdrawal it has the one about the ratio.

### Administration and WalletSessions

`Administration` has one action per instruction of `C/instructions/admin` and the three that
create a market. `WalletSessions` runs the functions of the client on it: `Steps` lists, per
operation, its reads, checks and transactions in the order of the code. `attempt` keeps what a
try has read and the state of its last transaction; a try that fails may be followed by another
(mutations.retry) while the first one's transaction is still under way (`Land`, `Refuse`,
`Expire` are the network). `Unchecked` are the operations that ignore the error a confirmation
returns. `SwitchWallet` changes the key the adapter reads at its next step, `Begin` is the
initialisation, `Act` what keys do on their own. A refusal carries what the client tells apart:
the creator's panel takes the refusal of a mint that has already moved (InvalidMintAuthority,
`tx = "moved"`) for a success (`TakeForDone`), while the RPC may drop that name from the error,
and then it is a failure (`Throw`). A try that is over keeps only what is still under way and
which keys it used (`Left`): nothing else is read again. Of the settings, the two that scripts
edit take an old and a new value. Cached queries of the pages (permissions, 5 minutes) are the
early steps whose answer is used later.

### Intake

`hand` holds what a poll or the ingest route is about and its next statement, `work` the message
of each extractor and its next write. A story is what the content hash tells apart. Connections
close (`Disconnect`) and nothing reopens them: the process goes on with a channel that throws,
polls and heartbeats included, until it dies. `Decline` is the nack of a worker that is switched
off, `believes` what its last heartbeat was told.

### DraftPipeline

One process per worker with prefetch 1. `job[w]` is the message a handler holds and the next
write it will make; each write is one action, so that another worker, a failure (`Fail`: the
handler throws, the loop acknowledges and sets a timer, or rejects after the last try), the loss
of the connection or the death of the process may come before any of them. A closed connection
(`Disconnect`) only clears channel and connection (`W/shared/queue.ts:61`): the process lives
on, `linked` no more, is delivered nothing, and nothing reopens it. A handler then under way
dies of its first exception, its own or the acknowledgement's (`Stop`), and a timer that fires
without a channel loses its retry (`Retry`). After a death another process starts (`Restart`:
redelivery, timers gone, `isEnabled` true again). Queues are bags, since redelivery and retries
reorder. The verdict is any of the three the validator can reach. `HourPasses` takes a draft out
of the last hour, `Expire` out of the status `active`, as the scheduler (`W/scheduler.ts:43`)
and a worker's report (`B/routes/v1/worker/resolutions.ts`) do; the limit counts neither.
`Review` is the admin route as it works for drafts the workers made: it finds no draft through
`proposals.draft_market_id`, so it writes the proposal and nothing else.

`redone` and `forgotten` are history variables: ids whose handler was cut off where it will
repeat something, and candidates whose retry was lost with its process or its channel. The
properties name these exceptions instead of hiding them, and section 3 says where each comes
from.

Left out: the dry-run branch of the publisher, the cache of the configuration (the limit is
constant); what becomes of a draft after `Expire` is in `ResolutionLifecycle`. The transactions
of `createMarket` are one action here and several in `WalletSessions`.

### ProposalApi

A request is a handler at its next SQL statement; `page` is what the page waits for, and tries
again after an error or a lost answer. The limits are a sequence of windows as in RATE_LIMITS,
the clock is in units of the smallest one, and a request counts where `counted` says. `Calls`
are handlers of the routes with which external workers report drafts, validations and
publications; they write by id what an earlier read allowed. A message handed to a channel that
closes at that moment has `vanished`: nothing confirms a publication. `Throw` is an exception or
a death of the process, per handler.

### ResolutionLifecycle and MarketStatus

The tables `ai_markets` (`status`), `resolutions` and `disputes`, and their writers: the two
cron jobs of `W/scheduler.ts`, and up to `Requests` requests in progress on the routes that
report a resolution, submit a dispute and review one as admin or as worker. No writer opens a
transaction, so each SQL statement that writes is one action of its own; the reads with which a
request begins are one step, and what it does later rests on them. `scan`, `sweep` and `request`
hold what a job or a request is about and its next statement. Admin and worker write the same
three rows in different orders (`After`). Any statement may fail (`ScanFails`, `SweepFails`,
`RequestFails`), the resolver may die (`ResolverStops`).

`mishaps` is a history variable: it names the markets and disputes where a writer was cut off
between two statements or two requests met, which the code tolerates without repair. Each
property lists the mishaps it excepts; all of them occur in the runs.

`MarketStatus` is what somebody who looks at `ai_markets.status` may rely on. It knows neither
rows nor jobs nor requests: a market falls due, is resolved, disputed and closed. Three things
it promises: a market is final only when the dispute window of a resolution is over or a dispute
has been reviewed; the clock alone never closes a disputed market; what is final is undone only
by a dispute accepted while the market was resolved, or by reports that overlapped or were cut
off. The mapping takes the status as it is, the windows that are over from `closed`
(`WindowsOver`), the disputes from their table (`OnRecord`), who is disputing or reviewing from
the requests (`About`), and the overlapping reports from `mishaps` (`Raced`). A review does not
look at the market, and closes it whatever its status.

The resolver never changes a row. Its insertion names no `market_address`, `resolved_by` and
`dispute_window_ends`, which the table demands (`B/db/migrations/001_ai_tables.sql:155`), and
without evidence it writes the status `failed`, which the table forbids; either way it throws,
and is retried until its message is dead. The same holds for the scheduler's cleanup of stale
jobs, which therefore has no action. Markets are resolved by the workers that use the route
`worker/resolutions.ts`.

Abstracted: who files a dispute, and with it the limits per user and the check for a second
dispute of one user; evidence and texts; rows of audit_logs; the time of day, where only the end
of a window matters. A request is answered long before the window of a resolution it has just
inserted is over (`WindowEnds`), and a cron job ends before it is started again. The dispute
agent is left out: nothing publishes to its queue (`B/routes/v1/disputes.ts:300`).

## 3. Runs

| Run | Bounds | Shows |
|---|---|---|
| `ledger_even` | opening odds even; rates in quarters; vault up to 4, stakes 2; a token at half or a whole USDC; fees of nothing or a half (`Halves`); a draw at even ratios; both pause switches | `TypeOK`, `LedgerCovered`, `SupplyAgrees`, `WinnersBacked`, `PairsBacked`, `LpSharesPersist`, `PauseHoldsMoney`, `KeepsPromise` |
| `positions` | two LPs (symmetric), four fee units per share, fees up to 3, shares and principal up to 4, one unit of insurance, a worthless and a good withdrawal | `FeesCovered`, `NeverOverpaid`, `InsuranceAgrees`, `OthersKeepDues` |
| `curve` | ten bits on either side of the point, `b` = 8, trades of 3, 24 and 48 in a pool of 600, four trades or withdrawals, three stages | `PositionExplained`, `PricesAreOdds`, `PreviewKept` |
| `sessions` | two keys, two NO tokens, two markets, two sessions (all symmetric), one retry each, seven operations, and besides the initialisation two changes of the key or acts of an authority, such as a whole handover | `TypeOK`, `SoleNoToken`, `SuccessIsReal`, `AuthorityTraceable` |
| `intake` | one story the model has to judge, two crawlers, the route, two extractors, one retry, two faults, one use of a switch | `StoriesAccounted`, `CandidatesExplained`, `StoriesSettle` |
| `pipeline_news` | two symmetric news candidates, one retry, two drafts, one death or lost connection, expiry, limit 1 | `TypeOK`, `NothingLost`, `OneMarket`, `HourlyLimit` |
| `pipeline_user` | one proposal, one retry, three drafts, one death or lost connection, the processing delay, a validator that is switched off and on | `RecordsAgree`, `EveryCandidateEnds` |
| `proposals` | two pages, limits of 1 in a unit and 2 in two, and `MCBudgets`: four requests in two units of time without a fault, three with one, three in four units (so that rows are cleaned up), or one proposal, three worker calls (two at a time) and a fault | `RateHeld`, `RetryIsSafe`, `PublishedStays`, `RecordsFollow` |
| `lifecycle_races` | one market, two requests in progress (symmetric), two resolutions, one dispute, one failure, no retry | `StatusKept`, `OneResolution`, `FinalAfterWindow`, `FinalResolutions`, `OverturnsExplained`, `DisputedIsHeard` |
| `lifecycle_markets` | two markets, one request at a time, one resolution, two disputes, one retry, one failure | `ResolvingIsQueued`, `ResolvedEnds` |
| `claim_burn` | as `ledger_even`, without fees | violated: section "Where code and comments part" |
| `claim_resolver` | one market, one request, one retry, no failure | violated: same section |

The largest are `pipeline_news` (8.1 million distinct states), `lifecycle_races` (5.9 million),
`sessions` (5.3 million) and `proposals` (4.3 million); with two threads a run takes about three
minutes or less.

*Why the bounds are enough.* `MaxVault` bounds deposits, `MaxDrafts` the rows of ai_markets,
`MaxTries` and `Retries` the retries (three in the code), `MaxStops`, `MaxFaults` and
`MaxFailures` deaths, lost connections and other faults, `MaxSwitches` and `MaxActs` what
operators do, `MaxTrades` the trades, `MaxFees`, `MaxShares`, `MaxInvested` and `MaxInsured` the
amounts of LPs, `MaxRulings` and `MaxDisputes` the rows of the resolution, and `MCBudgets` the
requests, calls, faults and time of the API. Rates are in quarters so that every rounding
happens with amounts of a few units: a fee, a draw and a share all round, and a pool can be
one-sided, emptied to its last share, refilled, settled and swept within a vault of four. Fees
of 1 and 2 over 3 or 4 shares leave remainders per trade and per claim. In the curve the largest
trade is six times `b`: trades on either side of zero move positions from even odds out of
`Near`, and four of them go on to where `fp_exp` refuses the exponent, so that the run meets
near positions, far ones and errors. Two candidates are what the hourly limit needs, two drafts
of one candidate what a redelivered candidate needs, one death or lost connection per behaviour
suffices for each exception the properties name, and every exception is reached. Two sessions
and one retry give three transactions under way at once, two of one user's; two acts are a
nomination and its acceptance, which may both fall between a script's reading and its writing
back. Two crawlers and the route are the three writers that race for a content hash. Two
requests are what a race needs and two resolutions what a race can make of one market; in
`lifecycle_markets` two markets share a scan, one of them is resolved, and disputes of it follow
one another (two resolutions and a failure would take the run far beyond minutes). Deadlock is
not checked: a swept market, a closed page, a process without connection, an empty queue and a
budget used up are legitimate ends, since nobody has to submit anything.

Every property has a mutant, an operator with the suffix of its defect that stands before the
definition it changes and is used by no action: a dropped pause check, fees left in the reserve,
a token delivered to the other side, a claim rounded up, a sale that leaves the curve where it
was, a failed confirmation taken for success, a nomination nobody looks at, an insertion that
ignores the unique key, a message before its row, an off-by-one in a limit. TLC finds the
property violated under each.

*Fairness.* `DraftPipeline!Fairness`: weak fairness of each worker's own work and of its timers,
which the event loop grants: the guards of `Work` ask for the channel where the code needs it,
and a timer fires (`setTimeout`) whether its message can then be published or not. Nobody has to
start a process again that has lost its connection: `EveryCandidateEnds` therefore excepts
candidates held at a worker that is not `linked`, besides those whose retry was lost. Nothing is
assumed of users, reviewers, the admin panel, failures or deaths. Since Fail is not fair and
retries are counted, `EveryCandidateEnds` holds however often handlers throw. `Intake!Fairness`
is of the same kind: a handler once begun goes on, the broker delivers, a nack and a timer
happen, and a process that waits for a closed channel dies in the end; polls, switches and
faults come as they please. `StoriesSettle` speaks of behaviours in which the extractors'
channels stay open from some time on, as nothing in the program reopens them.
`ResolutionLifecycle!Fairness`: time passes, cron jobs are started again and again, the resolver
consumes, and a request in progress goes on; nobody has to report, file or review. The other
modules have no liveness: nobody is obliged to call an instruction, to click or to submit.

### Where code and comments part

Two statements are refuted by runs of their own; PROJECT.json quotes the line.

* `BurnNeverUnderflows`: add_liquidity mints into the pool but does not raise
  `token_yes_total_supply`; resolution burns the pool's tokens and subtracts them from it, so
  such a market may be impossible to resolve.
* `ResolverResolves`: a market sent to the resolver gets no resolution from it, however often it
  is tried.

The models contain further departures, which no run is spent on; the actions follow the code in
each, and history variables name those that the properties must set aside.

On the chain:

* seed_pool books its deposit as collateral and as reserve
  (`C/instructions/market/seed_pool.rs:326`; `seeded`), so that the reserve can exceed the
  vault, unlike `C/events.rs:689` has it. redeem_complete_set has the same trouble with the
  counters as resolution (`redeem_complete_set.rs:315`).
* The leftover an LP sells back is priced as a sale, moves the position of the market maker up
  as a purchase would (`C/state/market.rs:1396`; `spare`), enters the pool's reserve and is
  burned (`withdraw_liquidity.rs:621`); settle_pool later wants to burn it again.
* The breaker trips on the empty losing side of a settled pool, and reset_circuit_breaker wants
  two sides that are not empty: LPs of such a pool cannot leave.
* add_liquidity checks `market_paused` only (`add_liquidity.rs:164`) and claim_lp_fees checks
  `is_paused` (`claim_lp_fees.rs:147`), the reverse of what `emergency_pause.rs:6` and `:66`
  list. `PauseHoldsMoney` is about the rest: it leaves claims of LP fees open, which these
  comments allow during a pause and the program refuses (`PauseHolds` proves no more).
* withdraw_liquidity lowers `invested_usdc`, which `C/state/market.rs:47` says it leaves alone,
  and lowers it by the position's principal times the part of *all* shares that leaves
  (`withdraw_liquidity.rs:511`): an LP who is not alone keeps principal for shares it no longer
  has, and its insured loss is measured on less than it put in.
* reclaim_dust takes the insurance money with the dust and leaves the contribution on record;
  configure overwrites the global balance (`reconfigured`).
* The ten terms of fp_ln fall short of ln 2 by up to 0.05, not by 1e-10
  (`C/math/fixed_point.rs:521`), so that near q = (0, 0) the cost may fall while a position
  rises, and the price of the moment takes its place (`C/math/lmsr.rs:562`). Far from it a price
  vanishes, and from 43.668 times the parameter on `fp_exp` refuses and there is no price at all
  (`C/math/fixed_point.rs:694`). CONVERGENCE_THRESHOLD is a tenth of a USDC, not 0.0001
  (`C/math/lmsr.rs:120`). The preview of a sale uses `lmsr_b`, not the effective `b` of the
  stage, which is why `PreviewKept` is about the first stage; the preview of a withdrawal
  measures the loss against the whole principal and compensates it from the threshold on
  (`withdraw_preview.rs:259`), the instruction against the part that leaves and only beyond the
  threshold.

In the client and the scripts:

* swap, mint and withdraw do not look at the error a confirmation returns (`Unchecked`), so that
  a page may call a refused transaction a success. A retry after an expired wait may trade
  twice.
* The panel that repairs a mint authority calls a refused transaction a success if the refusal
  is InvalidMintAuthority (`F/components/market/MarketConfigPanel.tsx:62`; `TakeForDone`). It is
  right to: both mints leave the vault in one instruction, so that such a market is usable.
  `SuccessIsReal` says of creation and repair that the market can mint, and of every operation
  but that refusal and the `Unchecked` that the last transaction landed.
* The page lets an authority create a market, listed or not; with the whitelist switched on the
  instruction refuses a key that is not listed, after mint_no_token has left an unused NO mint.
* The scripts write a whole configuration they read before, and undo what changed in between;
  only the authority itself is safe (`AuthorityTraceable`).

In workers and routes:

* A disabled worker dead-letters the message it means to put back: nack() does not requeue
  unless told so (`W/generator.ts:214`).
* The hourly limit counts active drafts only: a second verdict cancels a published draft, and
  one that expires or is resolved within the hour leaves the count as well, so more than the
  limit may be published. `HourlyLimit` is about drafts that are active at once.
* An approving review reaches no draft of the workers, as nothing sets `draft_market_id`. A
  draft that meets the limit is never taken up again.
* A retry waits in a timer (`W/shared/queue.ts:189`) and is lost when its process dies, or
  logged and lost when the channel is closed by the time it fires (`W/shared/queue.ts:195`;
  `forgotten`). The delay follows the acknowledgement, so it does not space the items
  (`W/generator.ts:222`).
* A publisher that is cut off before it writes the address creates a second market
  (`W/publisher.ts:215`), and it does not read a status that a second verdict has changed
  (`W/publisher.ts:113`; `redone`).
* A worker whose connection closes keeps running without one (the API's queue service
  reconnects); after a restart it believes it is switched on until its first heartbeat.
* A story filed by the admin route is never queued (`byHand`); one the model fails on is marked
  processed for good (`passed`); a crawler that dies between row and message leaves a story that
  every later poll takes for a duplicate (`abandoned`).
* POST /propose counts a request after checking the windows and in statements of its own: pages
  that submit at once are all let in, and a fault leaves a proposal uncounted. A worker's
  validation that read a draft before its publication overwrites the status `active`
  (`overlapped`).
* Two reports for a market are both stored (`B/routes/v1/worker/resolutions.ts:94`), and a
  report, submission or review that is cut off leaves rows that no other route repairs: a
  decided dispute with a disputed market, a final market with an open resolution (`mishaps`).
* The sweep finalizes the markets of its query although a dispute may have been filed since
  (`W/scheduler.ts:90`; the query is meant to find markets "with no active disputes"): the
  resolution becomes final, and the market too if the submission has not yet marked it disputed.

## 4. Proofs

The theorems hold for every value of the constants that satisfies the named assumptions, which
TLC evaluates in every run:

* MarketLedger: rates between 0 and `BPS`, natural amounts, a token never dearer than one USDC,
  withdrawal caps below the whole pool.
* LpPositions: finitely many LPs (`Providers`), a positive precision, natural amounts.
* FixedPoint and CurveMarket: a word greater than one, ln 2 below one, and the multiplier of the
  first stage is one (`C/constants.rs:259`). In the theorems about positions and the search the
  pricing functions may return any numbers. What prices need of the width of the word is
  `WidthAssumption`: it holds parameters and positions (`WordIsWide`), powers of two
  (`PowersFit`) and near exponentials (`Carries`).
* Administration and WalletSessions: keys, markets and tokens differ from the values that stand
  for none (`KeysDiffer`, `NoneIsNoAccount`); rates, retries and the acts of others are natural.
* DraftPipeline: news candidates among the candidates, natural bounds, and a `None` that is no
  candidate. Drafts, retries and deaths are arbitrary.
* Intake: the API is no worker, crawlers are no extractors, instances of both are finitely many
  (`Instances`); stories may be any set, faults come without bound.
* ProposalApi: as many lengths of windows as limits, both natural and at least one (`Windows`),
  finitely many pages, ids of drafts from 1 on (`Numbers`).
* ResolutionLifecycle: finitely many requests in progress, natural bounds; markets may be any
  set.

**MarketLedger_proofs.** `TypeCorrect` gives natural numbers everywhere, which is where a
missing guard of a subtraction would show. On it rest:

* `VaultCoversLedger`: per action, what leaves the vault is booked off some ledger, with the
  rounding of `Split` in the vault's favour.
* `CountersAgree`: the counters and the tokens move together; an invariant about completion
  (`ClosingInv`: a completed market has been ruled on and the program holds no tokens) is
  needed, because only with it do claims and settle_pool find the counters where the property
  wants them.
* `SharesPersist`: caps below the whole round down to less than all shares.
* `PauseHolds`: from the guards, action by action.
* `PairsAlwaysBacked` by way of `MinorBacked`: the smaller side of all tokens, the pool's
  included, is backed; a trade moves tokens between pool and holders only.
* `WinnersAlwaysBacked` by way of `Worth`: the claims on both sides, the pool's tokens included,
  weighted by any ratios. Before the outcome equal numbers of both tokens exist, after it the
  program's own have been burned and paid for, and each claim removes as much from the sum as
  from the collateral. The strengthening is needed since a holder's tokens may come from the
  pool.
* `LedgerKeepsPromise`, the refinement: initial states map to initial states, and every action
  to an action of `BinaryMarket` or a stutter, one lemma for each kind. The invariant it needs
  adds to `ClosingInv`, which orders the stages, that a swept vault is empty (`Drained`):
  otherwise a second reclaim_dust would sweep again.

**LpPositions_proofs.** `NobodyOverpaid` rests on a stronger invariant: what was claimed and
what is due, times the precision, never exceed what accrued, and marks never pass `cum`; the
floor of a claim only widens the gap. With it `DuesSafeFromOthers` (an action property) is a
matter of which action raises `cum`. `InsuranceAccountsAgree` goes by the guards that let no
compensation exceed the contribution. `PotCoversDues` needs two sums over all LPs (`FeesInv`):
the total is the sum of the shares, and what all shares have earned since their marks stays
within the pot times the precision. A trade keeps it since a fee per share, rounded down and
taken by all shares, is no more than the fee; a claim since it takes at least as much from the
earnings as from the pot. The lemmas about sums (that the library's fold exists and is linear,
that one value moves it by as much) are proved by induction over sets of LPs (`SetInduction`).

**CurveMarket_proofs.** About the arithmetic: `MulIsFloor`, the four half products and their
carries add up to the floor of the exact product, wherever that fits and one factor is below
half of the word; the lost high half is shown to be zero then. `DivIsFloor`: three digits of a
long division are the floor of the quotient (`LongDivision`). Both go by the uniqueness of
quotient and remainder (`DivUnique`). A divisor above half of the word may make the doubling
overflow, so it is excluded; the program divides by `b` and by sums of exponentials far below.
`SeriesStaysSmall`: the recursion of fp_exp's series is well defined (`SeriesExists`), its terms
never grow, and the factorial outweighs them: (3 - sum) times the factorial stays at least one,
so the sum stays below three. With it `ShiftKeepsItsBits`: where three times the largest power
of two fits in a word (2^62 in the program, whose word is 2^64; `PowersFit`) the final shift
drops nothing.

About prices: `PricesAreParts` shows that the rest which `lmsr_get_no_price`
(`C/state/market.rs:1349`) takes for no is never below nothing, whatever the divisions lose, and
says when a price reaches an end of its range. `PricesStayOdds` is the property of the run,
`PricesAreOdds`: while every position is within (k + 1) ln 2 times `b` (`Near`), where k is
`Reach` and a word carries the exponentials up to k with room for a quotient (`Carries`), both
prices are strictly between nothing and one USDC; further out a price may vanish or be an error,
but is never a whole USDC. In the program k may be 30, a position of 21 times `b`; in the run it
is 3, and the run goes far beyond. The exponential of a position, with its sign, is then between
3 * 2^k + 1 and 3 * 2^k words (`NearWeight`), and two such numbers have a quotient that is
neither nothing nor one. About the search for the tokens that a sum buys, whatever the series
return and wherever the cost is not monotone: `SearchAnswersRightly`. A loop invariant holds its
interval (`Within`: one token less than the lower end is paid for, the upper end is enough), the
recursion is shown to be well defined from its last iteration down (`SearchExists`), and
intervals that are halved (`Halving`; 50 times, from at most 10^15, in the program) end in a
point. The code returns `low`, one above the last number it found affordable, so the theorem
says that the tokens or all but one cost no more than the sum, and not that all of them do: the
pool may be left short by what the last token costs. About the market, whatever the pricing
functions return, errors included: `PositionsAreExplained`, and `PreviewsAreKept`, by way of
what the last preview told (`PreviewHolds`).

**WalletSessions_proofs.** One invariant, `SessionsInv`, carries all four theorems. Of the chain
it says that a market's NO token has been minted (`Issued`), so that no other creation gets it,
and that authority and nominee were appointed (`Governed`). Of every session it says what a try
has in hand when it stands before a step (`Prepared`): a sent transaction has a signer, a
creation past its mint has a token, and a configuration that a script read was one the appointed
held (`Trusted`), which is why writing it back long after hands the program to nobody else.
`Paired` says that the two mints of a market leave the vault together, so that a repair refused
because one has moved finds a market that can mint. What is reported (`Reported`) is what the
last transaction did. Instructions undo none of this (`Lasting`), so transactions of other
sessions and earlier tries may land at any time.

**Intake_proofs.** `StoriesAreAccounted` needs that what is under way is of stories on file
(`Filed`) and what is marked was passed over or sent (`Marked`). `CandidatesArePaid` counts, per
story, everything that may still make a candidate of it: the hands between row and message, the
messages queued, delayed or in a handler's hands before its insert. That number and the
candidates made are one at most, or were paid for by faults (`Paid`). The count is what makes
the invariant inductive: a redelivery after a fault moves a story back to where it may be
inserted again.

**DraftPipeline_proofs.** `PipelineTypeCorrect` needs that messages and jobs of validator and
publisher are about inserted rows (`Rows`), that the generator sends only a draft it inserted
(`Drafted`) and the validator acts on a ruling it made (`Ruled`). `OneMarketPerDraft` needs
`MarketsAccounted`: a market on the chain is recorded, about to be recorded, or its publisher
was cut off. On these rest:

* `NoCandidateLost` by way of `Accounted`: a candidate whose retry was not lost is held
  somewhere or settled, a handler past its insert has the draft it made (`OwnDraft`), and the
  handlers wrote the ruling and the address before what follows them (`RulingWritten`,
  `AddressWritten`); without these an acknowledgement could lose the candidate.
* `PublishedRecordsAgree`: there is one message about a draft unless a handler was cut off
  (`SingleCopies`), one draft about a candidate (`OneDraft`), and what is not published has not
  been decided otherwise (`Unpublished`).
* `PublicationsLimited`: between the count and the write of the only publisher the number of
  active drafts can only fall, by age, expiry or result (`Room`, `Counted`). It says how many
  are active at once and nothing of how many are published.

**ProposalApi_proofs.** `SubmissionsInv` is about requests and pages: how far a request is says
which rows it has written (`InOrder`), each page waits for its own request and tries again only
after an answer or a loss (`Watched`, `Attended`), each lost answer and each uncounted row was a
fault (`FaultsPaid`), and for every window the rows it counts, the requests that have passed its
check and the pages that may still send one stay within the bound of `RateHeld` (`Bounded`). It
gives `LimitHeld` and `RetriesAreSafe`. `ReviewsInv` is about drafts: each is linked to the
proposal it was made of, a handler at a write knows what its read allowed (`Placed`), and calls
on one draft exclude each other or are in `overlapped` (`Alone`). It gives `ActiveMarketsStay`;
`RowsFollow` in addition needs that without faults a draft and its proposal agree but for the
call between its two statements (`Linking`, `Agreeing`).

**ResolutionLifecycle_proofs.** `IInv` adds to `TypeOK` that rows and requests refer to rows
that exist and are of their market (`RowsExist`), that a review makes only the statements of its
route (`InOrder`), and that the bounds leave room for every row still to be inserted
(`RoomLeft`, with the cardinality of the requests that are about to insert). `TablesGrow`: rows
are never taken away. On it rest `NoMarketForgotten`; `FinalOnlyAfterWindow`, by way of what a
sweep in progress has found (`ClosersInformed`); and `ResolvedOnce`, by way of `Single`: a
market has one report in progress or one resolution, and a resolution is either marked or about
to be, unless two reports met or one was cut off. `FinalMarketsClosed`, that a final market's
resolutions are final, needs that a review and the sweep close both tables on their way
(`OnTrack`); `OverturnsTraceable` that every new result is held by a dispute's decision or by
the review that is about to write it (`ReviewsAccounted`); and `DisputesHeard` that whoever
marks a market disputed has just filed a dispute (`FilingsFresh`), and that a disputed market's
dispute is open or in the hands of a request, or a mishap names it (`DisputedHeard`).
`StatusAsPromised` is the refinement: initial states map to initial states, and each statement
of a job or a request to one action of `MarketStatus` or a stutter, with a lemma per kind of
step. Its invariant (`StatusInv`) says when a writer that no longer looks is still right: a
report in progress is of an unresolved market unless reports raced, a market that is being
disputed or has a dispute on record has been resolved, and what the sweep still has to close has
a window that is over.

*Only model-checked* are the three liveness properties, `EveryCandidateEnds`, `StoriesSettle`
and `ResolvedEnds`: under fairness they need `ENABLED`. How exactly the series of `FixedPoint`
approximate exponential and logarithm is not stated at all. The type invariant of
`ResolutionLifecycle` is proved (`LifecycleTypeCorrect`) and in no run. The inductive invariants
of Intake and ProposalApi were also checked by TLC on the instances of their runs before they
were used in a proof.

## 5. Plan

Done, in this order: the money of a market with checks and proofs; the pipeline; the resolution;
positions and insurance of LPs; the abstract market and the refinement; fixed-point arithmetic,
LMSR and the curve; administration and the sessions of client and scripts; intake; the proposal
and worker routes; then the proofs of their safety properties (section 4); and last the abstract
status of a market with its refinement, and what the curve quotes.

Worth doing next: how far rounding may move the costs of `Lmsr`, and where they rise with the
tokens; the cache of the worker configuration and the branch of dry runs.

## 6. Not modelled

PROJECT.json gives the status and the reason for every component. In short:

* Pages, components and styles of the two front ends, apart from which page starts which
  operation: they keep no state that others read.
* Previews of rewards and withdrawals, metadata of mints, the display name of a market: they are
  read-only or read by nothing.
* The read and transaction-building routes and the API's blockchain client, the contract's CLI,
  its demonstration client, test scripts and `initialize-program.ts`: they are written for an
  older interface of the program and would fail against this one.
* Middleware for payment, rate limits and content that no route registers, and a client of the
  worker routes that nothing uses.
* The administration of AI settings: keys are written one by one, and earlier ones stay when a
  later one is refused; the limits of the pipeline are constants here.
* Authentication, logging, the calls to the language model (a free choice where their answer
  matters), development modes, counters of the heartbeat.

Most lines of the repository are of these kinds; the models cover the parts whose state outlives
a call and is shared.
