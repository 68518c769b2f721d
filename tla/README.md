# Formal models of guesslyfe

This directory holds TLA+ models of the GuesslyFe prediction market platform, the TLC
runs that check them on small instances, and theorems about them that TLAPS proves
for every value of the constants.

## The system

GuesslyFe has two halves.

**Contracts** (`src/smart-contracts/contracts`, Solidity, on the Base chain). They hold all the
money. A transaction is atomic, so the only concurrency is the order of transactions.

| part | state | operations | called by |
|---|---|---|---|
| `BondingCurve` | none | prices of purchases and sales: the integral of `s^2 / 1400` in integers | `CreatorShare` |
| `CreatorShare` | ERC20 balances, supply, reward pool, platform fees, epochs with snapshots of pool and supply, shares recorded per account and epoch, last claimed epoch | `buyShares`, `sellShares`, ERC20 transfers with the hook `_update`, `finalizeEpoch`, `claimDividends`, `withdrawPlatformFees`, `pause`, `unpause` | holders, the creator as owner |
| `CreatorShareFactory` | volume and unlocked flag per creator, share contract per creator, list of contracts, whitelist of market contracts | `updateCreatorVolume`, `createCreatorShares`, `addMarketContract`, `removeMarketContract` | market contracts, anybody, the owner |
| `OpinionMarket` | all markets: end, status, winner, pause, reserves and shares per outcome, claims; one USDC balance for all | `createMarket`, `placeBet`, `resolveMarket`, `claimWinnings`, `pauseMarket`, `unpauseMarket`, `updatePlatformFeeCollector` | bettors, creators, the owner |
| `FeeCollector` | totals by source, whitelist of depositors, USDC balance | `depositShareFees`, `depositMarketFees`, `withdraw`, `addDepositor`, `removeDepositor` | depositors, the owner |

`placeBet` is where contracts interact: it takes the bet, pays the platform fee to the fee
collector and the creator's fee to the creator by plain USDC transfers, keeps the shareholder
fee, and calls `updateCreatorVolume` of the factory, whose revert undoes the whole bet.

**Backend** (`src/backend/src`, NestJS, PostgreSQL through TypeORM, Redis). It keeps profiles,
sessions, and a copy of what happens on the chain. Requests, event handlers and timers of one or
several servers run between each other's awaited commands; no operation uses a transaction or a lock.

| part | state | operations | what is hard |
|---|---|---|---|
| `auth` | OAuth states and sessions in Redis, users | `generateOAuthState`, `verifyOAuthState`, `createOrUpdateUser`, `createSession`, `getSession`, `deleteSession`, `linkWallet` | a session or row that was read is written back whole: a deleted session can come back, a linked wallet can be forgotten |
| `admin`, `creators`, `createMarket` | rows of markets, outcomes, creators | `resolveMarket`, `disputeMarket`, `extendMarket`, `cancelMarket`, `suspendCreator`, `banUser`, `overrideShareUnlock`, `refundCreatorStake`, `applyCreator`, `approveCreator`, `rejectCreator` | rows are read, checked, and saved after an await: updates are lost, statuses overwritten; a market is saved before its outcomes |
| `dividends` | claims; holdings and epochs that others write | `getClaimableDividends`, `initiateClaim`, `completeClaim` | the list is put together of readings at different times; claims are completed twice |
| `market-events` | rows of markets, outcomes, positions, trades | `handleBetPlaced`, `handleMarketResolved`, `handleWinningsClaimed` | handlers that nobody waits for overlap, fail half way, and save stale copies |
| `contracts` (`event-listener`) | processed events in memory, subscriptions | `onModuleInit`, `startListeners`, `processEvent`, `clearOldEvents` | the hooks of two services race at the start; retries run while records are cleared |
| listings of `markets`, `admin`, `creators`, `shares`, `dividends`, `users` | none | ten paged listings, one feed | pages are offsets into rows that come and go between pages, and between the queries of a page |
| controllers, guards, filter | sessions, `isAdmin` in rows, the configured admin | 74 routes | a right is copied from the configuration to the row to the session to the guard to the handler |
| `analytics`, `notifications`, `health`, crons | none | constants, quotes, reports | nothing |

Three facts of the code decide what its parts can do together:

- The guard stores the session in `request.user` (`auth.guard.ts:23`) and no session middleware is installed, so
  `req.session` is undefined. Every handler that reads `req.session.userId` throws, and the answer is 500: applications
  of creators, creation of markets, preparation of trades and claims, both requests of a dividend claim,
  the profile, the notifications. `Access` shows this (`access_routes`); the other modules model what the services do when they are called.
- The handlers of `market-events` are never registered: `startEventListeners` returns before it does so. `MarketEvents`
  models the block after the return as it would register them.
- `event-listener` watches the contracts and emits internal events, for which no code listens, and in practice it never
  starts (see "Divergences").

What makes each part correct:

- *BondingCurve*: selling undoes buying at the same price; splitting a trade gains next to nothing.
- *CreatorShare*: supply, total and balances agree; a finalised epoch is closed and pays for no more shares
  than it counted; earned dividends are never lost; the USDC held covers what is owed.
- *CreatorShareFactory*: shares unlock exactly at the threshold; one share contract per creator.
- *OpinionMarket*: three records of a stake agree; stakes are fixed at the end of a market; a payout is at
  least the stake and is kept until paid; one market's money never pays another's winners.
- *FeeCollector*: the money in it is accounted for; its totals are histories.
- *auth*: a session has a wallet of its own user, the one of the user's row unless requests overlapped; a log out is
  final unless a request held a copy of the session, and a session that nobody holds does not come back; no two accounts have one address.
- *admin, creators*: each row goes through its life in single steps, the operations, unless two requests had it in hand
  at once; a stake is refunded once; a winner is one of the stored outcomes, whatever overlaps.
- *dividends*: what is owed and unclaimed is listed; a completed claim stays what it is.
- *market-events*: statistics never show more than was traded, and agree with the trades when nothing overlapped; a position depends on its
  own handlers only; claims are prepared for those who bet on an outcome that won, and for exactly those who are owed where the contract has one market.
- *event-listener*: the records say what becomes of an event; every event ends; no process serves or is subscribed without its contracts.
- *listings*: a client that goes through all pages misses and repeats no more rows than went and came.
- *guards*: only who was configured as the admin judges creators; who is let in is served.

## Modules

| module | models | state and actions |
|---|---|---|
| `Sums` | – | `SumTo(f, n)`, the sum of `f[1..n]`, as a recursive function so that it can be proved about |
| `BondingCurve` | `BondingCurve.sol` | operators named as the functions; reverts are `CanBuy`, `CanSell` |
| `CreatorShare` | `CreatorShare.sol` with the ERC20 it inherits | variables and actions named as in the source; `usdcBalance` is the contract's USDC, `buys` a history variable |
| `FeeLedger` | the abstract specification of the fees that `CreatorShare` takes | USDC held, pool, platform's fees, dividends due; one action for each way money moves |
| `CreatorShareFactory` | `CreatorShareFactory.sol` | same; the n-th deployed contract has address n |
| `OpinionMarket` | `OpinionMarket.sol`, and an instance of `CreatorShareFactory` that its `placeBet` calls | same; `now` is the block's time, `feesKept` a history variable; outcome i is index i - 1 |
| `FeeCollector` | `FeeCollector.sol` | same; `withdrawn`, what left for others, is a history variable; `receive` is a transfer to it from anybody |
| `Platform` | the deployment: `OpinionMarket` and an instance of `FeeCollector` that receives its platform fees | `Bet` joins `placeBet` and the transfer to the collector; `CollectorStep` is a transaction of the collector, a withdrawal to itself included; `Transfer` is USDC sent to it by others, as by `withdrawPlatformFees` of a share contract |
| `Accounts` | the auth module: `auth.service.ts`, its guard and controller, and the users' table and Redis as it uses them | `request[r].pc` is the next awaited command of a request and the other fields what the request has in hand; one action per command, `Handler` is what follows the guard |
| `Administration` | the operations of `admin.service.ts`, `creators.service.ts` and `createMarket` that change rows | an operation is an action that reads and checks a row and keeps the changed copy in `request[r]`; `Load…` and `Update…` are the two commands of `save` |
| `RowLifecycle` | the abstract specification of these rows | one step per operation; implemented by `Administration` |
| `Dividends` | `dividends.service.ts` | one action per command; `RecordShares` and `Distribute` are the tables written from outside |
| `MarketEvents` | `market-events.service.ts`, `prepareClaim` and `getUserPosition` of `markets.service.ts`, and what `admin.service.ts` does to the same row | `handler[e].pc` is the next command of the handler of event e, or of a request of an admin (`adminRequest`) |
| `EventListener` | the start (`main.ts`, `contracts.service.ts`) and `event-listener.service.ts` | `contracts` and `listeners` are what the two hooks wait for; `task[t]` is a call of `processEvent` |
| `Listings` | the paged queries of six services | a listing is a record (which rows it shows, in which order, how it counts); `walk` is a client that asks page after page |
| `Access` | the controllers, guards and the exception filter, with log in, sessions and `setup-admin.ts` as far as rights go | a route is a record; `request[r]` goes from `guard` to `handler` to `answered` |
| `MC...` | – | the instances for TLC: bounds, symmetry, kinds of routes and listings |
| `SumsProofs`, `CreatorShareProofs`, `OpinionMarketProofs`, `AccountsProofs`, `AdministrationProofs`, `AccessProofs`, `MarketEventsProofs`, `ListingsProofs` | – | the theorems |

Conventions. A function of a contract is one action: transactions are atomic and every function that
moves money is `nonReentrant`. A revert, also one of a callee, is a guard. View functions are
operators. Events are left out. The USDC token is external and reduced to the balances of the
contracts: a user without the money is a user who sends no transaction. USDC sent to the collector without a call is modelled; sent to the other
contracts it only adds to a balance, of which the properties state that it is enough. Ownership and ERC20 allowances are
left out: they only decide who may send a transaction. In the backend what runs between two awaits is one
action, and `Abort` (in `Access` and `EventListener` `Restart`, in `MarketEvents` the failure of a handler) stands for every failure between two commands and for a crash; Redis and the database survive both. Operators named "mistaken form" stand next to
the definition they distort; each is a plausible bug that one of the properties is
able to notice. `TypeOK` documents the types of every module; it holds in the instances below also where the run does not list it.

`CreatorShare` does all arithmetic of the source in integers with the source's floors. The only scaled
number is `TO_USDC` (1e12 in the source): it cancels, because a floor of a floor is one floor,
and the proofs hold for every value of it. No product of the source reaches 2^256 (the largest
is 1e27), so integers are unbounded in the model.

`Accounts`: of the columns of a user only `walletAddress` is kept, the one that two operations write and sessions copy; `isAdmin` and `isCreator`
are the matter of `Access`. A wallet is an address and a way to spell it, because the database compares strings.
Twitter is external: the exchange of a code answers with some user or fails. The ten minutes of an
OAuth state are the case of a user who never returns. The clock advances at any moment, and
Redis drops a key whose life is over at the tick; the end of a session (`expiresAt`) and that of its key (`evictAt`) are kept apart as in the code.
`birth`, `linked`, `loggedOut` and `overlapped` are histories for the properties. A third place that writes wallets, `updateUser`
(`users.service.ts:86-119`), cannot be reached at this commit, as its handler reads `req.session`, and is left out; it stores
lower case, so it would add to divergence 5 and, reading before it saves, to the overlaps.

`Administration`: TypeORM's `save` reads the row again and updates the columns in which the copy differs from this second reading, so
`save` is two commands and a column that agrees by then is left alone (`Column`). No code that can run sets the status `PENDING_RESOLUTION` that
`resolveMarket` requires (its own `catch`, which restores it, encloses a log line); it is set from outside (`CloseMarket`). `contended` collects the rows that two
requests had in hand at once; `refunds` counts the refunds reported.

`Dividends`: rows of holdings and epochs are never written by the backend, and the model lets them change between any
two commands. `version` tells whether the tables changed since a listing began. One epoch can be claimed by several rows, one after the other.

`MarketEvents`: one contract holds all markets, and the handlers find the row by the address of the contract and do not read `marketId`
(`market-events.service.ts:117-119`, `239-242`, `273-276`). So an event names its market, the contract orders the events of each (`CanEmit`), and all of them change one row, in any order between
markets; the server may miss events. Requests of admins that extend, dispute or cancel the market save the same row. `cancelMarket`
saves the row with its positions, so that a position inserted meanwhile may make the save fail, which is `Fail`. A share costs one unit, so that shares and average price follow from the cost. `cascade: true` (`market.entity.ts:101`) makes
the save of a market save all its outcomes from the same stale copy. `handleWinningsClaimed` marks every position of the user
with the full amount. An error in a handler is logged and nothing is undone.

`EventListener`: the key of an event is its name and the millisecond. A rejected promise without a handler ends the process, which its supervisor starts
again; what is in memory is lost (`Lost`). Contracts that are created anew have no listeners to remove, so `removeEventListeners` leaves those it is meant for.
A hook that ends, even by logging its error, lets `listen` go on; one that throws leaves a rejection that nobody handles.

`Listings`: the queries of a page are separate actions: ids, rows of those ids when the query joins tables, count. Rows
are inserted, change their status or their order between any two of them. The count is always a query of its own; TypeORM (0.3.27) may leave it out where the page
is not full and take the number of rows so far, which is the same answer as a count at the moment of the page.

`Access`: the session keeps the rights of the log in; `createOrUpdateUser` writes `isAdmin` anew at every log in, so what the
script `setup-admin.ts` sets lasts until then. `configured` is the history of admins: a session of a former admin keeps the right while it lives, which the property allows. The rate limit and the validation of bodies are a refusal.

## Runs

| run | instance | shows |
|---|---|---|
| `shares` | 2 accounts, up to 3 shares, 3 purchases, 3 epochs | supplies agree, solvency up to rounding, recorded shares never exceed the epoch's total, finalised epochs are frozen, pending dividends only fall by payment, and the contract implements `FeeLedger` |
| `factory_unlock` | 3 creators, 2 market contracts, threshold 3, volume up to 4 | unlocked exactly at the threshold, one contract per creator |
| `markets` | 2 users; one market of 2-4 outcomes with bets of 65, 68 and 135 units up to 204, or two of 2 outcomes ending at different times with bets of 135 units up to 405 | stakes agree and are fixed at the end, winners keep their stake, probabilities add up, solvency over all markets, winnings kept until paid, the factory's volume |
| `platform_fees` | 1 market, 1 user, 2 collectors, 1 operator, bets of 134 and 268 units, 2 units deposited and 2 transferred | the collector's money is accounted for, its totals are histories |
| `accounts` | 2 users, 1 wallet, 2 sessions, 1 OAuth state, 2 concurrent requests, a life of 1 tick, clock up to 2 | a session carries only a wallet its user linked, does not come back once nobody holds it, stays out after a log out that nothing overlaps, and agrees with the row when requests do not overlap |
| `administration` | 1 creator, 1 market of 2 outcomes, 2 concurrent requests, ends up to 2 hours, 2 refunds | a stake is refunded once, a winner and the status agree and rows live in single steps unless two requests had the row at once; a winner is a stored outcome always |
| `dividends` | 1 holder, 2 creators, 2 tweets, 2 concurrent requests, 2 claims, 4 writes from outside | what is owed is listed, completed claims stay |
| `market_events` | 3 events or requests, 2 markets of one contract, 3 addresses of which 2 are registered, 3 outcomes of which 2 are stored | statistics, positions and claims follow the trades |
| `event_listener` | 2 events with 2 names, 2 retries, clock up to 2, every event declared by the ABIs | the records follow the events, no process serves or listens without contracts; liveness: every event ends |
| `listings` | each listing but the feed, pages of 2, up to 3 rows, 2 changes during a walk | rows missed and repeated are bounded by rows gone and come, totals agree |
| `access` | 2 users, 1 session, 2 requests, a route of each kind | only the configured judge |
| `access_routes` | `applyCreator`, 1 request | **bug**: the handler reads `req.session`, throws, and the answer is 500 |

Why the bounds are enough. Two accounts already give every pattern of trading, transferring (to each other,
to oneself, of nothing) and claiming between two epochs; three epochs give a claim that spans two, and one that leaves one
epoch out. In `shares` more than two shares or purchases occur in the first epoch only (the constraint `LateEpochsAreSmall`): two shares suffice to be a holder, a partial seller and a former
holder, three are for the rounding of the curve to accumulate.
Bets of 65 units are below the first amount with a fee at all, 68 above it, and 135 is above the first whose platform
part is not zero, so that all combinations of floors occur. The stakes are 65, 67 and 133, none a multiple of another, so that payouts do not divide and are
floored, in one market (65 of 132 shares of a pot of 197) as in two (133 of 266 shares of a pot of 399). The threshold of the factory is
reached by the second or third bet. `markets` holds two instances, told apart by the collector of the initial state (`InInstance`):
the first for the rounding in one market, the second for two markets on one balance. In `accounts` two users compete for
the one wallet, two sessions let `linkWallet` visit one of its own user and one of another, and two requests give every overlap
of two; a session lives for one tick, so that with the clock up to 2 it is alive, due and past its end, while a request holds it.
In `administration`, `dividends` and `access` an operation touches one row of a table, and two requests give every
overlap of two: that a third or other rows change nothing is what the theorems are about. In `dividends` two creators are needed for a listing
that reads one before and the other after a change. In `market_events` three events give a bet, the resolution and the payment in
any order and of one or two markets, three bets of which two overlap the third, or two events with a request of an admin between their commands; an address that is not registered and an outcome that has no row are the early returns,
of which one of the three events may be one (`FewKinds`, which also lets one event be a request of an admin, and bets alone be of one market, as their handlers do not tell markets apart). In
`event_listener` two events may share name, millisecond, both or neither; two retries give a first, a middle and a last attempt. In `listings`
three rows are two pages. Sessions, requests, events, markets of `market_events`, tweets and users are symmetric.

The constants (`MaxRefunds`, `MaxWrites`, `MaxClaims`, `MaxCompletions`, `MaxChanges`, `MaxRows`, `MaxTime`, `MaxVolume`, `MaxDeposits`, `MaxReceived`, `MaxBuys`, `MaxEpochs`, `MaxMarkets`)
bound counters that the code does not bound; they stop an action, never change it.

What the properties say of overlaps. The backend takes no lock and uses no transaction, so that overlapping requests do lose updates,
and a property that forbade it would be false. Hence two kinds of properties. Under every overlap and failure hold `SessionsCarryOwnWallet`,
`GoneForGood`, `WinnerIsStored`, the bounds of `StatsAgree`, the first part of `ClaimsFollowEvents`, that a claim stays the same claim and completed (`ClaimsAreKept`), the bounds of
the listings, `RecordsFollowEvents` and `AdminsDecide`: they bound the damage. Only where no overlap or failure interfered with the
row, session, or handlers concerned hold `LogoutIsFinalWhenAlone`, `SessionsFollowRows`, `StakeRefundedOnce`, `WinnerIffResolved`, `LivesInSteps`,
`UnclaimedIsListed`, that a claim has the tweet it was completed with, and the equalities of the market's events; they say that
overlaps are the only way to lose what they promise, and the rows, sessions and handlers that do not overlap are as small a part as the commands allow.
Which overlaps break them, TLC shows for the refund (divergence 6).

Fairness. No safety property needs it. `EventListener` assumes that the provider answers or its request times out, that timers
expire, that a processor returns or throws, that a rejected promise ends the process and that its supervisor starts it again: each is
a promise of the runtime, and none is made of the events or of the operator.

Deadlock is checked in every run but `market_events`, whose events are finitely many, and `listings`, where the walk ends; the other
state spaces have no end states.

## Divergences and bugs

A run shows the first. For the others with a configuration named in parentheses TLC finds the statement of the documentation
violated; the configurations are kept beside the runs. The rest is seen in the code.

1. `creators.controller.ts:28` and `API_DOCUMENTATION.md:558` document 201, 400 and 401 of an application. A handler that reads
   `req.session.userId`, which nothing sets, throws instead, and the answer is 500
   (`access_routes`).
2. `docs/CreatorShare.md:322` says dividends are based on the shares held when the epoch is finalised. The code
   records an account only when it buys, sells or transfers during the epoch (`CreatorShare.sol:384-400`). A
   passive holder earns nothing, and the part of the pool that would have been his stays in the contract
   because the epoch's total counts his shares (`MCSharePassiveHolder.cfg`).
3. `FeeCollector.sol:23` documents `totalMarketFees` as the fees collected from OpinionMarket contracts.
   OpinionMarket pays by a plain transfer and calls no deposit function (`MCPlatformMarketFees.cfg`).
4. `OpinionMarket.sol:492` says the shareholder fee will be distributed through dividends. No function pays it
   out (`MCPlatformShareholderFee.cfg`, under weak fairness of the whole next-state relation: transactions keep being sent
   while any has an effect).
5. `auth.service.ts:269` refuses a wallet that "is already linked to another account". The check, and the unique column, compare
   the address as the client spelled it, so lower case and checksum of one address are two wallets; `users.service.ts:70` stores
   and searches lower case (`MCAccountsWallet.cfg`). The request is only checked to be an address in some spelling (`link-wallet.dto.ts`).
6. `admin.service.ts:491` answers "Stake already refunded" to a second refund, but two requests at once both report one
   (`MCAdministrationRefund.cfg`). Neither looks at the volume of $10K that the comment (`admin.service.ts:475`) makes a condition.
7. `dividends.service.ts:92` means to skip a creator when "already claimed this epoch". The row does not store the epoch, so one completed
   claim hides the dividends of every later epoch from the list (`MCDividendsEpochs.cfg`).
8. `market-events.service.ts:208` means to count a new participant, but it looks for a position without an id after the
   position was saved and got one: nobody is ever counted (`ParticipantsCounted` in `MCMarketEventsMarkets.cfg`).
9. `event-listener.service.ts:39` and `BACKEND_MIGRATION_SUMMARY.md` say that listeners start with the module. The hook waits for one answer
   of the provider, the hook that creates the contracts for two or three: the listeners fail, which is logged, and are not started again. Were they
   first to find contracts, the fee collector's ABI lacks `EpochFinalized` and `DividendsClaimed`, and the rejected promise
   ends the process. Either way no process both listens and serves (`MCEventListenerStart.cfg`).
10. `API_DOCUMENTATION.md:1277` describes the activity of a user as a paginated list. Each page merges the same page of two tables and
    cuts the result to one page, so rows are on no page although nothing changes (`MCListingsActivity.cfg`).
11. `markets.service.ts:59` means to validate that the creator "exists and is approved" and checks existence only.
12. `pauseContracts` (`admin.service.ts:859`) is a placeholder that answers with random transaction hashes.
13. `getPendingMarkets` and `resolveMarket` work on the status `PENDING_RESOLUTION`, which no code sets; the crons of market monitoring only log.
14. `auth.service.ts:234` means to "extend session on activity". `getSession` gives the key in Redis a new life and leaves `expiresAt`, so an active
    session ends like any other (`MCAccountsActivity.cfg`; `LifeEndsOnTime`, a theorem, says what holds instead).
15. `market-events.service.ts:292` means to mark the positions of a user who was paid. The handlers do not read the id of the market: after a
    payment in one market of the contract, a bet in another leaves an unmarked position in the same row, or adds to a marked one, and `prepareClaim`
    offers a claim again, or none (`PaidMeansMarked` in `MCMarketEventsMarkets.cfg`; `tlc -continue` reports both).
16. A POST documented with 200, such as the resolution of a market (`admin.controller.ts:84`), answers 201, the default of Nest; log out,
    documented with 201 and without authentication (`API_DOCUMENTATION.md:522-526`), answers 200 and has a guard (`MCAccessCodes.cfg`).
17. What `setup-admin.ts` writes into a user's row is undone by the user's next log in, unless the user is also the configured admin.

## Proofs

`tlapm` checks all of it from nothing. Constants are arbitrary within the assumptions `CurveAssumption`,
`ShareAssumption`, `FactoryAssumption` and `MarketAssumption`, which only say that they are natural numbers, positive where
needed, and `PlatformAssumption`, `AccountsAssumption`, `AdministrationAssumption`, `AccessAssumption`, `MarketEventsAssumption`, `ListingsAssumption`, `DividendsAssumption` and `EventListenerAssumption`, which say that the values for "none" are none of the others and
that bounds (and the size of a page, which is positive) are natural numbers. `MarketEventsAssumption` also makes the events and outcomes finitely many, so that sums of trades exist: no
state of a run has seen more than finitely many.

`SumsProofs` proves what the rest needs of finite sums: the recursive equations, monotonicity under scaling, what an update of
one summand changes. The library's induction theorems take an operator as a parameter, which the
installed provers cannot instantiate; `SetInduction` replaces them by a statement about a set, derived from the
well-foundedness of strict inclusion between finite sets.

`CreatorShareProofs` begins with the curve: `Reversibility` (a sale undoes a purchase at the same price), `SpotPricesBracketCost`, and the exact
error of the two floors that follow each other (`UsdcFloor`).

Of the contract the inductive invariant `IInv` joins the checked invariants with two facts they need. `EntriesCurrent`: the
entry of an account for the current epoch is its balance or 0, and entries of future epochs are 0; without it
a finalisation could freeze entries that exceed the supply. `ClaimsPast`: nobody has
claimed the current epoch; without it a finalisation would not know which pending dividends grow. Each action has a
lemma that it keeps `IInv`. The hard part is solvency when an epoch is finalised: the pool moves from `rewardPool` to
pending dividends, and the sum of the floored dividends must not exceed it, which follows from
`EpochSharesBounded`. Solvency cannot be proved without the term `buys`: buying shares one by one and selling them
together leaves the contract one unit short for some purchases, up to the fees held.
From `IInv` follow the theorems `TypeCorrect`, `SupplyIsConserved`, `EpochSharesAreBounded`,
`SolvencyUpToRounding`, and the action properties `FinalizedStaysFrozen` and `DividendsAreKeptUntilPaid`.
`ImplementsLedger` maps the dividends due in `FeeLedger` to `Pending`, which the contract nowhere stores but computes from the entries of all epochs not
claimed yet: a sale must leave it alone (`PendingStays`, from the frozen epochs), finalising an epoch must add the pool to it at most
(`FinalizePays`, `NewDividendsBounded`), and a claim must clear that of one account (`ClaimPays`). `FeeIsSplit` is the arithmetic of the fee.

Of the factory, at the end of the same module, the invariant `FactoryInv` adds `ListedByAddress` (the n-th contract of the list has address n), without which
two creators could be given the same contract. It gives `UnlockedExactlyByVolume` and `OneShareContractPerCreator`.

`OpinionMarketProofs`: besides the checked invariants `IInv` needs only `UnwrittenIsEmpty`, that nothing is staked in a market
not created yet; otherwise creating a market could create a debt. The heart of it is `SumToParts`: a pot divided in proportion to
shares, each part rounded down, suffices for all parts; with `StakesAgree` a resolution never increases the debt of its market. The
sums of all markets move by the debt of one market at a time (`OneDebtChanges`), which is why markets do not pay for each
other. All properties of the run `markets` are theorems, the two action properties included, and
`ImplementsFactory` shows that the contract uses the factory only in ways that the factory's own specification allows, so that the
factory's theorems hold of the composition. The same is done one level up: `PlatformImplementsMarket` and `PlatformImplementsCollector`
show that the deployment (`Platform`) is a behaviour of the betting contract and of the fee collector, so that the theorems of the contract hold of
the deployment. `FeesAlwaysAccountedFor` and `TotalsRemainHistories` follow from the types of the collector's counters (`FeesInv`) and
from `CollectorSteps`, what each transaction of the collector, bet or transfer adds to them.

`AccountsProofs`: a stored session is correct only because every copy of one that a request may write back is, so `IInv` says
of the copies in flight what the properties say of the stored values: `RequestsOK` for the requests, `RowsOwn` for the rows, and
`LoggedOutGone`, that nobody holds a copy of a session logged out for good. `RequestStays` shows that what is known of a request is not disturbed by the others, because
wallets linked and times of birth are never taken back; the rest is one lemma per action. It yields `TypeCorrect`, `WalletsAreOwn`, `LifeEnds` and
`LogoutFinal` for any number of users, sessions and requests. `GoneStaysGone` says of each command that it writes only a session that its request holds, so that one that
nobody holds stays gone. `RowsAreFollowed` needs a second invariant, `OneByOne`: while nothing has overlapped, at most
one request is under way, and for each of its commands it says which sessions already follow the rows and which one the request is about to
write. A request that is cut short counts as an overlap: nothing is promised after it, as the property says.

`AdministrationProofs`: again the copies matter. `CreatorCopyOK` and `MarketCopyOK` say that a copy whose row nobody else had in hand is still
made from the row as it is, `OverlapsNoted` that two holders of one row have been recorded in `contended`, so that a save either writes over the row it
read or over one of which nothing is promised. The winner needs less: it is below the number of stored outcomes in every copy and row, however stale, because
outcomes are inserted once (`OneInserts`) while nothing has a winner yet. This gives `StakesRefundedOnce`, `WinnersAreResolved` and
`WinnersAreStored`. A second invariant, `EditsOK`, says that each copy differs from what was read by exactly one operation; with
it every command is a step of `RowLifecycle` or none, which is the refinement theorem `ImplementsRowLifecycle`.

`AccessProofs`: the right of an admin passes from the configuration to a log in, the session, the guard and the handler. `IInv` says of each station that
it claims the right only for one who is in `configured`, which only grows. `JudgesAreGuarded` shows of the routes themselves that the four that
judge creators have the administrators' guard. `OnlyAdminsDecide` follows for any number of users, sessions and requests.

`MarketEventsProofs`: the sums are over the events that left a trade; `SubsetInduction` and `SumParts` give what the proof needs of them. The
inductive invariant `Inv` has seven parts. `Fits` says of a handler at each command which rows it found, and that they are still there when it
reads them again, because rows are never removed. `EmissionOK` says that overlaps are noted and that in each market bets come before the resolution and users are paid once. `Within` is the half that needs no order: every row and every copy in hand, however stale, is at most the trades, and
a copy at most the trades before the handler's own. The other half is for handlers that ran one after the other: `OnlyOneRuns`, so
that the market lags behind the trades only by the bet of a handler between its trade and its save (`Settled`), the
outcome that won is that of the resolution (`Resolved`), and a position is that of the trades of its user on its outcome, plus the change in
hand, and marked exactly if the handler of the payment was there (`RowOK`). `RowElsewhere` is why positions need less: a handler of another user or
outcome neither reads nor writes the row, so only the handlers `Touching` it must not overlap; that its mark means a payment needs no order of the markets, the converse
that all events are of one (`FromOneMarket`). `WinnersOK` needs no order at all: whatever copy of the row is saved, its winner is an outcome that some resolution named, and a position stands for a bet. The three invariants of the run
`market_events` follow: `StatsAreTrades`, `PositionsAreTrades` and `ClaimsAreThoseOfEvents`.

`ListingsProofs`: the rows of a listing in the order of creation have ranks, and a page is the rows whose rank is in a range
(`PageRanks`). A row that comes or goes moves the rows behind it by one rank, so that one row at most crosses the end of the pages already picked
(`FewSkipped`, `FewToCome`). The inductive invariant `Inv` counts this at every command of every request: `NoneSkipped`, the rows that stayed and
were passed over are no more than those that went; `NoneAgain`, the rows met again, together with those that will be,
are no more than those that came. `Sizes` is the part that needs no order: the rows got are those of the pages picked, and on the last page those
of the total, but for one row per change; for a page of two tables it says which counts are still to come. `MissesAreBounded`,
`RepeatsAreBounded` and `TotalsAgree` hold for every set of listings that count what they show (`Listings \subseteq Paged`). That leaves out one, the activity of
users, whose total is how many rows the page had; it is the listing of divergence 10.

Of `Dividends`, at the end of the same module, `ClaimsInv` says of each request what it has in hand. `CopyOK`: a copy of a claim is of a row
that is still there, open if nobody else completes it, and a column the second reading agrees on is not lost; `IdsAreOwn`: a claim is inserted
under an id no other request has, which is what a uniquely generated key amounts to. `ListOK` is about the reading of many tables one after
the other: `asOf` is the version of the first reading, every write raises the version, so as long as the two are equal what was read is still so, and
`ReadOK` says which creators are decided and that the decision is right. `TotalsAreSums`, which no run checks, is why the total of a creator never
falls below a holding: it is the number of the shares that holders have (`Units`), counted one by one. It yields `UnclaimedAreListed` and the
action property `ClaimsStay`.

Of `EventListener`, at the end of `MarketEventsProofs`, `RecordsInv` says of a record that some event with its key came in, was processed if the record says
so, and was tried often enough if the record counts as failed (`RecordOK`); of an event alone with its key it says that the record is there and how often the
event was tried (`AloneOK`). A record is cleared only when it is processed, which the record of such an event is not. Because a record
stands for the events of its key, the statistics are at most the numbers of the events (`NoMoreThanEvents`, with finitely many events come in at
any time, whatever `Tasks` is). It yields `RecordsAlwaysFollow`. `StartInv` adds to `ServesWithContracts` that a failed hook of the contracts has left
a rejection open, which is why `listen` does not go on; `ServersHaveContracts` follows.

Every invariant and action property that a run expects to hold is thus a theorem. Only model-checked is the liveness property `EventsEnd`, as liveness under fairness and ENABLED are out of the prover's reach, and the divergences, which are counterexamples of an instance.

## Not modelled

- Generated bindings and ABIs, but for the events they declare (`EventListener`); migrations, DTOs, entities and seeds, but for the columns, constraints, bounds and initial
  rows that the modules read; deployment scripts beyond the wiring of the contracts; the mock token.
- Queries of single rows, quotes and unsigned transactions (`prepareTrade`, share quotes, eligibility, volume progress, performance): they
  keep no state, and the prices they ask for are those of `BondingCurve`. The quote of `prepareTrade` is in floating point.
- Decimal columns arrive as strings; where sums of the services concatenate them, only the answer of a statistic is wrong, and no model depends on it.
- `getPlatformStats`, the health report, analytics, notifications and the administrators' placeholders answer constants or counts.
- The crons of market monitoring read rows and write log lines; nothing else.
- The module `blockchain` is an older form of `contracts` that no module imports.
- The monitor of reorganisations of the event listener logs and emits an event that nothing listens to.
- The rate limit (ThrottlerGuard), CORS and the validation of bodies, but for a refusal.

What could follow: the same kind of ledger for the stakes and winnings of `OpinionMarket`; a bound on what flooring leaves in the contract
when every holder is recorded.
