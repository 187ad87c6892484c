# A TLA+ model of the shop

The repository is an online shop: a NestJS backend with TypeORM over PostgreSQL
(`src/backend`), a React client (`src/frontend`) and a payment gateway it talks
to over HTTP. This directory holds TLA+ models of its parts, the TLC
configurations that check them on small instances, and TLAPS proofs for every
instance.

The comments of the code number its use cases (CU-03 checkout, CU-05 payment
confirmation, CU-14 cancellation, CU-21 refunds, ...); they are quoted here where
a property comes from one. Paths are relative to `src/backend/src/modules/` or,
for `.tsx` files and hooks, to `src/frontend/src/`.

## 1. The system

| Component | State | Operations that change it | Module |
|---|---|---|---|
| Order life cycle (`orders/orders.service.ts`, `order-status.ts`, `order-policies.ts`, `order-cancellation.service.ts`, `admin/admin-orders.service.ts`) | `Order` (status, cause, `stockReservationActive`, `paidAt`, expiry), `OrderItem.stockCommitted`, history, notes | `applyPaymentOutcome`, `expireReservations` (cron, 10 min), `cancelByCustomer`, admin `cancel`, `changeStatus`, tracking, notes | `OrderStatus`, `Orders`, `OrderPages` |
| Stock reservation (`products/stock/stock-reservation.service.ts`) | `stock_total`, `stock_reserved` | `reserve`, `release`, `confirmSale`, `restockCancelledSale`, `restockReturn`, `takeForReplacement` | `StockReservation`, `Inventory`, `RowLocks` |
| Stock administration (`products/stock/stock.service.ts`) | the same counters, movements | `adjust`, `setThreshold` | `StockAdjust` |
| Checkout (`orders/checkout.service.ts`) | `Order`, `Cart`, preferences at the gateway | `confirm`, `retryPayment`, `attachPreference`, `compensateFailedPreference` | `Orders`, `PaymentLinks`, `Cart`, `CheckoutPage` |
| Payment processing, ledger (`payments/payments.service.ts`, `payments/ledger/`) | `Payment`, `Refund` rows | `processPayment`, `reconcileAwaitingOrders` (cron, 30 min), `requestRefund`, `fitsInBalance` | `Payments`, `Ledger` |
| Refund processing (`payments/refunds/refunds.service.ts`) | status, attempt and external id of a `Refund` | `dispatch`, `dispatchPending`, `reconcileInProgress` (crons), `retry`, `resolveManually` | `Refunds` |
| Gateway (`payments/gateway/`) | payments, preferences, refunds, outside the process | creates, decides, notifies, fails to answer | environment of the three above |
| Cart (`cart/cart.service.ts`, `useGuestCart.ts`, `useCartMerge.ts`) | one active `Cart` per user, its items; the visitor's cart in the browser | add, change, remove, clear, merge, revalidate, associate, restore | `Cart`, `GuestCart` |
| Returns (`orders/returns/`, `orders/admin/admin-returns.service.ts`) | `ReturnRequest`, replacements, photos, stock, refunds, `devuelto` | `create`, `approve`, `reject`, `receive`, `dispatchReplacement` | `Returns`, `RowLocks` |
| Mail (`notifications/`) | `EmailLog` | `send`, `deliver`, `retryPending` (cron) | `Notifications` |
| Authentication, users (`auth/`, `users/`) | user, refresh tokens, links of verification and reset, login attempts, addresses | register, login, refresh, logout, verify, resend, forgot, reset, address book | `Sessions`, `Accounts`, `Addresses` |
| Catalogue (`products/products.service.ts`, `products/categories/`) | products, variants, files, categories | create, update, publish, remove; queries | `Products`, `Categories`, `Catalogue` |
| Shipping methods (`orders/admin/admin-shipping-methods.service.ts`) | methods | create, update, `setActive` | `ShippingMethods` |
| Client (`pages/`, `features/`, `store/`, `services/`) | what a page loaded earlier | pages over the API | inside the modules above |

How they interact. Every handler is an asynchronous function; many run at once,
in one or several processes, over one database at READ COMMITTED. The handlers
of an order open a transaction, take the row lock of the order first
(`lockWithItems`), evaluate their conditions again under it, and commit. Stock is
moved by conditional `UPDATE`s inside those transactions. The gateway is always
called outside a transaction: what was read before the call may be stale after
it, and the process may stop in between. What failed half way is resumed by the
cron jobs. Carts, `adjust`, the tokens of `auth`, addresses, categories and
shipping methods are read, changed and saved without locks. Pages act on what
they loaded some time ago and learn only from an answer that it is old.

### What is hard

* **Order of events.** Payments, rejections, expiry, retries and cancellations of
  one order come in any order; notifications are repeated, delayed and lost.
* **Bookkeeping over long histories.** One reservation is released and taken again
  by many handlers; `GREATEST(stock_reserved - qty, 0)` hides a release too many.
* **Money.** Every approval must end up as the price of the order or as a refund;
  the units of a return must be paid back once.
* **Remote calls without answers**: refunds, payment links, mails; and crashes
  between a commit and the call that follows it.
* **Unlocked read-modify-write**, and the order of row locks.
* **Old pages**: forms, dialogs and summaries that were filled before somebody
  else moved what they are about.

`PROJECT.json` lists each hazard at its line with the properties that cover it,
or with the reason why none does.

## 2. The modules

Each component has a module of its own, with one action per transaction, request
step or handler. The modules ending in `MC` are instances for TLC, those ending
in `Proofs` hold theorems.

**Orders and money.** `Orders` has an action per transaction over an order
(`Confirm`, `RetryPayment`, `CompensateFailedPreference`, `PaymentApproved`,
`PaymentRejected`, `PaymentPending`, `ExpireReservation`, `CancelByCustomer`,
`CancelByAdmin`, `AdvanceByAdmin`). One transaction is one step, because all take
the row lock of the order before they read it; those of different orders meet
only in the conditional `UPDATE`s of stock rows. An exception rolls back: the
action is not enabled. `Inventory` is the abstract specification (units are free,
held or sold) and `OrdersInventory` the refinement mapping. `Payments` extends
`Orders` with the payments and the commitment of refunds: `ProcessPayment(p, s)`
applies *some* answer the gateway has given, since it is asked before the lock is
taken. `Refunds` is what follows a registered refund: a worker is one call of
`dispatch` or `reconcileOne`, with each exchange with the gateway and each
`UPDATE` a step, and `Crash` ends them all. `PaymentLinks` is the preferences of
one order: a call moves the order, closes the previous link, opens its own and
attaches it, each a step, with refusals, lost answers, links that do not close
and crashes. `Ledger` is the balance of the payments of one
order over its whole life. Who registers a refund holds the row lock of the order
(`requestRefund`), who retries a rejected one that of the refund
(`fitsInBalance`): neither sees what the other has read and not committed, so each
is two steps, `RequestRefundOf` and `Registers`, `RetryReads` and `RetrySaves`, and
the history variable `raced` has the payments whose balance two of them entered at
once. The order is there as its `stage`; what it may ask is what the handlers ask:
its total or its products when it is cancelled, lines that come back, and the whole
of a payment that comes late or twice. `RefundStatus` is the states both share.

**After the sale.** `Returns` has the requests over one delivered order: asked
units, photos, approval, rejection, reception with refund or replacement, and the
step to `devuelto`, together with the stock of its lines and what other orders
reserve of it. `OrderPages` has the pages of customers and administrators over
one order: the order is the log of what its detail has shown, a detail is an
index into the log, a request is committed, answered and taken by the page in
three steps. `RowLocks` is which handler takes which row locks in which order;
a transaction is the list of the batches of rows it locks.

**Before the sale.** `Cart` is one customer's cart under his requests, each as
the statements it runs, and his checkouts and their compensation. `GuestCart` is
the cart in the browser and its merge. `CheckoutPage` is the page that
revalidates, chooses, sums up and confirms, while prices, costs, cart and
addresses change elsewhere. `ShippingMethods` is what administrators do to the
methods it offers. `Products` is the editing of products with forms and actions of the page while
variants are reserved and sold, `Categories` the tree, `Catalogue` the lists,
filters, pages and related products. `StockAdjust` is `adjust` with its read, its
load and its save, next to the orders of the variant.

**Accounts.** `Sessions` is the refresh token of a browser and its tabs (refresh
at start-up, refresh by a 401, login, logout from one or all devices). `Accounts`
is the account behind an address: registration, verification, reset, their links,
the throttle. `Addresses` is the address book. `Notifications` is the mail: rows,
leases, retries, bounces, the hourly limit.

### Several models in one run

`StockMC`, `CheckoutMC`, `AfterSaleMC`, `CatalogueMC`, `AccountsMC`,
`PaymentsLiveMC` and `ClientsLiveMC` each check several models that concern one
part of the shop. A variable `part` chooses at the start which of them a
behaviour is of and never changes; the variables of the others keep a fixed
value, and variables of the same name are shared. The state space is the sum of
theirs, and a property of one of them reads `part = "..." => Instance!Property`.
The liveness runs state fairness over all variables, part by part.

Faults are not settings of their own. A model lets everything happen that the code
is exposed to and notes in a history variable what did (`failures`, `failed`,
`happened`, `met`, `stopped`, `overlapped`, `raced`); a property says what holds always, and
what holds until something happened that breaks it. Where a bound leaves out a
combination (`Faults`, `Together`, `Apart`), the theorems of section 4 do not.

### Abstractions

* Names, texts, reasons, messages and layout are members of small sets or left
  out; money is in cents, and prices and quantities are small numbers.
* Time is a flag that turns (a deadline passed) or a count of ticks
  (`Notifications`). What a deadline is measured from is left to the code.
* Hashing and signing are the identity of a token; nobody guesses one.
* What the gateway, the mail server, the storage and other sessions may do is a
  nondeterministic choice; each fault is a member of a constant `Faults`.
* An order has one line per variant, as carts do. The log of stock movements is
  kept only in `StockAdjust`.
* History variables (`asked`, `handed`, `overlapped`, `overwritten`, `seen`,
  `failed`, `happened`, `met`, `stopped`, `raced`, ...) are marked as such where they are declared. No guard of modelled code reads one.

## 3. The runs

| Run | What is in it | States | Time |
|---|---|---|---|
| `orders` | 3 orders that compete for 2 variants; safety of `Orders`, refinement of `Inventory` | 393,709 | 1 min |
| `payments` | 1 order, 3 payments, one of a wrong amount; money, refinement of `Orders` | 325,741 | 25 s |
| `payments_live` | reconciliation (1 order, 2 payments) and expiry (2 orders, one stock) | 17,862 | 8 s |
| `payments_lost` | finding: `LostNotificationsCovered` is violated | | |
| `payments_pending` | finding: `PendingKeepsReservation` is violated | | |
| `refunds` | 1 refund, 3 attempts, 3 workers; safety, and with fair crons `ApprovedRefundsEnd` | 89,137 | 2 min |
| `after_sale` | 2 requests over 2 lines; 3 refunds over 3 payments, one of a wrong amount; pages of a customer, of a customer and an administrator, of 2 administrators | 690,821 | 2.5 min |
| `checkout` | links of one checkout and 2 retries with all faults; the checkout page while things change elsewhere, answers are lost and the gateway fails; 2 shipping methods and 2 administrators | 730,831 | 2.5 min |
| `stock` | row locks of 2 transactions; 2 adjustments and 2 buyers; 2 requests and 2 checkouts over carts; a visitor with 2 changes and 2 merges, over two units of one variant and one of another | 1.14 million | 1.5 min |
| `catalogue` | 2 editors, 1 administrator with every action, 2 creators; 3 categories; lists of 3 products | 547,451 | 2 min |
| `accounts` | 1 and 2 tabs; an account whose server may stop; 3 addresses on 2 pages; 2 mails with lost answers and stops | 1.95 million | 2 min |
| `clients_live` | liveness of a loading page, a customer who confirms, a refused page and a mail | 104,782 | 2 min |

Deadlock checking is off: a shop where every order is delivered, a mail that was
sent or a page that was closed has nothing left to do.

A run checks a few properties, most of which are conjunctions of named parts of
the modules:

| Run | Property | What it says |
|---|---|---|
| `orders` | `TypeOK` | counters are never negative |
| | `StockBalances` | `ReservedIsHeld`, `NoOversell`, `StockConserved`: what is promised is the sum of the active reservations and is in the warehouse, no unit is lost |
| | `HistoryFollowsStatus` | reservation, committed items and date of payment agree with the status |
| | `DeliberateCancellationIsFinal`, `ImplementsInventory` | only lapsed orders revive; each handler moves units as `Inventory` allows |
| `payments` | `MoneyBalances` | `MoneyAccounted`, `RefundsWithinPayment`: the shop keeps what each order owes |
| | `PaidByItsPayment`, `CancellationFindsItsRefund`, `ImplementsOrders` | a paid order has its payment; a firm cancellation has its refund; orders move as in `Orders` |
| `payments_live` | `ApprovalEndsTheWait`, `EveryWaitEnds` | an approval is found without its notification; no order waits for ever |
| `refunds` | `GatewayRefundsOnce`, `StatusIsTruthful`, `RefundedIsFinal`, `ApprovedRefundsEnd` | money goes back once; rows say what happened; an approved refund ends |
| `after_sale` | `ReturnsFitTheOrder` | no unit is claimed twice; the order is returned exactly when everything came back |
| | `EffectsFollowRequests`, `ResolutionIsFinal` | money, stock and photos follow the requests; what is resolved stays |
| | `BalanceHolds` | refunds that are refused, retried and registered at once overdraw no payment of the amount of the order |
| | `PagesDoWhatTheySay` | pages offer and announce what the handlers do |
| `checkout` | `LinksAreKnown`, `CancelledTakesNoPayment` | no link that can be paid is forgotten, outlives the reservation or stays on a cancelled order |
| | `OrderIsAsSeen`, `MethodsAreAsSwitched` | what is ordered was shown, once; switches stay, somebody is warned |
| `stock` | `NoDeadlock`, `AdjustmentsAddUp` | handlers that lock in order never wait in a circle; movements explain the total |
| | `EditableCartIsFree`, `CartsAddUp`, `VisitorKeepsHisCart` | no cart is both edited and ordered; changes and merges add up |
| `catalogue` | `EditsKeepWhatHappened`, `FreeWhenRemoved` | edits undo neither edits nor sales; nothing reserved is taken off |
| | `TreeStaysInOrder`, `ListsAreWhole` | names and levels of categories; pages, filters and related products |
| `accounts` | `SessionsAreKept`, `LinksWorkOnce`, `PasswordsGuardTheAccount` | sessions, links and passwords across overlapping requests and stops |
| | `OneDefault`, `MailsGoOnce` | one default address; each mail once, within the rate, in bounded tries |
| `clients_live` | `PagesComeThrough`, `EveryMailEnds` | nobody who waits or goes on is stuck |

The types of `Payments`, `Refunds`, `PaymentLinks` and `RowLocks` are only theorems
(section 4); those of the other modules are parts of the properties above.

Each property of each passing run has a mutant: an operator defined next to the
one it replaces and marked as such, with a plausible mistake (a missing condition
in an `UPDATE`, a flag that is not reset, a comparison with the row as it was) that
breaks one part of it.
With the mistake in place TLC finds the property violated under the same
configuration.

### Bounds, and why they are enough

* `orders`: `o1` wants two units of `v1` and one of `v2`, `o2` one of each, `o3`
  one of `v1`; the warehouse has two and one. So `o1` excludes both others, `o2`
  and `o3` fit together, and a late approval is covered in full, in part or not at
  all. Histories are not bounded.
* `payments`: two exact payments make the double charge and the race of two
  outcomes, the third has another amount. Neither payments nor refunds relate
  orders; `ImplementsOrders` ties the two runs.
* `refunds`: `MaxAttempt` bounds how often an administrator retries a rejected
  refund. Three workers are a late caller of an old attempt, one of the current
  attempt and a reconciliation.
* `after_sale`: two requests over the same line, with two units, overlap in every
  way; an order has one unit per request that both may claim. Of the payments two are
  of the amount of the order, so that one credits it and the other is given back, and
  one is smaller, so that a refund of products may be asked of it before the one that
  credited the order; three refunds are a rejected one, the one registered after it
  and a third that meets its retry. `OrderPages` bounds
  the moves of the order (`MaxLog`) and the requests under way; the parts divide
  the starting states among customers and administrators so that each action is
  offered by some page and made impossible by somebody else.
* `checkout`: a checkout and two retries are the three calls a link can be caught
  between (the one that replaces it, the one it replaces, the one that compensates).
  The page sees two products, two methods, one address and two amounts. Things go
  wrong up to twice (`MaxChanges`), and `Together` says which kinds may meet in one
  behaviour: the catalogue with methods or with lost answers, the book with a gateway
  that fails, and the cart alone. `Apart` keeps requests that create or edit a
  method from overlapping another; switches overlap freely.
* `stock`: two transactions suffice for a circle of two, and `StockProofs`
  covers any number. Two adjustments of one variant, two requests that hit one
  item, two carts. The visitor's merge needs two units of a variant to be cut down,
  and a second variant to be left out of it.
* `catalogue`: two editors and versions up to 3; a product with two variants so
  that one can be dropped, taken up again and clash on its SKU. Pages of two over
  three products, with two that are equally old, so that a page ends inside a tie.
* `accounts`: a fourth token is the one a refresh issues after login, logout and
  login; tokens and links that nobody holds are free again, so histories are not
  bounded. Two mails and two runs of the cron that find the same row, with one
  stop; deliveries that outlive their lease are in `clients_live`.
* `clients_live`: the smallest instance in which each wait has something that can
  interrupt it.

### Fairness

Nothing is assumed of customers, administrators or notifications, unless said.

* `OrdersFairness`: weak fairness of the clock and of `expireReservations`, which a
  cron calls every ten minutes; the action stays enabled until something moves the
  order.
* `PaymentsFairness`: weak fairness of the reconciliation of a payment that exists
  at the gateway while its order awaits payment (cron, 30 minutes).
* `CronFairness` (`Refunds`): strong fairness, for each refund, of a call of the two
  crons and of its steps in whichever worker runs it. A crash interrupts them, so
  they are not enabled continuously; that not every run is cut off is what a cron
  that is called for ever gives.
* `TabFairness`: the server answers, and sessions expire in the end.
* `BuyerFairness`: requests end, and the customer of this property is one who goes
  on: he acknowledges, and confirms while the page lets him. Changes elsewhere are
  bounded (`MaxChanges`), which is what "once nothing changes any more" means.
* `PagesFairness`: the server answers and reads are made; strong fairness of the
  arrival of a read, since a new read gives up the one under way.
* `MailsFairness`: the cron is called and works its list off, deliveries end with
  some answer or none, time passes.

### Findings

1. `payments_lost`. The reconciliation only asks about orders that await payment
   (`orders.service.ts:313-317`), and the expiry cancels without asking the gateway
   (`orders.service.ts:277-305`). A payment approved shortly before its order
   lapses, whose notification is lost, is never registered: no order, no refund.
   The comment of the job says it covers notifications that never arrived
   (`payments.service.ts:378-382`). `ApprovalEndsTheWait`, which holds, is what the
   code does guarantee.
2. `payments_pending`. A rejection releases the reservation whichever payment it is
   of (`orders.service.ts:224-233`): with two payments of one order, the late
   rejection of the first takes the stock away from the second, which is pending,
   although the comment of that outcome says the reservation is kept
   (`orders.service.ts:256`).

## 4. What is proved

| Module | For | Theorems |
|---|---|---|
| `PaymentsProofs` | any finite set of orders, any variants, lines and stock | `TypeCorrect`, `ReservedIsHeldAlways`, `NoOversellAlways`, `StockConservedAlways`, `ReservationFollowsStatusAlways`, `CommittedFollowsStatusAlways`, `PaidAtFollowsStatusAlways`, and their groups `StockAlwaysBalances` and `HistoryAlwaysFollowsStatus`, `CancellationIsFinal`, `OrdersImplementInventory` |
| | in addition any payments and amounts | `PaymentsImplementOrders`, `PaymentsTypeCorrect`, `RefundsAlwaysFit`, `MoneyAlwaysBalances`, `PaidOrdersArePaid`, `CancellationsRefund` |
| `RefundsProofs` | any refunds, workers and attempts; any payments and refunds of an order | `RefundsTypeCorrect`, `ConsultsItsAttemptAlways`, `RefundsOnce`, `StatusIsAlwaysTruthful`, `RefundedStaysRefunded`; `BalanceAlwaysHolds` |
| `ReturnsProofs` | any requests over any lines; any pages and requests on an order, from any states | `TypesHold`, `ClaimsAlwaysFit`, `ReturnedExactlyWhenComplete`, `NothingOpenAfterwards`, `ReturnsAlwaysFit`, `RefundsAlwaysFit`, `EffectsAlwaysFollow`, `ResolvedIsFinal`; `PagesAlwaysDoWhatTheySay` |
| `CheckoutProofs` | any number of retries, any set of faults; any products, prices and changes, in any combination; any methods and administrators | `PaymentLinksTypeOK`, `LinksEnd`, `ReplacedWereClosed`, `NoLinkIsForgotten`, `LinksAreAlwaysKnown`, `CancelledKeepsNoLink`; `OrderIsAlwaysAsSeen`; `MethodsAlwaysSwitched` |
| `StockProofs` | any transactions over any rows; any requests and checkouts of a customer; any adjustments and buyers; a visitor's requests and merges over any goods | `RowLocksTypeOK`, `RowLocksWaitsClimb`, `RowLocksNoDeadlock`; `EditableCartIsAlwaysFree`, `CartsAlwaysAddUp`; `AdjustmentsAlwaysAddUp`; `VisitorAlwaysKeepsHisCart` |
| `AccountsProofs` | any links, passwords and limits; any addresses and pages; any mails, runs and waits, any set of faults; any tokens, and any number of tabs | `LinksAlwaysWorkOnce`, `PasswordsAlwaysGuard`; `AlwaysOneDefault`; `MailsAlwaysGoOnce`; `SessionsAlwaysKept` |
| `CatalogueProofs` | any products, variants, totals and administrators, each with any of the actions; any tree of categories; any shelf, filters and sizes of pages | `EditsAlwaysKeepWhatHappened`, `AlwaysFreeWhenRemoved`; `TreeAlwaysInOrder`; `ListsAreAlwaysWhole` |
| `SumsProofs` | any finite set | lemmas: what a sum of `Sums` is, and what adding, changing and merging do to it |

`ReturnsProofs`, `CheckoutProofs`, `StockProofs`, `CatalogueProofs` and
`AccountsProofs` extend the `MC` module of their run, so a theorem is about the very
property the run checks, for every value of the constants the run gives a small one.

The assumptions are the named `ASSUME`s of the modules (finite sets, natural
numbers, `Subtotal <= Total`, an order of the rows that climbs from carts and
orders through requests to variants); TLC evaluates each of them in a run. What
several models of one `MC` module do not share is a definition that the theorem
assumes:

* `CartAssumption`, `AdjustAssumption`, `VisitorAssumption`, `BuyingAssumption`,
  `MethodsAssumption`, `NoneIsNothing`, `TokensAssumption`, `Limits`: quantities are natural numbers, buyers are finitely
  many, the value that means "none" is no other value.
* `ShopAssumption`, `TreeAssumption`: there is a price, a SKU and a name to choose,
  variants and categories are finitely many, what stands for "none" is no product and
  no category, administrators type numbers.
* `ShelfAssumption`: products are finitely many and have different ids, and what a
  visitor filters by are the filters of the page.
* `PagesAssumption`: an order starts in one of its states, its log has room for it, and
  what stands for "no answer yet" is no answer.
* `MailAssumption`: calls of `send` are no runs of the cron, the calls with a limit
  are finitely many, a lease lasts at least one tick, and the waits are a sequence of
  numbers (`RETRY_BACKOFF_MIN`).
* `OneAtATime` (account) and `BookAssumption`: requests follow one another. These say
  what the code does not enforce: it reads and writes without a lock, and section 5
  has what overlapping requests do to links and defaults. `BookAssumption` also says
  that pages send no `false` for the mark of the default.

The arguments.

* `Orders`. None of the invariants is inductive alone: that `release` loses no
  units needs the reserved counter to be the sum of the active reservations; that
  `confirmSale` covers an active reservation needs that and `NoOversell`; that the
  sum changes by the lines of one order needs to know that the order was not
  counted already, which is what the invariants on the status say. `IInv` is the
  conjunction. Sums over orders are cardinalities of sets of pairs (`UnitsOf`), so
  the library's facts about `Cardinality` apply and no induction is needed. The
  refinement of `Inventory` maps each handler to one of its five steps.
* `Payments`. Every step of `Payments` is one of `Orders` or leaves its variables
  alone. `PInv` adds to `IInv` that refunds stay within their payment and that an
  order in a paid status has an approved payment of its exact amount untouched by
  refunds; the latter is inductive because a later exact approval is refunded
  against *itself*, and because only the cancellation, which takes the order out
  of the paid statuses, refunds against any payment.
  `MoneyInv` adds that for each order what the shop kept equals what it must keep;
  only approvals change either side, and each of them by the same amount.
* Sums. `Sums` writes a sum of natural numbers as the cardinality of a set of pairs,
  since what a fold computes needs induction over data. `SumsProofs` shows how such a
  sum changes with the function and the set it is over; `Payments`, `Returns` and
  `StockAdjust` rest on it.
* `PaymentLinks`. Three invariants by what has failed so far: `LInv` (always)
  follows where each link is in the hands of its call; `AInv` (while answers come
  and links close) that a link that can be paid is the order's or in hand; `CInv`
  (while nothing fails) that a cancelled order's link is being closed.
* `Refunds`. `RInv` says that at most one attempt of a row is alive at the gateway:
  all before the current one gave nothing back, none after it was sent
  (`OneLiveAttempt`), and that what a worker carries is of an attempt no later than
  the row's.
* `Ledger`. The look at the balance alone does not keep a payment from being
  overdrawn, since a retry and a registration may look at the same balance.
  `AskedFits` says more than that no refund that is committed overdraws a payment of
  the amount of the order: all that was ever asked of one, refused or not, fits in it.
  The payment that credited the order is the oldest of its amount (`NoneCredits`), so
  before a younger one it has the balance for whatever a cancellation or the returns
  have not asked for yet (`CreditedComesFirst`), and they ask for no more than the
  total together (`CreditedFits`); any other one gives back itself, once. So the order
  in which `requestRefund` searches is what makes the unlocked look safe. For the
  other payments `HeldFits` counts the rows that hold the balance and those about to:
  until two of them meet, each was added to all others.
* `Returns`. `QInv` is the types, that an open request claims at least one unit,
  `ClaimsWithinPurchase` and `ReturnedWhenComplete`. Units are pairs again.
  `NothingOpenOnceReturned` follows: if everything came back and nothing is claimed
  twice, an open request would claim nothing. `EInv` is what a reception does: a
  refund belongs to a request that was resolved, before that nothing was restocked
  or sent, and no refund is left to be done by hand. The refunds fit in the payment because the cents of
  each request are those of distinct units of the order.
* `OrderPages`. `PagesInv` (one lemma for all settings of pages, since `On` is
  parameterised by the setting): the log only grows, so what a page was shown stays
  in it (`RequestStays`); an order that is not cancelled is paid exactly in the states
  of a paid order (`PaidFits`); a request names a transition of the detail it was
  clicked on. With the comparison of the state under the lock the dialog then says
  the truth, since the same state means the same payment (`OutcomeIsFair`).
* `RowLocks`. Each handler in order asks for rows of climbing rank, and what it has
  is behind what it will ask for (`Ahead`); so along a circle of waits ranks would
  climb for ever. The greatest wanted row of the circle gives the contradiction.
* `Cart`. `CartInv`: what a request carries fits the cart it found, each cart is
  that of one order that waits or of none, a deleted cart has no items, the
  items are what the operations add up to, and a request that revalidated and
  found nothing changed has what the checkout will compare (`FreshAreAccepted`).
* `StockAdjust`. `AdjInv` needs one fact the property does not state: until a row
  moved in the middle, an `UPDATE` about to run sets the total and nothing else.
* `GuestCart`. `VisitorInv` follows a merge while nothing else moves: it is about
  the visitor's cart as it is (`MergesTheCart`), the preview still says what there
  is (`PreviewIsFresh`), what is confirmed leaves out nothing that was accepted and
  fits (`SendsWhatFits`), so the account takes all of it (`AllIsTaken`).
* `Products`. `EditInv`: a form has a version its product had, and if it still is that
  of the product then no save came in between, since each save makes it climb; so the
  comparison under the lock is enough, whatever was checked before. `ActInv` is what
  the stock of the rows is and that "no product" is none; a list that is accepted
  changes a total only from the one that was shown (`SyncKeepsStock`). `FilesInv`:
  files without an image are those of a create that goes on.
* `Categories`. `TreeInv`: no row goes away, so whatever is chosen or saved exists
  (`RowsStay`); until two requests overlap, one is under way (`OneAsks`) and what it
  read is still so when it saves (`ReadIsFresh`).
* `Catalogue`. What comes before a row is fewer rows the earlier the row comes, so
  the rows are numbered without gaps (`RanksNumberTheRows`, an injection of a finite
  set into one of its size) and the list has each row once and in order
  (`OrderedListsTheRows`): a tie that the id did not decide would break it.
  `PagesInv` is then that the pages are a beginning of the list, as long as the
  pages or the list. The related products are two such lists, cut (`PicksAdd`).
* `CheckoutPage`. `BInv`: the confirmation under way is one of the summary that is
  open (`ConfirmsWhatIsOpen`); while the cart only changes here, a revalidated page
  shows the cart there is and there is an order exactly when it is empty
  (`ShowsTheCart`); while no answer is lost, an adjustment that the customer did
  not see is still to be asked (`AsksWhatWasAdjusted`).
* `ShippingMethods`. `MInv`: until two requests meet, a method is as the last switch
  left it; until an edit meets another request, the one under way has read the
  row as it is (`LoneEdits`), and whoever left the checkout without methods was told.
* `Accounts`. `LInv` follows each request through its steps: what it carries, that
  a link that works, or that a request took, changed nothing so far, and that of
  each kind one works at most and none before one is saved. `KnownSessions` and
  `CountedFailures` are the strengthenings for the other property; the former ends when the server stops between the change of a
  password and the revocation (`auth.service.ts:246-251`).
* `Addresses`. Between requests the book is at rest: empty, or one address has the
  mark. During a request it is known which rows are already written.
* `Notifications`. `NInv` has three layers. Always: a deliverer has one mail, a row
  with a message waits, a row a run found is still due. While no delivery outlived
  its lease (`LoneMail`, `Rate`): one deliverer at a time has a mail in hand and its
  lease runs, so each try but that one is an attempt of the row or was cut by a stop;
  and a call that was allowed has room left. Until anything fails (`HandedFits`): the
  mail server has what the row, or the answer under way, says it has.
* `Sessions`. With several tabs, `TabsInv`: a token on its way to the browser is known
  to one call and was not replaced (`OnItsWay`), and while the cookie has a token that
  was replaced, another is on its way (`Renewed`). So however calls interleave, the
  answer that arrives last leaves one that was not replaced. With one tab, `OneInv`:
  one call is out at a time (`OneCall`, the user waits), and each step says which
  token alone may live: the cookie's until a refresh, the new one until its answer
  arrives (`OwnFits`, `Rested`, `ToldTrue`).

Only model-checked: liveness (fairness and `ENABLED` are out of the prover's
reach), which is `ApprovalEndsTheWait`, `EveryWaitEnds`, `ApprovedRefundsEnd`,
`PagesComeThrough` and `EveryMailEnds`.

## 5. What the code does not guarantee

Modelling showed these behaviours. The properties of the runs are stated so that
they hold of the code; here is where it stops, with the line where it happens. No
run checks them.

Orders, links and stock
* `checkout.service.ts:453`: a retry attaches its link while the preference of
  `confirm` is being requested; when that is refused, the compensation cancels the
  order and the retry's link stays open.
* `stock.service.ts:97`: `adjust` saves the entity it read, so a reservation in
  between is written back with the old `stock_reserved`; and the total may end
  below what is reserved (`:88`).
* `admin-returns.service.ts:409`, `:486`: the dispatch of a replacement locks request
  before order, and an exchange locks variants in two passes; each may deadlock
  with a handler that locks in order (the database aborts one of them).
* `refunds.service.ts:183`: the retry of a refund and another refund may both look at
  the balance of a payment of another amount than the order's; together they ask for
  more than it has, and only the gateway refuses the second.
* `customer-orders.service.ts:205`: a retry of the payment is offered from state and
  deadline, and refused if the catalogue changed.
* admin `OrderDetail.tsx:101`: the answer of a read made before an action may replace
  the newer detail for a while.

Carts and checkout
* `cart.service.ts:106`: a request goes on over a cart that the checkout associated
  since. `:338`: the newer cart is deleted with an item added after it was counted.
  `:341`: a cart created after the look violates the unique index and rolls the
  compensation back with the cancellation.
* `useCartMerge.ts:33`: items the confirmation skipped disappear without a word.
  `MergeCartModal.tsx:31`: a proposal of zero units refuses the whole merge.
* `checkout.service.ts:211`: a change elsewhere that leaves the same total is ordered
  although the summary never showed it.
* `Checkout.tsx:147`: a revalidation whose answer was lost adjusts without asking.
* `admin-shipping-methods.service.ts:36`: an edit that overlaps a switch undoes it.

Catalogue
* `products.service.ts:426`: a product is removed with a unit reserved after the
  check. `:415`: `setPublished`, `setThreshold` and `remove` write back what they
  read without comparing the version. `:646`: for a product in subcategories only,
  related products are not completed from the category.
* `categories.service.ts:83`: two requests that overlap make a third level or a
  cycle. `Categories.tsx:139`: a subcategory cannot be moved to the first level.

Accounts and mail
* `AuthBootstrap.tsx:30`: two tabs that refresh at once log one of them out.
  `api-client.ts:62`: a refresh under way revives the session after a logout.
  `auth.service.ts:114`: a refresh that read its token survives the revocation of
  all sessions.
* `auth.service.ts:246`: a link used by two requests at once works twice; `:202`: two
  requests at once leave two links that work; `:270`: a request over the limit kills
  the link that was mailed and mails none.
* `addresses.service.ts:33`: two requests that overlap leave two defaults; `:53`: a
  removed address comes back, and an edit may leave the book without default.
* `notifications.service.ts:199`: a delivery that outlives its lease sends the mail
  twice; `:108`: requests at once exceed the limit; `:254`: rows of mails that were
  not sent count for it.

## 6. Limits

* The theorems about stock hold of the handlers of orders. `StockAdjust`, `Returns`
  and `Products` move the same counters in models of their own and are not composed
  with `Orders`; what an overlapping `adjust` does is in section 5.
* A refund resolved by hand while the gateway may still approve it
  (`refunds.service.ts:213`) is left to the administrator. `Ledger` counts what the
  rows ask for, each once, whoever gave it back.
* `Ledger` orders the approved payments as their approvals committed; two of the same
  millisecond, or a clock that is set back, may order them otherwise. It has no stock
  and no deadline, and `Refunds` has no balance: each has the status of the other's
  rows only as far as it asks for it.
* Two rows of one table in one statement, partial failures of the database and
  transactions that are retried are not modelled; a transaction commits or not.

## 7. Not modelled

Listings, details and the CSV as texts; the parsing and the signature of
notifications; the adapter of the gateway's SDK and of the mail and storage
providers; templates of mail; validation of forms and DTOs beyond what the models'
inputs respect; start-up, configuration, migrations, the seed and health: I/O,
declarations and formatting. Of the client: routing, layout, and the pages that
only show what they read. The admin forms of stock and of returns send requests
whose handlers are modelled, and keep nothing of their own that matters between
two requests.

## 8. What could come next

* A refinement of `Orders` and `Returns` to the stages of `Ledger`, which states what
  they may ask of it.
* `StockAdjust` and `Returns` over the inventory of `Orders`, with an abstract
  specification in which an adjustment adds or removes free units.
