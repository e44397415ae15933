# A TLA+ model of j-commerce-api

`j-commerce-api` is the backend of a shop: a NestJS 10 service over MySQL 8,
reached through Prisma 5, with Midtrans as payment gateway. Its handlers run
concurrently, each in one or more statements and transactions, and the hard part
of the program is what happens when they meet: an order being cancelled while
its payment arrives, two requests that want the last piece, a webhook delivered
twice or late, a token refreshed twice.

This directory models that part in TLA+, checks it with TLC on small instances
and proves all of its safety properties with TLAPS for every instance.

    tlc -workers 2 -config MCOrdersLifecycle.cfg MCOrders
    tlapm OrdersProofs.tla

## 1. The system

Everything lives in `src/src/modules/<name>`. The database is the only shared
state; no handler keeps anything in memory between requests.

| component | state | operations that change it | interacts with |
|---|---|---|---|
| Orders (`orders`) | `orders`, `order_items`: status, paymentStatus, clientRequestId, voucherId, subtotal, discount, total | `create`, `cancel`, `updateStatus`, `confirmReceived` | takes and restores `product_variants.stock`, `products.totalSold`, `vouchers.usedCount`; writes `payments` on cancel; deletes cart lines; adds notifications |
| Payments (`payments`) | `payments`: status, snapToken and its expiry | `createSnapToken`; `processTrustedNotification`, which `handleNotification` (the webhook, through `processNotification`) and `completeMockPayment` end in | calls Midtrans; writes the order's status and paymentStatus; restores stock and voucher when a payment is given up |
| Vouchers (`vouchers`) | quota, usedCount, isActive, window, value | `create`, `update`, `remove`, `removePermanent`, `validate` (reads) | used by `create` and by the restores |
| Cart (`cart`) | `cart_items` | `add`, `update`, `remove`, `clear` | reads variants; emptied by `OrdersService.create` |
| Product variants (`product-variants`) | price, stock | `create`, `update`, `remove` | the stock that orders take |
| Auth and sessions (`auth`) | `users.password`, `refresh_tokens` | `register`, `login`, `refreshTokens`, `logout`, `changePassword` | reads users |
| Users (`users`) | name, role, isActive, deletedAt | profile edits, `toggleActive`, `remove` | decides who may log in and refresh |
| Addresses (`addresses`) | `addresses`, one default per user | `create`, `update`, `remove`, `setDefault` | copied into orders |
| Reviews (`reviews`) | `reviews`, cached rating and reviewCount of the product | `create`, `update`, `remove` | reads orders |
| Categories, products, images | catalogue rows | create, update, remove | read by cart, orders and reviews |
| Notifications (`notifications`) | `notifications`: own ones and shared broadcasts, isRead | `broadcast`, `createOrderNotification`, `markRead`, `markAllRead`, `remove` | written by orders and payments |
| Wishlist, banners | independent rows | single statements | none |
| Seed (`prisma/seed.ts`) | every table | empties and fills them | run by hand on a database in use |
| Upload | files | save, delete | none |
| Dashboard, health | none | read-only | reads everything |
| HTTP layer (`common`, `main.ts`) | none | guards, validation, error format | calls the handlers |

### How handlers run

MySQL's default isolation, REPEATABLE READ, matters throughout. A plain SELECT
inside a transaction sees the snapshot fixed by the transaction's first plain
SELECT. An UPDATE, and a SELECT ... FOR UPDATE, sees the current rows and locks
them until the transaction ends. The code uses three patterns:

1. *Lock first, read after* (`cancel`, `createSnapToken`, notifications). The
   first statement is `SELECT ... FOR UPDATE` on the order. The snapshot begins
   after the lock is granted, so what the transaction reads of this order is
   current, and everybody else who would change the order waits for the lock.
2. *Guarded UPDATE* (`create`, `updateStatus`, rotating a refresh token). The
   handler decides on an older read, and repeats the decision in the WHERE
   clause of the UPDATE; when no row matches, the transaction is rolled back.
3. *Check, then write* (`login`, the cart's `update`, most handlers of the admin).
   Nothing repeats the check, except perhaps a unique index or a foreign key.
4. *Read, lock, read again* (the cart's `add`). The lock comes after the first
   plain SELECT, so what is read under it is as old as that SELECT.

### What makes each component correct

* Orders and payments: no piece of stock is lost, sold twice or given back
  twice; `usedCount` is the number of orders that use the voucher; the two copies
  of the payment status agree; a paid order is not undone by a late report; a
  cancelled order is closed; money the gateway has taken is recorded; a retried
  `create` is answered with the one order it made; nobody waits for ever.
* Sessions: one refresh token of a session can be used; a session that was ended
  stays ended; a change of password ends the sessions that rest on the old one.
* Cart: a user has one line per variant, and an add leaves no more in it than
  there is stock. Variants: an admin's stock edit overwrites no sale; a variant
  that was ordered stays, and no cart line points to one that is gone.
* Addresses: a user with addresses has exactly one default.
* Reviews: one review per user and product; the cached rating is the average of
  the reviews. Catalogue: no product without its category, no discount price
  above the base price. Users: there is always an admin who can log in.
* Vouchers: a percentage is at most 100, the discount a customer is told is the
  one charged, the rounded parts of an order add up to its rounded total, a
  voucher that was used is not deleted, and the two listings agree.
* Listings: paging misses no row and shows none twice, as far as offsets allow.
* Seed: whatever it finds, it leaves the demonstration data and nothing else.

## 2. The modules

| module | what it is |
|---|---|
| `OrderRules` | the enumerations of `schema.prisma`, the status graph of `updateStatus`, `mapPaymentStatus` |
| `OrderLifecycle` | the abstract order: taken whole, moved one stage at a time, cancelled at most once |
| `Orders` | `OrdersService`, `PaymentsService` and the use counters of vouchers, with the gateway around them |
| `OrdersProofs` | payments and the snap token; stock, vouchers and sales; the action properties; the refinement of `OrderLifecycle`; the answers to `create`, for all constants |
| `Sessions` | `AuthService` and `UsersService` over users, roles and refresh tokens |
| `SessionsProofs` | the sessions, for all constants |
| `Cart` | `CartService` and `ProductVariantsService`, with the orders that take stock |
| `CartProofs` | carts and variants, for all constants |
| `Addresses` | `AddressesService` |
| `AddressesProofs` | the address book, for all constants |
| `Catalogue` | `CategoriesService`, `ProductsService` and `ReviewsService` |
| `CatalogueProofs` | ratings, reviews, prices and categories, for all constants |
| `Vouchers` | `VouchersService`, and the amounts of orders that use a voucher |
| `VouchersProofs` | vouchers, discounts, totals and the voucher listings, for all constants |
| `Listings` | the paged listings of six services, with the table changing under them |
| `ListingsProofs` | paging, for any number of rows and any page size |
| `Seed` | `prisma/seed.ts` over all tables and foreign keys |
| `SeedProofs` | the seed script, for any number of runs, categories, products and rows found |
| `MCOrders`, `MCSessions`, `MCCart`, `MCAddresses`, `MCCatalogue`, `MCVouchers`, `MCListings`, `MCSeed` | values and symmetry for TLC |

Each of `Orders`, `Sessions`, `Cart`, `Addresses`, `Catalogue`, `Vouchers`,
`Listings` and `Seed` is a specification of its own. They meet at few columns:
`Cart` takes from `Orders` only that stock is taken and given back; `Catalogue`
takes from the orders who has received what. `Orders` and `Vouchers` share
`usedCount`: the first has it under contention, with payments that are given up;
the second has what a voucher is worth and what becomes of it.

### `Orders`

A *worker* is one HTTP request being handled; `req[w]` is where it stands and
what it remembers from earlier reads. The tables are functions: `status`, `pay`
and `content` are an order's row, `payment` its payment row, `stock` and `sold`
the counters of a variant (`totalSold` belongs to the product in the code; the
model keeps it apart for each variant it was sold through, of which the column is
the sum), `vouch` a voucher row. `opened`, `settled`, `refunds` and `acked` are the
gateway's side: it has a transaction, it has the money, it has reported refunds, and
a report that the money was taken has been answered with 200.

| code | actions |
|---|---|
| `create` | `CreateLookup` or `CreateAgain` (the key is looked up before the transaction), `CreateSnapshot` (first read and checks), `CreateCommit`, `CreateDuplicate` then `CreateRecheck` (the unique index fired), `CreateRefuse` |
| `cancel` | `CancelRead`, `CancelCommit`, `CancelRefuse` |
| `updateStatus`, `confirmReceived` | `StatusRead`, `ConfirmRead`, `StatusCommit`, `StatusRefuse` |
| `createSnapToken` | `SnapOpen` (lock, check, call the gateway), `SnapSave` (the gateway has answered: write, commit), `SnapTimesOut` (the `Abort` that Prisma's transaction timeout brings) |
| `processTrustedNotification` | `NotifyRead`, then `NotifyIgnore`, `NotifyPaid`, `NotifyGiveUp` or `NotifyOther` |
| vouchers | `UpdateQuota`, `ToggleVoucher` (switched by the admin or by its window) |
| the gateway | `GatewaySettles`, the reports `NotifyRead` takes in, `TokenExpires` |
| any failure | `Abort`: a deadlock victim, a timeout, a lost connection, a dead process |

Why a transaction is one step, except two of them:

* A handler of pattern 1 holds the row lock of its order for its whole
  transaction, and every other writer of the order's row, of its payment and of
  its counters' contribution takes that lock too. Its steps commute with those of
  others, so they are put together. Where two handlers lock several rows in
  different orders MySQL rolls one of them back, which is `Abort`.
* `createSnapToken` waits for the gateway inside its transaction. It is two steps
  and `lock[o]` records who holds the row in between. The call has no timeout, the
  transaction has Prisma's default of 5 seconds: then it is rolled back and the lock
  is free, while the handler may wait on. It can change nothing any more, since its
  next statement is refused, and the model follows it no further.
* `create` takes no order lock. Its reads come from a snapshot, so between
  `CreateSnapshot` and `CreateCommit` anybody may commit. Its guarded UPDATEs keep
  the rows they match locked until the end of the transaction, so all of them see
  the state at one moment: the commit is one step. What the guard does not compare
  with a current value, the quota that was read, is kept in `req[w]`.

Abstractions. A basket is a vector of quantities. Amounts are in `Vouchers`, and
`amountsMatch` is gone: the total of an order never changes, so a report either carries
it or changes nothing. A report with a bad signature changes nothing either.
Admin edits of stock are not here, so the stock before any order is the constant
`Supply`. Catalogue flags only refuse more requests of `create`.

### `Sessions`

A session is what a login starts: a chain of refresh tokens, each issued in
exchange for the one before. `token[t]` is the row of a token. Its fields `root`
(first token of the session), `proof` (the password that was compared) and `late`
(that password had been replaced when the first token was stored) are history, as
is `ended`. The handlers are cut where they await something between a check and
a write: `LoginRead`/`LoginCommit`, `RefreshRead`/`RefreshUser`/`Rotate` or
`RotateReuse`/`RevokeFamily`, `ChangeRead`/`ChangeCommit`,
`Authorize`/`ManageRead`/`ManageCommit`; `register` and `logout` are one transaction.

Roles. `Authorize` is where `JwtStrategy` reads the caller's row and `RolesGuard`
its role; the handler goes by that role from then on. `ManageRead` is the
`findOne` of `update`, `toggleActive` and `remove`, with the rules that protect
admins and the own account, and `ManageCommit` the update, which looks at nothing
again. A change is a role, a status, both, or a removal. The accounts the seed
makes admins (`Admins`) are there from the start.

Each transaction is one step. Storing a token takes a shared lock on its user's
row (foreign key), which `changePassword` holds exclusively. Revoking all tokens
of a user scans the index on `userId` and locks what it passes: it waits for a
rotation that already holds its old token, and then either finds the new token or
has locked the gap the new token goes into, in which case one of the two is
rolled back. Left out: access tokens, which are not stored; expiry, which only
makes a refresh fail earlier; hashing and signing.

### `Cart`

| code | actions |
|---|---|
| `CartService.add` | `AddSnapshot` (the snapshot, and what the locked reads find in it), then `AddFirst` or `AddMore` |
| `CartService.update` | `UpdateRead`, `UpdateCommit` |
| `CartService.remove`, `clear` | `RemoveLine`, `ClearCart` |
| `ProductVariantsService.create`, `update` | `CreateVariant`; `EditRead` (the form), `EditCommit` |
| `ProductVariantsService.remove` | `RemoveRead` (the count of order items), `RemoveCommit` |
| `OrdersService.create`, `restoreStock` | `PlaceOrder`, `CancelOrder` |

The unique index (`LineIsFree`) and the foreign keys (`VariantExists`,
`NoOrderItems`, the cascade in `RemoveCommit`) are modelled by what MySQL does:
they refuse, or delete along. Row ids are not used again, so an `update` whose
line was removed and added anew changes nothing. `taken` and `supplied` are
history: pieces in live orders, and what the admin has put on the shelf, where an
edit counts as the difference from the stock shown on the form.

### `Addresses`

Every transaction locks the user's row first. `CreateCount` and `CreateWrite` are
cut between the count and the writes, with `lock[u]` held, because that is what
the lock is for. `update`, `remove` and `setDefault` read the address before they
lock (`UpdateRead`, `SetDefaultRead`, `RemoveRead`) and then run in one step.
Ids are numbered by age, which `remove` uses to find an heir for the default.
`raced[u]` is history: an `update` or a `remove` has acted on an `isDefault` that
had changed since it was read, and no default has been chosen since.

### `Catalogue`

| code | actions |
|---|---|
| categories: `create`, `remove` | `CreateCategory`; `RemoveCategoryRead` (the count), `RemoveCategoryCommit` |
| products: `create`, `update`, `remove` | `CreateProduct`; `UpdateProductRead` (the check of the discount), `UpdateProductCommit`; `RemoveProduct` |
| reviews: `create` | `CreateReview`, `CommitReview` |
| reviews: `update`, `remove` | `LookUpReview`, `UpdateReview` or `RemoveReview`, `CommitReview` |

A transaction on reviews takes the lock of its product (`lock[p]`) and with it its
snapshot; its writes appear together in `CommitReview`, computed from that
snapshot. An update of a product's row waits for the lock too. `rated[p]` stands
for `rating` and `totalReview`: the reviews they were computed from, with their
ratings, of which the two columns are functions. `raced` and `late` are history:
an update has written prices other than those it checked, and a product was put
into a category that was gone or whose removal was past its count.

### `Vouchers`

| code | actions |
|---|---|
| `create`, `update`, `remove` | `CreateVoucher`, `UpdateVoucher` (one step: the row is locked before it is read), `Deactivate` |
| `removePermanent` | `RemoveRead` (the voucher and the count of its orders), `RemoveCommit` (the DELETE, and the NULL its foreign key leaves in the orders) |
| `validate` | `Validate` |
| `OrdersService.create` | `PlaceUnasked` or `PlaceQuoted` (the first read fixes the snapshot), `PlaceCommit` (`reserveVoucher`, totals, insert); `PlaceWithoutVoucher` |
| `restoreVoucher` | `Cancel` |
| refusals and failures | `Refuse`, `Abort` |

A body of the admin is a record whose fields may be absent; `Merged` is
`toPrismaData`. `AdminStatus`, `AdminList` and `PublicList` are the two listings.
Amounts are integers: baskets and shipping in rupiah, columns in hundredths, and
what arithmetic on them yields in ten-thousandths until `Stored` rounds it as MySQL
does. Variant prices are validated as whole rupiah, voucher values have two
decimals, so four decimals are exact, and so is the decimal library the code uses.
`CalculateDiscount` and `OrderDiscount` are the two copies of the rule, in
`vouchers.service.ts` and in `orders.service.ts`. `reserved`, `quoted` and `late`
are history: the voucher an order was placed with, the discount last told for the
basket (forgotten when an admin changes the voucher's worth), and whether a removal
was past its count when the order came.

### `Listings`

One client pages through one listing: page 1, 2, ... up to the `totalPages` of its
last answer. `FindMany` and `Count` are the two statements of `Promise.all`, in
either order; `FindAndSlice` is the voucher listing that filters in memory;
`NextPage` follows `meta`. Meanwhile the table changes: `Insert`, `Delete`,
`MarkRead` and `MarkAllRead` for notifications, `FilterOut`, `FilterIn` and `Move`
for updates that touch the WHERE or the sorted column. `OrderBy` is what each
service sorts by; `Results` are the sequences MySQL may return, with ties in any
order, each time anew. `torn` says that a row came between the two statements of
the page.

### `Seed`

The script is data here: `Cleanup` is the tables in the order `seed.ts` empties them,
`Creation` its create statements with what they make and refer to. `Delete` and
`Insert` execute one statement each; `Fail` is a foreign key or a unique index
that refuses, `Crash` a killed process, `Start` the next attempt, which finds
whatever is there. `ShopInserts` is the API in use meanwhile. `AlsoSent` is the
`Promise.all` over the categories: others may be in the table though one failed.

## 3. What TLC checks

| run | question | instance | distinct states |
|---|---|---|---|
| `orders_lifecycle` | do cancel, status moves, snap tokens and every kind of report keep one order right in any interleaving? | one order, two workers, real gateway, all ten reports, two refund reports, one voucher with quota 0 or 1, one key | 670,648 |
| `orders_checkout` | do two orders compete for stock, a voucher and a key without harm? | two orders, two workers, two users, two variants too scarce for both orders, a one-use voucher, one key, mock payments that fail | 612,736 |
| `orders_liveness` | does nobody wait for ever, and does every settlement stay recorded? | one order, two workers, reports settlement, pending, expire, refund | 12,255 |
| `sessions` | do sessions stay chains, stay ended, and end with the password; is there always an admin? | two users, one of them an admin from the start, three tokens, two workers, one change of password each | 1,230,424 |
| `cart` | do adds, edits, removals and orders keep lines, variants and stock in order? | two users, one variant, two lines, two workers, quantities and stocks 1 and 2 | 713,407 |
| `addresses` | is there one default, whatever crosses? | two users, four addresses, two workers | 109,571 |
| `catalogue` | are ratings current, and the rules on discounts and categories kept? | two users, two categories, one product, two reviews, two ratings, two prices, two workers | 1,112,600 |
| `vouchers` | are discounts, totals and listings right while an admin edits and deletes vouchers? | two vouchers, one order, two clients, three spellings of two codes, two bodies to create from, three partial updates, two moments | 519,474 |
| `listings` | does paging miss a row or show one twice? | seven queries over six services, four rows, pages of one and two, two changes | 1,637,185 |
| `seed` | does the seed get through whatever it finds? | two runs, two categories, one product, one row of the shop | 1,041,820 |
| `duplicate_paid_after_refund` | finding 1 | one order | found |
| `voucher_removal` | finding 2 | two vouchers, one order, two clients | found |

The properties, and what each would catch:

* `StockConserved`: for every variant, what is on the shelf and what live orders
  took add up to the supply. Overselling, a double restore by cancel and a
  give-up webhook, and a rollback that keeps half of its writes all break it.
* `VoucherConserved`: the same for voucher uses, and never above the quota while
  an admin lowers it.
* `AnswerIsOwnOrder`: a request answered by `create` got the one order with its
  key, and it belongs to the caller, whichever of the two lookups found it.
* `PaymentCopiesAgree`, `PaidMeansSettled`: payment status on order and payment
  row agree; an order is paid only when the gateway took the money, and then its
  payment says PAID unless a refund was reported; a paid payment goes with an order
  that left PENDING and is not cancelled. The exception for refunds is needed:
  `pending` after a refund makes the payment of a paid order UNPAID (section 5).
* `SoldCoversPaid`: `totalSold` is never lowered without having been raised.
* `SnapChecksStillHold`: what `createSnapToken` checked before it awaited the
  gateway still holds when it writes.
* `PaidIsOnlyRefunded`, `CancelledIsFinal`: steps that no late, duplicated or
  reordered report can cause.
* `ImplementsLifecycle`: `Orders` implements `OrderLifecycle`. Every transaction
  is one step of the abstract order or none.
* `RequestsEnd`: nobody waits for ever for the row of an order. `createSnapToken` may
  wait for the gateway for ever, with that row locked; the timeout of its transaction
  is what lets the others go on, and the mutant, a transaction without one, blocks
  them. The others need no timeout of their own for it, and none of theirs is assumed.
  Of the request that waits for the gateway nothing is claimed: it may never end.
* `SettlementIsRecorded`: money the gateway has taken gets recorded and stays so. From
  some moment on the order is cancelled, or it has left PENDING and its payment is PAID
  unless a refund was reported as well. "For good" matters because a settlement is not
  sent again once it was answered: whatever overwrote it would not be repaired. TLC
  refutes the property without the exception for refunds (section 5).
* `SessionIsAChain`, `EndedSessionsStayEnded`, `OldSessionsAreLateLogins`: a
  session cannot be forked by presenting a token twice, cannot survive its end in
  a refresh already past its checks, and outlives a change of password in one way
  only: a login that had compared the old password stores its token afterwards.
* `SomebodyIsAdmin`: the rules of `UsersService` are checked on rows that are out of
  date by the time of the update, and by callers whose role may be gone. An account
  promoted while a request to switch it off is under way is lost as an admin; an
  account that was an admin before is not, so somebody can always get in.
* `OneLinePerVariant`, `LinesHaveVariants`, `OrderedVariantsStay`: the index and
  the foreign keys catch what the checks before them miss: two first adds at once,
  an add or an order after the admin's removal has counted no order items.
* `SuppliedIsAccountedFor`: an edit of the stock from a form opened before a sale
  or a cancellation does not overwrite it.
* `CountStillHolds`, `OneDefaultUnlessRaced`: what `create` counted holds until it
  writes, and the default of a user is one, however creates, removals and choices
  interleave, unless an outdated `isDefault` was acted on (section 5).
* `RatingsAreCurrent`, `OneReviewPerCustomer`: no review is missing from the rating
  of its product, and none is posted twice.
* `DiscountBelowBaseUnlessRaced`, `RemovedCategoriesAreEmptyUnlessLate`: the two rules
  of the catalogue are checked before the write and not repeated. They fail when two
  requests cross, and these say that they fail in no other way. Nothing in the
  repository says that they hold under concurrency, so they are not findings.
* `PercentageAtMostHundred`: one update gives the type, another the value.
* `QuotesAreKept`: the discount a customer was told is charged, whoever else uses or
  edits the voucher in between, as long as its worth is not edited. The two copies
  of the rule must agree, and the snapshot the order is computed from must be no
  older than the quote.
* `TotalsAddUp`: subtotal + shipping - discount, each rounded, is the rounded total or
  one hundredth more. The hundredth is reached: half a hundredth of discount is
  rounded up on both sides. It is the tolerance of `amountsMatch`.
* `OrdersKeepTheirVoucherUnlessLate`: what is left of the promise of finding 2.
* `ListingsAgree`: three rules say who may use a voucher, two listings show it.
* `NothingMissedUnlessRowsLeave`, `NothingTwiceUnlessRowsEnter`: what offset paging can
  promise. Their exceptions are needed, TLC refutes each property without them: a
  row that leaves moves the next one onto a page already seen; a count answered
  before a row comes and the page after it makes `totalPages` one too small; and
  notifications and reviews, sorted by `createdAt` with no second column, may show a
  row twice and another never when two share a millisecond.
* `FailsOnlyIfDisturbed`, `LeavesExactlyTheSeed`: a seed that is alone ends well after
  any number of failed, killed or finished ones. Of two at once nothing is claimed:
  each may delete what the other has made, and both may report success.

### Why these bounds are enough

Two workers give every pair of handlers every interleaving, and all the races the
code guards against are between a pair. One order is enough for what concerns a
single row: handlers of different orders share only stock, sold and voucher
counters, which the checkout run exercises with two orders. There, three pieces
of one variant and one of the other let each request fit alone, not together, and
for both reasons (first or second variant). A quota of one makes the voucher
contended, a quota of zero lets it be lowered under a reservation. In `Cart`,
two lines let one be removed and another come in its place, and stocks and
quantities of one and two let a request fit or not. Four addresses give one user
a default, an heir and others to choose while the other user has one. Two reviews
are what it takes for one to miss the other in an average. Two refund
reports allow a refund before and after another settlement. Three tokens allow one
session that rotates while another user, or the same, starts a second. In
`Vouchers`, a basket of 50 rupiah and 33.33 percent give a discount whose four
decimals end in the half that both roundings meet; one voucher opens later than it
closes, the other can be used once, edited and capped. In `Listings`, four rows on
pages of one and two give up to four pages, full and partly filled. In `Seed`, two categories
and one product go through every kind of statement; more repeat them. The proofs
then remove the bounds.

`MaxRefunds`, `MaxPassword`, `MaxTaken`, `MaxAddresses`, `MaxTime`, `MaxChanges`,
`MaxValue`, `MaxWrites`, `Reports` and the finite constants are the only bounds.
Deadlock is checked, except in `orders_liveness`, where the single order may be closed
with nothing left to do; in the two runs on vouchers, where all orders may be placed
and cancelled at the end of time; and in `listings`, where the client stops at the last
page.

### Fairness

`FairSpec` assumes four things, each stated next to it in `Orders`.

* Strong fairness of `Serve(w)`, the steps that wait for nothing but the database.
  Node runs every ready handler, and InnoDB queues lock requests first come, first
  served. Strong, because the row lock a request waits for is taken and released many
  times.
* Weak fairness of `SnapTimesOut(w)`. Neither `$transaction` nor the Prisma client is
  given a timeout, so Prisma's default applies and ends the transaction that waits for
  the gateway.
* Strong fairness of the delivery of "settlement" while `acked` is false: Midtrans
  repeats a notification until it is answered with 200. The model stops sooner, at the
  first report of the money that is answered, be it "settlement" or "capture", and so
  assumes less. Afterwards another settlement may come, and need not.
* From some time on, no transaction that applies a paid report is rolled back. A
  database that aborts it every time records nothing, and no code can change that.

No fairness is assumed of the gateway's answer to `createSnapToken` (`SnapSave`), of
clients, of `Abort` other than that timeout, of the admin, of the customer or
of other reports.

## 4. What is proved

Every safety property of the passing runs, invariants and action properties alike, for
all values of the constants. The assumptions are `OrdersAssumption`,
`SessionsAssumption`, `CartAssumption`, `AddressesAssumption`,
`CatalogueAssumption`, `VouchersAssumption`, `ListingsAssumption`, `SeedAssumption` and
`ShopTablesAssumption`, which TLC evaluates in every run of their module: finitely
many orders and ids; quantities, quotas, supply and prices natural; NULL not an id;
queries that the DTOs let through, pages of 1 to 100 rows; a seed with at least one
category and one product; and a shop that inserts into tables of the schema.

* `TypeCorrect`. The only hard columns are `stock`, where the guard of the UPDATE
  is needed, and `vouch.used`.
* `PaymentsCorrect`. `PaymentInv` is inductive: the three payment properties need
  each other, and need four facts about requests in flight (`RequestInv`). An
  `updateStatus` past its checks remembers a status other than PENDING
  (`StatusRequestsAdmitted`), since PENDING to PAID is allowed only if the payment
  is PAID already, which `PaidMeansSettled` excludes: this is why an admin cannot
  make an unpaid order PAID. A report in flight that says PAID is about money
  taken, one that says REFUNDED about an order with a refund, and one that says it
  failed was let in on an order not seen PAID (`ReportsAdmitted`). Only a `createSnapToken` holds a lock between steps
  (`LocksAreHeld`). An order id drawn by `create` is its own (`FreshIds`).
  `PaymentCopiesCorrect`, `PaidCorrect` and `SnapCorrect` follow.
* `StockCorrect`, `VoucherCorrect`, `SoldCorrect`. Goods are counted as the
  cardinality of a set of pieces (order, number). `PiecesOfOneMore` and
  `PiecesOfOneLess` say what adding or removing one order does to the count, and
  a case lemma shows that a step either places one order, gives one back, or
  touches neither goods nor vouchers.
* `PaidStaysPaid`, `CancelledStaysCancelled`. Each step either spares the payment
  of an order or is one of a few moves that start outside the state in question.
* `StatusKeepsToTheGraph`, `OrdersAreKept`. The status of an order moves along the graph
  of `updateStatus` or is cancelled from PENDING or PAID, and what `create` wrote is
  never written again. The second is what lets `Orders` leave the amounts out.
* `OrdersImplementLifecycle`. The refinement mapping takes the status for the
  stage, and items, voucher, stock and uses as they are. The invariants above
  discharge the guards of the abstract actions: `TypeOK` and `VoucherConserved`
  make the guard of the voucher's decrement true, `PaymentInv` rules out that a
  status request moves an order from PENDING.
* `AnswersCorrect`. At most one order per key, by the unique index; the owner and
  key of an order never change once it exists.
* `SessionsCorrect`. `SessionInv` is inductive: the three session properties, that
  tokens and ended sessions have a first token of the same user, and that a
  request past its checks holds rows that exist. `SessionTypesCorrect`,
  `ChainCorrect`, `EndedCorrect` and `OldSessionsCorrect` follow. `RevokedForGood` is the
  action property behind them: no step gives a revoked token back.
* `AdminRemains`. `SomebodyIsAdmin` is not inductive: which admin is safe? Those of the
  seed are (`SeededAdminsStay`): no request that lowers one was ever let past its
  checks, so none is in flight.
* `CartCorrect`. The conjunction of the five properties of `Cart` is inductive as it
  stands: the index and the foreign keys guard every write, and `EditCommit` adds to
  `supplied` what it adds to the shelf. What requests in flight remember is never
  relied on.
* `AddressesCorrect`. `AddressesInv` needs `RowsAndLocks`: rows that were not created
  are empty, a held lock belongs to a `create` of that user, and a request past its
  lookup names an address that is still its user's or gone. `NewestExists` (a finite
  interval has a greatest element, from the well-foundedness of the naturals) gives
  the heir of a removed default; `ChooseLeavesOne` is what choosing does.
  `TransactionFacts` shows that no `create` is between its count and its writes
  while another transaction on the same user runs.
* `CatalogueCorrect`. `CatalogueInv` has two halves that never meet in a step.
  `AdminInv` needs what the requests past their checks have found: an update valid
  prices, a category's removal no product but late ones; `RowWritten` is the one
  argument for all writes of a product. `ReviewInv` needs that a transaction on a
  review holds the lock of its product, is alone on its review, and that what it
  will leave is right (`TransactionIsRight`). `BeginKeepsInv` establishes that for
  `create`, `update` and `remove` alike, `OnlyTransaction` derives that a posted
  review whose product is not locked has nobody at work on it, and
  `CommitReviewKeepsInv` uses it and shows that transactions on other products are
  not disturbed.

* `VouchersCorrect`. `VouchersInv` needs three facts about what is in flight: a quote
  is what the voucher, or the snapshot of the order, is worth (`QuotesHold`); orders
  a removal has not counted are late (`UncountedAreLate`); an order's voucher exists
  (`KeysHold`). `RoundedOnce` is the arithmetic of the hundredth, `DiscountBounds`
  that the two discount rules are one function, between zero and the subtotal.
  `UseChanges` is the argument for every step that changes only the use counter.
  `VoucherTypesCorrect`, `PercentagesCorrect`, `QuotesCorrect`, `TotalsCorrect` and
  `OnlyLateOrdersLoseTheirVoucher` follow. `ListingsCorrect` follows from the types
  alone, for any times.

* `ListingsCorrect` of `ListingsProofs` (the theorem above of the same name is that of
  `VouchersProofs`). A row's *rank* is the number of listed rows that the ORDER BY puts
  before it. Without ties the order is total (`PrecedesTotal`), the n-th row of any
  result has rank n - 1 (`RankInResults`), and so a page is a window of ranks
  (`PageByRank`), however MySQL sorts. When a row leaves, ranks only fall
  (`LeaveStep`), when one enters, they only grow (`EnterStep`). `ListingsInv` says
  therefore that rows seen have ranks below the offset the client has reached, that
  rows not seen are at or beyond it, and that the count promises such a row a further
  page. `NothingIsMissed` and `NothingIsShownTwice` follow.
* `SeedCorrect`. `AloneIsOnTrack` is inductive: a run that is alone has left only the
  tables it has not yet come to, and then rows of its own making, exactly those
  of the statements before. `ChildrenGoFirst` shows that the cleanup is a legal order of
  the foreign keys whatever rows there are. `StatementMakes` shows that each statement
  makes the rows of its own step and refers to rows of earlier ones, so that no
  foreign key and no unique index can refuse it. `SeedAloneSucceeds` and
  `SeedAloneLeavesTheSeed` follow.

Model-checked only: `RequestsEnd` and `SettlementIsRecorded`. They rest on strong
fairness, and the prover handles neither ENABLED nor liveness of this kind.

## 5. Where the code and its comments disagree

Two disagreements have a run that finds them.

1. **One payment counted twice** (`duplicate_paid_after_refund`). The comment at
   `payments.service.ts:217` promises idempotency. A settlement delivered again
   after a refund report is taken for a new payment: the order's payment is PAID
   again and `totalSold` is raised a second time.
2. **A used voucher deleted for good** (`voucher_removal`).
   `vouchers.controller.ts:89` promises to delete unused vouchers only. The use count
   and the orders are read without a lock and the DELETE is unconditional. The branch
   at `vouchers.service.ts:247` that should catch an order placed in between never
   fires: `orders.voucherId` is optional, so its foreign key sets it to NULL.

Five more were met while modelling. The modules have the behaviour, and the
properties named are the strongest that hold nevertheless.

* *A paid order cancelled as EXPIRED.* The comment at `orders.service.ts:280` says that
  deciding on the locked row excludes it. After a refund report the order is still
  PAID with paymentStatus REFUNDED (`payments.service.ts:321`); `cancel` accepts it,
  writes EXPIRED over REFUNDED and leaves `totalSold` as it is (`SoldCoversPaid`).
* *A paid order left EXPIRED or UNPAID.* The comment at `payments.service.ts:231` says
  that late downgrades are ignored, so that a PAID order can't be left with an EXPIRED
  payment. The guard looks only at paymentStatus = PAID. After a refund report it is
  REFUNDED, and a late `pending` or `expire` goes through to the last update
  (`payments.service.ts:321`): the order is PAID, PACKED or SHIPPED with its payment
  UNPAID or EXPIRED, and as the settlement was answered, it is not sent again
  (`PaidMeansSettled` and `SettlementIsRecorded`, which except refunded orders).
* *A session survives a change of password.* The comment at `auth.service.ts:211` says
  no stale token stays valid. A login that compared the old password and stores its
  token after the change is not revoked (`OldSessionsAreLateLogins`).
* *A cart line above the stock.* The comments at `cart.service.ts:39` and `:52` say that
  adds serialize on the variant's row. The product is read before the lock is taken,
  so under REPEATABLE READ the reads under the lock are as old as that: two adds both
  see the line as it was, and both increment it. Orders check the stock again.
* *A user left without a default address.* `update` refuses to switch off the default
  (`addresses.service.ts:49`) on a row read before the lock. A removal in between makes
  that very address the default, and the update switches it off
  (`OneDefaultUnlessRaced`).

Smaller ones, about the seed and its documents: the seeded reviews leave the
products' `rating` and `totalReview` at 0, where `FEATURES.md:128` has them follow the
reviews; the voucher GRATIS is described as 100% of the shipping (`seed.ts:343`) and
takes 100% of the goods; `README.md:156` says that `prisma:reset` seeds again, and
`package.json` names no seed command for Prisma to run.

## 6. What is not modelled

* Read-only operations that answer in one statement: `findOne`, `getProfile`,
  dashboard, health.
* Framework wiring: guards, validation pipe, error filter. What they let through
  is what the handlers are called with.
* Upload (files only; no row depends on them), wishlist and banners (independent rows,
  one statement per operation, unique indexes), product images (one insert and one
  delete).
* Order numbers. Two equal ones in one millisecond end the request like `Abort`.
* Texts: names, slugs, descriptions, e-mail addresses with their unique index.
* The provinces, cities and districts of `regions.data.ts`, which are data.

## 7. Plan

What is left, in order of importance.

1. `Checkout`: `create` statement by statement, with row locks and deadlock victims,
   as an implementation of `CreateCommit`; the argument of section 2 as a
   refinement instead of prose.
2. The profile half of `UsersService.update`: two changes to the same e-mail address.
3. Catalogue flags (`isActive`, `isFeatured`, soft deletion) where carts, wishlists and
   orders meet them.
