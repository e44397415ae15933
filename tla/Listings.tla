------------------------------ MODULE Listings ------------------------------
(***************************************************************************)
(* The paged listings: findAll of products, orders, users, vouchers and    *)
(* notifications and findByProduct of reviews.  Each answers one page with *)
(* two statements that Promise.all sends at once, one for the rows at an   *)
(* offset and one for the total, and no transaction around them.  A client *)
(* asks for page 1, 2, ... up to the totalPages of its last answer, while  *)
(* rows are created, removed, filtered in or out and change in the column  *)
(* they are sorted by.                                                     *)
(*                                                                         *)
(* One listing is open at a time, and rows holds the table it is about.    *)
(* A row is listed when it satisfies the WHERE of the query.  Whatever     *)
(* column the query sorts by is rows[i].column, but for createdAt and id.  *)
(* An id is a number, for its order only: ids are random and say nothing   *)
(* about age.                                                              *)
(*                                                                         *)
(* An operator with the suffix _bug is a wrong variant of the one that     *)
(* follows it, for mutation tests.                                         *)
(***************************************************************************)
EXTENDS Integers, FiniteSets, Sequences, SequencesExt

CONSTANTS
  Ids,         \* ids of rows, numbers
  Queries,     \* what clients ask for
  Limits,      \* page sizes
  Broadcasts,  \* the notifications that are for everybody
  MaxChanges,  \* bound: changes of the table while a client pages
  MaxValue     \* bound: values of the sorted column are in 0 .. MaxValue

\* What the query DTOs of the services admit: sortBy, and for products the older sort.
ProductSortBy == {"createdAt", "name", "brand", "category", "basePrice", "rating", "totalSold"}
OrderSortBy == {"orderNumber", "createdAt", "status", "paymentStatus", "total"}
UserSortBy == {"name", "email", "role", "createdAt", "isActive"}
VoucherSortBy ==
  {"code", "type", "value", "quota", "usedCount", "minPurchase", "startsAt", "expiresAt",
   "isActive", "createdAt"}
SortBy ==
  [products |-> ProductSortBy \cup {"none"}, orders |-> OrderSortBy, users |-> UserSortBy,
   vouchers |-> VoucherSortBy, notifications |-> {"createdAt"}, reviews |-> {"createdAt"}]
Sorts == {"newest", "price_asc", "price_desc", "rating", "sold"}
PageSizes == 1 .. 100

ASSUME ListingsAssumption ==
  /\ Ids \subseteq Nat /\ IsFiniteSet(Ids) /\ Broadcasts \subseteq Ids
  /\ Limits \subseteq PageSizes
  /\ MaxChanges \in Nat /\ MaxValue \in Nat
  /\ \A q \in Queries :
       /\ q.service \in DOMAIN SortBy /\ q.sortBy \in SortBy[q.service]
       /\ q.sortDir \in {"asc", "desc"} /\ q.sort \in Sorts
       /\ q.filtered \in BOOLEAN  \* WHERE has more than the owner and deletedAt
       /\ q.inMemory \in BOOLEAN  \* all rows are fetched, the page is sliced off
       /\ q.inMemory => q.service = "vouchers"

VARIABLES
  rows,      \* the table
  now,       \* the clock of createdAt
  query,     \* the listing the client pages through
  limit,     \* its page size
  page,      \* the page asked for
  answered,  \* which statements of this page have been answered
  total,     \* the answer of the count
  seen,      \* history: rows on the pages so far
  twice,     \* history: rows seen on two pages
  started,   \* history: rows listed when the client began
  changes,   \* history: kinds of changes since the client began
  torn,      \* history: a row came between the two statements of this page
  changed    \* how often the table has changed

client == <<query, limit, page, answered, total, seen, twice, started>>
vars == <<rows, now, client, changes, torn, changed>>
-----------------------------------------------------------------------------
(* ORDER BY *)

By(column, direction) == [column |-> column, direction |-> direction]

ProductSort(sort) ==
  CASE sort = "price_asc" -> By("basePrice", "asc")
    [] sort = "price_desc" -> By("basePrice", "desc")
    [] sort = "rating" -> By("rating", "desc")
    [] sort = "sold" -> By("totalSold", "desc")
    [] OTHER -> By("createdAt", "desc")

\* sortBy goes before sort.
ProductOrder(q) ==
  <<IF q.sortBy = "none" THEN ProductSort(q.sort) ELSE By(q.sortBy, q.sortDir), By("id", "asc")>>

OrderSort_bug(q) ==
  <<By(q.sortBy, q.sortDir)>>
OrderSort(q) ==
  <<By(q.sortBy, q.sortDir)>>
    \o (IF q.sortBy = "createdAt" THEN <<>> ELSE <<By("createdAt", "desc")>>)
    \o <<By("id", "desc")>>

VoucherOrderBy(q) == <<By(q.sortBy, q.sortDir), By("id", "asc")>>
UserOrder(q) == <<By(q.sortBy, q.sortDir), By("id", "asc")>>
NewestFirst == <<By("createdAt", "desc")>>

OrderBy(q) ==
  CASE q.service = "products" -> ProductOrder(q)
    [] q.service = "orders" -> OrderSort(q)
    [] q.service = "users" -> UserOrder(q)
    [] q.service = "vouchers" -> VoucherOrderBy(q)
    [] OTHER -> NewestFirst

\* What the sort decides on first, and the columns no handler writes after the insert.
SortColumn(q) == OrderBy(q)[1].column
Immutable == {"id", "createdAt", "orderNumber", "total"}

Value(i, column) ==
  CASE column = "id" -> i
    [] column = "createdAt" -> rows[i].createdAt
    [] OTHER -> rows[i].column

Precedes(i, j) ==
  LET order == OrderBy(query)
      Same(k) == Value(i, order[k].column) = Value(j, order[k].column)
      Sooner(k) == IF order[k].direction = "asc"
                   THEN Value(i, order[k].column) < Value(j, order[k].column)
                   ELSE Value(i, order[k].column) > Value(j, order[k].column)
  IN  \E k \in DOMAIN order : Sooner(k) /\ \A l \in 1 .. k - 1 : Same(l)

\* Rows the order does not tell apart come in any order, and in another one next time.
Listed == {i \in Ids : rows[i].status = "listed"}
Results ==
  {s \in SetToSeqs(Listed) :
     \A m, n \in DOMAIN s : m < n => ~Precedes(s[n], s[m])}

Skip == (page - 1) * limit
OnPage(s) == {s[n] : n \in {m \in DOMAIN s : Skip < m /\ m <= Skip + limit}}

TotalPages_bug == total \div limit
TotalPages == (total + limit - 1) \div limit
-----------------------------------------------------------------------------
NoRow == [status |-> "new", column |-> 0, createdAt |-> 0]

\* A row of the query's table that is listed, or left out by its filter.
Statuses(q) == IF q.filtered THEN {"listed", "hidden"} ELSE {"listed"}
Columns(q) == IF SortColumn(q) = "createdAt" THEN {0} ELSE 0 .. MaxValue

\* createdAt matters where the ORDER BY has it.
Dated(q) == \E k \in DOMAIN OrderBy(q) : OrderBy(q)[k].column = "createdAt"
Ages(q) == IF Dated(q) THEN {1, 2} ELSE {2}

\* A broadcast can be neither marked read nor removed.
Own(i) == query.service # "notifications" \/ i \notin Broadcasts

Init ==
  /\ query \in Queries /\ limit \in Limits
  /\ now = 2
  /\ \E fresh \in Ids :
       rows \in {f \in [Ids -> {NoRow} \cup
                                 [status : Statuses(query), column : Columns(query),
                                  createdAt : Ages(query)]] :
                   \A i \in Ids : /\ f[i] = NoRow <=> i = fresh
                                  /\ f[i].status = "hidden" => Own(i)}
  /\ page = 1 /\ answered = {} /\ total = 0
  /\ seen = {} /\ twice = {} /\ started = Listed
  /\ changes = {} /\ torn = FALSE /\ changed = 0
-----------------------------------------------------------------------------
(* The client *)

Show(ids) == seen' = seen \cup ids /\ twice' = twice \cup (seen \cap ids)

\* findMany with skip and take
FindMany ==
  /\ ~query.inMemory /\ "rows" \notin answered
  /\ \E s \in Results : Show(OnPage(s))
  /\ answered' = answered \cup {"rows"}
  /\ UNCHANGED <<rows, now, query, limit, page, total, started, changes, torn, changed>>

\* count
Count ==
  /\ ~query.inMemory /\ "total" \notin answered
  /\ total' = Cardinality(Listed)
  /\ answered' = answered \cup {"total"}
  /\ UNCHANGED <<rows, now, query, limit, page, seen, twice, started, changes, torn, changed>>

\* Vouchers that SQL cannot filter: one findMany, then filter, length and slice.
FindAndSlice ==
  /\ query.inMemory /\ answered = {}
  /\ \E s \in Results : Show(OnPage(s)) /\ total' = Len(s)
  /\ answered' = {"rows", "total"}
  /\ UNCHANGED <<rows, now, query, limit, page, started, changes, torn, changed>>

Complete == answered = {"rows", "total"}
NextPage ==
  /\ Complete /\ page < TotalPages
  /\ page' = page + 1 /\ answered' = {} /\ total' = 0 /\ torn' = FALSE
  /\ UNCHANGED <<rows, now, query, limit, seen, twice, started, changes, changed>>

\* The client stops.
LastPage == Complete /\ page >= TotalPages
-----------------------------------------------------------------------------
(* The table meanwhile, as far as the listing shows it *)

Change(kind) ==
  /\ changed < MaxChanges
  /\ changed' = changed + 1
  /\ changes' = changes \cup {kind}
  /\ torn' = (torn \/ (kind = "enter" /\ answered # {} /\ ~Complete))
  /\ UNCHANGED client

\* A new row, in the same millisecond as the last one or later.
Insert(i) ==
  /\ rows[i].status = "new"
  /\ now' \in IF Dated(query) THEN {now, now + 1} ELSE {now}
  /\ \E value \in Columns(query) :
       rows' = [rows EXCEPT ![i] = [status |-> "listed", column |-> value, createdAt |-> now']]
  /\ Change("enter")

Unlist(ids, how) ==
  /\ rows' = [i \in Ids |-> IF i \in ids THEN [rows[i] EXCEPT !.status = how] ELSE rows[i]]
  /\ Change("leave")
  /\ UNCHANGED now

\* Every table but that of the orders has an operation that removes a row.
Delete(i) == i \in Listed /\ query.service # "orders" /\ Own(i) /\ Unlist({i}, "gone")

\* What is read leaves the list of unread notifications.
MarkRead(i) ==
  /\ query.service = "notifications" /\ query.filtered
  /\ i \in Listed /\ Own(i)
  /\ Unlist({i}, "hidden")
MarkAllRead ==
  /\ query.service = "notifications" /\ query.filtered
  /\ \E i \in Listed : Own(i)
  /\ Unlist({i \in Listed : Own(i)}, "hidden")

\* An update takes a row out of the filter, or into it.
FilterOut(i) ==
  /\ query.service # "notifications" /\ query.filtered
  /\ i \in Listed
  /\ Unlist({i}, "hidden")
FilterIn(i) ==
  /\ query.service # "notifications" /\ query.filtered
  /\ rows[i].status = "hidden"
  /\ rows' = [rows EXCEPT ![i].status = "listed"]
  /\ Change("enter")
  /\ UNCHANGED now

\* An update changes what the listing is sorted by.
Move(i) ==
  /\ i \in Listed /\ SortColumn(query) \notin Immutable
  /\ \E value \in Columns(query) \ {rows[i].column} : rows' = [rows EXCEPT ![i].column = value]
  /\ Change("move")
  /\ UNCHANGED now

Next ==
  \/ FindMany \/ Count \/ FindAndSlice \/ NextPage
  \/ MarkAllRead
  \/ \E i \in Ids :
       Insert(i) \/ MarkRead(i) \/ Delete(i) \/ FilterOut(i) \/ FilterIn(i) \/ Move(i)

Spec == Init /\ [][Next]_vars
-----------------------------------------------------------------------------
(* Properties *)

\* The listings that end their ORDER BY in the id have one order.  Notifications
\* and reviews are sorted by createdAt alone and have one when no two rows share it.
TieFree ==
  \/ query.service \notin {"notifications", "reviews"}
  \/ \A i, j \in Ids : i # j /\ rows[i].status # "new" /\ rows[j].status # "new" =>
       rows[i].createdAt # rows[j].createdAt

\* A client that has reached the last page has seen every row that was listed when it
\* began, unless a row left or moved meanwhile, or one came between the two
\* statements of the last page, so that the count is one behind the rows.
NothingMissedUnlessRowsLeave ==
  LastPage /\ TieFree /\ changes \subseteq {"enter"} /\ ~torn => started \subseteq seen

\* A client sees no row on two pages, unless a row came or moved meanwhile.
NothingTwiceUnlessRowsEnter ==
  TieFree /\ changes \subseteq {"leave"} => twice = {}
-----------------------------------------------------------------------------
(* What makes the properties inductive *)

TypeOK ==
  /\ rows \in [Ids -> [status : {"new", "listed", "hidden", "gone"},
                       column : Nat, createdAt : Nat]]
  /\ now \in Nat
  /\ query \in Queries /\ limit \in Limits /\ page \in Nat \ {0}
  /\ answered \subseteq {"rows", "total"} /\ total \in Nat
  /\ query.inMemory => answered = {} \/ Complete
  /\ seen \subseteq Ids /\ started \subseteq Ids /\ torn \in BOOLEAN

\* The rows listed before row i, and how many rows the client's pages have passed.
Ahead(i) == {j \in Listed : Precedes(j, i)}
Rank(i) == Cardinality(Ahead(i))
Passed == IF "rows" \in answered THEN page * limit ELSE Skip

\* While rows only leave, what the client has seen moves forward; while they only
\* enter, what it has not seen moves back.
SeenIsPassed ==
  TieFree /\ changes \subseteq {"leave"} =>
    twice = {} /\ \A i \in seen \cap Listed : Rank(i) < Passed
UnseenIsAhead ==
  TieFree /\ changes \subseteq {"enter"} =>
    started \subseteq Listed /\ \A i \in started \ seen : Rank(i) >= Passed

\* The count promises a further page to a client that has not seen everything.
CountPromisesMore ==
  TieFree /\ changes \subseteq {"enter"} /\ ~torn =>
    /\ answered = {"total"} => total = Cardinality(Listed)
    /\ Complete => started \subseteq seen \/ total > page * limit

ListingsInv == TypeOK /\ SeenIsPassed /\ UnseenIsAhead /\ CountPromisesMore
=============================================================================
