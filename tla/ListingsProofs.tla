--------------------------- MODULE ListingsProofs ---------------------------
(***************************************************************************)
(* Proofs about the paged listings, for every number of rows, page size    *)
(* and length of the run: where a row is shown depends only on how many    *)
(* listed rows precede it, that number falls while rows leave and grows    *)
(* while they enter, and the client's pages are compared with it.          *)
(***************************************************************************)
EXTENDS Listings, FiniteSetTheorems, TLAPS

(***************************************************************************)
(* The orders.                                                             *)
(***************************************************************************)
OnlyNewestFirst(q) == q.service \in {"notifications", "reviews"}

LEMMA QueryTypes ==
  ASSUME NEW q \in Queries
  PROVE  /\ q.service \in DOMAIN SortBy /\ q.sortBy \in SortBy[q.service]
         /\ q.sortDir \in {"asc", "desc"}
         /\ q.inMemory \in BOOLEAN /\ q.filtered \in BOOLEAN
BY ListingsAssumption

\* What an ORDER BY of the orders consists of.
OrderKeys == [column : OrderSortBy \cup {"id"}, direction : {"asc", "desc"}]

LEMMA Joined ==
  ASSUME NEW a \in Seq(OrderKeys), NEW b \in Seq(OrderKeys)
  PROVE  /\ a \o b \in Seq(OrderKeys) /\ Len(a \o b) = Len(a) + Len(b)
         /\ \A k \in 1 .. Len(b) : (a \o b)[Len(a) + k] = b[k]
OBVIOUS

\* Every ORDER BY has one to three columns; the last is the id where it is not createdAt.
LEMMA OrderByColumns ==
  ASSUME NEW q \in Queries
  PROVE  \E n \in {1, 2, 3} :
           /\ DOMAIN OrderBy(q) = 1 .. n
           /\ OrderBy(q)[n].column = IF OnlyNewestFirst(q) THEN "createdAt" ELSE "id"
<1>1. q.service \in {"products", "orders", "users", "vouchers", "notifications", "reviews"}
  BY QueryTypes DEF SortBy
<1>2. CASE q.service = "products"
  <2>1. OrderBy(q) = ProductOrder(q)
    BY <1>2 DEF OrderBy
  <2>2. DOMAIN OrderBy(q) = 1 .. 2 /\ OrderBy(q)[2].column = "id"
    BY <2>1 DEF ProductOrder, By
  <2> QED BY <1>2, <2>2 DEF OnlyNewestFirst
<1>3. CASE q.service = "orders"
  <2>1. OrderBy(q) = OrderSort(q)
    BY <1>3 DEF OrderBy
  <2> DEFINE first == <<By(q.sortBy, q.sortDir)>>
             second == IF q.sortBy = "createdAt" THEN <<>> ELSE <<By("createdAt", "desc")>>
             last == <<By("id", "desc")>>
             both == first \o second
  <2>2. OrderBy(q) = both \o last
    BY <2>1 DEF OrderSort
  <2>3. first \in Seq(OrderKeys) /\ Len(first) = 1
    <3>1. q.sortBy \in OrderSortBy /\ q.sortDir \in {"asc", "desc"}
      BY <1>3, QueryTypes DEF SortBy
    <3> QED BY <3>1 DEF By, OrderKeys
  <2>4. second \in Seq(OrderKeys) /\ (Len(second) = 0 \/ Len(second) = 1)
    <3>1. By("createdAt", "desc") \in OrderKeys
      BY DEF By, OrderKeys, OrderSortBy
    <3> QED BY <3>1
  <2>5. last \in Seq(OrderKeys) /\ Len(last) = 1 /\ last[1].column = "id"
    BY DEF By, OrderKeys
  <2> HIDE DEF first, second, last
  <2>6. both \in Seq(OrderKeys) /\ Len(both) = Len(first) + Len(second)
    BY <2>3, <2>4, Joined
  <2>7. Len(both) \in {1, 2}
    BY <2>3, <2>4, <2>6
  <2> HIDE DEF both
  <2>8. /\ both \o last \in Seq(OrderKeys) /\ Len(both \o last) = Len(both) + Len(last)
        /\ \A k \in 1 .. Len(last) : (both \o last)[Len(both) + k] = last[k]
    BY <2>5, <2>6, Joined
  <2>9. /\ DOMAIN OrderBy(q) = 1 .. Len(both) + 1
        /\ OrderBy(q)[Len(both) + 1].column = "id"
    <3>1. Len(both) \in Nat /\ Len(OrderBy(q)) = Len(both) + 1 /\ OrderBy(q) \in Seq(OrderKeys)
      BY <2>2, <2>5, <2>7, <2>8
    <3>2. OrderBy(q)[Len(both) + 1] = last[1]
      <4>1. 1 \in 1 .. Len(last)
        BY <2>5
      <4> QED BY <2>2, <2>8, <4>1
    <3>3. DOMAIN OrderBy(q) = 1 .. Len(OrderBy(q))
      BY <3>1
    <3>4. DOMAIN OrderBy(q) = 1 .. Len(both) + 1
      BY <3>1, <3>3, Zenon
    <3>5. OrderBy(q)[Len(both) + 1].column = "id"
      BY <2>5, <3>2, Zenon
    <3> QED BY <3>4, <3>5
  <2>10. PICK l \in {1, 2} : Len(both) = l
    BY <2>7, Zenon
  <2>11. l + 1 \in {1, 2, 3} /\ ~OnlyNewestFirst(q)
    BY <1>3 DEF OnlyNewestFirst
  <2>12. DOMAIN OrderBy(q) = 1 .. l + 1 /\ OrderBy(q)[l + 1].column = "id"
    BY <2>9, <2>10, Zenon
  <2> QED BY <2>11, <2>12, Zenon
<1>4. CASE q.service = "users"
  <2>1. OrderBy(q) = UserOrder(q)
    BY <1>4 DEF OrderBy
  <2>2. DOMAIN OrderBy(q) = 1 .. 2 /\ OrderBy(q)[2].column = "id"
    BY <2>1 DEF UserOrder, By
  <2> QED BY <1>4, <2>2 DEF OnlyNewestFirst
<1>5. CASE q.service = "vouchers"
  <2>1. OrderBy(q) = VoucherOrderBy(q)
    BY <1>5 DEF OrderBy
  <2>2. DOMAIN OrderBy(q) = 1 .. 2 /\ OrderBy(q)[2].column = "id"
    BY <2>1 DEF VoucherOrderBy, By
  <2> QED BY <1>5, <2>2 DEF OnlyNewestFirst
<1>6. CASE OnlyNewestFirst(q)
  <2>1. OrderBy(q) = NewestFirst
    BY <1>6 DEF OrderBy, OnlyNewestFirst
  <2>2. DOMAIN OrderBy(q) = 1 .. 1 /\ OrderBy(q)[1].column = "createdAt"
    BY <2>1 DEF NewestFirst, By
  <2> QED BY <1>6, <2>2
<1> QED BY <1>1, <1>2, <1>3, <1>4, <1>5, <1>6 DEF OnlyNewestFirst

LEMMA ValueType ==
  ASSUME TypeOK, NEW i \in Ids, NEW column
  PROVE  Value(i, column) \in Nat
BY ListingsAssumption DEF TypeOK, Value

LEMMA PrecedesNotItself ==
  ASSUME TypeOK, NEW i \in Ids
  PROVE  ~Precedes(i, i)
BY ValueType DEF Precedes

\* Without ties any two rows are in order one way or the other.
LEMMA PrecedesTotal ==
  ASSUME TypeOK, TieFree, NEW i \in Listed, NEW j \in Listed, i # j
  PROVE  Precedes(i, j) \/ Precedes(j, i)
<1> DEFINE order == OrderBy(query)
           Differ(k) == Value(i, order[k].column) # Value(j, order[k].column)
<1>1. PICK n \in {1, 2, 3} : /\ DOMAIN order = 1 .. n
                             /\ order[n].column =
                                  IF OnlyNewestFirst(query) THEN "createdAt" ELSE "id"
  BY OrderByColumns DEF TypeOK
<1>2. i \in Ids /\ j \in Ids /\ rows[i].status # "new" /\ rows[j].status # "new"
  BY DEF Listed
<1>3. Differ(n)
  <2>1. CASE OnlyNewestFirst(query)
    <3>1. rows[i].createdAt # rows[j].createdAt
      BY <1>2, <2>1 DEF TieFree, OnlyNewestFirst
    <3>2. order[n].column = "createdAt"
      BY <1>1, <2>1
    <3> HIDE DEF order
    <3> QED BY <3>1, <3>2 DEF Value
  <2>2. CASE ~OnlyNewestFirst(query)
    <3>2. order[n].column = "id"
      BY <1>1, <2>2
    <3> HIDE DEF order
    <3> QED BY <3>2 DEF Value
  <2> QED BY <2>1, <2>2
<1>4. PICK k \in 1 .. n : Differ(k) /\ \A l \in 1 .. k - 1 : ~Differ(l)
  <2> HIDE DEF Differ
  <2>1. CASE Differ(1)
    BY <2>1
  <2>2. CASE ~Differ(1) /\ n # 1 /\ Differ(2)
    BY <2>2
  <2>3. CASE ~Differ(1) /\ n = 3 /\ ~Differ(2)
    BY <1>3, <2>3
  <2> QED BY <1>3, <2>1, <2>2, <2>3
<1>5. /\ Value(i, order[k].column) \in Nat /\ Value(j, order[k].column) \in Nat
  BY <1>2, ValueType
<1>6. k \in DOMAIN order
  BY <1>1
<1> QED BY <1>4, <1>5, <1>6 DEF Precedes

(***************************************************************************)
(* The pages.                                                              *)
(***************************************************************************)
LEMMA ListedFinite ==
  /\ Listed \subseteq Ids /\ IsFiniteSet(Listed) /\ Cardinality(Listed) \in Nat
  /\ \A i : IsFiniteSet(Ahead(i)) /\ Rank(i) \in Nat
<1>1. Listed \subseteq Ids
  BY DEF Listed
<1>2. IsFiniteSet(Listed)
  BY <1>1, ListingsAssumption, FS_Subset
<1>3. ASSUME NEW i PROVE IsFiniteSet(Ahead(i)) /\ Rank(i) \in Nat
  <2>1. Ahead(i) \subseteq Listed
    BY DEF Ahead
  <2>2. IsFiniteSet(Ahead(i))
    BY <1>2, <2>1, FS_Subset
  <2> QED BY <2>2, FS_CardinalityType DEF Rank
<1> QED BY <1>1, <1>2, <1>3, FS_CardinalityType

LEMMA RankBelowCount ==
  ASSUME TypeOK, NEW i \in Listed
  PROVE  Rank(i) < Cardinality(Listed)
<1>1. Ahead(i) \subseteq Listed \ {i}
  BY PrecedesNotItself DEF Ahead, Listed
<1>2. IsFiniteSet(Listed \ {i}) /\ Cardinality(Listed \ {i}) = Cardinality(Listed) - 1
  BY ListedFinite, FS_RemoveElement
<1>3. Cardinality(Ahead(i)) <= Cardinality(Listed \ {i})
  BY <1>1, <1>2, FS_Subset
<1> QED BY <1>2, <1>3, ListedFinite DEF Rank

LEMMA ResultsTypes ==
  ASSUME NEW s \in Results
  PROVE  /\ s \in [1 .. Cardinality(Listed) -> Listed]
         /\ DOMAIN s = 1 .. Cardinality(Listed) /\ Len(s) = Cardinality(Listed)
         /\ \A m, n \in 1 .. Cardinality(Listed) : m # n => s[m] # s[n]
         /\ \A i \in Listed : \E n \in 1 .. Cardinality(Listed) : s[n] = i
<1> DEFINE N == Cardinality(Listed)
<1>1. N \in Nat /\ IsFiniteSet(Listed)
  BY ListedFinite
<1>2. s \in [1 .. N -> Listed] /\ \A m, n \in 1 .. N : m # n => s[m] # s[n]
  BY DEF Results, SetToSeqs
<1> HIDE DEF N
<1>3. s \in Injection(1 .. N, Listed)
  BY <1>2 DEF Injection, IsInjective
<1>4. Cardinality(1 .. N) = N
  BY <1>1, FS_Interval
<1>5. s \in Surjection(1 .. N, Listed)
  BY <1>1, <1>3, <1>4, FS_Injection DEF N
<1>6. Len(s) = N /\ DOMAIN s = 1 .. N
  <2>1. s \in Seq(Listed)
    BY <1>1, <1>2
  <2> QED BY <1>1, <1>2, <2>1
<1> QED BY <1>2, <1>5, <1>6 DEF N, Surjection

\* The n-th row of a result has n - 1 rows before it, whatever the sort did.
LEMMA RankInResults ==
  ASSUME TypeOK, TieFree, NEW s \in Results, NEW n \in 1 .. Cardinality(Listed)
  PROVE  Rank(s[n]) = n - 1
<1> DEFINE N == Cardinality(Listed)
           Before == {s[m] : m \in 1 .. n - 1}
           f == [m \in 1 .. n - 1 |-> s[m]]
<1>1. /\ N \in Nat /\ s \in [1 .. N -> Listed]
      /\ \A m, k \in 1 .. N : m # k => s[m] # s[k]
      /\ \A i \in Listed : \E m \in 1 .. N : s[m] = i
  BY ResultsTypes, ListedFinite
<1>2. \A m, k \in 1 .. N : m < k => ~Precedes(s[k], s[m])
  BY ResultsTypes DEF Results
<1>3. n \in 1 .. N
  OBVIOUS
<1> HIDE DEF N
<1>4. ASSUME NEW m \in 1 .. N PROVE Precedes(s[m], s[n]) <=> m < n
  <2>1. s[m] \in Listed /\ s[n] \in Listed
    BY <1>1, <1>3
  <2>2. CASE m < n
    BY <1>1, <1>2, <1>3, <2>1, <2>2, PrecedesTotal
  <2>3. CASE m = n
    BY <2>1, <2>3, PrecedesNotItself, ListedFinite
  <2>4. CASE n < m
    BY <1>1, <1>2, <1>3, <2>4
  <2> QED BY <1>1, <1>3, <2>2, <2>3, <2>4
<1>5. Ahead(s[n]) = Before
  <2>1. ASSUME NEW i \in Ahead(s[n]) PROVE i \in Before
    <3>1. PICK m \in 1 .. N : s[m] = i
      BY <1>1 DEF Ahead
    <3>2. m < n
      BY <1>4, <3>1 DEF Ahead
    <3>3. m \in 1 .. n - 1
      BY <1>1, <1>3, <3>2
    <3> QED BY <3>1, <3>3
  <2>2. ASSUME NEW m \in 1 .. n - 1 PROVE s[m] \in Ahead(s[n])
    <3>1. m \in 1 .. N /\ m < n
      BY <1>1, <1>3
    <3> QED BY <1>1, <1>4, <3>1 DEF Ahead
  <2> QED BY <2>1, <2>2
<1>6. f \in Bijection(1 .. n - 1, Before)
  <2>1. \A m \in 1 .. n - 1 : m \in 1 .. N
    BY <1>1, <1>3
  <2>2. f \in [1 .. n - 1 -> Before]
    OBVIOUS
  <2>3. \A m, k \in 1 .. n - 1 : f[m] = f[k] => m = k
    BY <1>1, <2>1
  <2>4. \A i \in Before : \E m \in 1 .. n - 1 : f[m] = i
    OBVIOUS
  <2> QED BY <2>2, <2>3, <2>4 DEF Bijection, Injection, Surjection, IsInjective
<1>7. IsFiniteSet(1 .. n - 1) /\ Cardinality(1 .. n - 1) = n - 1
  <2>1. \A m \in Nat : IsFiniteSet(1 .. m) /\ Cardinality(1 .. m) = m
    BY FS_Interval
  <2>2. n - 1 \in Nat
    BY <1>1, <1>3
  <2> HIDE DEF Before, f
  <2> QED BY <2>1, <2>2
<1>8. Cardinality(Before) = n - 1
  <2> HIDE DEF Before, f
  <2>1. ExistsBijection(1 .. n - 1, Before)
    BY <1>6 DEF ExistsBijection
  <2> QED BY <1>7, <2>1, FS_Bijection
<1> QED BY <1>5, <1>8 DEF Rank

LEMMA Numbers ==
  ASSUME TypeOK
  PROVE  /\ limit \in Nat \ {0} /\ page \in Nat \ {0}
         /\ Skip \in Nat /\ page * limit \in Nat /\ page * limit = Skip + limit
<1>1. limit \in Nat \ {0} /\ page \in Nat \ {0}
  BY ListingsAssumption DEF TypeOK, PageSizes
<1> QED BY <1>1 DEF Skip

\* Without ties a page is a window of ranks: it shows exactly the listed rows that have
\* between skip and skip + take - 1 others before them, whichever of its possible
\* results MySQL returns, for any sort of the six listings.
THEOREM PageByRank ==
  ASSUME TypeOK, TieFree, NEW s \in Results
  PROVE  OnPage(s) = {i \in Listed : Skip <= Rank(i) /\ Rank(i) < page * limit}
<1>1. \A n \in 1 .. Cardinality(Listed) : Rank(s[n]) = n - 1
  BY RankInResults
<1>2. /\ s \in [1 .. Cardinality(Listed) -> Listed] /\ DOMAIN s = 1 .. Cardinality(Listed)
      /\ \A i \in Listed : \E n \in 1 .. Cardinality(Listed) : s[n] = i
  BY ResultsTypes
<1>3. Skip \in Nat /\ limit \in Nat /\ page * limit = Skip + limit
  BY Numbers
<1>4. \A n \in DOMAIN s : Skip < n /\ n <= Skip + limit <=>
                         Skip <= Rank(s[n]) /\ Rank(s[n]) < page * limit
  <2> SUFFICES ASSUME NEW n \in DOMAIN s
               PROVE Skip < n /\ n <= Skip + limit <=> Skip <= n - 1 /\ n - 1 < Skip + limit
    BY <1>1, <1>2, <1>3
  <2>1. n \in Nat
    BY <1>2, ListedFinite
  <2> QED BY <1>3, <2>1
<1> QED BY <1>2, <1>4 DEF OnPage

(***************************************************************************)
(* The client.                                                             *)
(***************************************************************************)
LEMMA CountIsNat ==
  ASSUME NEW n \in Nat, NEW m \in Nat \ {0}, NEW p \in Nat, p >= (n + m - 1) \div m
  PROVE  n <= p * m
<1> DEFINE q == (n + m - 1) \div m
           t == n + m - 1
<1>1. q \in Nat /\ t < (q + 1) * m
  OBVIOUS
<1>2. (q + 1) * m <= (p + 1) * m
  BY <1>1
<1>3. (p + 1) * m = p * m + m /\ p * m \in Nat
  OBVIOUS
<1> QED BY <1>1, <1>2, <1>3

\* Nothing in the table changes.
LEMMA TableSame ==
  ASSUME UNCHANGED <<rows, query>>
  PROVE  /\ Listed' = Listed /\ TieFree' = TieFree
         /\ \A i : Rank(i)' = Rank(i)
<1>1. Listed' = Listed
  BY DEF Listed
<1>2. TieFree' = TieFree
  BY DEF TieFree
<1>3. \A i, j : Precedes(i, j)' = Precedes(i, j)
  BY DEF Precedes, Value
<1>4. \A i : Ahead(i)' = Ahead(i)
  BY <1>1, <1>3 DEF Ahead
<1> QED BY <1>1, <1>2, <1>4 DEF Rank

LEMMA InitListings == Init => ListingsInv
<1> SUFFICES ASSUME Init PROVE ListingsInv
  OBVIOUS
<1>1. TypeOK
  <2>1. rows \in [Ids -> [status : {"new", "listed", "hidden", "gone"},
                        column : Nat, createdAt : Nat]]
    <3>1. PICK fresh \in Ids :
            rows \in [Ids -> {NoRow} \cup [status : Statuses(query), column : Columns(query),
                                         createdAt : Ages(query)]]
      BY DEF Init
    <3>2. Statuses(query) \subseteq {"new", "listed", "hidden", "gone"}
      BY DEF Statuses
    <3>3. Columns(query) \subseteq Nat /\ Ages(query) \subseteq Nat
      BY ListingsAssumption DEF Columns, Ages
    <3>4. NoRow \in [status : {"new", "listed", "hidden", "gone"}, column : Nat, createdAt : Nat]
      BY DEF NoRow
    <3> QED BY <3>1, <3>2, <3>3, <3>4
  <2>2. started \subseteq Ids
    BY DEF Init, Listed
  <2>3. now \in Nat /\ page \in Nat \ {0} /\ total \in Nat
    BY DEF Init
  <2>4. query \in Queries /\ limit \in Limits /\ answered = {} /\ seen = {} /\ torn = FALSE
    BY DEF Init
  <2> QED BY <2>1, <2>2, <2>3, <2>4, Zenon DEF TypeOK
<1>2. SeenIsPassed
  BY DEF Init, SeenIsPassed
<1>3. UnseenIsAhead
  <2>1. page = 1 /\ Passed = Skip /\ limit \in Nat
    BY <1>1, Numbers DEF Init, Passed
  <2>2. Passed = 0
    BY <2>1 DEF Skip
  <2> QED BY <2>2, ListedFinite DEF Init, UnseenIsAhead
<1>4. CountPromisesMore
  BY DEF Init, CountPromisesMore, Complete
<1> QED BY <1>1, <1>2, <1>3, <1>4 DEF ListingsInv

\* The statement that fetches the rows: what it shows was not passed, and passes what
\* it shows.
LEMMA ShowPage ==
  ASSUME ListingsInv, "rows" \notin answered, NEW s \in Results, Show(OnPage(s)),
         UNCHANGED <<rows, query, limit, page, started, changes>>,
         "rows" \in answered'
  PROVE  /\ seen' \subseteq Ids /\ SeenIsPassed' /\ UnseenIsAhead'
<1> USE DEF ListingsInv
<1>1. Passed = Skip /\ Passed' = page * limit /\ page * limit = Skip + limit
      /\ Skip \in Nat /\ limit \in Nat
  BY Numbers DEF Passed
<1>2. OnPage(s) \subseteq Ids
  BY ResultsTypes, ListedFinite DEF OnPage
<1>3. Listed' = Listed /\ TieFree' = TieFree /\ (\A i : Rank(i)' = Rank(i))
      /\ (\A i : Rank(i) \in Nat)
  BY TableSame, ListedFinite
<1>4. seen' = seen \cup OnPage(s) /\ twice' = twice \cup (seen \cap OnPage(s))
  BY DEF Show
<1>5. TieFree => OnPage(s) = {i \in Listed : Skip <= Rank(i) /\ Rank(i) < page * limit}
  BY PageByRank
<1>6. SeenIsPassed'
  <2> SUFFICES ASSUME TieFree, changes \subseteq {"leave"}
               PROVE  twice' = {} /\ \A i \in seen' \cap Listed : Rank(i) < page * limit
    BY <1>1, <1>3 DEF SeenIsPassed
  <2>1. twice = {} /\ \A i \in seen \cap Listed : Rank(i) < Skip
    BY <1>1 DEF SeenIsPassed
  <2>2. seen \cap OnPage(s) = {}
    BY <1>1, <1>3, <1>5, <2>1
  <2> QED BY <1>1, <1>3, <1>4, <1>5, <2>1, <2>2
<1>7. UnseenIsAhead'
  <2> SUFFICES ASSUME TieFree, changes \subseteq {"enter"}
               PROVE  /\ started \subseteq Listed
                      /\ \A i \in started \ seen' : Rank(i) >= page * limit
    BY <1>1, <1>3 DEF UnseenIsAhead
  <2>1. started \subseteq Listed /\ \A i \in started \ seen : Rank(i) >= Skip
    BY <1>1 DEF UnseenIsAhead
  <2> QED BY <1>1, <1>3, <1>4, <1>5, <2>1
<1> QED BY <1>2, <1>4, <1>6, <1>7 DEF TypeOK

\* A count of the table as it is promises a page to whoever has not seen all of it.
LEMMA CountMore ==
  ASSUME TypeOK, UnseenIsAhead, TieFree, changes \subseteq {"enter"}, "rows" \in answered
  PROVE  started \subseteq seen \/ Cardinality(Listed) > page * limit
<1> SUFFICES ASSUME NEW i \in started, i \notin seen PROVE Cardinality(Listed) > page * limit
  OBVIOUS
<1>1. i \in Listed /\ Rank(i) >= page * limit
  BY DEF UnseenIsAhead, Passed
<1> QED BY <1>1, RankBelowCount, Numbers, ListedFinite

\* The same of the next state.
LEMMA CountMoreAlways ==
  (TypeOK /\ UnseenIsAhead /\ TieFree /\ changes \subseteq {"enter"} /\ "rows" \in answered
     => started \subseteq seen \/ Cardinality(Listed) > page * limit)'
<1>1. TypeOK /\ UnseenIsAhead /\ TieFree /\ changes \subseteq {"enter"} /\ "rows" \in answered
        => started \subseteq seen \/ Cardinality(Listed) > page * limit
  BY CountMore
<1> QED BY <1>1, PTL

LEMMA CountMoreNext ==
  ASSUME TypeOK', UnseenIsAhead', TieFree', changes' \subseteq {"enter"}, "rows" \in answered'
  PROVE  started' \subseteq seen' \/ Cardinality(Listed)' > (page * limit)'
BY CountMoreAlways

LEMMA FindManyStep == ListingsInv /\ FindMany => ListingsInv'
<1> SUFFICES ASSUME ListingsInv, FindMany PROVE ListingsInv'
  OBVIOUS
<1> USE DEF ListingsInv
<1>1. PICK s \in Results : Show(OnPage(s))
  BY DEF FindMany
<1>2. seen' \subseteq Ids /\ SeenIsPassed' /\ UnseenIsAhead'
  BY <1>1, ShowPage DEF FindMany
<1>3. TypeOK'
  BY <1>2 DEF TypeOK, FindMany, Complete
<1>4. CountPromisesMore'
  <2> SUFFICES ASSUME TieFree', changes' \subseteq {"enter"}, ~torn'
               PROVE  /\ answered' # {"total"}
                      /\ Complete' => started' \subseteq seen' \/ total' > (page * limit)'
    BY DEF CountPromisesMore
  <2>1. answered' # {"total"}
    BY DEF FindMany
  <2>2. ASSUME Complete' PROVE started' \subseteq seen' \/ total' > (page * limit)'
    <3>1. answered = {"total"}
      BY <2>2 DEF Complete, FindMany, TypeOK
    <3>2. TieFree
      BY TableSame DEF FindMany
    <3>3. total = Cardinality(Listed)
      BY <3>1, <3>2 DEF CountPromisesMore, FindMany
    <3>4. Listed' = Listed
      BY TableSame DEF FindMany
    <3>5. "rows" \in answered'
      BY DEF FindMany
    <3>6. started' \subseteq seen' \/ Cardinality(Listed)' > (page * limit)'
      BY <1>2, <1>3, <3>5, CountMoreNext
    <3> QED BY <3>3, <3>4, <3>6 DEF FindMany
  <2> QED BY <2>1, <2>2
<1> QED BY <1>2, <1>3, <1>4

LEMMA CountStep == ListingsInv /\ Count => ListingsInv'
<1> SUFFICES ASSUME ListingsInv, Count PROVE ListingsInv'
  OBVIOUS
<1> USE DEF ListingsInv
<1>1. Listed' = Listed /\ TieFree' = TieFree /\ \A i : Rank(i)' = Rank(i)
  BY TableSame DEF Count
<1>2. TypeOK'
  BY ListedFinite DEF TypeOK, Count, Complete
<1>3. Passed' = Passed
  BY DEF Count, Passed, Skip
<1>4. SeenIsPassed'
  BY <1>1, <1>3 DEF SeenIsPassed, Count
<1>5. UnseenIsAhead'
  BY <1>1, <1>3 DEF UnseenIsAhead, Count
<1>6. CountPromisesMore'
  <2> SUFFICES ASSUME TieFree, changes \subseteq {"enter"}, ~torn
               PROVE  /\ answered' = {"total"} => total' = Cardinality(Listed)
                      /\ Complete' => started \subseteq seen \/ total' > page * limit
    BY <1>1 DEF CountPromisesMore, Count
  <2>1. total' = Cardinality(Listed)
    BY DEF Count
  <2>2. Complete' => "rows" \in answered
    BY DEF Complete, Count
  <2> QED BY <2>1, <2>2, CountMore
<1> QED BY <1>2, <1>4, <1>5, <1>6

LEMMA FindAndSliceStep == ListingsInv /\ FindAndSlice => ListingsInv'
<1> SUFFICES ASSUME ListingsInv, FindAndSlice PROVE ListingsInv'
  OBVIOUS
<1> USE DEF ListingsInv
<1>1. PICK s \in Results : Show(OnPage(s)) /\ total' = Len(s)
  BY DEF FindAndSlice
<1>2. seen' \subseteq Ids /\ SeenIsPassed' /\ UnseenIsAhead'
  BY <1>1, ShowPage DEF FindAndSlice
<1>3. total' = Cardinality(Listed) /\ total' \in Nat
  BY <1>1, ResultsTypes, ListedFinite
<1>4. TypeOK'
  BY <1>2, <1>3 DEF TypeOK, FindAndSlice, Complete
<1>5. Listed' = Listed
  BY TableSame DEF FindAndSlice
<1>6. CountPromisesMore'
  <2> SUFFICES ASSUME TieFree', changes' \subseteq {"enter"}
               PROVE  started' \subseteq seen' \/ Cardinality(Listed)' > (page * limit)'
    BY <1>3, <1>5 DEF CountPromisesMore, FindAndSlice
  <2>1. "rows" \in answered'
    BY DEF FindAndSlice
  <2> QED BY <1>2, <1>4, <2>1, CountMoreNext
<1> QED BY <1>2, <1>4, <1>6

LEMMA NextPageStep == ListingsInv /\ NextPage => ListingsInv'
<1> SUFFICES ASSUME ListingsInv, NextPage PROVE ListingsInv'
  OBVIOUS
<1> USE DEF ListingsInv
<1>1. Listed' = Listed /\ TieFree' = TieFree /\ \A i : Rank(i)' = Rank(i)
  BY TableSame DEF NextPage
<1>2. TypeOK'
  <2>1. page' \in Nat \ {0} /\ total' \in Nat
    BY DEF TypeOK, NextPage
  <2> QED BY <2>1, Zenon DEF TypeOK, NextPage
<1>3. Passed' = Passed
  <2>1. Passed = page * limit
    BY DEF Passed, NextPage, Complete
  <2>2. Passed' = ((page + 1) - 1) * limit
    BY DEF Passed, Skip, NextPage
  <2>3. (page + 1) - 1 = page
    BY Numbers
  <2> QED BY <2>1, <2>2, <2>3
<1>4. SeenIsPassed'
  BY <1>1, <1>3 DEF SeenIsPassed, NextPage
<1>5. UnseenIsAhead'
  BY <1>1, <1>3 DEF UnseenIsAhead, NextPage
<1>6. CountPromisesMore'
  BY DEF CountPromisesMore, NextPage, Complete
<1> QED BY <1>2, <1>4, <1>5, <1>6

(***************************************************************************)
(* The table.                                                              *)
(***************************************************************************)
LEMMA ChangeKeepsClient ==
  ASSUME TypeOK, NEW kind, Change(kind), now' \in Nat,
         rows' \in [Ids -> [status : {"new", "listed", "hidden", "gone"},
                           column : Nat, createdAt : Nat]]
  PROVE  /\ TypeOK' /\ Passed' = Passed /\ kind \in changes' /\ changes \subseteq changes'
         /\ UNCHANGED <<query, limit, page, answered, total, seen, twice, started>>
BY DEF TypeOK, Change, client, Passed, Skip, Complete

\* Rows that are not written stay in their order.
LEMMA SameOrder ==
  ASSUME query' = query, NEW i, NEW j,
         rows'[i].column = rows[i].column, rows'[i].createdAt = rows[i].createdAt,
         rows'[j].column = rows[j].column, rows'[j].createdAt = rows[j].createdAt
  PROVE  Precedes(i, j)' <=> Precedes(i, j)
<1>1. \A c : Value(i, c)' = Value(i, c) /\ Value(j, c)' = Value(j, c)
  BY DEF Value
<1> QED BY <1>1 DEF Precedes

LEMMA ListedFiniteNext ==
  (\A i : IsFiniteSet(Ahead(i)) /\ Rank(i) \in Nat)'
<1>1. \A i : IsFiniteSet(Ahead(i)) /\ Rank(i) \in Nat
  BY ListedFinite
<1> QED BY <1>1, PTL

LEMMA LeaveStep ==
  ASSUME ListingsInv, NEW ids, NEW how \in {"gone", "hidden"}, Unlist(ids, how)
  PROVE  ListingsInv'
<1> USE DEF ListingsInv
<1>1. /\ rows' \in [Ids -> [status : {"new", "listed", "hidden", "gone"},
                            column : Nat, createdAt : Nat]]
      /\ \A i \in Ids : /\ rows'[i].column = rows[i].column
                        /\ rows'[i].createdAt = rows[i].createdAt
                        /\ rows'[i].status \in {rows[i].status, how}
  BY DEF TypeOK, Unlist
<1>2. /\ TypeOK' /\ Passed' = Passed /\ "leave" \in changes' /\ changes \subseteq changes'
      /\ UNCHANGED <<query, limit, page, answered, total, seen, twice, started>>
  BY <1>1, ChangeKeepsClient DEF Unlist, TypeOK
<1>3. Listed' \subseteq Listed
  BY <1>1 DEF Listed
<1>4. ASSUME NEW i \in Listed' PROVE Rank(i)' <= Rank(i)
  <2>1. \A j \in Ids : Precedes(j, i)' <=> Precedes(j, i)
    BY <1>1, <1>2, <1>3, <1>4, SameOrder, ListedFinite
  <2>2. Ahead(i)' \subseteq Ahead(i)
    BY <1>3, <2>1, ListedFinite DEF Ahead
  <2> QED BY <2>2, ListedFinite, FS_Subset DEF Rank
<1>5. SeenIsPassed'
  <2> SUFFICES ASSUME TieFree', changes' \subseteq {"leave"}
               PROVE  twice = {} /\ \A i \in seen \cap Listed' : Rank(i)' < Passed
    BY <1>2 DEF SeenIsPassed
  <2>1. TieFree
    BY <1>1, <1>2 DEF TieFree
  <2>2. twice = {} /\ \A i \in seen \cap Listed : Rank(i) < Passed
    BY <1>2, <2>1 DEF SeenIsPassed
  <2>3. \A i : Rank(i) \in Nat /\ Rank(i)' \in Nat
    BY ListedFinite, ListedFiniteNext
  <2>4. Passed \in Nat
    BY Numbers DEF Passed
  <2> QED BY <1>3, <1>4, <2>2, <2>3, <2>4
<1>6. ~(changes' \subseteq {"enter"})
  BY <1>2
<1> QED BY <1>2, <1>5, <1>6 DEF UnseenIsAhead, CountPromisesMore

LEMMA EnterStep ==
  ASSUME ListingsInv, Change("enter"), now' \in Nat, NEW i \in Ids, rows[i].status # "listed",
         NEW row \in [status : {"listed"}, column : Nat, createdAt : Nat],
         rows' = [rows EXCEPT ![i] = row],
         rows[i].status = "new" \/ row.createdAt = rows[i].createdAt
  PROVE  ListingsInv'
<1> USE DEF ListingsInv
<1>1. /\ rows' \in [Ids -> [status : {"new", "listed", "hidden", "gone"},
                            column : Nat, createdAt : Nat]]
      /\ \A j \in Ids : j # i => rows'[j] = rows[j]
      /\ rows'[i] = row /\ rows'[i].status = "listed"
  BY DEF TypeOK
<1>2. /\ TypeOK' /\ Passed' = Passed /\ "enter" \in changes' /\ changes \subseteq changes'
      /\ UNCHANGED <<query, limit, page, answered, total, seen, twice, started>>
  BY <1>1, ChangeKeepsClient
<1>3. Listed \subseteq Listed' /\ i \notin Listed
  BY <1>1 DEF Listed
<1>4. ASSUME NEW j \in Listed PROVE Rank(j)' >= Rank(j)
  <2>1. \A k \in Listed : Precedes(k, j)' <=> Precedes(k, j)
    BY <1>1, <1>2, <1>3, SameOrder, ListedFinite
  <2>2. Ahead(j) \subseteq Ahead(j)'
    BY <1>3, <2>1 DEF Ahead
  <2>3. IsFiniteSet(Ahead(j)')
    BY ListedFiniteNext
  <2> QED BY <2>2, <2>3, FS_Subset, ListedFinite, ListedFiniteNext DEF Rank
<1>5. TieFree' => TieFree
  BY <1>1, <1>2 DEF TieFree
<1>6. UnseenIsAhead'
  <2> SUFFICES ASSUME TieFree', changes' \subseteq {"enter"}
               PROVE  started \subseteq Listed' /\ \A j \in started \ seen : Rank(j)' >= Passed
    BY <1>2 DEF UnseenIsAhead
  <2>1. started \subseteq Listed /\ \A j \in started \ seen : Rank(j) >= Passed
    BY <1>2, <1>5 DEF UnseenIsAhead
  <2>2. \A j : Rank(j) \in Nat /\ Rank(j)' \in Nat
    BY ListedFinite, ListedFiniteNext
  <2>3. Passed \in Nat
    BY Numbers DEF Passed
  <2> QED BY <1>3, <1>4, <2>1, <2>2, <2>3
<1>7. CountPromisesMore'
  <2> SUFFICES ASSUME TieFree', changes' \subseteq {"enter"}, ~torn'
               PROVE  /\ answered # {"total"}
                      /\ Complete => started \subseteq seen \/ total > page * limit
    BY <1>2 DEF CountPromisesMore, Complete
  <2>1. ~torn /\ (answered = {} \/ Complete)
    BY DEF Change, TypeOK
  <2> QED BY <1>2, <1>5, <2>1 DEF CountPromisesMore, Complete
<1>8. ~(changes' \subseteq {"leave"})
  BY <1>2
<1> QED BY <1>2, <1>6, <1>7, <1>8 DEF SeenIsPassed

LEMMA MoveStep ==
  ASSUME ListingsInv, NEW i \in Ids, Move(i)
  PROVE  ListingsInv'
<1> USE DEF ListingsInv
<1>1. rows' \in [Ids -> [status : {"new", "listed", "hidden", "gone"},
                        column : Nat, createdAt : Nat]]
  <2>1. PICK value \in Columns(query) : rows' = [rows EXCEPT ![i].column = value]
    BY DEF Move
  <2>2. value \in Nat
    BY ListingsAssumption DEF Columns
  <2> QED BY <2>1, <2>2 DEF TypeOK
<1>2. TypeOK' /\ "move" \in changes'
  BY <1>1, ChangeKeepsClient DEF Move, TypeOK
<1> QED BY <1>2 DEF SeenIsPassed, UnseenIsAhead, CountPromisesMore

LEMMA InsertStep ==
  ASSUME ListingsInv, NEW i \in Ids, Insert(i)
  PROVE  ListingsInv'
<1>1. now' \in Nat
  BY DEF Insert, ListingsInv, TypeOK
<1>2. PICK value \in Columns(query) :
        rows' = [rows EXCEPT ![i] = [status |-> "listed", column |-> value, createdAt |-> now']]
  BY DEF Insert
<1>3. value \in Nat
  BY ListingsAssumption DEF Columns
<1>4. PICK t \in Nat : t = now'
  BY <1>1
<1> DEFINE row == [status |-> "listed", column |-> value, createdAt |-> t]
<1>5. row \in [status : {"listed"}, column : Nat, createdAt : Nat]
  BY <1>3, <1>4
<1>6. rows' = [rows EXCEPT ![i] = row]
  BY <1>2, <1>4
<1>7. rows[i].status = "new" /\ rows[i].status # "listed" /\ Change("enter")
  BY DEF Insert
<1> HIDE DEF row
<1> QED BY <1>1, <1>5, <1>6, <1>7, EnterStep

LEMMA FilterInStep ==
  ASSUME ListingsInv, NEW i \in Ids, FilterIn(i)
  PROVE  ListingsInv'
<1> DEFINE row == [rows[i] EXCEPT !.status = "listed"]
<1>1. /\ row \in [status : {"listed"}, column : Nat, createdAt : Nat]
      /\ row.createdAt = rows[i].createdAt
  BY DEF ListingsInv, TypeOK
<1>2. rows' = [rows EXCEPT ![i] = row]
  BY DEF FilterIn, ListingsInv, TypeOK
<1>3. rows[i].status # "listed" /\ Change("enter") /\ now' \in Nat
  BY DEF FilterIn, ListingsInv, TypeOK
<1> HIDE DEF row
<1> QED BY <1>1, <1>2, <1>3, EnterStep

LEMMA ListingsStep == ListingsInv /\ [Next]_vars => ListingsInv'
<1> SUFFICES ASSUME ListingsInv, [Next]_vars PROVE ListingsInv'
  OBVIOUS
<1>1. CASE UNCHANGED vars
  <2>1. Listed' = Listed /\ TieFree' = TieFree /\ \A i : Rank(i)' = Rank(i)
    BY <1>1, TableSame DEF vars, client
  <2>2. TypeOK' /\ Passed' = Passed
    BY <1>1 DEF vars, client, ListingsInv, TypeOK, Passed, Skip, Complete
  <2> QED BY <1>1, <2>1, <2>2
          DEF vars, client, ListingsInv, SeenIsPassed, UnseenIsAhead, CountPromisesMore, Complete
<1>2. CASE FindMany \/ Count \/ FindAndSlice \/ NextPage
  BY <1>2, FindManyStep, CountStep, FindAndSliceStep, NextPageStep
<1>3. CASE MarkAllRead
  BY <1>3, LeaveStep DEF MarkAllRead
<1>4. ASSUME NEW i \in Ids, MarkRead(i) \/ Delete(i) \/ FilterOut(i)
      PROVE  ListingsInv'
  BY <1>4, LeaveStep DEF MarkRead, Delete, FilterOut
<1>5. ASSUME NEW i \in Ids, Insert(i) \/ FilterIn(i) \/ Move(i)
      PROVE  ListingsInv'
  BY <1>5, InsertStep, FilterInStep, MoveStep
<1> QED BY <1>1, <1>2, <1>3, <1>4, <1>5, Zenon DEF Next

\* The inductive invariant: what a client has seen stays behind it while rows only leave, what
\* it has not seen stays before it while rows only enter, and the count says so.
THEOREM ListingsCorrect == Spec => []ListingsInv
<1>1. ListingsInv /\ [Next]_vars => ListingsInv'
  BY ListingsStep
<1> QED BY <1>1, InitListings, PTL DEF Spec

\* A client that pages to the end has seen every row listed when it began, unless a row left or
\* moved, or entered between the two statements of the last page.
THEOREM NothingIsMissed == Spec => []NothingMissedUnlessRowsLeave
<1>1. ListingsInv => NothingMissedUnlessRowsLeave
  <2> SUFFICES ASSUME ListingsInv, LastPage, TieFree, changes \subseteq {"enter"}, ~torn
               PROVE  started \subseteq seen
    BY DEF NothingMissedUnlessRowsLeave
  <2>1. started \subseteq seen \/ total > page * limit
    BY DEF ListingsInv, CountPromisesMore, LastPage
  <2>2. total \in Nat /\ limit \in Nat \ {0} /\ page \in Nat
    BY Numbers DEF ListingsInv, TypeOK
  <2>3. page >= (total + limit - 1) \div limit
    BY DEF LastPage, TotalPages
  <2>4. total <= page * limit
    BY <2>2, <2>3, CountIsNat
  <2>5. page * limit \in Nat
    BY Numbers DEF ListingsInv
  <2> QED BY <2>1, <2>2, <2>4, <2>5
<1> QED BY <1>1, ListingsCorrect, PTL

\* No row is on two of a client's pages, unless a row entered or moved meanwhile.
THEOREM NothingIsShownTwice == Spec => []NothingTwiceUnlessRowsEnter
<1>1. ListingsInv => NothingTwiceUnlessRowsEnter
  BY DEF ListingsInv, SeenIsPassed, NothingTwiceUnlessRowsEnter
<1> QED BY <1>1, ListingsCorrect, PTL
=============================================================================
