------------------------------ MODULE Catalogue ------------------------------
(***************************************************************************)
(* CategoriesService, ProductsService and ReviewsService: the categories   *)
(* and products the admin edits, and the reviews whose average every       *)
(* product carries.                                                        *)
(*                                                                         *)
(* The handlers of the admin check in one statement and write in another.  *)
(* The transactions on reviews lock the product's row first; what they     *)
(* read after that is their snapshot, and their writes appear together     *)
(* when they commit.  The lock also keeps other writers of the row         *)
(* waiting.                                                                *)
(*                                                                         *)
(* rating and totalReview of a product are functions of the reviews the    *)
(* aggregate has read, and the model keeps those instead.                  *)
(*                                                                         *)
(* Left out: names, slugs and texts, with the unique index on slugs; the   *)
(* flags that hide or feature a product; its variants and pictures.        *)
(*                                                                         *)
(* An operator with the suffix _bug is a wrong variant of the one that     *)
(* follows it, for mutation tests.                                         *)
(***************************************************************************)
EXTENDS Integers

CONSTANTS
  Users,
  Categories,
  Products,
  Reviews,    \* the row ids that may ever be drawn for reviews
  Ratings,
  Prices,
  Received,   \* who has received what: a delivered order stays delivered
  Workers,    \* requests handled at the same time
  None        \* SQL NULL, or a field an update does not mention

ASSUME CatalogueAssumption ==
  /\ Prices \subseteq Nat
  /\ Received \subseteq Users \X Products
  /\ None \notin Users \cup Categories \cup Products \cup Reviews \cup Prices
                 \cup Ratings \cup Workers

VARIABLES
  category,  \* categories: "removed" when deletedAt is set
  product,   \* products: their category and prices
  rated,     \* the reviews that rating and totalReview of a product were computed from
  review,    \* reviews
  lock,      \* who holds the row lock of a product across steps
  raced,     \* history: products whose prices are not those the last update has checked
  late,      \* history: products put into a category that was gone, or about to go
  req        \* what each worker is doing

vars == <<category, product, rated, review, lock, raced, late, req>>

RowStates == {"new", "kept", "removed"}
NoProduct == [state |-> "new", category |-> None, base |-> 0, discount |-> None]
ProductRows ==
  [state : {"kept", "removed"}, category : Categories, base : Prices,
   discount : Prices \cup {None}] \cup {NoProduct}
NoReview(state) == [state |-> state, user |-> None, product |-> None, rating |-> None]
ReviewRows ==
  [state : {"kept"}, user : Users, product : Products, rating : Ratings]
    \cup {NoReview("new"), NoReview("removed")}

\* An update of a product remembers the prices it has checked and which of them it
\* will write; a review transaction the row it will leave and the other reviews that
\* its aggregate counts.
Idle == [op |-> "idle"]
Requests ==
  {Idle}
    \cup [op : {"removeCategory"}, category : Categories]
    \cup [op : {"updateProduct"}, product : Products, base : Prices,
          discount : Prices \cup {None}, writes : SUBSET {"base", "discount"},
          category : Categories \cup {None}]
    \cup [op : {"updateReview", "removeReview"}, id : Reviews]
    \cup [op : {"review"}, product : Products, id : Reviews, row : ReviewRows,
          others : SUBSET (Reviews \X Ratings)]

\* Types of the rows and of the requests in flight.
TypeOK ==
  /\ category \in [Categories -> RowStates]
  /\ product \in [Products -> ProductRows]
  /\ rated \in [Products -> SUBSET (Reviews \X Ratings)]
  /\ review \in [Reviews -> ReviewRows]
  /\ lock \in [Products -> Workers \cup {None}]
  /\ raced \in [Products -> BOOLEAN]
  /\ late \subseteq Products
  /\ req \in [Workers -> Requests]

Init ==
  /\ category = [c \in Categories |-> "new"]
  /\ product = [p \in Products |-> NoProduct]
  /\ rated = [p \in Products |-> {}]
  /\ review = [r \in Reviews |-> NoReview("new")]
  /\ lock = [p \in Products |-> None]
  /\ raced = [p \in Products |-> FALSE]
  /\ late = {}
  /\ req = [w \in Workers |-> Idle]

Doing(w, op) == req[w].op = op
Start(w, r) == Doing(w, "idle") /\ req' = [req EXCEPT ![w] = r]
Finish(w) == req' = [req EXCEPT ![w] = Idle]
Release(w) == lock' = [p \in Products |-> IF lock[p] = w THEN None ELSE lock[p]]
\* SELECT ... FOR UPDATE, and any UPDATE of the row.
LockFree_bug(p) == TRUE
LockFree(p) == lock[p] = None
-----------------------------------------------------------------------------
(* CategoriesService *)

CreateCategory(c) ==
  /\ category[c] = "new"
  /\ category' = [category EXCEPT ![c] = "kept"]
  /\ UNCHANGED <<product, rated, review, lock, raced, late, req>>

ProductsIn(c) == {p \in Products : product[p].state = "kept" /\ product[p].category = c}

\* remove counts the products of the category ...
CountAllows_bug(c) == TRUE
CountAllows(c) == ProductsIn(c) = {}

RemoveCategoryRead(w, c) ==
  /\ CountAllows(c)
  /\ Start(w, [op |-> "removeCategory", category |-> c])
  /\ UNCHANGED <<category, product, rated, review, lock, raced, late>>

\* ... and marks it as deleted.
RemoveCategoryCommit(w) ==
  LET c == req[w].category IN
  /\ Doing(w, "removeCategory")
  /\ category[c] # "new"
  /\ category' = [category EXCEPT ![c] = "removed"]
  /\ Finish(w)
  /\ UNCHANGED <<product, rated, review, lock, raced, late>>
-----------------------------------------------------------------------------
(* ProductsService *)

\* assertValidDiscountPrice.
ValidDiscount_bug(base, discount) == discount # None => discount <= base
ValidDiscount(base, discount) == discount # None => discount < base

ProductExists_bug(p) == TRUE
ProductExists(p) == product[p].state # "new"

\* History: product p goes into category c.
PutInto(p, c) ==
  late' = IF \/ category[c] = "removed"
             \/ \E w \in Workers : Doing(w, "removeCategory") /\ req[w].category = c
          THEN late \cup {p}
          ELSE late \ {p}

\* The foreign key asks for the category's row, and does not look at deletedAt.
CreateProduct(p, c, base, discount) ==
  /\ product[p].state = "new"
  /\ category[c] # "new"
  /\ ValidDiscount(base, discount)
  /\ product' = [product EXCEPT ![p] = [state |-> "kept", category |-> c, base |-> base,
                                        discount |-> discount]]
  /\ PutInto(p, c)
  /\ UNCHANGED <<category, rated, review, lock, raced, req>>

\* The prices that are checked: those of the request, the stored ones otherwise.
UpdateProductRead(w, p, writes, c) ==
  /\ Doing(w, "idle")
  /\ ProductExists(p)
  /\ \E base \in IF "base" \in writes THEN Prices ELSE {product[p].base},
        discount \in IF "discount" \in writes THEN Prices \cup {None}
                                             ELSE {product[p].discount} :
       /\ ValidDiscount(base, discount)
       /\ Start(w, [op |-> "updateProduct", product |-> p, base |-> base,
                    discount |-> discount, writes |-> writes, category |-> c])
  /\ UNCHANGED <<category, product, rated, review, lock, raced, late>>

\* Only the fields of the request are written.
UpdateProductCommit(w) ==
  LET r == req[w]
      p == r.product
      base == IF "base" \in r.writes THEN r.base ELSE product[p].base
      discount == IF "discount" \in r.writes THEN r.discount ELSE product[p].discount
  IN  /\ Doing(w, "updateProduct")
      /\ LockFree(p)
      /\ r.category # None => category[r.category] # "new"
      /\ product' = [product EXCEPT
           ![p] = [state |-> product[p].state, base |-> base, discount |-> discount,
                   category |-> IF r.category # None THEN r.category
                                                     ELSE product[p].category]]
      /\ raced' = [raced EXCEPT ![p] = base # r.base \/ discount # r.discount]
      /\ IF r.category # None THEN PutInto(p, r.category) ELSE UNCHANGED late
      /\ Finish(w)
      /\ UNCHANGED <<category, rated, review, lock>>

RemoveProduct(p) ==
  /\ ProductExists(p)
  /\ LockFree(p)
  /\ product' = [product EXCEPT ![p].state = "removed"]
  /\ UNCHANGED <<category, rated, review, lock, raced, late, req>>
-----------------------------------------------------------------------------
(* ReviewsService *)

Posted(r) == review[r].state = "kept"
ReviewsOf(p) == {r \in Reviews : Posted(r) /\ review[r].product = p}
RatingsOf(S) == {<<r, review[r].rating>> : r \in S}

\* The transaction on row r of product p, once it has the lock: row is what it will
\* leave, and the aggregate reads that row with the others of the snapshot.
Begin(w, p, r, row) ==
  /\ LockFree(p)
  /\ lock' = [lock EXCEPT ![p] = w]
  /\ req' = [req EXCEPT ![w] = [op |-> "review", product |-> p, id |-> r, row |-> row,
                                others |-> RatingsOf(ReviewsOf(p) \ {r})]]
  /\ UNCHANGED <<category, product, rated, review, raced, late>>

\* create: the duplicate check under the lock, with the unique index behind it.
NotReviewed_bug(u, p) == TRUE
NotReviewed(u, p) == \A r \in ReviewsOf(p) : review[r].user # u

CreateReview(w, r, u, p, rating) ==
  /\ Doing(w, "idle")
  /\ <<u, p>> \in Received
  /\ ProductExists(p)
  /\ review[r].state = "new"
  /\ NotReviewed(u, p)
  /\ \A x \in Workers : Doing(x, "review") => req[x].id # r  \* ids are drawn once
  /\ Begin(w, p, r, [state |-> "kept", user |-> u, product |-> p, rating |-> rating])

\* update and remove look the review up before they lock its product.
LookUpReview(w, op, r) ==
  /\ Posted(r)
  /\ Start(w, [op |-> op, id |-> r])
  /\ UNCHANGED <<category, product, rated, review, lock, raced, late>>

\* A review that is gone by then is an error, and the transaction rolls back.
StillPosted(r) == Posted(r)

UpdateReview(w, rating) ==
  LET r == req[w].id IN
  /\ Doing(w, "updateReview")
  /\ StillPosted(r)
  /\ Begin(w, review[r].product, r, [review[r] EXCEPT !.rating = rating])

RemoveReview(w) ==
  LET r == req[w].id IN
  /\ Doing(w, "removeReview")
  /\ StillPosted(r)
  /\ Begin(w, review[r].product, r, NoReview("removed"))

\* The write, _recalculateProductRating, and the commit.
Own(r) == IF r.row.state = "kept" THEN {<<r.id, r.row.rating>>} ELSE {}

CommitReview(w) ==
  LET r == req[w] IN
  /\ Doing(w, "review")
  /\ review' = [review EXCEPT ![r.id] = r.row]
  /\ rated' = [rated EXCEPT ![r.product] = r.others \cup Own(r)]
  /\ Release(w)
  /\ Finish(w)
  /\ UNCHANGED <<category, product, raced, late>>
-----------------------------------------------------------------------------
\* A request that ends without a change: refused, or rolled back.
Abort(w) ==
  /\ ~Doing(w, "idle")
  /\ Finish(w)
  /\ Release(w)
  /\ UNCHANGED <<category, product, rated, review, raced, late>>

Next ==
  \/ \E c \in Categories : CreateCategory(c)
  \/ \E p \in Products :
       \/ RemoveProduct(p)
       \/ \E c \in Categories, base \in Prices, discount \in Prices \cup {None} :
            CreateProduct(p, c, base, discount)
  \/ \E w \in Workers :
       \/ \E c \in Categories : RemoveCategoryRead(w, c)
       \/ \E p \in Products, writes \in SUBSET {"base", "discount"},
             c \in Categories \cup {None} : UpdateProductRead(w, p, writes, c)
       \/ \E r \in Reviews :
            \/ \E u \in Users, p \in Products, rating \in Ratings :
                 CreateReview(w, r, u, p, rating)
            \/ \E op \in {"updateReview", "removeReview"} : LookUpReview(w, op, r)
       \/ \E rating \in Ratings : UpdateReview(w, rating)
       \/ RemoveCategoryCommit(w) \/ UpdateProductCommit(w)
       \/ RemoveReview(w) \/ CommitReview(w) \/ Abort(w)

Spec == Init /\ [][Next]_vars
-----------------------------------------------------------------------------
(* Safety *)

\* The rating and the count a product carries are those of its reviews, however many
\* reviews are posted, changed and removed at once.
RatingsAreCurrent == \A p \in Products : rated[p] = RatingsOf(ReviewsOf(p))

\* A customer has one review per product at most.
OneReviewPerCustomer ==
  \A p \in Products : \A r, s \in ReviewsOf(p) : review[r].user = review[s].user => r = s

\* A discount is below the base price, unless two updates that change one of the two
\* each have crossed.
DiscountBelowBaseUnlessRaced ==
  \A p \in Products :
    ~raced[p] /\ product[p].discount # None => product[p].discount < product[p].base

\* A category that is removed has no product, except one that came after the count.
RemovedCategoriesAreEmptyUnlessLate ==
  \A c \in Categories : category[c] = "removed" => ProductsIn(c) \subseteq late
-----------------------------------------------------------------------------
\* What makes the last two inductive: an update past its check has found its product
\* and valid prices, and the products of a category whose removal is past its count
\* came later.
AdminRequests ==
  \A w \in Workers :
    /\ Doing(w, "updateProduct") =>
         ProductExists(req[w].product) /\ ValidDiscount(req[w].base, req[w].discount)
    /\ Doing(w, "removeCategory") => ProductsIn(req[w].category) \subseteq late

AdminInv ==
  /\ DiscountBelowBaseUnlessRaced
  /\ RemovedCategoriesAreEmptyUnlessLate
  /\ AdminRequests

\* And the first two: a transaction on a review holds the lock of its product, and what
\* it will leave is right as long as it does.
TransactionIsRight(p, r, row, others) ==
  /\ others = RatingsOf(ReviewsOf(p) \ {r})
  /\ Posted(r) => review[r].product = p
  /\ row.state = "kept" =>
       row.product = p /\ \A s \in ReviewsOf(p) \ {r} : review[s].user # row.user

ReviewRequests ==
  \A w \in Workers : Doing(w, "review") =>
    /\ lock[req[w].product] = w
    /\ TransactionIsRight(req[w].product, req[w].id, req[w].row, req[w].others)
    /\ \A x \in Workers : Doing(x, "review") /\ req[x].id = req[w].id => x = w

ReviewInv == RatingsAreCurrent /\ OneReviewPerCustomer /\ ReviewRequests

CatalogueInv == TypeOK /\ AdminInv /\ ReviewInv
=============================================================================
