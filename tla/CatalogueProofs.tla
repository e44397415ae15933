--------------------------- MODULE CatalogueProofs ---------------------------
(***************************************************************************)
(* CatalogueInv is inductive: ratings are current because a transaction on *)
(* a review holds the lock of its product from its snapshot to its commit, *)
(* and the rules of the catalogue fail only where two requests have        *)
(* crossed, for any number of products, categories, reviews and requests.  *)
(*                                                                         *)
(* The invariant has two halves that never meet in a step: the admin's     *)
(* steps leave the reviews alone, and reviews leave the catalogue alone.   *)
(***************************************************************************)
EXTENDS Catalogue, TLAPS

-----------------------------------------------------------------------------
(* Types *)

LEMMA ReviewRow ==
  ASSUME NEW row \in ReviewRows
  PROVE  /\ row.state = "kept" =>
              /\ row.user \in Users /\ row.product \in Products /\ row.rating \in Ratings
              /\ row = [state |-> "kept", user |-> row.user, product |-> row.product,
                        rating |-> row.rating]
         /\ row.state # "kept" => row.product = None
  BY DEF ReviewRows, NoReview

LEMMA ProductRow ==
  ASSUME NEW row \in ProductRows
  PROVE  /\ row.state \in RowStates
         /\ row.state # "new" =>
              /\ row.category \in Categories /\ row.base \in Prices
              /\ row.discount \in Prices \cup {None}
              /\ row = [state |-> row.state, category |-> row.category,
                        base |-> row.base, discount |-> row.discount]
         /\ row.state = "new" => row = NoProduct
  BY DEF ProductRows, NoProduct, RowStates

\* What the type invariant says of a request, by what it is doing.
LEMMA RequestTypes ==
  ASSUME TypeOK, NEW w \in Workers
  PROVE  /\ Doing(w, "removeCategory") => req[w].category \in Categories
         /\ Doing(w, "updateProduct") =>
              /\ req[w].product \in Products /\ req[w].base \in Prices
              /\ req[w].discount \in Prices \cup {None}
              /\ req[w].category \in Categories \cup {None}
         /\ req[w].op \in {"updateReview", "removeReview"} => req[w].id \in Reviews
         /\ Doing(w, "review") =>
              /\ req[w].product \in Products /\ req[w].id \in Reviews
              /\ req[w].row \in ReviewRows
              /\ req[w].others \in SUBSET (Reviews \X Ratings)
  <1>1. req[w] \in Requests
    BY DEF TypeOK
  <1> QED
    BY <1>1 DEF Requests, Idle, Doing

LEMMA RequestMoves ==
  ASSUME TypeOK, NEW w \in Workers, NEW r \in Requests, req' = [req EXCEPT ![w] = r]
  PROVE  /\ req' \in [Workers -> Requests]
         /\ req'[w] = r
         /\ \A x \in Workers \ {w} : req'[x] = req[x]
  BY DEF TypeOK

LEMMA FinishMoves ==
  ASSUME TypeOK, NEW w \in Workers, Finish(w)
  PROVE  /\ req' \in [Workers -> Requests]
         /\ \A x \in Workers : req'[x].op # "idle" => x # w /\ req'[x] = req[x]
  <1>1. Idle \in Requests /\ req' = [req EXCEPT ![w] = Idle]
    BY DEF Finish, Requests
  <1>2. /\ req' \in [Workers -> Requests] /\ req'[w] = Idle
        /\ \A x \in Workers \ {w} : req'[x] = req[x]
    BY <1>1, RequestMoves
  <1> QED
    BY <1>2 DEF Idle

LEMMA ReleaseMoves ==
  ASSUME TypeOK, NEW w \in Workers, Release(w)
  PROVE  /\ lock' \in [Products -> Workers \cup {None}]
         /\ \A p \in Products : lock[p] # w => lock'[p] = lock[p]
  BY DEF TypeOK, Release

LEMMA RatingsTypes ==
  ASSUME TypeOK, NEW p \in Products, NEW S \in SUBSET ReviewsOf(p)
  PROVE  RatingsOf(S) \in SUBSET (Reviews \X Ratings)
  <1>1. ASSUME NEW s \in S PROVE <<s, review[s].rating>> \in Reviews \X Ratings
    <2>1. s \in Reviews /\ review[s].state = "kept" /\ review[s] \in ReviewRows
      BY DEF ReviewsOf, Posted, TypeOK
    <2> QED
      BY <2>1, ReviewRow
  <1> QED
    BY <1>1 DEF RatingsOf
-----------------------------------------------------------------------------
(* The two halves *)

\* A step that touches no review, and no request and lock of a transaction on one.
LEMMA ReviewsUntouched ==
  ASSUME CatalogueInv, UNCHANGED <<rated, review>>,
         \A x \in Workers : req'[x].op = "review" =>
           req'[x] = req[x] /\ lock'[req[x].product] = lock[req[x].product]
  PROVE  ReviewInv'
  <1>1. \A p \in Products : ReviewsOf(p)' = ReviewsOf(p)
    BY DEF ReviewsOf, Posted
  <1>2. \A S : RatingsOf(S)' = RatingsOf(S)
    BY DEF RatingsOf
  <1>3. RatingsAreCurrent' /\ OneReviewPerCustomer'
    BY <1>1 DEF CatalogueInv, ReviewInv, RatingsAreCurrent, OneReviewPerCustomer,
                RatingsOf
  <1>4. ReviewRequests'
    <2> SUFFICES ASSUME NEW w \in Workers, Doing(w, "review")'
                 PROVE  /\ lock'[req'[w].product] = w
                        /\ TransactionIsRight(req[w].product, req[w].id, req[w].row,
                                              req[w].others)'
                        /\ \A x \in Workers : Doing(x, "review")' /\ req'[x].id = req'[w].id
                                                => x = w
      BY DEF ReviewRequests
    <2>1. req'[w] = req[w] /\ Doing(w, "review")
          /\ lock'[req[w].product] = lock[req[w].product]
      BY DEF Doing
    <2>2. /\ lock[req[w].product] = w
          /\ TransactionIsRight(req[w].product, req[w].id, req[w].row, req[w].others)
          /\ \A x \in Workers : Doing(x, "review") /\ req[x].id = req[w].id => x = w
      BY <2>1 DEF CatalogueInv, ReviewInv, ReviewRequests
    <2>3. PICK p \in Products, r \in Reviews, row \in ReviewRows,
               others \in SUBSET (Reviews \X Ratings) :
            req[w].product = p /\ req[w].id = r /\ req[w].row = row /\ req[w].others = others
      BY <2>1, RequestTypes DEF CatalogueInv
    <2>4. TransactionIsRight(p, r, row, others)'
      BY <2>2, <2>3, <1>1 DEF TransactionIsRight, RatingsOf, Posted
    <2>5. \A x \in Workers : Doing(x, "review")' => Doing(x, "review") /\ req'[x] = req[x]
      BY DEF Doing
    <2> QED
      BY <2>1, <2>2, <2>3, <2>4, <2>5 DEF TransactionIsRight, RatingsOf, ReviewsOf, Posted
  <1> QED
    BY <1>3, <1>4 DEF ReviewInv

\* A step that touches neither the catalogue nor a request of the admin.
LEMMA CatalogueUntouched ==
  ASSUME CatalogueInv, UNCHANGED <<category, product, raced, late>>,
         \A x \in Workers : req'[x].op \in {"updateProduct", "removeCategory"} =>
           req'[x] = req[x]
  PROVE  AdminInv'
  <1>1. DiscountBelowBaseUnlessRaced' /\ RemovedCategoriesAreEmptyUnlessLate'
    BY DEF CatalogueInv, AdminInv, DiscountBelowBaseUnlessRaced,
           RemovedCategoriesAreEmptyUnlessLate, ProductsIn
  <1>2. AdminRequests'
    <2> SUFFICES ASSUME NEW x \in Workers
                 PROVE  /\ Doing(x, "updateProduct")' =>
                             /\ ProductExists(req[x].product)'
                             /\ ValidDiscount(req[x].base, req[x].discount)'
                        /\ Doing(x, "removeCategory")' =>
                             (ProductsIn(req[x].category) \subseteq late)'
      BY DEF AdminRequests
    <2>1. req'[x].op \in {"updateProduct", "removeCategory"} => req'[x] = req[x]
      OBVIOUS
    <2>2. /\ Doing(x, "updateProduct") =>
               ProductExists(req[x].product) /\ ValidDiscount(req[x].base, req[x].discount)
          /\ Doing(x, "removeCategory") => ProductsIn(req[x].category) \subseteq late
      BY DEF CatalogueInv, AdminInv, AdminRequests
    <2> QED
      BY <2>1, <2>2 DEF Doing, ProductExists, ValidDiscount, ProductsIn
  <1> QED
    BY <1>1, <1>2 DEF AdminInv
-----------------------------------------------------------------------------
(* Steps of the admin *)

LEMMA PutIntoMarks ==
  ASSUME TypeOK, NEW p \in Products, NEW c \in Categories, PutInto(p, c)
  PROVE  /\ late' \subseteq Products
         /\ \A q \in Products \ {p} : q \in late' <=> q \in late
         /\ category[c] = "removed" => p \in late'
         /\ \A w \in Workers : Doing(w, "removeCategory") /\ req[w].category = c
                              => p \in late'
  BY DEF PutInto, TypeOK

\* One row of products is written, and no check passes in the same step.
LEMMA RowWritten ==
  ASSUME CatalogueInv, NEW p \in Products, NEW row \in ProductRows,
         row.state # "new", row.discount # None /\ ~raced'[p] => row.discount < row.base,
         product' = [product EXCEPT ![p] = row], UNCHANGED category,
         \A q \in Products \ {p} : raced'[q] = raced[q] /\ (q \in late' <=> q \in late),
         row.state = "kept" /\ category[row.category] = "removed" => p \in late',
         row.state = "kept" =>
           \A w \in Workers : Doing(w, "removeCategory")
                                /\ req[w].category = row.category => p \in late',
         \A x \in Workers : req'[x].op \in {"updateProduct", "removeCategory"} =>
           req'[x] = req[x]
  PROVE  AdminInv'
  <1>1. /\ product'[p] = row
        /\ \A q \in Products \ {p} : product'[q] = product[q]
    BY DEF CatalogueInv, TypeOK
  <1>2. DiscountBelowBaseUnlessRaced'
    BY <1>1 DEF CatalogueInv, AdminInv, DiscountBelowBaseUnlessRaced
  <1>3. ASSUME NEW c \in Categories, NEW q \in Products, product'[q].state = "kept",
               product'[q].category = c
        PROVE  q \in ProductsIn(c) \/ (q = p /\ row.state = "kept" /\ row.category = c)
    BY <1>1, <1>3 DEF ProductsIn
  <1>4. RemovedCategoriesAreEmptyUnlessLate'
    <2> SUFFICES ASSUME NEW c \in Categories, category[c] = "removed",
                        NEW q \in Products, product'[q].state = "kept",
                        product'[q].category = c
                 PROVE  q \in late'
      BY DEF RemovedCategoriesAreEmptyUnlessLate, ProductsIn
    <2>1. ProductsIn(c) \subseteq late
      BY DEF CatalogueInv, AdminInv, RemovedCategoriesAreEmptyUnlessLate
    <2>2. CASE q = p
      BY <1>1, <2>2
    <2>3. CASE q # p
      BY <1>3, <2>1, <2>3
    <2> QED
      BY <2>2, <2>3
  <1>5. AdminRequests'
    <2> SUFFICES ASSUME NEW x \in Workers
                 PROVE  /\ Doing(x, "updateProduct")' =>
                             /\ ProductExists(req[x].product)'
                             /\ ValidDiscount(req[x].base, req[x].discount)'
                        /\ Doing(x, "removeCategory")' =>
                             (ProductsIn(req[x].category) \subseteq late)'
      BY DEF AdminRequests
    <2>1. CASE Doing(x, "updateProduct")'
      <3>1. req'[x] = req[x] /\ Doing(x, "updateProduct")
        BY <2>1 DEF Doing
      <3>2. ProductExists(req[x].product) /\ ValidDiscount(req[x].base, req[x].discount)
        BY <3>1 DEF CatalogueInv, AdminInv, AdminRequests
      <3>3. req[x].product \in Products
        BY <3>1, RequestTypes DEF CatalogueInv
      <3> QED
        BY <2>1, <3>1, <3>2, <3>3, <1>1 DEF ProductExists, ValidDiscount, Doing
    <2>2. CASE Doing(x, "removeCategory")'
      <3>1. req'[x] = req[x] /\ Doing(x, "removeCategory")
        BY <2>2 DEF Doing
      <3>2. PICK c \in Categories : req[x].category = c
        BY <3>1, RequestTypes DEF CatalogueInv
      <3>3. ProductsIn(c) \subseteq late
        BY <3>1, <3>2 DEF CatalogueInv, AdminInv, AdminRequests
      <3>4. ASSUME NEW q \in Products, product'[q].state = "kept",
                   product'[q].category = c
            PROVE  q \in late'
        <4>1. CASE q = p
          BY <1>1, <3>1, <3>2, <3>4, <4>1
        <4>2. CASE q # p
          BY <1>3, <3>3, <3>4, <4>2
        <4> QED
          BY <4>1, <4>2
      <3> QED
        BY <2>2, <3>1, <3>2, <3>4 DEF ProductsIn, Doing
    <2> QED
      BY <2>1, <2>2
  <1> QED
    BY <1>2, <1>4, <1>5 DEF AdminInv

LEMMA CreateCategoryKeepsInv ==
  ASSUME CatalogueInv, NEW c \in Categories, CreateCategory(c)
  PROVE  CatalogueInv'
  <1>1. TypeOK'
    BY DEF CatalogueInv, TypeOK, CreateCategory, RowStates
  <1>2. /\ UNCHANGED <<product, rated, review, lock, raced, late, req>>
        /\ \A d \in Categories : category'[d] = "removed" => category[d] = "removed"
    BY DEF CatalogueInv, TypeOK, CreateCategory
  <1>3. AdminInv'
    BY <1>2 DEF CatalogueInv, AdminInv, DiscountBelowBaseUnlessRaced, AdminRequests,
                RemovedCategoriesAreEmptyUnlessLate, ProductsIn, Doing, ProductExists,
                ValidDiscount
  <1>4. ReviewInv'
    BY <1>2, ReviewsUntouched
  <1> QED
    BY <1>1, <1>3, <1>4 DEF CatalogueInv

LEMMA CreateProductKeepsInv ==
  ASSUME CatalogueInv, NEW p \in Products, NEW c \in Categories, NEW base \in Prices,
         NEW discount \in Prices \cup {None}, CreateProduct(p, c, base, discount)
  PROVE  CatalogueInv'
  <1> DEFINE row == [state |-> "kept", category |-> c, base |-> base,
                     discount |-> discount]
  <1>1. row \in ProductRows
    BY DEF ProductRows
  <1>2. /\ product' = [product EXCEPT ![p] = row] /\ PutInto(p, c)
        /\ ValidDiscount(base, discount)
        /\ UNCHANGED <<category, rated, review, lock, raced, req>>
    BY DEF CreateProduct
  <1>3. PutInto(p, c) => late' \subseteq Products
    BY PutIntoMarks DEF CatalogueInv
  <1>4. TypeOK'
    BY <1>1, <1>2, <1>3 DEF CatalogueInv, TypeOK
  <1>5. AdminInv'
    <2>1. row.discount # None => row.discount < row.base
      BY <1>2 DEF ValidDiscount
    <2> QED
      BY <1>1, <1>2, <2>1, PutIntoMarks, RowWritten DEF CatalogueInv
  <1>6. ReviewInv'
    BY <1>2, ReviewsUntouched
  <1> QED
    BY <1>4, <1>5, <1>6 DEF CatalogueInv

LEMMA RemoveProductKeepsInv ==
  ASSUME CatalogueInv, NEW p \in Products, RemoveProduct(p)
  PROVE  CatalogueInv'
  <1> DEFINE row == [product[p] EXCEPT !.state = "removed"]
  <1>1. product[p] \in ProductRows /\ product[p].state # "new"
    BY DEF CatalogueInv, TypeOK, RemoveProduct, ProductExists
  <1>2. /\ row \in ProductRows /\ row.state = "removed"
        /\ row.discount = product[p].discount /\ row.base = product[p].base
    BY <1>1, ProductRow DEF ProductRows
  <1>3. /\ product' = [product EXCEPT ![p] = row]
        /\ UNCHANGED <<category, rated, review, lock, raced, late, req>>
    BY DEF RemoveProduct
  <1>4. TypeOK'
    BY <1>2, <1>3 DEF CatalogueInv, TypeOK
  <1>5. AdminInv'
    <2>1. row.discount # None /\ ~raced'[p] => row.discount < row.base
      BY <1>2, <1>3 DEF CatalogueInv, AdminInv, DiscountBelowBaseUnlessRaced
    <2> QED
      BY <1>2, <1>3, <2>1, RowWritten
  <1>6. ReviewInv'
    BY <1>3, ReviewsUntouched
  <1> QED
    BY <1>4, <1>5, <1>6 DEF CatalogueInv

LEMMA RemoveCategoryReadKeepsInv ==
  ASSUME CatalogueInv, NEW w \in Workers, NEW c \in Categories, RemoveCategoryRead(w, c)
  PROVE  CatalogueInv'
  <1> DEFINE r == [op |-> "removeCategory", category |-> c]
  <1>1. /\ r \in Requests /\ req' = [req EXCEPT ![w] = r] /\ ProductsIn(c) = {}
        /\ UNCHANGED <<category, product, rated, review, lock, raced, late>>
    BY DEF RemoveCategoryRead, Start, Requests, CountAllows
  <1>2. /\ req' \in [Workers -> Requests] /\ req'[w] = r
        /\ \A x \in Workers \ {w} : req'[x] = req[x]
    BY <1>1, RequestMoves DEF CatalogueInv
  <1>3. TypeOK'
    BY <1>1, <1>2 DEF CatalogueInv, TypeOK
  <1>4. DiscountBelowBaseUnlessRaced' /\ RemovedCategoriesAreEmptyUnlessLate'
    BY <1>1 DEF CatalogueInv, AdminInv, DiscountBelowBaseUnlessRaced,
                RemovedCategoriesAreEmptyUnlessLate, ProductsIn
  <1>5. AdminRequests'
    BY <1>1, <1>2 DEF CatalogueInv, AdminInv, AdminRequests, Doing, ProductExists,
                      ValidDiscount, ProductsIn
  <1>6. ReviewInv'
    BY <1>1, <1>2, ReviewsUntouched
  <1> QED
    BY <1>3, <1>4, <1>5, <1>6 DEF CatalogueInv, AdminInv

LEMMA RemoveCategoryCommitKeepsInv ==
  ASSUME CatalogueInv, NEW w \in Workers, RemoveCategoryCommit(w)
  PROVE  CatalogueInv'
  <1>1. PICK c \in Categories : req[w].category = c
    BY RequestTypes DEF RemoveCategoryCommit, CatalogueInv
  <1>2. /\ Doing(w, "removeCategory") /\ Finish(w)
        /\ category' = [category EXCEPT ![c] = "removed"]
        /\ UNCHANGED <<product, rated, review, lock, raced, late>>
    BY <1>1 DEF RemoveCategoryCommit
  <1>3. /\ req' \in [Workers -> Requests]
        /\ \A x \in Workers : req'[x].op # "idle" => x # w /\ req'[x] = req[x]
    BY <1>2, FinishMoves DEF CatalogueInv
  <1>4. TypeOK'
    BY <1>2, <1>3 DEF CatalogueInv, TypeOK, RowStates
  <1>5. ProductsIn(c) \subseteq late
    BY <1>1, <1>2 DEF CatalogueInv, AdminInv, AdminRequests
  <1>6. \A d \in Categories : category'[d] = "removed" => d = c \/ category[d] = "removed"
    BY <1>2 DEF CatalogueInv, TypeOK
  <1>7. DiscountBelowBaseUnlessRaced' /\ RemovedCategoriesAreEmptyUnlessLate'
    BY <1>2, <1>5, <1>6 DEF CatalogueInv, AdminInv, DiscountBelowBaseUnlessRaced,
                            RemovedCategoriesAreEmptyUnlessLate, ProductsIn
  <1>8. AdminRequests'
    BY <1>2, <1>3 DEF CatalogueInv, AdminInv, AdminRequests, Doing, ProductExists,
                      ValidDiscount, ProductsIn
  <1>9. ReviewInv'
    BY <1>2, <1>3, ReviewsUntouched
  <1> QED
    BY <1>4, <1>7, <1>8, <1>9 DEF CatalogueInv, AdminInv

LEMMA UpdateProductReadKeepsInv ==
  ASSUME CatalogueInv, NEW w \in Workers, NEW p \in Products,
         NEW writes \in SUBSET {"base", "discount"}, NEW c \in Categories \cup {None},
         UpdateProductRead(w, p, writes, c)
  PROVE  CatalogueInv'
  <1>1. product[p] \in ProductRows /\ product[p].state # "new" /\ ProductExists(p)
    BY DEF CatalogueInv, TypeOK, UpdateProductRead, ProductExists
  <1>2. product[p].base \in Prices /\ product[p].discount \in Prices \cup {None}
    BY <1>1, ProductRow
  <1>3. PICK base \in Prices, discount \in Prices \cup {None} :
          /\ ValidDiscount(base, discount)
          /\ Start(w, [op |-> "updateProduct", product |-> p, base |-> base,
                       discount |-> discount, writes |-> writes, category |-> c])
    BY <1>2 DEF UpdateProductRead
  <1> DEFINE r == [op |-> "updateProduct", product |-> p, base |-> base,
                   discount |-> discount, writes |-> writes, category |-> c]
  <1>4. r \in Requests /\ req' = [req EXCEPT ![w] = r]
    BY <1>3 DEF Start, Requests
  <1>5. UNCHANGED <<category, product, rated, review, lock, raced, late>>
    BY DEF UpdateProductRead
  <1>6. /\ req' \in [Workers -> Requests] /\ req'[w] = r
        /\ \A x \in Workers \ {w} : req'[x] = req[x]
    BY <1>4, RequestMoves DEF CatalogueInv
  <1>7. TypeOK'
    BY <1>5, <1>6 DEF CatalogueInv, TypeOK
  <1>8. DiscountBelowBaseUnlessRaced' /\ RemovedCategoriesAreEmptyUnlessLate'
    BY <1>5 DEF CatalogueInv, AdminInv, DiscountBelowBaseUnlessRaced,
                RemovedCategoriesAreEmptyUnlessLate, ProductsIn
  <1>9. AdminRequests'
    BY <1>1, <1>3, <1>5, <1>6 DEF CatalogueInv, AdminInv, AdminRequests, Doing,
                                  ProductExists, ValidDiscount, ProductsIn
  <1>10. ReviewInv'
    BY <1>5, <1>6, ReviewsUntouched
  <1> QED
    BY <1>7, <1>8, <1>9, <1>10 DEF CatalogueInv, AdminInv

LEMMA UpdateProductCommitKeepsInv ==
  ASSUME CatalogueInv, NEW w \in Workers, UpdateProductCommit(w)
  PROVE  CatalogueInv'
  <1>1. Doing(w, "updateProduct") /\ Finish(w)
    BY DEF UpdateProductCommit
  <1>2. PICK p \in Products, base \in Prices, discount \in Prices \cup {None},
             c \in Categories \cup {None} :
          /\ req[w].product = p /\ req[w].base = base
          /\ req[w].discount = discount /\ req[w].category = c
    BY <1>1, RequestTypes DEF CatalogueInv
  <1>3. /\ product[p].state # "new" /\ product[p] \in ProductRows
        /\ ValidDiscount(base, discount)
    BY <1>1, <1>2 DEF CatalogueInv, TypeOK, AdminInv, AdminRequests, ProductExists
  <1>4. /\ product[p].state \in {"kept", "removed"} /\ product[p].category \in Categories
        /\ product[p].base \in Prices /\ product[p].discount \in Prices \cup {None}
    BY <1>3, ProductRow DEF RowStates
  <1> DEFINE newBase == IF "base" \in req[w].writes THEN base ELSE product[p].base
             newDiscount == IF "discount" \in req[w].writes THEN discount
                                                           ELSE product[p].discount
             newCategory == IF c # None THEN c ELSE product[p].category
             row == [state |-> product[p].state, base |-> newBase,
                     discount |-> newDiscount, category |-> newCategory]
             crossed == newBase # base \/ newDiscount # discount
  <1>5. /\ LockFree(p)
        /\ product' = [product EXCEPT ![p] = row]
        /\ raced' = [raced EXCEPT ![p] = crossed]
        /\ c # None => PutInto(p, c)
        /\ c = None => UNCHANGED late
        /\ UNCHANGED <<category, rated, review, lock>>
    BY <1>2 DEF UpdateProductCommit
  <1>6. /\ row \in ProductRows /\ row.state = product[p].state
        /\ row.base = newBase /\ row.discount = newDiscount /\ row.category = newCategory
    BY <1>4, CatalogueAssumption DEF ProductRows
  <1>7. /\ req' \in [Workers -> Requests]
        /\ \A x \in Workers : req'[x].op # "idle" => x # w /\ req'[x] = req[x]
    BY <1>1, FinishMoves DEF CatalogueInv
  <1>8. crossed \in BOOLEAN
    OBVIOUS
  <1>9. row.discount # None /\ ~crossed => row.discount < row.base
    BY <1>3, <1>6 DEF ValidDiscount
  <1> HIDE DEF row, crossed
  <1>10. /\ raced' \in [Products -> BOOLEAN] /\ raced'[p] = crossed
         /\ \A q \in Products \ {p} : raced'[q] = raced[q]
    BY <1>5, <1>8 DEF CatalogueInv, TypeOK
  <1>11. /\ late' \subseteq Products
         /\ \A q \in Products \ {p} : q \in late' <=> q \in late
         /\ row.state = "kept" /\ category[row.category] = "removed" => p \in late'
         /\ row.state = "kept" =>
              \A x \in Workers : Doing(x, "removeCategory")
                                  /\ req[x].category = row.category => p \in late'
    <2>1. CASE c = None
      <3>1. row.category = product[p].category /\ late' = late
        BY <1>5, <1>6, <2>1
      <3>2. row.state = "kept" => p \in ProductsIn(row.category)
        BY <1>6, <3>1 DEF ProductsIn
      <3> QED
        BY <1>4, <3>1, <3>2 DEF CatalogueInv, TypeOK, AdminInv, AdminRequests,
                                RemovedCategoriesAreEmptyUnlessLate
    <2>2. CASE c # None
      BY <1>5, <1>6, <2>2, PutIntoMarks DEF CatalogueInv
    <2> QED
      BY <2>1, <2>2
  <1>12. TypeOK'
    BY <1>5, <1>6, <1>7, <1>10, <1>11 DEF CatalogueInv, TypeOK
  <1>13. AdminInv'
    BY <1>3, <1>5, <1>6, <1>7, <1>9, <1>10, <1>11, RowWritten
  <1>14. ReviewInv'
    BY <1>5, <1>7, ReviewsUntouched
  <1> QED
    BY <1>12, <1>13, <1>14 DEF CatalogueInv
-----------------------------------------------------------------------------
(* Steps on reviews *)

\* A worker that takes the lock of product p holds the only transaction on row r.
LEMMA BeginKeepsInv ==
  ASSUME CatalogueInv, NEW w \in Workers, NEW p \in Products, NEW r \in Reviews,
         NEW row \in ReviewRows, Begin(w, p, r, row),
         TransactionIsRight(p, r, row, RatingsOf(ReviewsOf(p) \ {r})),
         \A x \in Workers : Doing(x, "review") => req[x].id # r
  PROVE  CatalogueInv'
  <1> DEFINE others == RatingsOf(ReviewsOf(p) \ {r})
             rq == [op |-> "review", product |-> p, id |-> r, row |-> row,
                    others |-> others]
  <1>1. /\ lock[p] = None /\ lock' = [lock EXCEPT ![p] = w]
        /\ req' = [req EXCEPT ![w] = rq]
        /\ UNCHANGED <<category, product, rated, review, raced, late>>
    BY DEF Begin, LockFree
  <1>2. others \in SUBSET (Reviews \X Ratings)
    BY RatingsTypes DEF CatalogueInv
  <1> HIDE DEF others
  <1>3. rq \in Requests
    BY <1>2 DEF Requests
  <1>4. /\ req' \in [Workers -> Requests] /\ req'[w] = rq
        /\ \A x \in Workers \ {w} : req'[x] = req[x]
    BY <1>1, <1>3, RequestMoves DEF CatalogueInv
  <1>5. TypeOK'
    BY <1>1, <1>4 DEF CatalogueInv, TypeOK
  <1>6. AdminInv'
    BY <1>1, <1>4, CatalogueUntouched
  <1>7. RatingsAreCurrent' /\ OneReviewPerCustomer'
    BY <1>1 DEF CatalogueInv, ReviewInv, RatingsAreCurrent, OneReviewPerCustomer,
                RatingsOf, ReviewsOf, Posted
  <1>8. ASSUME NEW x \in Workers, Doing(x, "review")'
        PROVE  /\ lock'[req'[x].product] = x
               /\ TransactionIsRight(req[x].product, req[x].id, req[x].row,
                                     req[x].others)'
               /\ \A y \in Workers : Doing(y, "review")' /\ req'[y].id = req'[x].id => y = x
    <2>1. \A y \in Workers \ {w} : Doing(y, "review")' =>
                                    Doing(y, "review") /\ req'[y] = req[y] /\ req'[y].id # r
      BY <1>4 DEF Doing
    <2>2. CASE x = w
      <3>1. req'[x].product = p /\ req'[x].id = r /\ req'[x].row = row
            /\ req'[x].others = others
        BY <1>4, <2>2
      <3>2. lock'[p] = w
        BY <1>1 DEF CatalogueInv, TypeOK
      <3>3. TransactionIsRight(p, r, row, others)
        BY DEF others
      <3>4. TransactionIsRight(req[x].product, req[x].id, req[x].row, req[x].others)'
        BY <1>1, <3>1, <3>3 DEF TransactionIsRight, RatingsOf, ReviewsOf, Posted
      <3> QED
        BY <2>1, <2>2, <3>1, <3>2, <3>4
    <2>3. CASE x # w
      <3>1. Doing(x, "review") /\ req'[x] = req[x] /\ req[x].id # r
        BY <2>1, <2>3, <1>8
      <3>2. PICK q \in Products, s \in Reviews, kept \in ReviewRows,
                 o \in SUBSET (Reviews \X Ratings) :
              req[x].product = q /\ req[x].id = s /\ req[x].row = kept
              /\ req[x].others = o
        BY <3>1, RequestTypes DEF CatalogueInv
      <3>3. /\ lock[q] = x /\ TransactionIsRight(q, s, kept, o)
            /\ \A y \in Workers : Doing(y, "review") /\ req[y].id = s => y = x
        BY <3>1, <3>2 DEF CatalogueInv, ReviewInv, ReviewRequests
      <3>4. q # p /\ lock'[q] = x
        BY <1>1, <3>3, CatalogueAssumption DEF CatalogueInv, TypeOK
      <3>5. TransactionIsRight(req[x].product, req[x].id, req[x].row, req[x].others)'
        BY <1>1, <3>1, <3>2, <3>3 DEF TransactionIsRight, RatingsOf, ReviewsOf, Posted
      <3>6. ASSUME NEW y \in Workers, Doing(y, "review")', req'[y].id = s PROVE y = x
        <4>1. CASE y = w
          BY <1>4, <3>1, <3>2, <3>6, <4>1
        <4>2. CASE y # w
          BY <2>1, <3>3, <3>6, <4>2
        <4> QED
          BY <4>1, <4>2
      <3> QED
        BY <3>1, <3>2, <3>4, <3>5, <3>6
    <2> QED
      BY <2>2, <2>3
  <1>9. ReviewRequests'
    BY <1>8 DEF ReviewRequests
  <1> QED
    BY <1>5, <1>6, <1>7, <1>9 DEF CatalogueInv, ReviewInv

LEMMA CreateReviewKeepsInv ==
  ASSUME CatalogueInv, NEW w \in Workers, NEW r \in Reviews, NEW u \in Users,
         NEW p \in Products, NEW rating \in Ratings, CreateReview(w, r, u, p, rating)
  PROVE  CatalogueInv'
  <1> DEFINE row == [state |-> "kept", user |-> u, product |-> p, rating |-> rating]
  <1>1. row \in ReviewRows
    BY DEF ReviewRows
  <1>2. /\ Begin(w, p, r, row) /\ ~Posted(r) /\ NotReviewed(u, p)
        /\ \A x \in Workers : Doing(x, "review") => req[x].id # r
    BY DEF CreateReview, Posted
  <1>3. TransactionIsRight(p, r, row, RatingsOf(ReviewsOf(p) \ {r}))
    BY <1>2 DEF TransactionIsRight, NotReviewed
  <1> QED
    BY <1>1, <1>2, <1>3, BeginKeepsInv

\* Nobody else is at work on a review whose product is not locked.
LEMMA OnlyTransaction ==
  ASSUME CatalogueInv, NEW r \in Reviews, Posted(r), LockFree(review[r].product)
  PROVE  /\ review[r] \in ReviewRows /\ review[r].product \in Products
         /\ r \in ReviewsOf(review[r].product)
         /\ \A x \in Workers : Doing(x, "review") => req[x].id # r
         /\ \A s \in ReviewsOf(review[r].product) \ {r} : review[s].user # review[r].user
  <1>1. review[r] \in ReviewRows /\ review[r].product \in Products
    BY ReviewRow DEF CatalogueInv, TypeOK, Posted
  <1>2. r \in ReviewsOf(review[r].product)
    BY DEF ReviewsOf
  <1>3. \A s \in ReviewsOf(review[r].product) \ {r} : review[s].user # review[r].user
    BY <1>1, <1>2 DEF CatalogueInv, ReviewInv, OneReviewPerCustomer
  <1>4. ASSUME NEW x \in Workers, Doing(x, "review"), req[x].id = r PROVE FALSE
    <2>1. lock[req[x].product] = x /\ review[r].product = req[x].product
      BY <1>4 DEF CatalogueInv, ReviewInv, ReviewRequests, TransactionIsRight
    <2> QED
      BY <2>1, CatalogueAssumption DEF LockFree
  <1> QED
    BY <1>1, <1>2, <1>3, <1>4

LEMMA UpdateReviewKeepsInv ==
  ASSUME CatalogueInv, NEW w \in Workers, NEW rating \in Ratings, UpdateReview(w, rating)
  PROVE  CatalogueInv'
  <1>1. PICK r \in Reviews : req[w].id = r
    BY RequestTypes DEF UpdateReview, CatalogueInv, Doing
  <1> DEFINE p == review[r].product
             row == [review[r] EXCEPT !.rating = rating]
  <1>2. Posted(r) /\ LockFree(p) /\ Begin(w, p, r, row)
    BY <1>1 DEF UpdateReview, StillPosted, Begin
  <1>3. /\ row \in ReviewRows /\ row.user = review[r].user /\ row.product = p
    BY <1>2, OnlyTransaction, ReviewRow DEF ReviewRows, Posted
  <1>4. TransactionIsRight(p, r, row, RatingsOf(ReviewsOf(p) \ {r}))
    BY <1>2, <1>3, OnlyTransaction DEF TransactionIsRight
  <1> QED
    BY <1>2, <1>3, <1>4, OnlyTransaction, BeginKeepsInv

LEMMA RemoveReviewKeepsInv ==
  ASSUME CatalogueInv, NEW w \in Workers, RemoveReview(w)
  PROVE  CatalogueInv'
  <1>1. PICK r \in Reviews : req[w].id = r
    BY RequestTypes DEF RemoveReview, CatalogueInv, Doing
  <1> DEFINE p == review[r].product
             row == NoReview("removed")
  <1>2. Posted(r) /\ LockFree(p) /\ Begin(w, p, r, row)
    BY <1>1 DEF RemoveReview, StillPosted, Begin
  <1>3. row \in ReviewRows /\ row.state # "kept"
    BY DEF ReviewRows, NoReview
  <1>4. TransactionIsRight(p, r, row, RatingsOf(ReviewsOf(p) \ {r}))
    BY <1>3 DEF TransactionIsRight
  <1> QED
    BY <1>2, <1>3, <1>4, OnlyTransaction, BeginKeepsInv

LEMMA LookUpReviewKeepsInv ==
  ASSUME CatalogueInv, NEW w \in Workers, NEW r \in Reviews,
         NEW op \in {"updateReview", "removeReview"}, LookUpReview(w, op, r)
  PROVE  CatalogueInv'
  <1> DEFINE rq == [op |-> op, id |-> r]
  <1>1. /\ rq \in Requests /\ req' = [req EXCEPT ![w] = rq]
        /\ UNCHANGED <<category, product, rated, review, lock, raced, late>>
    BY DEF LookUpReview, Start, Requests
  <1>2. /\ req' \in [Workers -> Requests] /\ req'[w] = rq
        /\ \A x \in Workers \ {w} : req'[x] = req[x]
    BY <1>1, RequestMoves DEF CatalogueInv
  <1>3. TypeOK'
    BY <1>1, <1>2 DEF CatalogueInv, TypeOK
  <1> QED
    BY <1>1, <1>2, <1>3, ReviewsUntouched, CatalogueUntouched DEF CatalogueInv

\* Transactions on other products neither see nor touch what this one writes.
LEMMA CommitReviewKeepsInv ==
  ASSUME CatalogueInv, NEW w \in Workers, CommitReview(w)
  PROVE  CatalogueInv'
  <1>1. Doing(w, "review") /\ Finish(w) /\ Release(w)
        /\ UNCHANGED <<category, product, raced, late>>
    BY DEF CommitReview
  <1>2. PICK p \in Products, r \in Reviews, row \in ReviewRows,
             others \in SUBSET (Reviews \X Ratings) :
          req[w].product = p /\ req[w].id = r /\ req[w].row = row /\ req[w].others = others
    BY <1>1, RequestTypes DEF CatalogueInv
  <1> DEFINE own == IF row.state = "kept" THEN {<<r, row.rating>>} ELSE {}
  <1>3. /\ review' = [review EXCEPT ![r] = row]
        /\ rated' = [rated EXCEPT ![p] = others \cup own]
    BY <1>2 DEF CommitReview, Own
  <1>4. /\ lock[p] = w /\ others = RatingsOf(ReviewsOf(p) \ {r})
        /\ Posted(r) => review[r].product = p
        /\ row.state = "kept" =>
             row.product = p /\ \A s \in ReviewsOf(p) \ {r} : review[s].user # row.user
        /\ \A x \in Workers : Doing(x, "review") /\ req[x].id = r => x = w
    BY <1>1, <1>2 DEF CatalogueInv, ReviewInv, ReviewRequests, TransactionIsRight
  <1>5. /\ req' \in [Workers -> Requests]
        /\ \A x \in Workers : req'[x].op # "idle" => x # w /\ req'[x] = req[x]
    BY <1>1, FinishMoves DEF CatalogueInv
  <1>6. /\ lock' \in [Products -> Workers \cup {None}]
        /\ \A q \in Products : lock[q] # w => lock'[q] = lock[q]
    BY <1>1, ReleaseMoves DEF CatalogueInv
  <1>7. own \in SUBSET (Reviews \X Ratings)
    BY ReviewRow
  <1>8. TypeOK'
    BY <1>1, <1>3, <1>5, <1>6, <1>7 DEF CatalogueInv, TypeOK
  <1>9. AdminInv'
    BY <1>1, <1>5, CatalogueUntouched
  <1>10. /\ review'[r] = row
         /\ \A s \in Reviews \ {r} : review'[s] = review[s]
    BY <1>3 DEF CatalogueInv, TypeOK
  <1>11. ReviewsOf(p)' = (ReviewsOf(p) \ {r}) \cup (IF row.state = "kept" THEN {r} ELSE {})
    BY <1>4, <1>10 DEF ReviewsOf, Posted
  <1>12. \A q \in Products \ {p} : ReviewsOf(q)' = ReviewsOf(q) /\ r \notin ReviewsOf(q)
    <2> SUFFICES ASSUME NEW q \in Products \ {p}
                 PROVE  ReviewsOf(q)' = ReviewsOf(q) /\ r \notin ReviewsOf(q)
      OBVIOUS
    <2>1. r \notin ReviewsOf(q)
      BY <1>4 DEF ReviewsOf
    <2>2. ~(row.state = "kept" /\ row.product = q)
      BY <1>4
    <2> QED
      BY <2>1, <2>2, <1>10 DEF ReviewsOf, Posted
  <1>13. \A S \in SUBSET (Reviews \ {r}) :
           {<<s, review'[s].rating>> : s \in S} = RatingsOf(S)
    BY <1>10 DEF RatingsOf
  <1>14. \A q \in Products : ReviewsOf(q) \in SUBSET Reviews
    BY DEF ReviewsOf
  <1>15. RatingsAreCurrent'
    <2> SUFFICES ASSUME NEW q \in Products
                 PROVE  rated'[q] = {<<s, review'[s].rating>> : s \in ReviewsOf(q)'}
      BY DEF RatingsAreCurrent, RatingsOf
    <2>1. CASE q = p
      <3> DEFINE rest == ReviewsOf(p) \ {r}
      <3>1. others = {<<s, review'[s].rating>> : s \in rest}
        BY <1>4, <1>13, <1>14
      <3>2. rated'[p] = others \cup own
        BY <1>3 DEF CatalogueInv, TypeOK
      <3>3. CASE row.state = "kept"
        BY <2>1, <3>1, <3>2, <3>3, <1>10, <1>11
      <3>4. CASE row.state # "kept"
        BY <2>1, <3>1, <3>2, <3>4, <1>11
      <3> QED
        BY <3>3, <3>4
    <2>2. CASE q # p
      <3>1. rated'[q] = RatingsOf(ReviewsOf(q))
        BY <1>3, <2>2 DEF CatalogueInv, TypeOK, ReviewInv, RatingsAreCurrent
      <3> QED
        BY <1>12, <1>13, <1>14, <2>2, <3>1
    <2> QED
      BY <2>1, <2>2
  <1>16. OneReviewPerCustomer'
    <2> SUFFICES ASSUME NEW q \in Products, NEW s \in ReviewsOf(q)', NEW t \in ReviewsOf(q)',
                        review'[s].user = review'[t].user
                 PROVE  s = t
      BY DEF OneReviewPerCustomer
    <2>1. \A a, b \in ReviewsOf(q) : review[a].user = review[b].user => a = b
      BY DEF CatalogueInv, ReviewInv, OneReviewPerCustomer
    <2>2. CASE q = p
      BY <1>4, <1>10, <1>11, <1>14, <2>1, <2>2
    <2>3. CASE q # p
      BY <1>10, <1>12, <1>14, <2>1, <2>3
    <2> QED
      BY <2>2, <2>3
  <1>17. ASSUME NEW x \in Workers, Doing(x, "review")'
         PROVE  /\ lock'[req'[x].product] = x
                /\ TransactionIsRight(req[x].product, req[x].id, req[x].row,
                                      req[x].others)'
                /\ \A y \in Workers : Doing(y, "review")' /\ req'[y].id = req'[x].id
                                         => y = x
    <2>1. x # w /\ Doing(x, "review") /\ req'[x] = req[x]
      BY <1>5, <1>17 DEF Doing
    <2>2. PICK q \in Products, s \in Reviews, kept \in ReviewRows,
               o \in SUBSET (Reviews \X Ratings) :
            req[x].product = q /\ req[x].id = s /\ req[x].row = kept /\ req[x].others = o
      BY <2>1, RequestTypes DEF CatalogueInv
    <2>3. /\ lock[q] = x /\ TransactionIsRight(q, s, kept, o)
          /\ \A y \in Workers : Doing(y, "review") /\ req[y].id = s => y = x
      BY <2>1, <2>2 DEF CatalogueInv, ReviewInv, ReviewRequests
    <2>4. q # p /\ s # r /\ lock'[q] = x
      BY <1>4, <1>6, <2>1, <2>2, <2>3
    <2>5. TransactionIsRight(q, s, kept, o)'
      <3>1. review'[s] = review[s] /\ ReviewsOf(q)' = ReviewsOf(q)
        BY <1>10, <1>12, <2>4
      <3>2. \A t \in ReviewsOf(q) : review'[t] = review[t]
        BY <1>10, <1>12, <1>14, <2>4
      <3> DEFINE rest == ReviewsOf(q) \ {s}
      <3>3. o = {<<t, review'[t].rating>> : t \in rest}
        BY <2>3, <3>2 DEF TransactionIsRight, RatingsOf
      <3>4. o = RatingsOf(ReviewsOf(q) \ {s})'
        BY <3>1, <3>3 DEF RatingsOf
      <3> QED
        BY <2>3, <3>1, <3>2, <3>4 DEF TransactionIsRight, Posted
    <2>6. TransactionIsRight(req[x].product, req[x].id, req[x].row, req[x].others)'
      BY <2>1, <2>2, <2>5 DEF TransactionIsRight, RatingsOf, ReviewsOf, Posted
    <2>7. \A y \in Workers : Doing(y, "review")' => Doing(y, "review") /\ req'[y] = req[y]
      BY <1>5 DEF Doing
    <2> QED
      BY <2>1, <2>2, <2>3, <2>4, <2>6, <2>7
  <1>18. ReviewRequests'
    BY <1>17 DEF ReviewRequests
  <1> QED
    BY <1>8, <1>9, <1>15, <1>16, <1>18 DEF CatalogueInv, ReviewInv

LEMMA AbortKeepsInv ==
  ASSUME CatalogueInv, NEW w \in Workers, Abort(w)
  PROVE  CatalogueInv'
  <1>1. Finish(w) /\ Release(w) /\ UNCHANGED <<category, product, rated, review, raced, late>>
    BY DEF Abort
  <1>2. /\ req' \in [Workers -> Requests]
        /\ \A x \in Workers : req'[x].op # "idle" => x # w /\ req'[x] = req[x]
    BY <1>1, FinishMoves DEF CatalogueInv
  <1>3. /\ lock' \in [Products -> Workers \cup {None}]
        /\ \A p \in Products : lock[p] # w => lock'[p] = lock[p]
    BY <1>1, ReleaseMoves DEF CatalogueInv
  <1>4. TypeOK'
    BY <1>1, <1>2, <1>3 DEF CatalogueInv, TypeOK
  <1>5. ASSUME NEW x \in Workers, req'[x].op = "review"
        PROVE  req'[x] = req[x] /\ lock'[req[x].product] = lock[req[x].product]
    <2>1. x # w /\ req'[x] = req[x] /\ Doing(x, "review")
      BY <1>2, <1>5 DEF Doing
    <2>2. lock[req[x].product] = x /\ req[x].product \in Products
      BY <2>1, RequestTypes DEF CatalogueInv, ReviewInv, ReviewRequests
    <2> QED
      BY <1>3, <2>1, <2>2
  <1>6. ReviewInv'
    BY <1>1, <1>5, ReviewsUntouched
  <1>7. AdminInv'
    BY <1>1, <1>2, CatalogueUntouched
  <1> QED
    BY <1>4, <1>6, <1>7 DEF CatalogueInv
-----------------------------------------------------------------------------
(* The theorems *)

LEMMA CatalogueInit == Init => CatalogueInv
  <1> SUFFICES ASSUME Init PROVE CatalogueInv
    OBVIOUS
  <1>1. TypeOK
    BY DEF Init, TypeOK, RowStates, ProductRows, ReviewRows, Requests
  <1>2. AdminInv
    BY DEF Init, AdminInv, DiscountBelowBaseUnlessRaced, AdminRequests, Doing, Idle,
           RemovedCategoriesAreEmptyUnlessLate, NoProduct
  <1>3. \A p \in Products : ReviewsOf(p) = {}
    BY DEF Init, ReviewsOf, Posted, NoReview
  <1>4. ReviewInv
    BY <1>3 DEF Init, ReviewInv, RatingsAreCurrent, OneReviewPerCustomer, ReviewRequests,
                RatingsOf, Doing, Idle
  <1> QED
    BY <1>1, <1>2, <1>4 DEF CatalogueInv

LEMMA CatalogueStep == CatalogueInv /\ [Next]_vars => CatalogueInv'
  <1> SUFFICES ASSUME CatalogueInv, [Next]_vars PROVE CatalogueInv'
    OBVIOUS
  <1>1. CASE UNCHANGED vars
    <2>1. TypeOK'
      BY <1>1 DEF vars, CatalogueInv, TypeOK
    <2> QED
      BY <1>1, <2>1, ReviewsUntouched, CatalogueUntouched DEF vars, CatalogueInv
  <1>2. CASE Next
    BY <1>2, CreateCategoryKeepsInv, RemoveProductKeepsInv, CreateProductKeepsInv,
       RemoveCategoryReadKeepsInv, RemoveCategoryCommitKeepsInv, UpdateProductReadKeepsInv,
       UpdateProductCommitKeepsInv, CreateReviewKeepsInv, LookUpReviewKeepsInv,
       UpdateReviewKeepsInv, RemoveReviewKeepsInv, CommitReviewKeepsInv, AbortKeepsInv
       DEF Next
  <1> QED
    BY <1>1, <1>2

\* CatalogueInv, the invariant that the step preserves, holds in every state.
THEOREM CatalogueCorrect == Spec => []CatalogueInv
  BY CatalogueInit, CatalogueStep, PTL DEF Spec

\* Rows and requests keep their types.
THEOREM CatalogueTypesCorrect == Spec => []TypeOK
  <1>1. CatalogueInv => TypeOK
    BY DEF CatalogueInv
  <1> QED
    BY <1>1, CatalogueCorrect, PTL

\* The rating and the count of every product are those of its reviews.
THEOREM RatingsCorrect == Spec => []RatingsAreCurrent
  <1>1. CatalogueInv => RatingsAreCurrent
    BY DEF CatalogueInv, ReviewInv
  <1> QED
    BY <1>1, CatalogueCorrect, PTL

\* A customer has one review per product at most.
THEOREM OneReviewCorrect == Spec => []OneReviewPerCustomer
  <1>1. CatalogueInv => OneReviewPerCustomer
    BY DEF CatalogueInv, ReviewInv
  <1> QED
    BY <1>1, CatalogueCorrect, PTL

\* A discount is below the base price, unless two updates have crossed.
THEOREM DiscountCorrect == Spec => []DiscountBelowBaseUnlessRaced
  <1>1. CatalogueInv => DiscountBelowBaseUnlessRaced
    BY DEF CatalogueInv, AdminInv
  <1> QED
    BY <1>1, CatalogueCorrect, PTL

\* A removed category has no product, except one that came after the count.
THEOREM RemovedCategoriesCorrect == Spec => []RemovedCategoriesAreEmptyUnlessLate
  <1>1. CatalogueInv => RemovedCategoriesAreEmptyUnlessLate
    BY DEF CatalogueInv, AdminInv
  <1> QED
    BY <1>1, CatalogueCorrect, PTL
=============================================================================
