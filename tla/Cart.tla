-------------------------------- MODULE Cart --------------------------------
(***************************************************************************)
(* CartService and ProductVariantsService: the lines customers put into    *)
(* their carts, and the variants they point to while the admin edits and   *)
(* removes them and orders take their stock.                               *)
(*                                                                         *)
(* add reads the product in its transaction before it locks the variant,   *)
(* so everything it reads under the lock comes from the snapshot of that   *)
(* first read (REPEATABLE READ).  It is two steps: the snapshot, and the   *)
(* one write it ends in.  The other handlers that check before they write  *)
(* are two steps as well.  Orders are here as far as they touch stock and  *)
(* carts; module Orders has the rest.                                      *)
(*                                                                         *)
(* Left out: the selected flag, which only the cart's summary reads, names *)
(* and prices, and the flags that hide a product, which only refuse adds.  *)
(*                                                                         *)
(* An operator with the suffix _bug is a wrong variant of the one that     *)
(* follows it, for mutation tests.                                         *)
(***************************************************************************)
EXTENDS Integers

CONSTANTS
  Users,
  Variants,
  Lines,       \* the row ids that may ever be drawn for cart lines
  Workers,     \* requests handled at the same time
  Quantities,  \* what a request may ask for
  Stocks,      \* what the admin may enter as stock
  MaxTaken,    \* bound: pieces of one variant in live orders
  None         \* SQL NULL

ASSUME CartAssumption ==
  /\ Quantities \subseteq Nat \ {0}
  /\ Stocks \subseteq Nat
  /\ MaxTaken \in Nat
  /\ None \notin Users \cup Variants \cup Lines

VARIABLES
  variant,   \* product_variants: whether the row is there, and its stock
  line,      \* cart_items
  taken,     \* pieces in live orders, by variant
  ordered,   \* variants with rows in order_items, which are never deleted
  supplied,  \* history: the stock the admin has put on the shelf, by variant
  req        \* what each worker is doing

shelfVars == <<variant, taken, ordered, supplied>>
vars == <<shelfVars, line, req>>

\* A row is new until it is inserted and gone once it is deleted: ids are not
\* used again.
RowStates == {"new", "kept", "gone"}
VariantRows == [state : RowStates, stock : Nat]
NoLine(state) == [state |-> state, user |-> None, variant |-> None, qty |-> 0]
LineRows ==
  [state : {"kept"}, user : Users, variant : Variants, qty : Nat \ {0}]
    \cup {NoLine("new"), NoLine("gone")}

\* What an add found in its snapshot: the line it will change, with its quantity,
\* and the stock.
Idle == [op |-> "idle"]
Requests ==
  {Idle}
    \cup [op : {"add"}, user : Users, variant : Variants, qty : Quantities,
          line : Lines \cup {None}, had : Nat, stock : Nat]
    \cup [op : {"update"}, line : Lines, qty : Quantities]
    \cup [op : {"edit"}, variant : Variants, expected : Nat]
    \cup [op : {"remove"}, variant : Variants]

\* Types of the rows and of the requests in flight.  Stock is a natural number
\* because the order's decrement is guarded.
TypeOK ==
  /\ variant \in [Variants -> VariantRows]
  /\ line \in [Lines -> LineRows]
  /\ taken \in [Variants -> Nat]
  /\ ordered \subseteq Variants
  /\ supplied \in [Variants -> Int]
  /\ req \in [Workers -> Requests]

Init ==
  /\ variant = [v \in Variants |-> [state |-> "new", stock |-> 0]]
  /\ line = [l \in Lines |-> NoLine("new")]
  /\ taken = [v \in Variants |-> 0]
  /\ ordered = {}
  /\ supplied = [v \in Variants |-> 0]
  /\ req = [w \in Workers |-> Idle]

Kept(v) == variant[v].state = "kept"
InCart(l) == line[l].state = "kept"
LinesOf(u, v) == {l \in Lines : InCart(l) /\ line[l].user = u /\ line[l].variant = v}
Doing(w, op) == req[w].op = op
Start(w, r) == Doing(w, "idle") /\ req' = [req EXCEPT ![w] = r]
Finish(w) == req' = [req EXCEPT ![w] = Idle]
\* DELETE FROM cart_items, for the rows that satisfy the condition.
DeleteLines(S) ==
  line' = [l \in Lines |-> IF l \in S /\ InCart(l) THEN NoLine("gone") ELSE line[l]]
-----------------------------------------------------------------------------
(* CartService *)

\* The snapshot of add: the variant is there, and perhaps a line for it already.
AddSnapshot(w, u, v, q) ==
  /\ Kept(v)
  /\ \/ /\ LinesOf(u, v) = {}
        /\ Start(w, [op |-> "add", user |-> u, variant |-> v, qty |-> q,
                     line |-> None, had |-> 0, stock |-> variant[v].stock])
     \/ \E l \in LinesOf(u, v) :
          Start(w, [op |-> "add", user |-> u, variant |-> v, qty |-> q,
                    line |-> l, had |-> line[l].qty, stock |-> variant[v].stock])
  /\ UNCHANGED <<shelfVars, line>>

\* nextQuantity <= variant.stock, on what the snapshot shows.
FitsStock(r) == r.had + r.qty <= r.stock

\* UPDATE ... SET quantity = quantity + q, of the line found.
AddMore(w) ==
  LET r == req[w] IN
  /\ Doing(w, "add")
  /\ FitsStock(r)
  /\ r.line # None
  /\ InCart(r.line)
  /\ line' = [line EXCEPT ![r.line].qty = line[r.line].qty + r.qty]
  /\ Finish(w)
  /\ UNCHANGED shelfVars

\* The unique index on user, product and variant, and the foreign key.
LineIsFree_bug(u, v) == TRUE
LineIsFree(u, v) == LinesOf(u, v) = {}
VariantExists_bug(v) == TRUE
VariantExists(v) == Kept(v)

AddFirst(w, l) ==
  LET r == req[w] IN
  /\ Doing(w, "add")
  /\ FitsStock(r)
  /\ r.line = None
  /\ LineIsFree(r.user, r.variant)
  /\ VariantExists(r.variant)
  /\ line[l].state = "new"
  /\ line' = [line EXCEPT ![l] = [state |-> "kept", user |-> r.user,
                                  variant |-> r.variant, qty |-> r.qty]]
  /\ Finish(w)
  /\ UNCHANGED shelfVars

\* The item and its variant's stock are read ...
UpdateRead(w, l, q) ==
  /\ InCart(l)
  /\ q <= variant[line[l].variant].stock
  /\ Start(w, [op |-> "update", line |-> l, qty |-> q])
  /\ UNCHANGED <<shelfVars, line>>

\* ... and the quantity is written without another look.
UpdateCommit(w) ==
  LET r == req[w] IN
  /\ Doing(w, "update")
  /\ InCart(r.line)
  /\ line' = [line EXCEPT ![r.line].qty = r.qty]
  /\ Finish(w)
  /\ UNCHANGED shelfVars

\* remove: a line that is gone by the time of the DELETE is a 404, no change.
RemoveLine(l) ==
  /\ InCart(l)
  /\ DeleteLines({l})
  /\ UNCHANGED <<shelfVars, req>>

ClearCart(u) ==
  /\ DeleteLines({l \in Lines : line[l].user = u})
  /\ UNCHANGED <<shelfVars, req>>
-----------------------------------------------------------------------------
(* ProductVariantsService *)

CreateVariant(v, n) ==
  /\ variant[v].state = "new"
  /\ variant' = [variant EXCEPT ![v] = [state |-> "kept", stock |-> n]]
  /\ supplied' = [supplied EXCEPT ![v] = n]
  /\ UNCHANGED <<line, taken, ordered, req>>

\* The admin opens the form, which remembers the stock it shows ...
EditRead(w, v) ==
  /\ Kept(v)
  /\ Start(w, [op |-> "edit", variant |-> v, expected |-> variant[v].stock])
  /\ UNCHANGED <<shelfVars, line>>

\* ... and saves it: under the row lock, the stock must still be the expected one.
StockAsExpected_bug(v, expected) == TRUE
StockAsExpected(v, expected) == variant[v].stock = expected

EditCommit(w, n) ==
  LET r == req[w] IN
  /\ Doing(w, "edit")
  /\ Kept(r.variant)
  /\ StockAsExpected(r.variant, r.expected)
  /\ variant' = [variant EXCEPT ![r.variant].stock = n]
  /\ supplied' = [supplied EXCEPT ![r.variant] = supplied[r.variant] + (n - r.expected)]
  /\ Finish(w)
  /\ UNCHANGED <<line, taken, ordered>>

\* remove counts the order items of the variant ...
RemoveRead(w, v) ==
  /\ Kept(v)
  /\ v \notin ordered
  /\ Start(w, [op |-> "remove", variant |-> v])
  /\ UNCHANGED <<shelfVars, line>>

\* ... and deletes it.  The foreign key of order_items refuses if one has come in
\* between, that of cart_items deletes the lines along.
NoOrderItems_bug(v) == TRUE
NoOrderItems(v) == v \notin ordered
CartLines(v) == {l \in Lines : line[l].variant = v}

RemoveCommit(w) ==
  LET v == req[w].variant IN
  /\ Doing(w, "remove")
  /\ Kept(v)
  /\ NoOrderItems(v)
  /\ variant' = [variant EXCEPT ![v].state = "gone"]
  /\ DeleteLines(CartLines(v))
  /\ Finish(w)
  /\ UNCHANGED <<taken, ordered, supplied>>
-----------------------------------------------------------------------------
(* OrdersService, as variants and carts meet it *)

\* create takes the stock under its guard and empties the cart of the item.
StockLeft_bug(v, q) == TRUE
StockLeft(v, q) == variant[v].stock >= q

PlaceOrder(u, v, q) ==
  /\ Kept(v)
  /\ StockLeft(v, q)
  /\ taken[v] + q <= MaxTaken
  /\ variant' = [variant EXCEPT ![v].stock = variant[v].stock - q]
  /\ taken' = [taken EXCEPT ![v] = taken[v] + q]
  /\ ordered' = ordered \cup {v}
  /\ DeleteLines(LinesOf(u, v))
  /\ UNCHANGED <<supplied, req>>

\* cancel, or a payment given up, puts the stock back.
CancelOrder(v, q) ==
  /\ q <= taken[v]
  /\ variant' = [variant EXCEPT ![v].stock = variant[v].stock + q]
  /\ taken' = [taken EXCEPT ![v] = taken[v] - q]
  /\ UNCHANGED <<ordered, supplied, line, req>>
-----------------------------------------------------------------------------
\* A request that ends without a change: refused by one of the checks above, or
\* rolled back.
Abort(w) ==
  /\ ~Doing(w, "idle")
  /\ Finish(w)
  /\ UNCHANGED <<shelfVars, line>>

Next ==
  \/ \E w \in Workers :
       \/ \E u \in Users, v \in Variants, q \in Quantities : AddSnapshot(w, u, v, q)
       \/ \E l \in Lines : AddFirst(w, l) \/ \E q \in Quantities : UpdateRead(w, l, q)
       \/ \E v \in Variants : EditRead(w, v) \/ RemoveRead(w, v)
       \/ \E n \in Stocks : EditCommit(w, n)
       \/ AddMore(w) \/ UpdateCommit(w) \/ RemoveCommit(w) \/ Abort(w)
  \/ \E l \in Lines : RemoveLine(l)
  \/ \E u \in Users : ClearCart(u)
  \/ \E v \in Variants :
       \/ \E n \in Stocks : CreateVariant(v, n)
       \/ \E q \in Quantities : CancelOrder(v, q) \/ \E u \in Users : PlaceOrder(u, v, q)

Spec == Init /\ [][Next]_vars
-----------------------------------------------------------------------------
(* Safety *)

\* A customer has one line per variant at most, though two adds that both saw none
\* may both try to insert it.
OneLinePerVariant ==
  \A k, l \in Lines :
    InCart(k) /\ InCart(l) /\ line[k].user = line[l].user /\ line[k].variant = line[l].variant
      => k = l

\* Every line points to a variant that is there, though the variant may be removed
\* after an add has seen it.
LinesHaveVariants == \A l \in Lines : InCart(l) => Kept(line[l].variant)

\* A variant that was ever ordered is there for the order's history and for the
\* stock a cancellation puts back, though an order may be placed after the removal
\* has counted none.
OrderedVariantsStay ==
  \A v \in Variants : /\ taken[v] > 0 => v \in ordered
                      /\ v \in ordered => Kept(v)

\* What the admin has put on the shelf is on the shelf or in a live order: an edit
\* from a form opened before a sale or a cancellation does not overwrite it.
SuppliedIsAccountedFor ==
  \A v \in Variants : variant[v].stock + taken[v] = supplied[v]

CartInv ==
  /\ TypeOK
  /\ OneLinePerVariant
  /\ LinesHaveVariants
  /\ OrderedVariantsStay
  /\ SuppliedIsAccountedFor
=============================================================================
