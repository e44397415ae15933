----------------------------- MODULE CartProofs -----------------------------
(***************************************************************************)
(* CartInv, the conjunction of all safety properties of module Cart, is    *)
(* inductive: each property is proved for all values of the constants.     *)
(***************************************************************************)
EXTENDS Cart, TLAPS

-----------------------------------------------------------------------------
(* Types *)

\* What the type invariant says of a request, by the step it waits for.
LEMMA RequestTypes ==
  ASSUME TypeOK, NEW w \in Workers
  PROVE  /\ req[w].op = "add" =>
              /\ req[w].user \in Users /\ req[w].variant \in Variants
              /\ req[w].qty \in Nat \ {0}
              /\ req[w].line \in Lines \cup {None}
              /\ req[w].had \in Nat /\ req[w].stock \in Nat
         /\ req[w].op = "update" => req[w].line \in Lines /\ req[w].qty \in Nat \ {0}
         /\ req[w].op = "edit" => req[w].variant \in Variants /\ req[w].expected \in Nat
         /\ req[w].op = "remove" => req[w].variant \in Variants
  <1>1. req[w] \in Requests
    BY DEF TypeOK
  <1>2. CASE req[w].op = "add"
    <2>1. req[w] \in [op : {"add"}, user : Users, variant : Variants, qty : Quantities,
                      line : Lines \cup {None}, had : Nat, stock : Nat]
      BY <1>1, <1>2 DEF Requests, Idle
    <2> QED
      BY <1>2, <2>1, CartAssumption
  <1>3. CASE req[w].op = "update"
    <2>1. req[w] \in [op : {"update"}, line : Lines, qty : Quantities]
      BY <1>1, <1>3 DEF Requests, Idle
    <2> QED
      BY <1>3, <2>1, CartAssumption
  <1>4. CASE req[w].op \in {"edit", "remove"}
    BY <1>1, <1>4 DEF Requests, Idle
  <1> QED
    BY <1>2, <1>3, <1>4

\* A line in the cart is a complete row.
LEMMA LineTypes ==
  ASSUME TypeOK, NEW l \in Lines, InCart(l)
  PROVE  /\ line[l] \in [state : {"kept"}, user : Users, variant : Variants, qty : Nat \ {0}]
         /\ line[l].user \in Users /\ line[l].variant \in Variants
         /\ line[l].qty \in Nat \ {0}
  BY DEF TypeOK, LineRows, NoLine, InCart

\* Moving one request on keeps the type of all of them.
LEMMA RequestMoves ==
  ASSUME TypeOK, NEW w \in Workers, NEW r \in Requests, req' = [req EXCEPT ![w] = r]
  PROVE  req' \in [Workers -> Requests]
  BY DEF TypeOK

LEMMA FinishMoves ==
  ASSUME TypeOK, NEW w \in Workers, Finish(w)
  PROVE  req' \in [Workers -> Requests]
  BY RequestMoves DEF Finish, Requests

LEMMA DeleteTypes ==
  ASSUME TypeOK, NEW S, DeleteLines(S)
  PROVE  line' \in [Lines -> LineRows]
  BY DEF TypeOK, DeleteLines, LineRows, NoLine
-----------------------------------------------------------------------------
(* The lines of the carts *)

\* What the lines have to satisfy, and two ways in which a step keeps it.
LinesInv == OneLinePerVariant /\ LinesHaveVariants

\* The step only deletes lines or changes quantities, and no variant goes that a
\* remaining line needs.
LEMMA LinesShrink ==
  ASSUME LinesInv,
         \A l \in Lines : InCart(l)' => /\ InCart(l)
                                        /\ line'[l].user = line[l].user
                                        /\ line'[l].variant = line[l].variant
                                        /\ Kept(line[l].variant) => Kept(line[l].variant)'
  PROVE  LinesInv'
  BY DEF LinesInv, OneLinePerVariant, LinesHaveVariants, InCart, Kept

\* Deleting lines is such a step.
LEMMA DeleteShrinks ==
  ASSUME TypeOK, NEW S, DeleteLines(S), NEW l \in Lines, InCart(l)'
  PROVE  InCart(l) /\ line'[l] = line[l]
  BY DEF TypeOK, DeleteLines, InCart, NoLine

\* The insert of add: the unique index and the foreign key keep it right.
LEMMA AddFirstKeepsLines ==
  ASSUME TypeOK, LinesInv, NEW w \in Workers, NEW l \in Lines, AddFirst(w, l)
  PROVE  LinesInv'
  <1>1. req[w].user \in Users /\ req[w].variant \in Variants
    BY RequestTypes DEF AddFirst, Doing
  <1>2. /\ line'[l].user = req[w].user /\ line'[l].variant = req[w].variant
        /\ \A k \in Lines \ {l} : line'[k] = line[k]
        /\ \A v \in Variants : Kept(v)' <=> Kept(v)
    BY DEF AddFirst, TypeOK, shelfVars, Kept
  <1>3. \A k \in Lines : InCart(k) =>
          ~(line[k].user = req[w].user /\ line[k].variant = req[w].variant)
    BY DEF AddFirst, LineIsFree, LinesOf
  <1>4. Kept(req[w].variant)
    BY DEF AddFirst, VariantExists
  <1>5. \A k \in Lines : InCart(k)' => k = l \/ InCart(k)
    BY <1>2 DEF InCart
  <1>6. OneLinePerVariant'
    BY <1>2, <1>3, <1>5 DEF LinesInv, OneLinePerVariant, InCart
  <1>7. \A k \in Lines : InCart(k)' => Kept(line'[k].variant)
    BY <1>2, <1>4, <1>5 DEF LinesInv, LinesHaveVariants
  <1>8. LinesHaveVariants'
    <2> SUFFICES ASSUME NEW k \in Lines, InCart(k)' PROVE Kept(line[k].variant)'
      BY DEF LinesHaveVariants
    <2>1. variant' = variant
      BY DEF AddFirst, shelfVars
    <2> QED
      BY <1>7, <2>1 DEF Kept
  <1> QED
    BY <1>6, <1>8 DEF LinesInv
-----------------------------------------------------------------------------
(* The inductive step *)

LEMMA CartStep == CartInv /\ [Next]_vars => CartInv'
  <1> SUFFICES ASSUME CartInv, [Next]_vars PROVE CartInv'
    OBVIOUS
  <1>t. TypeOK /\ LinesInv /\ OrderedVariantsStay /\ SuppliedIsAccountedFor
    BY DEF CartInv, LinesInv
  <1>s. ASSUME TypeOK', LinesInv', OrderedVariantsStay', SuppliedIsAccountedFor'
        PROVE  CartInv'
    BY <1>s DEF CartInv, LinesInv
  <1>1. ASSUME NEW w \in Workers, NEW u \in Users, NEW v \in Variants, NEW q \in Quantities,
               AddSnapshot(w, u, v, q)
        PROVE  CartInv'
    <2>1. variant[v].stock \in Nat
      BY <1>t DEF TypeOK, VariantRows
    <2>2. \A l \in LinesOf(u, v) : l \in Lines /\ line[l].qty \in Nat
      BY <1>t, LineTypes DEF LinesOf
    <2>3. PICK r \in Requests : req' = [req EXCEPT ![w] = r]
      BY <1>1, <2>1, <2>2 DEF AddSnapshot, Start, Requests
    <2>4. UNCHANGED <<variant, line, taken, ordered, supplied>>
      BY <1>1 DEF AddSnapshot, shelfVars
    <2>5. req' \in [Workers -> Requests]
      BY <1>t, <2>3, RequestMoves
    <2>6. TypeOK'
      BY <1>t, <2>4, <2>5 DEF TypeOK
    <2>7. LinesInv'
      BY <1>t, <2>4 DEF LinesInv, OneLinePerVariant, LinesHaveVariants, InCart, Kept
    <2> QED
      BY <1>t, <1>s, <2>4, <2>6, <2>7 DEF OrderedVariantsStay, SuppliedIsAccountedFor, Kept
  <1>2. ASSUME NEW w \in Workers,
               \/ \E l \in Lines, q \in Quantities : UpdateRead(w, l, q)
               \/ \E v \in Variants : EditRead(w, v) \/ RemoveRead(w, v)
               \/ Abort(w)
        PROVE  CartInv'
    <2>1. \A v \in Variants : variant[v].stock \in Nat
      BY <1>t DEF TypeOK, VariantRows
    <2>2. PICK r \in Requests : req' = [req EXCEPT ![w] = r]
      BY <1>2, <2>1 DEF UpdateRead, EditRead, RemoveRead, Abort, Finish, Start, Requests
    <2>3. UNCHANGED <<variant, line, taken, ordered, supplied>>
      BY <1>2 DEF UpdateRead, EditRead, RemoveRead, Abort, shelfVars
    <2>4. req' \in [Workers -> Requests]
      BY <1>t, <2>2, RequestMoves
    <2>5. TypeOK'
      BY <1>t, <2>3, <2>4 DEF TypeOK
    <2>6. LinesInv'
      BY <1>t, <2>3 DEF LinesInv, OneLinePerVariant, LinesHaveVariants, InCart, Kept
    <2> QED
      BY <1>t, <1>s, <2>3, <2>5, <2>6 DEF OrderedVariantsStay, SuppliedIsAccountedFor, Kept
  <1>3. ASSUME NEW w \in Workers, AddMore(w) \/ UpdateCommit(w) PROVE CartInv'
    <2>1. PICK l \in Lines, n \in Nat \ {0} :
            InCart(l) /\ line' = [line EXCEPT ![l].qty = n]
      <3>1. CASE AddMore(w)
        <4>1. /\ req[w].line \in Lines /\ InCart(req[w].line)
              /\ req[w].qty \in Nat \ {0}
              /\ line' = [line EXCEPT ![req[w].line].qty = line[req[w].line].qty + req[w].qty]
          BY <1>t, <3>1, RequestTypes DEF AddMore, Doing
        <4>2. line[req[w].line].qty + req[w].qty \in Nat \ {0}
          BY <1>t, <4>1, LineTypes
        <4> QED
          BY <4>1, <4>2
      <3>2. CASE UpdateCommit(w)
        BY <1>t, <3>2, RequestTypes DEF UpdateCommit, Doing
      <3> QED
        BY <1>3, <3>1, <3>2
    <2>2. UNCHANGED <<variant, taken, ordered, supplied>>
      BY <1>3 DEF AddMore, UpdateCommit, shelfVars
    <2>3. line' \in [Lines -> LineRows]
      <3>1. [line[l] EXCEPT !.qty = n] \in LineRows
        BY <1>t, <2>1, LineTypes DEF LineRows
      <3> QED
        BY <1>t, <2>1, <3>1 DEF TypeOK
    <2>4. TypeOK'
      BY <1>t, <1>3, <2>2, <2>3, FinishMoves DEF TypeOK, AddMore, UpdateCommit
    <2>5. LinesInv'
      <3>1. \A k \in Lines : /\ line'[k].state = line[k].state
                             /\ line'[k].user = line[k].user
                             /\ line'[k].variant = line[k].variant
        <4> SUFFICES ASSUME NEW k \in Lines
                     PROVE  /\ line'[k].state = line[k].state
                            /\ line'[k].user = line[k].user
                            /\ line'[k].variant = line[k].variant
          OBVIOUS
        <4>1. line[l] \in [state : {"kept"}, user : Users, variant : Variants, qty : Nat \ {0}]
          BY <1>t, <2>1, LineTypes
        <4>2. CASE k = l
          BY <1>t, <2>1, <4>1, <4>2 DEF TypeOK
        <4>3. CASE k # l
          BY <1>t, <2>1, <4>3 DEF TypeOK
        <4> QED
          BY <4>2, <4>3
      <3> QED
        BY <1>t, <2>2, <3>1, LinesShrink DEF InCart, Kept
    <2> QED
      BY <1>t, <1>s, <2>2, <2>4, <2>5 DEF OrderedVariantsStay, SuppliedIsAccountedFor, Kept
  <1>4. ASSUME NEW w \in Workers, NEW l \in Lines, AddFirst(w, l) PROVE CartInv'
    <2>1. /\ req[w].user \in Users /\ req[w].variant \in Variants /\ req[w].qty \in Nat \ {0}
          /\ UNCHANGED <<variant, taken, ordered, supplied>>
      BY <1>t, <1>4, RequestTypes DEF AddFirst, Doing, shelfVars
    <2>2. TypeOK'
      BY <1>t, <1>4, <2>1, FinishMoves DEF TypeOK, AddFirst, LineRows
    <2>3. LinesInv'
      BY <1>t, <1>4, AddFirstKeepsLines
    <2> QED
      BY <1>t, <1>s, <2>1, <2>2, <2>3 DEF OrderedVariantsStay, SuppliedIsAccountedFor, Kept
  <1>5. ASSUME \/ \E l \in Lines : RemoveLine(l)
               \/ \E u \in Users : ClearCart(u)
        PROVE  CartInv'
    <2>1. PICK S : DeleteLines(S)
      BY <1>5 DEF RemoveLine, ClearCart
    <2>2. UNCHANGED <<variant, taken, ordered, supplied, req>>
      BY <1>5 DEF RemoveLine, ClearCart, shelfVars
    <2>3. TypeOK'
      BY <1>t, <2>1, <2>2, DeleteTypes DEF TypeOK
    <2>4. LinesInv'
      BY <1>t, <2>1, <2>2, DeleteShrinks, LinesShrink DEF Kept
    <2> QED
      BY <1>t, <1>s, <2>2, <2>3, <2>4 DEF OrderedVariantsStay, SuppliedIsAccountedFor, Kept
  <1>6. ASSUME NEW v \in Variants, NEW n \in Stocks, CreateVariant(v, n) PROVE CartInv'
    <2>1. n \in Nat /\ variant[v].state = "new"
      BY <1>6, CartAssumption DEF CreateVariant
    <2>2. /\ UNCHANGED <<line, taken, ordered, req>>
          /\ variant'[v] = [state |-> "kept", stock |-> n] /\ supplied'[v] = n
          /\ \A c \in Variants \ {v} : variant'[c] = variant[c] /\ supplied'[c] = supplied[c]
      BY <1>t, <1>6 DEF CreateVariant, TypeOK
    <2>3. TypeOK'
      BY <1>t, <1>6, <2>1 DEF CreateVariant, TypeOK, VariantRows, RowStates
    <2>4. taken[v] = 0
      BY <1>t, <2>1 DEF OrderedVariantsStay, Kept, TypeOK
    <2>5. \A c \in Variants : Kept(c) => Kept(c)'
      BY <2>2 DEF Kept
    <2>6. LinesInv'
      BY <1>t, <2>2, <2>5, LineTypes, LinesShrink DEF InCart
    <2>7. SuppliedIsAccountedFor'
      BY <1>t, <2>1, <2>2, <2>4 DEF SuppliedIsAccountedFor
    <2> QED
      BY <1>t, <1>s, <2>2, <2>3, <2>5, <2>6, <2>7 DEF OrderedVariantsStay
  <1>7. ASSUME NEW w \in Workers, NEW n \in Stocks, EditCommit(w, n) PROVE CartInv'
    <2> DEFINE v == req[w].variant
    <2>1. v \in Variants /\ req[w].expected \in Nat /\ n \in Nat
      BY <1>t, <1>7, RequestTypes, CartAssumption DEF EditCommit, Doing
    <2>2. /\ UNCHANGED <<line, taken, ordered>>
          /\ variant'[v] = [variant[v] EXCEPT !.stock = n]
          /\ supplied'[v] = supplied[v] + (n - req[w].expected)
          /\ \A c \in Variants \ {v} : variant'[c] = variant[c] /\ supplied'[c] = supplied[c]
          /\ variant[v].stock = req[w].expected
      BY <1>t, <1>7, <2>1 DEF EditCommit, StockAsExpected, TypeOK
    <2>3. variant[v] \in VariantRows /\ taken[v] \in Nat /\ supplied[v] \in Int
      BY <1>t, <2>1 DEF TypeOK
    <2>4. variant'[v].state = variant[v].state /\ variant'[v].stock = n
      BY <2>2, <2>3 DEF VariantRows
    <2>5. TypeOK'
      BY <1>t, <1>7, <2>1, <2>3, FinishMoves DEF EditCommit, TypeOK, VariantRows
    <2>6. \A c \in Variants : Kept(c) <=> Kept(c)'
      BY <2>2, <2>4 DEF Kept
    <2>7. LinesInv'
      BY <1>t, <2>2, <2>6, LineTypes, LinesShrink DEF InCart
    <2>8. SuppliedIsAccountedFor'
      <3> SUFFICES ASSUME NEW c \in Variants
                   PROVE  variant'[c].stock + taken'[c] = supplied'[c]
        BY DEF SuppliedIsAccountedFor
      <3>1. variant[c].stock + taken[c] = supplied[c]
        BY <1>t DEF SuppliedIsAccountedFor
      <3>2. CASE c = v
        <4>1. variant'[c].stock = n /\ taken'[c] = taken[c] /\ variant[c].stock = req[w].expected
          BY <2>2, <2>4, <3>2
        <4>2. supplied'[c] = supplied[c] + (n - req[w].expected)
          BY <2>2, <3>2
        <4>3. taken[c] \in Nat /\ supplied[c] \in Int
          BY <2>3, <3>2
        <4> QED
          BY <2>1, <3>1, <4>1, <4>2, <4>3
      <3>3. CASE c # v
        BY <2>2, <3>1, <3>3
      <3> QED
        BY <3>2, <3>3
    <2> QED
      BY <1>t, <1>s, <2>2, <2>5, <2>6, <2>7, <2>8 DEF OrderedVariantsStay
  <1>8. ASSUME NEW w \in Workers, RemoveCommit(w) PROVE CartInv'
    <2> DEFINE v == req[w].variant
    <2>1. v \in Variants
      BY <1>t, <1>8, RequestTypes DEF RemoveCommit, Doing
    <2>2. /\ UNCHANGED <<taken, ordered, supplied>>
          /\ v \notin ordered /\ DeleteLines(CartLines(v))
          /\ variant'[v] = [variant[v] EXCEPT !.state = "gone"]
          /\ \A c \in Variants \ {v} : variant'[c] = variant[c]
      BY <1>t, <1>8, <2>1 DEF RemoveCommit, NoOrderItems, TypeOK
    <2>3. variant[v] \in VariantRows
      BY <1>t, <2>1 DEF TypeOK
    <2>4. variant'[v].stock = variant[v].stock /\ variant'[v].state = "gone"
      BY <2>2, <2>3 DEF VariantRows
    <2>5. TypeOK'
      BY <1>t, <1>8, <2>1, <2>2, <2>3, FinishMoves, DeleteTypes
      DEF RemoveCommit, TypeOK, VariantRows, RowStates
    <2>6. \A l \in Lines : InCart(l)' => line[l].variant # v
      BY <1>t, <2>2 DEF DeleteLines, CartLines, InCart, NoLine, TypeOK
    <2>7. \A l \in Lines : InCart(l)' => InCart(l) /\ line'[l] = line[l]
      BY <1>t, <2>2, DeleteShrinks
    <2>8. LinesInv'
      BY <1>t, <2>2, <2>6, <2>7, LineTypes, LinesShrink DEF Kept
    <2>9. SuppliedIsAccountedFor'
      BY <1>t, <2>2, <2>4 DEF SuppliedIsAccountedFor
    <2>10. OrderedVariantsStay'
      BY <1>t, <2>2 DEF OrderedVariantsStay, Kept
    <2> QED
      BY <1>s, <2>5, <2>8, <2>9, <2>10
  <1>9. ASSUME NEW u \in Users, NEW v \in Variants, NEW q \in Quantities,
               PlaceOrder(u, v, q)
        PROVE  CartInv'
    <2>1. q \in Nat \ {0} /\ variant[v] \in VariantRows /\ taken[v] \in Nat
      BY <1>t, CartAssumption DEF TypeOK
    <2>2. /\ Kept(v) /\ variant[v].stock >= q
          /\ UNCHANGED <<supplied, req>>
          /\ DeleteLines(LinesOf(u, v)) /\ ordered' = ordered \cup {v}
          /\ variant'[v] = [variant[v] EXCEPT !.stock = variant[v].stock - q]
          /\ taken'[v] = taken[v] + q
          /\ \A c \in Variants \ {v} : variant'[c] = variant[c] /\ taken'[c] = taken[c]
      BY <1>t, <1>9 DEF PlaceOrder, StockLeft, TypeOK
    <2>3. variant'[v].state = variant[v].state /\ variant'[v].stock = variant[v].stock - q
      BY <2>1, <2>2 DEF VariantRows
    <2>4. [variant[v] EXCEPT !.stock = variant[v].stock - q] \in VariantRows
      BY <2>1, <2>2 DEF VariantRows
    <2>5. TypeOK'
      BY <1>t, <1>9, <2>1, <2>2, <2>4, DeleteTypes DEF PlaceOrder, TypeOK
    <2>6. \A c \in Variants : Kept(c) <=> Kept(c)'
      BY <2>2, <2>3 DEF Kept
    <2>7. LinesInv'
      BY <1>t, <2>2, <2>6, DeleteShrinks, LineTypes, LinesShrink
    <2>8. SuppliedIsAccountedFor'
      <3> SUFFICES ASSUME NEW c \in Variants
                   PROVE  variant'[c].stock + taken'[c] = supplied'[c]
        BY DEF SuppliedIsAccountedFor
      <3>1. variant[c].stock + taken[c] = supplied[c]
        BY <1>t DEF SuppliedIsAccountedFor
      <3>2. CASE c = v
        BY <2>1, <2>2, <2>3, <3>1, <3>2 DEF VariantRows
      <3>3. CASE c # v
        BY <2>2, <3>1, <3>3
      <3> QED
        BY <3>2, <3>3
    <2>9. OrderedVariantsStay'
      BY <1>t, <2>2, <2>6 DEF OrderedVariantsStay
    <2> QED
      BY <1>s, <2>5, <2>7, <2>8, <2>9
  <1>10. ASSUME NEW v \in Variants, NEW q \in Quantities, CancelOrder(v, q) PROVE CartInv'
    <2>1. /\ q \in Nat \ {0} /\ variant[v] \in VariantRows /\ taken[v] \in Nat
          /\ q <= taken[v]
      BY <1>t, <1>10, CartAssumption DEF CancelOrder, TypeOK
    <2>2. /\ UNCHANGED <<ordered, supplied, line, req>>
          /\ variant'[v] = [variant[v] EXCEPT !.stock = variant[v].stock + q]
          /\ taken'[v] = taken[v] - q
          /\ \A c \in Variants \ {v} : variant'[c] = variant[c] /\ taken'[c] = taken[c]
      BY <1>t, <1>10 DEF CancelOrder, TypeOK
    <2>3. variant'[v].state = variant[v].state /\ variant'[v].stock = variant[v].stock + q
      BY <2>1, <2>2 DEF VariantRows
    <2>4. [variant[v] EXCEPT !.stock = variant[v].stock + q] \in VariantRows
      BY <2>1 DEF VariantRows
    <2>5. TypeOK'
      BY <1>t, <1>10, <2>1, <2>2, <2>4 DEF CancelOrder, TypeOK
    <2>6. \A c \in Variants : Kept(c) <=> Kept(c)'
      BY <2>2, <2>3 DEF Kept
    <2>7. LinesInv'
      BY <1>t, <2>2, <2>6, LineTypes, LinesShrink DEF InCart
    <2>8. SuppliedIsAccountedFor'
      <3> SUFFICES ASSUME NEW c \in Variants
                   PROVE  variant'[c].stock + taken'[c] = supplied'[c]
        BY DEF SuppliedIsAccountedFor
      <3>1. variant[c].stock + taken[c] = supplied[c]
        BY <1>t DEF SuppliedIsAccountedFor
      <3>2. CASE c = v
        BY <2>1, <2>2, <2>3, <3>1, <3>2 DEF VariantRows
      <3>3. CASE c # v
        BY <2>2, <3>1, <3>3
      <3> QED
        BY <3>2, <3>3
    <2>9. OrderedVariantsStay'
      <3>1. taken'[v] > 0 => taken[v] > 0
        BY <2>1, <2>2
      <3> QED
        BY <1>t, <2>2, <2>6, <3>1 DEF OrderedVariantsStay
    <2> QED
      BY <1>s, <2>5, <2>7, <2>8, <2>9
  <1>11. CASE UNCHANGED vars
    <2>1. UNCHANGED <<variant, line, taken, ordered, supplied, req>>
      BY <1>11 DEF vars, shelfVars
    <2> QED
      BY <1>t, <1>s, <2>1
      DEF TypeOK, LinesInv, OneLinePerVariant, LinesHaveVariants, OrderedVariantsStay,
          SuppliedIsAccountedFor, InCart, Kept
  <1> QED
    BY <1>1, <1>2, <1>3, <1>4, <1>5, <1>6, <1>7, <1>8, <1>9, <1>10, <1>11 DEF Next

LEMMA CartInit == Init => CartInv
  <1> SUFFICES ASSUME Init PROVE CartInv
    OBVIOUS
  <1>1. TypeOK
    BY DEF Init, TypeOK, VariantRows, RowStates, LineRows, Requests
  <1>2. \A l \in Lines : ~InCart(l)
    BY DEF Init, InCart, NoLine
  <1>3. OneLinePerVariant /\ LinesHaveVariants
    BY <1>2 DEF OneLinePerVariant, LinesHaveVariants
  <1>4. OrderedVariantsStay /\ SuppliedIsAccountedFor
    BY DEF Init, OrderedVariantsStay, SuppliedIsAccountedFor
  <1> QED
    BY <1>1, <1>3, <1>4 DEF CartInv
-----------------------------------------------------------------------------
(* The theorems *)

\* CartInv holds in every reachable state of carts, variants and the orders that
\* touch them.
THEOREM CartCorrect == Spec => []CartInv
  BY CartInit, CartStep, PTL DEF Spec

\* The columns keep their types; stock never goes below zero.
THEOREM CartTypesCorrect == Spec => []TypeOK
  <1>1. CartInv => TypeOK
    BY DEF CartInv
  <1> QED
    BY <1>1, CartCorrect, PTL

\* add creates no second line for a variant, however adds race.
THEOREM OneLineCorrect == Spec => []OneLinePerVariant
  <1>1. CartInv => OneLinePerVariant
    BY DEF CartInv
  <1> QED
    BY <1>1, CartCorrect, PTL

\* No cart line is left behind by the removal of a variant.
THEOREM LinesCorrect == Spec => []LinesHaveVariants
  <1>1. CartInv => LinesHaveVariants
    BY DEF CartInv
  <1> QED
    BY <1>1, CartCorrect, PTL

\* A variant that was ordered is never removed.
THEOREM OrderedCorrect == Spec => []OrderedVariantsStay
  <1>1. CartInv => OrderedVariantsStay
    BY DEF CartInv
  <1> QED
    BY <1>1, CartCorrect, PTL

\* An admin's stock edit loses no sale and no cancellation.
THEOREM SuppliedCorrect == Spec => []SuppliedIsAccountedFor
  <1>1. CartInv => SuppliedIsAccountedFor
    BY DEF CartInv
  <1> QED
    BY <1>1, CartCorrect, PTL
=============================================================================
