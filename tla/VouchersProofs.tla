--------------------------- MODULE VouchersProofs ---------------------------
(***************************************************************************)
(* VouchersInv, which has the safety properties of module Vouchers as its  *)
(* conjuncts, is inductive; the listings agree whenever the types are      *)
(* right.  All of it for any vouchers, orders, clients, amounts and times. *)
(***************************************************************************)
EXTENDS Vouchers, FiniteSetTheorems, TLAPS

-----------------------------------------------------------------------------
(* Amounts *)

\* The arithmetic of an order's columns: rounding the total instead of its parts costs
\* one hundredth at most, the tolerance of amountsMatch, when half a hundredth is
\* rounded up on both sides.
THEOREM RoundedOnce ==
  ASSUME NEW a \in Nat, NEW d \in Nat
  PROVE  Stored(a * 10000 - d) \in {a * 100 - Stored(d), a * 100 - Stored(d) + 1}
  <1> DEFINE q == (d + 50) \div 100
             p == (a * 10000 - d + 50) \div 100
  <1>1. q \in Nat /\ 100 * q <= d + 50 /\ d + 50 < 100 * q + 100
    OBVIOUS
  <1>2. p \in Int /\ 100 * p <= a * 10000 - d + 50 /\ a * 10000 - d + 50 < 100 * p + 100
    OBVIOUS
  <1> HIDE DEF p, q
  <1>3. p = a * 100 - q \/ p = a * 100 - q + 1
    BY <1>1, <1>2
  <1> QED
    BY <1>3 DEF p, q, Stored

\* A discount within the subtotal is within it after rounding too.
LEMMA RoundedBelow ==
  ASSUME NEW s \in Nat, NEW d \in Nat, d <= s * 10000
  PROVE  Stored(d) \in Nat /\ Stored(d) <= s * 100
  BY DEF Stored

\* The rule of vouchers.service.ts and the one of orders.service.ts give the same
\* discount on every voucher and every subtotal, between nothing and the subtotal.
THEOREM DiscountBounds ==
  ASSUME NEW row \in VoucherRows, NEW s \in Nat
  PROVE  /\ OrderDiscount(row, s) \in Nat
         /\ OrderDiscount(row, s) <= s * 10000
         /\ OrderDiscount(row, s) = CalculateDiscount(row, s)
  <1> DEFINE full == IF row.type = "PERCENTAGE" THEN s * row.value ELSE row.value * 100
  <1>1. row.value \in Nat /\ row.max \in Nat \cup {None}
    BY DEF VoucherRows
  <1>2. s * row.value \in Nat
    BY <1>1
  <1>3. full \in Nat
    BY <1>1, <1>2
  <1> HIDE DEF full
  <1>4. Capped(full, row.max) \in Nat
    BY <1>1, <1>3 DEF Capped, Least
  <1>5. OrderDiscount(row, s) = Least(Capped(full, row.max), s * 10000)
    BY DEF OrderDiscount, full
  <1>6. CalculateDiscount(row, s) = Least(Capped(full, row.max), s * 10000)
    BY DEF CalculateDiscount, full
  <1> QED
    BY <1>4, <1>5, <1>6 DEF Least

\* Two rows of the same worth give the same discount.
LEMMA SameWorth ==
  ASSUME NEW r1, NEW r2, Worth(r1) = Worth(r2), NEW s
  PROVE  CalculateDiscount(r1, s) = CalculateDiscount(r2, s)
  <1>1. r1.type = r2.type /\ r1.value = r2.value /\ r1.max = r2.max
    BY DEF Worth
  <1> QED
    BY <1>1 DEF CalculateDiscount
-----------------------------------------------------------------------------
(* Types *)

\* A voucher that exists is a complete row, and a complete row exists.
LEMMA RowOfVoucher ==
  ASSUME TypeOK, NEW v \in Vouchers, Exists(v)
  PROVE  voucher[v] \in VoucherRows
  BY DEF TypeOK, Exists

LEMMA RowIsVoucher ==
  ASSUME NEW r \in VoucherRows
  PROVE  r # NoVoucher
  <1>1. r.code \in Codes
    BY DEF VoucherRows
  <1> QED
    BY <1>1, VouchersAssumption DEF NoVoucher

\* An order that is placed is a complete row.
LEMMA OrderTypes ==
  ASSUME TypeOK, NEW o \in Orders, Placed(o)
  PROVE  order[o] \in OrderRows
  BY DEF TypeOK, Placed

\* What the type invariant says of a request, by what it is doing.
LEMMA RequestTypes ==
  ASSUME TypeOK, NEW w \in Workers
  PROVE  /\ req[w].op = "quoted" =>
              req[w] \in [op : {"quoted"}, code : Codes, id : Vouchers, subtotal : Nat,
                          quote : Nat \cup {None}]
         /\ req[w].op = "placing" =>
              req[w] \in [op : {"placing"}, id : Vouchers, seen : VoucherRows, subtotal : Nat,
                          method : ShippingMethods, quote : Nat \cup {None}]
         /\ req[w].op = "removing" => req[w] \in [op : {"removing"}, id : Vouchers]
  <1>1. req[w] \in Requests
    BY DEF TypeOK
  <1> QED
    BY <1>1 DEF Requests, Idle

LEMMA RequestMoves ==
  ASSUME TypeOK, NEW w \in Workers, NEW r \in Requests, req' = [req EXCEPT ![w] = r]
  PROVE  /\ req' \in [Workers -> Requests]
         /\ req'[w] = r
         /\ \A x \in Workers \ {w} : req'[x] = req[x]
  BY DEF TypeOK

\* The fields of a body, one by one.
LEMMA BodyFields ==
  ASSUME NEW b \in Bodies
  PROVE  /\ b.code \in Spellings \cup {Absent} /\ b.type \in VoucherTypes \cup {Absent}
         /\ b.value \in Nat \cup {Absent} /\ b.min \in Nat \cup {Absent}
         /\ b.max \in Nat \cup {None, Absent} /\ b.quota \in (Nat \ {0}) \cup {Absent}
         /\ b.from \in Nat \cup {Absent} /\ b.to \in Nat \cup {Absent}
         /\ b.active \in BOOLEAN \cup {Absent}
  BY Zenon DEF Bodies

\* A body put over a row, or over the defaults, gives a row.
LEMMA MergedType ==
  ASSUME NEW row \in VoucherRows, NEW b \in Bodies
  PROVE  Merged(row, b) \in VoucherRows
  <1>1. /\ row.code \in Codes /\ row.type \in VoucherTypes /\ row.value \in Nat
        /\ row.min \in Nat /\ row.max \in Nat \cup {None} /\ row.quota \in Nat
        /\ row.used \in Nat /\ row.from \in Nat /\ row.to \in Nat
    BY DEF VoucherRows
  <1>2. row.active \in BOOLEAN
    BY Zenon DEF VoucherRows
  <1>3. (IF b.code = Absent THEN row.code ELSE Upper[b.code]) \in Codes
    BY <1>1, BodyFields, VouchersAssumption
  <1>4. Given(b.type, row.type) \in VoucherTypes
    BY <1>1, BodyFields, Zenon DEF Given
  <1>5. /\ Given(b.value, row.value) \in Nat /\ Given(b.min, row.min) \in Nat
        /\ Given(b.from, row.from) \in Nat /\ Given(b.to, row.to) \in Nat
    BY <1>1, BodyFields, Zenon DEF Given
  <1>6. Given(b.max, row.max) \in Nat \cup {None}
    BY <1>1, BodyFields, Zenon DEF Given
  <1>7. Given(b.quota, row.quota) \in Nat
    BY <1>1, BodyFields, Zenon DEF Given
  <1>8. Given(b.active, row.active) \in BOOLEAN
    BY <1>2, BodyFields, Zenon DEF Given
  <1> QED
    BY <1>1, <1>3, <1>4, <1>5, <1>6, <1>7, <1>8, Zenon DEF Merged, VoucherRows

LEMMA DefaultsType ==
  ASSUME TypeOK, NEW b \in NewVouchers
  PROVE  Defaults(b) \in VoucherRows
  <1>1. b \in Bodies /\ Absent \notin {b.code, b.type, b.value, b.quota, b.to}
    BY VouchersAssumption
  <1>2. Upper[b.code] \in Codes
    BY <1>1, BodyFields, VouchersAssumption
  <1>3. b.type \in VoucherTypes /\ b.value \in Nat /\ b.quota \in Nat /\ b.to \in Nat
    BY <1>1, BodyFields, Zenon
  <1>4. now \in Nat
    BY VouchersAssumption DEF TypeOK
  <1> QED
    BY <1>2, <1>3, <1>4 DEF Defaults, VoucherRows
-----------------------------------------------------------------------------
(* Steps that touch one part of the state *)

\* The properties that only orders have.
OrdersInv == QuotesAreKept /\ TotalsAddUp /\ OrdersKeepTheirVoucherUnlessLate

\* Orders that are placed keep their amounts, and their voucher but for late ones.
LEMMA OrdersStay ==
  ASSUME OrdersInv,
         \A o \in Orders : Placed(o)' =>
           /\ Placed(o)
           /\ \/ order'[o].voucher = order[o].voucher
              \/ order[o].late
           /\ order'[o].reserved = order[o].reserved /\ order'[o].late = order[o].late
           /\ order'[o].method = order[o].method /\ order'[o].subtotal = order[o].subtotal
           /\ order'[o].discount = order[o].discount /\ order'[o].total = order[o].total
           /\ order'[o].quoted = order[o].quoted
  PROVE  OrdersInv'
  BY DEF OrdersInv, QuotesAreKept, TotalsAddUp, OrdersKeepTheirVoucherUnlessLate

\* What those properties say of one order that was just placed.
RowRight(r) ==
  /\ r.total \in {r.subtotal * 100 + ShippingCost(r.method) * 100 - r.discount,
                  r.subtotal * 100 + ShippingCost(r.method) * 100 - r.discount + 1}
  /\ r.discount <= r.subtotal * 100
  /\ r.quoted # None => r.discount = Stored(r.quoted)
  /\ r.voucher = r.reserved

\* An order is right when its discount is within its subtotal and its quote, if it
\* has one, is that discount.
LEMMA PlacedRight ==
  ASSUME NEW v \in Vouchers \cup {None}, NEW s \in Nat,
         NEW m \in ShippingMethods, NEW d \in Nat, d <= s * 10000,
         NEW q \in {None, d}, NEW late \in BOOLEAN
  PROVE  LET row == OrderRow(v, s, m, d, q, late)
         IN  row \in OrderRows /\ RowRight(row) /\ row.voucher = v /\ row.late = late
  <1> DEFINE row == OrderRow(v, s, m, d, q, late)
  <1>1. ShippingCost(m) \in Nat
    BY DEF ShippingCost
  <1>2. Stored(d) \in Nat /\ Stored(d) <= s * 100
    BY RoundedBelow
  <1>3. PICK a \in Nat : a = s + ShippingCost(m)
    BY <1>1
  <1>4. Total(s, m, d) = a * 10000 - d
    BY <1>3 DEF Total
  <1>5. row.total = Stored(a * 10000 - d)
    BY <1>4 DEF OrderRow
  <1>6. /\ row.voucher = v /\ row.reserved = v /\ row.late = late /\ row.method = m
        /\ row.subtotal = s /\ row.discount = Stored(d) /\ row.quoted = q
    BY DEF OrderRow
  <1>7. row.total \in {a * 100 - Stored(d), a * 100 - Stored(d) + 1}
    BY <1>5, RoundedOnce
  <1>8. Stored(Total(s, m, d)) \in Int
    BY <1>2, <1>4, <1>5, <1>7
  <1>9. row \in OrderRows
    BY <1>2, <1>8 DEF OrderRow, OrderRows
  <1> HIDE DEF row
  <1>10. RowRight(row)
    <2>1. a * 100 - Stored(d) = s * 100 + ShippingCost(m) * 100 - Stored(d)
      BY <1>1, <1>2, <1>3
    <2>2. row.total \in {s * 100 + ShippingCost(m) * 100 - Stored(d),
                        s * 100 + ShippingCost(m) * 100 - Stored(d) + 1}
      BY <1>7, <2>1
    <2>3. q # None => q = d
      OBVIOUS
    <2> QED
      BY <1>2, <1>6, <2>2, <2>3 DEF RowRight
  <1> QED
    BY <1>6, <1>9, <1>10 DEF row

\* An order that is right comes in.
LEMMA OrderComes ==
  ASSUME TypeOK, OrdersInv, NEW row \in OrderRows, RowRight(row), Insert(row)
  PROVE  /\ OrdersInv'
         /\ order' \in [Orders -> OrderRows \cup {NoOrder}]
         /\ \E o \in Orders : order'[o] = row /\ \A p \in Orders \ {o} : order'[p] = order[p]
  <1>1. PICK o \in Orders : ~Placed(o) /\ order' = [order EXCEPT ![o] = row]
    BY DEF Insert
  <1>2. order'[o] = row /\ \A p \in Orders \ {o} : order'[p] = order[p]
    BY <1>1 DEF TypeOK
  <1>3. order' \in [Orders -> OrderRows \cup {NoOrder}]
    BY <1>1 DEF TypeOK
  <1>4. \A p \in Orders \ {o} : Placed(p)' => Placed(p)
    BY <1>2 DEF Placed
  <1>5. TotalsAddUp'
    BY <1>2, <1>4 DEF OrdersInv, TotalsAddUp, RowRight
  <1>6. QuotesAreKept'
    BY <1>2, <1>4 DEF OrdersInv, QuotesAreKept, RowRight
  <1>7. OrdersKeepTheirVoucherUnlessLate'
    BY <1>2, <1>4 DEF OrdersInv, OrdersKeepTheirVoucherUnlessLate, RowRight
  <1> QED
    BY <1>2, <1>3, <1>5, <1>6, <1>7 DEF OrdersInv

\* The quotes hold on when no voucher appears or changes its worth, and requests stay
\* as they are or lose their quote.
LEMMA QuotesStay ==
  ASSUME QuotesHold, deleted \subseteq deleted',
         \A v \in Vouchers : Exists(v) => Exists(v)' \/ v \in deleted',
         \A w \in Workers : req[w].op \in {"quoted", "placing"} => req[w].id \in Vouchers,
         \A w \in Workers : req'[w].op \in {"quoted", "placing"} =>
           /\ req'[w].op = req[w].op /\ req'[w].id = req[w].id
           /\ req'[w].subtotal = req[w].subtotal
           /\ req'[w].op = "placing" => req'[w].seen = req[w].seen
           /\ req'[w].quote \in {req[w].quote, None},
         \A w \in Workers :
           req'[w].op = "quoted" /\ req'[w].quote # None /\ Exists(req[w].id)' =>
             Exists(req[w].id) /\ Worth(voucher'[req[w].id]) = Worth(voucher[req[w].id])
  PROVE  QuotesHold'
  <1> SUFFICES ASSUME NEW w \in Workers
               PROVE  LET r == req[w] IN
                      (/\ r.op \in {"quoted", "placing"} => Exists(r.id) \/ r.id \in deleted
                       /\ r.op = "quoted" /\ r.quote # None /\ Exists(r.id) =>
                            r.quote = CalculateDiscount(voucher[r.id], r.subtotal)
                       /\ r.op = "placing" /\ r.quote # None =>
                            r.quote = CalculateDiscount(r.seen, r.subtotal))'
    BY DEF QuotesHold
  <1>1. CASE req'[w].op = "quoted"
    <2>1. req[w].op = "quoted" /\ req'[w].id = req[w].id /\ req'[w].subtotal = req[w].subtotal
          /\ req'[w].quote \in {req[w].quote, None} /\ req[w].id \in Vouchers
      BY <1>1
    <2>2. Exists(req[w].id)' \/ req[w].id \in deleted'
      BY <2>1 DEF QuotesHold
    <2>3. ASSUME req'[w].quote # None, Exists(req[w].id)'
          PROVE  req'[w].quote = CalculateDiscount(voucher'[req[w].id], req[w].subtotal)
      <3>1. Exists(req[w].id) /\ Worth(voucher'[req[w].id]) = Worth(voucher[req[w].id])
        BY <1>1, <2>3
      <3>2. req'[w].quote = CalculateDiscount(voucher[req[w].id], req[w].subtotal)
        BY <2>1, <2>3, <3>1 DEF QuotesHold
      <3> QED
        BY <3>1, <3>2, SameWorth
    <2> QED
      BY <1>1, <2>1, <2>2, <2>3
  <1>2. CASE req'[w].op = "placing"
    BY <1>2 DEF QuotesHold
  <1> QED
    BY <1>1, <1>2

\* The orders a removal has not counted stay late when orders and removals stay.
LEMMA UncountedStay ==
  ASSUME UncountedAreLate, order' = order,
         \A w \in Workers : Doing(w, "removing")' => Doing(w, "removing") /\ req'[w].id = req[w].id
  PROVE  UncountedAreLate'
  BY DEF UncountedAreLate, OrdersWith, Placed

\* Vouchers keep their percentages when rows that change keep them.
LEMMA PercentagesStay ==
  ASSUME PercentageAtMostHundred,
         \A v \in Vouchers : Exists(v)' =>
           \/ /\ Exists(v)
              /\ voucher'[v].type = voucher[v].type /\ voucher'[v].value = voucher[v].value
           \/ voucher'[v].type = "PERCENTAGE" => voucher'[v].value <= 100 * 100
  PROVE  PercentageAtMostHundred'
  BY DEF PercentageAtMostHundred, Live

\* One voucher gets a new row of the same worth.
LEMMA UseChanges ==
  ASSUME TypeOK, PercentageAtMostHundred, NEW v \in Vouchers, Exists(v),
         NEW r \in VoucherRows, Worth(r) = Worth(voucher[v]), voucher' = [voucher EXCEPT ![v] = r]
  PROVE  /\ voucher' \in [Vouchers -> VoucherRows \cup {NoVoucher}]
         /\ PercentageAtMostHundred'
         /\ \A x \in Vouchers : (Exists(x)' <=> Exists(x)) /\ Worth(voucher'[x]) = Worth(voucher[x])
  <1>1. voucher'[v] = r /\ \A x \in Vouchers \ {v} : voucher'[x] = voucher[x]
    BY DEF TypeOK
  <1>2. Exists(v)'
    BY <1>1, RowIsVoucher DEF Exists
  <1>3. \A x \in Vouchers \ {v} : Exists(x)' <=> Exists(x)
    BY <1>1 DEF Exists
  <1>4. r.type = voucher[v].type /\ r.value = voucher[v].value
    BY DEF Worth
  <1>5. PercentageAtMostHundred'
    BY <1>1, <1>3, <1>4, PercentagesStay
  <1> QED
    BY <1>1, <1>2, <1>3, <1>5 DEF TypeOK
-----------------------------------------------------------------------------
(* The inductive step *)

LEMMA AdminStep ==
  ASSUME VouchersInv, Admin
  PROVE  VouchersInv'
  <1>t. /\ TypeOK /\ PercentageAtMostHundred /\ OrdersInv
        /\ QuotesHold /\ UncountedAreLate /\ KeysHold
    BY DEF VouchersInv, OrdersInv
  <1>s. ASSUME TypeOK', PercentageAtMostHundred', OrdersInv', QuotesHold', UncountedAreLate',
               KeysHold'
        PROVE  VouchersInv'
    BY <1>s DEF VouchersInv, OrdersInv
  <1>k. UNCHANGED order /\ (\A x \in Vouchers : Exists(x) => Exists(x)') => KeysHold'
    BY <1>t DEF KeysHold, Placed, TypeOK, OrderRows, Exists
  <1>i. \A w \in Workers : req[w].op \in {"quoted", "placing"} => req[w].id \in Vouchers
    BY <1>t, RequestTypes
  <1>u. UNCHANGED order => OrdersInv'
    BY <1>t DEF OrdersInv, QuotesAreKept, TotalsAddUp, OrdersKeepTheirVoucherUnlessLate, Placed
  <1>1. ASSUME NEW v \in Vouchers, NEW b \in NewVouchers, CreateVoucher(v, b)
        PROVE  VouchersInv'
    <2> DEFINE row == Merged(Defaults(b), b)
    <2>1. row \in VoucherRows
      BY <1>t, DefaultsType, MergedType, VouchersAssumption
    <2>2. /\ ~Exists(v) /\ v \notin deleted /\ ValidPercentage(row, b)
          /\ voucher' = [voucher EXCEPT ![v] = row]
          /\ UNCHANGED <<deleted, order, now, req>>
      BY <1>1 DEF CreateVoucher
    <2>3. row.type = "PERCENTAGE" => row.value <= 100 * 100
      <3>1. /\ row.type = Given(b.type, Defaults(b).type)
            /\ row.value = Given(b.value, Defaults(b).value)
        BY DEF Merged
      <3>2. Given(b.type, row.type) = row.type /\ Given(b.value, row.value) = row.value
        BY <3>1 DEF Given
      <3> QED
        BY <2>2, <3>2 DEF ValidPercentage
    <2> HIDE DEF row
    <2>4. voucher'[v] = row /\ \A x \in Vouchers \ {v} : voucher'[x] = voucher[x]
      BY <1>t, <2>2 DEF TypeOK
    <2>5. \A x \in Vouchers \ {v} : Exists(x)' <=> Exists(x)
      BY <2>4 DEF Exists
    <2>6. Exists(v)'
      BY <2>1, <2>4, RowIsVoucher DEF Exists
    <2>7. PercentageAtMostHundred'
      BY <1>t, <2>3, <2>4, <2>5, PercentagesStay
    <2>8. TypeOK'
      BY <1>t, <2>1, <2>2 DEF TypeOK
    <2>9. \A w \in Workers : req[w].op \in {"quoted", "placing"} => req[w].id # v
      BY <1>t, <2>2 DEF QuotesHold
    <2>10. QuotesHold'
      BY <1>t, <1>i, <2>2, <2>4, <2>5, <2>6, <2>9, QuotesStay
    <2>11. UncountedAreLate'
      BY <1>t, <2>2, UncountedStay DEF Doing
    <2> QED
      BY <1>s, <1>u, <1>k, <2>2, <2>5, <2>6, <2>7, <2>8, <2>10, <2>11
  <1>2. ASSUME NEW v \in Vouchers, NEW b \in Changes, UpdateVoucher(v, b)
        PROVE  VouchersInv'
    <2> DEFINE row == Merged(voucher[v], b)
    <2>1. /\ Exists(v) /\ ValidPercentage(voucher[v], b)
          /\ voucher' = [voucher EXCEPT ![v] = row]
          /\ req' = Outdated(v, row)
          /\ UNCHANGED <<deleted, order, now>>
      BY <1>2 DEF UpdateVoucher
    <2>2. row \in VoucherRows
      BY <1>t, <2>1, RowOfVoucher, MergedType, VouchersAssumption
    <2>3. row.type = "PERCENTAGE" => row.value <= 100 * 100
      BY <2>1 DEF Merged, ValidPercentage
    <2> HIDE DEF row
    <2>4. voucher'[v] = row /\ \A x \in Vouchers \ {v} : voucher'[x] = voucher[x]
      BY <1>t, <2>1 DEF TypeOK
    <2>5. \A x \in Vouchers : Exists(x)' <=> Exists(x)
      BY <2>1, <2>2, <2>4, RowIsVoucher DEF Exists
    <2>6. PercentageAtMostHundred'
      BY <1>t, <2>3, <2>4, <2>5, PercentagesStay
    <2>7. \A w \in Workers :
            \/ req'[w] = req[w] /\ (req[w].op \in {"quoted", "placing"} /\ req[w].id = v =>
                                      Worth(row) = Worth(voucher[v]))
            \/ req[w].op \in {"quoted", "placing"} /\ req'[w] = [req[w] EXCEPT !.quote = None]
      BY <2>1 DEF Outdated
    <2>8. req' \in [Workers -> Requests]
      <3>1. \A w \in Workers : req[w].op \in {"quoted", "placing"} =>
              [req[w] EXCEPT !.quote = None] \in Requests
        BY <1>t, RequestTypes DEF Requests
      <3>2. \A w \in Workers : req'[w] \in Requests
        BY <1>t, <2>7, <3>1 DEF TypeOK
      <3> QED
        BY <2>1, <3>2 DEF Outdated
    <2>9. TypeOK'
      BY <1>t, <2>1, <2>2, <2>8 DEF TypeOK
    <2>10. \A w \in Workers :
             /\ req'[w].op = req[w].op
             /\ req[w].op \in {"quoted", "placing"} =>
                  /\ req'[w].id = req[w].id /\ req'[w].subtotal = req[w].subtotal
                  /\ req[w].op = "placing" => req'[w].seen = req[w].seen
                  /\ req'[w].quote \in {req[w].quote, None}
                  /\ req'[w].quote # None /\ req[w].id = v => Worth(row) = Worth(voucher[v])
             /\ req[w].op = "removing" => req'[w] = req[w]
      <3> SUFFICES ASSUME NEW w \in Workers
                   PROVE  /\ req'[w].op = req[w].op
                          /\ req[w].op \in {"quoted", "placing"} =>
                               /\ req'[w].id = req[w].id /\ req'[w].subtotal = req[w].subtotal
                               /\ req[w].op = "placing" => req'[w].seen = req[w].seen
                               /\ req'[w].quote \in {req[w].quote, None}
                               /\ req'[w].quote # None /\ req[w].id = v
                                    => Worth(row) = Worth(voucher[v])
                          /\ req[w].op = "removing" => req'[w] = req[w]
        OBVIOUS
      <3>1. CASE /\ req'[w] = req[w]
                 /\ req[w].op \in {"quoted", "placing"} /\ req[w].id = v =>
                      Worth(row) = Worth(voucher[v])
        BY <3>1
      <3>2. CASE req[w].op \in {"quoted", "placing"} /\ req'[w] = [req[w] EXCEPT !.quote = None]
        BY <1>t, <3>2, RequestTypes
      <3> QED
        BY <2>7, <3>1, <3>2
    <2>11. QuotesHold'
      BY <1>t, <1>i, <2>1, <2>4, <2>5, <2>10, QuotesStay
    <2>12. UncountedAreLate'
      BY <1>t, <2>1, <2>10, UncountedStay DEF Doing
    <2> QED
      BY <1>s, <1>u, <1>k, <2>1, <2>5, <2>6, <2>9, <2>11, <2>12
  <1>3. ASSUME NEW v \in Vouchers, Deactivate(v) PROVE VouchersInv'
    <2> DEFINE row == [voucher[v] EXCEPT !.active = FALSE]
    <2>1. /\ Exists(v) /\ voucher' = [voucher EXCEPT ![v] = row]
          /\ UNCHANGED <<deleted, order, now, req>>
      BY <1>3 DEF Deactivate
    <2>2. row \in VoucherRows /\ Worth(row) = Worth(voucher[v])
      BY <1>t, <2>1, RowOfVoucher DEF VoucherRows, Worth
    <2> HIDE DEF row
    <2>3. /\ voucher' \in [Vouchers -> VoucherRows \cup {NoVoucher}]
          /\ PercentageAtMostHundred'
          /\ \A x \in Vouchers :
               (Exists(x)' <=> Exists(x)) /\ Worth(voucher'[x]) = Worth(voucher[x])
      BY <1>t, <2>1, <2>2, UseChanges
    <2>4. TypeOK'
      BY <1>t, <2>1, <2>3 DEF TypeOK
    <2>5. QuotesHold'
      BY <1>t, <1>i, <2>1, <2>3, QuotesStay
    <2>6. UncountedAreLate'
      BY <1>t, <2>1, UncountedStay DEF Doing
    <2> QED
      BY <1>s, <1>u, <1>k, <2>1, <2>3, <2>4, <2>5, <2>6
  <1>4. ASSUME NEW v \in Vouchers, NEW w \in Workers, RemoveRead(w, v) PROVE VouchersInv'
    <2> DEFINE r == [op |-> "removing", id |-> v]
    <2>1. /\ OrdersWith(v) = {} /\ req' = [req EXCEPT ![w] = r]
          /\ UNCHANGED <<voucher, deleted, order, now>>
      BY <1>4 DEF RemoveRead, Unused
    <2>2. r \in Requests
      BY DEF Requests
    <2>3. r.op = "removing" /\ r.id = v
      OBVIOUS
    <2> HIDE DEF r
    <2>4. req' \in [Workers -> Requests] /\ req'[w] = r /\ \A x \in Workers \ {w} : req'[x] = req[x]
      BY <1>t, <2>1, <2>2, RequestMoves
    <2>5. TypeOK'
      BY <1>t, <2>1, <2>4 DEF TypeOK
    <2>6. QuotesHold'
      <3>1. \A x \in Vouchers : Exists(x)' <=> Exists(x)
        BY <2>1 DEF Exists
      <3> QED
        BY <1>t, <1>i, <2>1, <2>3, <2>4, <3>1, QuotesStay
    <2>7. UncountedAreLate'
      BY <1>t, <2>1, <2>3, <2>4 DEF UncountedAreLate, OrdersWith, Doing, Placed
    <2>8. PercentageAtMostHundred'
      BY <1>t, <2>1 DEF PercentageAtMostHundred, Live, Exists
    <2> QED
      BY <1>s, <1>u, <1>k, <2>1, <2>5, <2>6, <2>7, <2>8 DEF Exists
  <1> QED
    BY <1>1, <1>2, <1>3, <1>4 DEF Admin

\* One client goes on to another request, which neither removes nor lies about a quote.
LEMMA RequestStep ==
  ASSUME VouchersInv, UNCHANGED <<voucher, deleted, order, now>>,
         NEW w \in Workers, NEW r \in Requests, req' = [req EXCEPT ![w] = r],
         r.op # "removing",
         r.op \in {"quoted", "placing"} => Exists(r.id),
         r.op = "quoted" => r.quote = CalculateDiscount(voucher[r.id], r.subtotal),
         r.op = "placing" /\ r.quote # None => r.quote = CalculateDiscount(r.seen, r.subtotal)
  PROVE  VouchersInv'
  <1>1. TypeOK /\ QuotesHold /\ UncountedAreLate
    BY DEF VouchersInv
  <1>2. req' \in [Workers -> Requests] /\ req'[w] = r /\ \A x \in Workers \ {w} : req'[x] = req[x]
    BY <1>1, RequestMoves
  <1>3. TypeOK'
    BY <1>1, <1>2 DEF TypeOK
  <1>4. \A x \in Vouchers : (Exists(x)' <=> Exists(x)) /\ voucher'[x] = voucher[x]
    BY DEF Exists
  <1>5. QuotesHold'
    <2> SUFFICES ASSUME NEW x \in Workers
                 PROVE  LET q == req[x] IN
                        (/\ q.op \in {"quoted", "placing"} => Exists(q.id) \/ q.id \in deleted
                         /\ q.op = "quoted" /\ q.quote # None /\ Exists(q.id) =>
                              q.quote = CalculateDiscount(voucher[q.id], q.subtotal)
                         /\ q.op = "placing" /\ q.quote # None =>
                              q.quote = CalculateDiscount(q.seen, q.subtotal))'
      BY DEF QuotesHold
    <2>1. CASE x = w
      BY <1>2, <2>1 DEF Exists
    <2>2. CASE x # w
      BY <1>1, <1>2, <2>2 DEF QuotesHold, Exists
    <2> QED
      BY <2>1, <2>2
  <1>6. UncountedAreLate'
    BY <1>1, <1>2, UncountedStay DEF Doing
  <1>7. (PercentageAtMostHundred /\ QuotesAreKept /\ TotalsAddUp /\ KeysHold
           /\ OrdersKeepTheirVoucherUnlessLate)'
    BY DEF VouchersInv, PercentageAtMostHundred, Live, QuotesAreKept, TotalsAddUp, KeysHold,
           OrdersKeepTheirVoucherUnlessLate, Placed, Exists
  <1> QED
    BY <1>3, <1>5, <1>6, <1>7 DEF VouchersInv

LEMMA ValidateStep ==
  ASSUME VouchersInv, NEW w \in Workers, NEW sp \in Spellings, NEW s \in Subtotals,
         Validate(w, sp, s)
  PROVE  VouchersInv'
  <1>1. PICK v \in Vouchers :
          /\ Exists(v)
          /\ req' = [req EXCEPT ![w] =
               [op |-> "quoted", code |-> Upper[sp], id |-> v, subtotal |-> s,
                quote |-> CalculateDiscount(voucher[v], s)]]
    BY DEF Validate, FindByCode
  <1> DEFINE r == [op |-> "quoted", code |-> Upper[sp], id |-> v, subtotal |-> s,
                   quote |-> CalculateDiscount(voucher[v], s)]
  <1>2. voucher[v] \in VoucherRows
    BY <1>1, RowOfVoucher DEF VouchersInv
  <1>3. s \in Nat /\ Upper[sp] \in Codes
    BY VouchersAssumption
  <1>4. CalculateDiscount(voucher[v], s) \in Nat
    BY <1>2, <1>3, DiscountBounds
  <1>5. r \in Requests
    BY <1>3, <1>4 DEF Requests
  <1>6. r.op = "quoted" /\ r.id = v /\ r.subtotal = s /\ r.quote = CalculateDiscount(voucher[v], s)
    OBVIOUS
  <1>7. req' = [req EXCEPT ![w] = r]
    BY <1>1
  <1> HIDE DEF r
  <1> QED
    BY <1>1, <1>5, <1>6, <1>7, RequestStep DEF Validate

LEMMA PlaceStep ==
  ASSUME VouchersInv, NEW w \in Workers, NEW c, NEW s \in Nat, NEW m \in ShippingMethods,
         NEW q, Place(w, c, s, m, q),
         q.id \in Vouchers => q.quote \in Nat \cup {None},
         q.id \in Vouchers /\ Exists(q.id) /\ q.quote # None =>
           q.quote = CalculateDiscount(voucher[q.id], s)
  PROVE  VouchersInv'
  <1>1. PICK v \in Vouchers :
          /\ Exists(v)
          /\ req' = [req EXCEPT ![w] =
               [op |-> "placing", id |-> v, seen |-> voucher[v], subtotal |-> s,
                method |-> m, quote |-> IF q.id = v THEN q.quote ELSE None]]
    BY DEF Place, FindByCode
  <1> DEFINE told == IF q.id = v THEN q.quote ELSE None
             r == [op |-> "placing", id |-> v, seen |-> voucher[v], subtotal |-> s,
                   method |-> m, quote |-> told]
  <1>2. voucher[v] \in VoucherRows
    BY <1>1, RowOfVoucher DEF VouchersInv
  <1>3. told \in Nat \cup {None} /\ (told # None => told = CalculateDiscount(voucher[v], s))
    BY <1>1
  <1>4. req' = [req EXCEPT ![w] = r]
    BY <1>1
  <1> HIDE DEF told
  <1>5. r \in Requests
    BY <1>2, <1>3 DEF Requests
  <1>6. r.op = "placing" /\ r.id = v /\ r.subtotal = s /\ r.quote = told /\ r.seen = voucher[v]
    OBVIOUS
  <1> HIDE DEF r
  <1> QED
    BY <1>1, <1>3, <1>4, <1>5, <1>6, RequestStep DEF Place

LEMMA PlacesStep ==
  ASSUME VouchersInv, NEW w \in Workers,
         \/ \E sp \in Spellings, s \in Subtotals, m \in Methods : PlaceUnasked(w, sp, s, m)
         \/ \E m \in Methods : PlaceQuoted(w, m)
  PROVE  VouchersInv'
  <1>1. ASSUME NEW sp \in Spellings, NEW s \in Subtotals, NEW m \in Methods,
               PlaceUnasked(w, sp, s, m)
        PROVE  VouchersInv'
    <2> DEFINE q == [id |-> None]
    <2>1. Place(w, Upper[sp], s, m, q)
      BY <1>1 DEF PlaceUnasked
    <2>2. q.id \notin Vouchers
      BY VouchersAssumption
    <2>3. s \in Nat /\ m \in ShippingMethods
      BY VouchersAssumption
    <2> HIDE DEF q
    <2> QED
      BY <2>1, <2>2, <2>3, PlaceStep
  <1>2. ASSUME NEW m \in Methods, PlaceQuoted(w, m) PROVE VouchersInv'
    <2>1. req[w].op = "quoted" /\ Place(w, req[w].code, req[w].subtotal, m, req[w])
      BY <1>2 DEF PlaceQuoted, Doing
    <2>2. req[w].id \in Vouchers /\ req[w].subtotal \in Nat /\ req[w].quote \in Nat \cup {None}
      BY <2>1, RequestTypes DEF VouchersInv
    <2>3. Exists(req[w].id) /\ req[w].quote # None =>
            req[w].quote = CalculateDiscount(voucher[req[w].id], req[w].subtotal)
      BY <2>1 DEF VouchersInv, QuotesHold
    <2>4. m \in ShippingMethods
      BY VouchersAssumption
    <2> QED
      BY <2>1, <2>2, <2>3, <2>4, PlaceStep
  <1> QED
    BY <1>1, <1>2

\* An order with a voucher: its discount is that of the row the customer was quoted
\* from, and a removal under way makes it late.
LEMMA PlaceCommitStep ==
  ASSUME VouchersInv, NEW w \in Workers, PlaceCommit(w)
  PROVE  VouchersInv'
  <1>t. /\ TypeOK /\ PercentageAtMostHundred /\ OrdersInv
        /\ QuotesHold /\ UncountedAreLate /\ KeysHold
    BY DEF VouchersInv, OrdersInv
  <1> DEFINE r == req[w]
             v == r.id
             d == OrderDiscount(r.seen, r.subtotal)
             late == BeingRemoved(v)
             row == OrderRow(v, r.subtotal, r.method, d, r.quote, late)
             used == [voucher[v] EXCEPT !.used = voucher[v].used + 1]
  <1>1. /\ r.op = "placing" /\ Exists(v)
        /\ voucher' = [voucher EXCEPT ![v] = used]
        /\ Insert(row)
        /\ req' = [req EXCEPT ![w] = Idle]
        /\ UNCHANGED <<deleted, now>>
    BY DEF PlaceCommit, Doing, ReserveGuard
  <1>2. /\ v \in Vouchers /\ r.seen \in VoucherRows /\ r.subtotal \in Nat
        /\ r.method \in ShippingMethods /\ r.quote \in Nat \cup {None}
    BY <1>t, <1>1, RequestTypes
  <1>3. /\ d \in Nat /\ d <= r.subtotal * 10000
        /\ d = CalculateDiscount(r.seen, r.subtotal)
    BY <1>2, DiscountBounds
  <1>4. r.quote \in {None, d}
    BY <1>t, <1>1, <1>3 DEF QuotesHold
  <1>5. late \in BOOLEAN
    BY DEF BeingRemoved
  <1>6. row \in OrderRows /\ RowRight(row) /\ row.voucher = v /\ row.late = late
    <2> HIDE DEF r, v, d, late
    <2> QED
      BY <1>2, <1>3, <1>4, <1>5, PlacedRight
  <1>7. used \in VoucherRows /\ Worth(used) = Worth(voucher[v])
    BY <1>t, <1>1, <1>2, RowOfVoucher DEF VoucherRows, Worth
  <1> HIDE DEF d, row, used
  <1>8. OrdersInv' /\ order' \in [Orders -> OrderRows \cup {NoOrder}]
    BY <1>t, <1>1, <1>6, OrderComes
  <1>9. PICK o \in Orders : order'[o] = row /\ \A x \in Orders \ {o} : order'[x] = order[x]
    BY <1>t, <1>1, <1>6, OrderComes
  <1>10. /\ voucher' \in [Vouchers -> VoucherRows \cup {NoVoucher}]
         /\ PercentageAtMostHundred'
         /\ \A x \in Vouchers : (Exists(x)' <=> Exists(x)) /\ Worth(voucher'[x]) = Worth(voucher[x])
    BY <1>t, <1>1, <1>2, <1>7, UseChanges
  <1>11. Idle \in Requests /\ Idle.op = "idle"
    BY DEF Requests, Idle
  <1>12. /\ req' \in [Workers -> Requests] /\ req'[w] = Idle
        /\ \A x \in Workers \ {w} : req'[x] = req[x]
    BY <1>t, <1>1, <1>11, RequestMoves
  <1>13. TypeOK'
    BY <1>t, <1>1, <1>8, <1>10, <1>12 DEF TypeOK
  <1>14. QuotesHold'
    <2>1. \A x \in Workers : req[x].op \in {"quoted", "placing"} => req[x].id \in Vouchers
      BY <1>t, RequestTypes
    <2> QED
      BY <1>t, <1>1, <1>10, <1>11, <1>12, <2>1, QuotesStay
  <1>15. UncountedAreLate'
    <2> SUFFICES ASSUME NEW x \in Workers, req'[x].op = "removing", NEW p \in Orders,
                        Placed(p)', order'[p].voucher = req'[x].id
                 PROVE  order'[p].late
      BY DEF UncountedAreLate, OrdersWith, Doing
    <2>1. x # w /\ req'[x] = req[x]
      BY <1>11, <1>12
    <2>2. CASE p = o
      <3>1. req[x].id = v
        BY <1>6, <1>9, <2>1, <2>2
      <3>2. late
        BY <2>1, <3>1 DEF BeingRemoved, Doing
      <3> QED
        BY <1>6, <1>9, <2>2, <3>2
    <2>3. CASE p # o
      BY <1>t, <1>9, <2>1, <2>3 DEF UncountedAreLate, OrdersWith, Doing, Placed
    <2> QED
      BY <2>2, <2>3
  <1>16. KeysHold'
    <2> SUFFICES ASSUME NEW p \in Orders, Placed(p)', order'[p].voucher # None
                 PROVE  voucher'[order'[p].voucher] # NoVoucher
      BY DEF KeysHold, Exists
    <2>1. CASE p = o
      <3>1. order'[p].voucher = v
        BY <1>6, <1>9, <2>1
      <3>2. voucher'[v] # NoVoucher
        BY <1>1, <1>2, <1>10 DEF Exists
      <3> QED
        BY <3>1, <3>2
    <2>2. CASE p # o
      <3>1. Placed(p) /\ order'[p] = order[p]
        BY <1>9, <2>2 DEF Placed
      <3>2. Exists(order[p].voucher) /\ order[p].voucher \in Vouchers
        BY <1>t, <3>1, OrderTypes DEF KeysHold, OrderRows
      <3> QED
        BY <1>10, <3>1, <3>2 DEF Exists
    <2> QED
      BY <2>1, <2>2
  <1> QED
    BY <1>8, <1>10, <1>13, <1>14, <1>15, <1>16 DEF VouchersInv, OrdersInv

\* An order without a voucher has no discount.
LEMMA PlainStep ==
  ASSUME VouchersInv, NEW s \in Subtotals, NEW m \in Methods, PlaceWithoutVoucher(s, m)
  PROVE  VouchersInv'
  <1>t. /\ TypeOK /\ OrdersInv /\ UncountedAreLate /\ KeysHold
    BY DEF VouchersInv, OrdersInv
  <1> DEFINE row == OrderRow(None, s, m, 0, None, FALSE)
  <1>1. Insert(row) /\ UNCHANGED <<voucher, deleted, now, req>>
    BY DEF PlaceWithoutVoucher
  <1>2. s \in Nat /\ m \in ShippingMethods
    BY VouchersAssumption
  <1>3. row \in OrderRows /\ RowRight(row) /\ row.voucher = None
    <2> DEFINE d == 0
               late == FALSE
    <2>1. d \in Nat /\ d <= s * 10000 /\ late \in BOOLEAN
      BY <1>2
    <2>2. row = OrderRow(None, s, m, d, None, late)
      OBVIOUS
    <2>3. PICK v \in Vouchers \cup {None} : v = None
      OBVIOUS
    <2> HIDE DEF d, late, row
    <2>4. PICK q \in {None, d} : q = None
      OBVIOUS
    <2>5. row = OrderRow(v, s, m, d, q, late)
      BY <2>2, <2>3, <2>4
    <2> QED
      BY <1>2, <2>1, <2>3, <2>5, PlacedRight
  <1> HIDE DEF row
  <1>4. OrdersInv' /\ order' \in [Orders -> OrderRows \cup {NoOrder}]
    BY <1>t, <1>1, <1>3, OrderComes
  <1>5. PICK o \in Orders : order'[o] = row /\ \A x \in Orders \ {o} : order'[x] = order[x]
    BY <1>t, <1>1, <1>3, OrderComes
  <1>6. TypeOK'
    BY <1>t, <1>1, <1>4 DEF TypeOK
  <1>7. (PercentageAtMostHundred /\ QuotesHold)'
    BY <1>1 DEF VouchersInv, PercentageAtMostHundred, Live, QuotesHold, Exists
  <1>8. UncountedAreLate'
    <2> SUFFICES ASSUME NEW x \in Workers, req[x].op = "removing", NEW p \in Orders,
                        Placed(p)', order'[p].voucher = req[x].id
                 PROVE  order'[p].late
      BY <1>1 DEF UncountedAreLate, OrdersWith, Doing
    <2>1. req[x].id \in Vouchers
      BY <1>t, RequestTypes
    <2>2. p # o
      BY <1>3, <1>5, <2>1, VouchersAssumption
    <2> QED
      BY <1>t, <1>5, <2>2 DEF UncountedAreLate, OrdersWith, Doing, Placed
  <1>9. KeysHold'
    BY <1>t, <1>1, <1>3, <1>5 DEF KeysHold, Placed, Exists
  <1> QED
    BY <1>4, <1>6, <1>7, <1>8, <1>9 DEF VouchersInv, OrdersInv

LEMMA CancelStep ==
  ASSUME VouchersInv, NEW o \in Orders, Cancel(o)
  PROVE  VouchersInv'
  <1>t. /\ TypeOK /\ PercentageAtMostHundred /\ OrdersInv
        /\ QuotesHold /\ UncountedAreLate /\ KeysHold
    BY DEF VouchersInv, OrdersInv
  <1> DEFINE v == order[o].voucher
             row == [order[o] EXCEPT !.cancelled = TRUE]
  <1>1. /\ Placed(o) /\ order' = [order EXCEPT ![o] = row]
        /\ UNCHANGED <<deleted, now, req>>
    BY DEF Cancel
  <1>2. order[o] \in OrderRows
    BY <1>t, <1>1, OrderTypes
  <1>3. /\ row \in OrderRows /\ row.voucher = order[o].voucher /\ row.reserved = order[o].reserved
        /\ row.late = order[o].late /\ row.method = order[o].method
        /\ row.subtotal = order[o].subtotal /\ row.discount = order[o].discount
        /\ row.total = order[o].total /\ row.quoted = order[o].quoted
    BY <1>2 DEF OrderRows
  <1> HIDE DEF row
  <1>4. order'[o] = row /\ \A x \in Orders \ {o} : order'[x] = order[x]
    BY <1>t, <1>1 DEF TypeOK
  <1>5. \A x \in Orders : Placed(x)' => Placed(x) /\ order'[x].voucher = order[x].voucher
                                        /\ order'[x].late = order[x].late
    BY <1>1, <1>3, <1>4 DEF Placed
  <1>6. OrdersInv'
    BY <1>t, <1>1, <1>3, <1>4, OrdersStay DEF Placed
  <1>7. /\ voucher' \in [Vouchers -> VoucherRows \cup {NoVoucher}]
        /\ PercentageAtMostHundred'
        /\ \A x \in Vouchers : (Exists(x)' <=> Exists(x)) /\ Worth(voucher'[x]) = Worth(voucher[x])
    <2>1. CASE v # None /\ voucher[v].used > 0
      <3> DEFINE less == [voucher[v] EXCEPT !.used = voucher[v].used - 1]
      <3>1. v \in Vouchers /\ Exists(v)
        BY <1>t, <1>1, <1>2, <2>1 DEF KeysHold, OrderRows
      <3>2. voucher[v] \in VoucherRows
        BY <1>t, <3>1, RowOfVoucher
      <3>3. less \in VoucherRows /\ Worth(less) = Worth(voucher[v])
        BY <2>1, <3>2 DEF VoucherRows, Worth
      <3>4. voucher' = [voucher EXCEPT ![v] = less]
        BY <2>1 DEF Cancel
      <3> HIDE DEF less, v
      <3> QED
        BY <1>t, <3>1, <3>3, <3>4, UseChanges
    <2>2. CASE ~(v # None /\ voucher[v].used > 0)
      <3>1. UNCHANGED voucher
        BY <2>2 DEF Cancel
      <3> QED
        BY <1>t, <3>1 DEF TypeOK, PercentageAtMostHundred, Live, Exists
    <2> QED
      BY <2>1, <2>2
  <1>8. TypeOK'
    BY <1>t, <1>1, <1>3, <1>7 DEF TypeOK
  <1>9. QuotesHold'
    <2>1. \A x \in Workers : req[x].op \in {"quoted", "placing"} => req[x].id \in Vouchers
      BY <1>t, RequestTypes
    <2> QED
      BY <1>t, <1>1, <1>7, <2>1, QuotesStay
  <1>10. UncountedAreLate'
    BY <1>t, <1>1, <1>5 DEF UncountedAreLate, OrdersWith, Doing
  <1>11. KeysHold'
    <2> SUFFICES ASSUME NEW p \in Orders, Placed(p)', order'[p].voucher # None
                 PROVE  voucher'[order'[p].voucher] # NoVoucher
      BY DEF KeysHold, Exists
    <2>1. Placed(p) /\ order'[p].voucher = order[p].voucher
      BY <1>5
    <2>2. Exists(order[p].voucher) /\ order[p].voucher \in Vouchers
      BY <1>t, <2>1, OrderTypes DEF KeysHold, OrderRows
    <2> QED
      BY <1>7, <2>1, <2>2 DEF Exists
  <1> QED
    BY <1>6, <1>7, <1>8, <1>9, <1>10, <1>11 DEF VouchersInv, OrdersInv

\* The orders that lose their voucher came after the count: they are late.
LEMMA RemoveCommitStep ==
  ASSUME VouchersInv, NEW w \in Workers, RemoveCommit(w)
  PROVE  VouchersInv'
  <1>t. /\ TypeOK /\ PercentageAtMostHundred /\ OrdersInv
        /\ QuotesHold /\ UncountedAreLate /\ KeysHold
    BY DEF VouchersInv, OrdersInv
  <1>0. PICK v : v = req[w].id
    OBVIOUS
  <1>1. /\ req[w].op = "removing" /\ Exists(v)
        /\ voucher' = [voucher EXCEPT ![v] = NoVoucher]
        /\ deleted' = deleted \cup {v}
        /\ order' = [o \in Orders |->
             IF o \in OrdersWith(v) THEN [order[o] EXCEPT !.voucher = None] ELSE order[o]]
        /\ req' = [req EXCEPT ![w] = Idle]
        /\ UNCHANGED now
    BY <1>0 DEF RemoveCommit, Doing
  <1>2. v \in Vouchers
    BY <1>t, <1>0, <1>1, RequestTypes
  <1>3. voucher'[v] = NoVoucher /\ \A x \in Vouchers \ {v} : voucher'[x] = voucher[x]
    BY <1>t, <1>1, <1>2 DEF TypeOK
  <1>4. ~Exists(v)' /\ \A x \in Vouchers \ {v} : Exists(x)' <=> Exists(x)
    BY <1>3 DEF Exists
  <1>5. ASSUME NEW o \in Orders, Placed(o)'
        PROVE  /\ Placed(o)
               /\ \/ order'[o] = order[o] /\ order[o].voucher # v
                  \/ order'[o] = [order[o] EXCEPT !.voucher = None] /\ order[o].late
    <2>1. order'[o] = IF o \in OrdersWith(v) THEN [order[o] EXCEPT !.voucher = None] ELSE order[o]
      BY <1>1
    <2>2. CASE o \in OrdersWith(v)
      BY <1>t, <1>0, <1>1, <2>1, <2>2 DEF UncountedAreLate, OrdersWith, Doing
    <2>3. CASE o \notin OrdersWith(v)
      BY <1>5, <2>1, <2>3 DEF OrdersWith, Placed
    <2> QED
      BY <2>2, <2>3
  <1>6. ASSUME NEW o \in Orders, Placed(o)'
        PROVE  /\ Placed(o)
               /\ \/ order'[o].voucher = order[o].voucher /\ order[o].voucher # v
                  \/ order'[o].voucher = None /\ order[o].late
               /\ order'[o].reserved = order[o].reserved /\ order'[o].late = order[o].late
               /\ order'[o].method = order[o].method /\ order'[o].subtotal = order[o].subtotal
               /\ order'[o].discount = order[o].discount /\ order'[o].total = order[o].total
               /\ order'[o].quoted = order[o].quoted
               /\ order'[o] \in OrderRows
    <2>1. order[o] \in OrderRows
      BY <1>t, <1>5, <1>6, OrderTypes
    <2> QED
      BY <1>5, <1>6, <2>1 DEF OrderRows
  <1>7. OrdersInv'
    <2>1. \A o \in Orders : Placed(o)' =>
            /\ Placed(o)
            /\ \/ order'[o].voucher = order[o].voucher
               \/ order[o].late
            /\ order'[o].reserved = order[o].reserved /\ order'[o].late = order[o].late
            /\ order'[o].method = order[o].method /\ order'[o].subtotal = order[o].subtotal
            /\ order'[o].discount = order[o].discount /\ order'[o].total = order[o].total
            /\ order'[o].quoted = order[o].quoted
      BY <1>6
    <2> QED
      BY <1>t, <2>1, OrdersStay
  <1>8. Idle \in Requests /\ Idle.op = "idle"
    BY DEF Requests, Idle
  <1>9. /\ req' \in [Workers -> Requests] /\ req'[w] = Idle
       /\ \A x \in Workers \ {w} : req'[x] = req[x]
    BY <1>t, <1>1, <1>8, RequestMoves
  <1>10. TypeOK'
    <2>1. order' \in [Orders -> OrderRows \cup {NoOrder}]
      <3>1. \A o \in Orders : order'[o] \in OrderRows \cup {NoOrder}
        BY <1>6 DEF Placed
      <3> QED
        BY <1>1, <3>1
    <2> QED
      BY <1>t, <1>1, <1>2, <1>9, <2>1 DEF TypeOK
  <1>11. PercentageAtMostHundred'
    BY <1>t, <1>3, <1>4, PercentagesStay
  <1>12. QuotesHold'
    <2>1. \A x \in Workers : req[x].op \in {"quoted", "placing"} => req[x].id \in Vouchers
      BY <1>t, RequestTypes
    <2>2. \A x \in Vouchers : Exists(x) => Exists(x)' \/ x \in deleted'
      BY <1>1, <1>4
    <2>3. \A x \in Vouchers : Exists(x)' => Exists(x) /\ Worth(voucher'[x]) = Worth(voucher[x])
      BY <1>3, <1>4
    <2> QED
      BY <1>t, <1>1, <1>8, <1>9, <2>1, <2>2, <2>3, QuotesStay
  <1>13. UncountedAreLate'
    <2> SUFFICES ASSUME NEW x \in Workers, req'[x].op = "removing", NEW o \in Orders,
                        Placed(o)', order'[o].voucher = req'[x].id
                 PROVE  order'[o].late
      BY DEF UncountedAreLate, OrdersWith, Doing
    <2>1. req'[x] = req[x]
      BY <1>8, <1>9
    <2>2. req[x].id \in Vouchers
      BY <1>t, <2>1, RequestTypes
    <2>3. CASE order'[o].voucher = order[o].voucher
      BY <1>t, <1>6, <2>1, <2>3 DEF UncountedAreLate, OrdersWith, Doing
    <2>4. CASE order[o].late
      BY <1>6, <2>4
    <2> QED
      BY <1>6, <2>3, <2>4
  <1>14. KeysHold'
    <2> SUFFICES ASSUME NEW o \in Orders, Placed(o)', order'[o].voucher # None
                 PROVE  voucher'[order'[o].voucher] # NoVoucher
      BY DEF KeysHold, Exists
    <2>1. Placed(o) /\ order'[o].voucher = order[o].voucher /\ order[o].voucher # v
      BY <1>6
    <2>2. Exists(order[o].voucher) /\ order[o].voucher \in Vouchers
      BY <1>t, <2>1, OrderTypes DEF KeysHold, OrderRows
    <2> QED
      BY <1>4, <2>1, <2>2 DEF Exists
  <1> QED
    BY <1>7, <1>10, <1>11, <1>12, <1>13, <1>14 DEF VouchersInv, OrdersInv

\* Init starts the induction.
LEMMA VouchersStart ==
  ASSUME Init
  PROVE  VouchersInv
  <1>1. TypeOK
    BY VouchersAssumption DEF Init, TypeOK, Requests
  <1>2. \A v \in Vouchers : ~Exists(v)
    BY DEF Init, Exists
  <1>3. \A o \in Orders : ~Placed(o)
    BY DEF Init, Placed
  <1>4. \A w \in Workers : req[w].op = "idle"
    BY DEF Init, Idle
  <1> QED
    BY <1>1, <1>2, <1>3, <1>4 DEF VouchersInv, PercentageAtMostHundred, Live, QuotesAreKept,
       TotalsAddUp, OrdersKeepTheirVoucherUnlessLate, QuotesHold, UncountedAreLate, Doing, KeysHold

LEMMA VouchersStep ==
  ASSUME VouchersInv, [Next]_vars
  PROVE  VouchersInv'
  <1>1. CASE Admin
    BY <1>1, AdminStep
  <1>2. ASSUME NEW w \in Workers, Customer(w) PROVE VouchersInv'
    BY <1>2, ValidateStep, PlacesStep, PlaceCommitStep DEF Customer
  <1>3. ASSUME NEW w \in Workers, RemoveCommit(w) PROVE VouchersInv'
    BY <1>3, RemoveCommitStep
  <1>4. ASSUME NEW w \in Workers, Refuse(w) \/ Abort(w) PROVE VouchersInv'
    <2>1. req' = [req EXCEPT ![w] = Idle] /\ UNCHANGED <<voucher, deleted, order, now>>
      BY <1>4 DEF Refuse, Abort
    <2>2. Idle \in Requests /\ Idle.op = "idle"
      BY DEF Requests, Idle
    <2> QED
      BY <2>1, <2>2, RequestStep
  <1>5. ASSUME NEW s \in Subtotals, NEW m \in Methods, PlaceWithoutVoucher(s, m)
        PROVE  VouchersInv'
    BY <1>5, PlainStep
  <1>6. ASSUME NEW o \in Orders, Cancel(o) PROVE VouchersInv'
    BY <1>6, CancelStep
  <1>7. CASE Tick \/ UNCHANGED vars
    <2>1. UNCHANGED <<voucher, deleted, order, req>>
      BY <1>7 DEF Tick, vars
    <2>2. TypeOK'
      BY <1>7, <2>1, VouchersAssumption DEF VouchersInv, TypeOK, Tick, vars
    <2>3. (PercentageAtMostHundred /\ QuotesAreKept /\ TotalsAddUp /\ KeysHold
             /\ OrdersKeepTheirVoucherUnlessLate)'
      BY <2>1 DEF VouchersInv, PercentageAtMostHundred, Live, QuotesAreKept, TotalsAddUp, KeysHold,
             OrdersKeepTheirVoucherUnlessLate, Placed, Exists
    <2>4. (QuotesHold /\ UncountedAreLate)'
      BY <2>1 DEF VouchersInv, QuotesHold, UncountedAreLate, OrdersWith, Doing, Placed, Exists
    <2> QED
      BY <2>2, <2>3, <2>4 DEF VouchersInv
  <1> QED
    BY <1>1, <1>2, <1>3, <1>4, <1>5, <1>6, <1>7 DEF Next

\* Every conjunct of VouchersInv holds whenever the service runs.
THEOREM VouchersCorrect == Spec => []VouchersInv
  BY VouchersStart, VouchersStep, PTL DEF Spec

\* Rows and requests keep their shape: usedCount is never negative, and every stored
\* discount and quota is a natural number.
THEOREM VoucherTypesCorrect == Spec => []TypeOK
  <1>1. VouchersInv => TypeOK
    BY DEF VouchersInv
  <1> QED
    BY <1>1, VouchersCorrect, PTL

\* No sequence of creations and partial updates leaves a percentage above 100.
THEOREM PercentagesCorrect == Spec => []PercentageAtMostHundred
  <1>1. VouchersInv => PercentageAtMostHundred
    BY DEF VouchersInv
  <1> QED
    BY <1>1, VouchersCorrect, PTL

\* The discount a customer was told is the discount of the order, for any basket and
\* any voucher whose worth was not edited in between.
THEOREM QuotesCorrect == Spec => []QuotesAreKept
  <1>1. VouchersInv => QuotesAreKept
    BY DEF VouchersInv
  <1> QED
    BY <1>1, VouchersCorrect, PTL

\* Subtotal, shipping and discount as stored add up to the stored total but for one
\* hundredth, for any amounts.
THEOREM TotalsCorrect == Spec => []TotalsAddUp
  <1>1. VouchersInv => TotalsAddUp
    BY DEF VouchersInv
  <1> QED
    BY <1>1, VouchersCorrect, PTL

\* Only an order that came during the removal loses its voucher to it.
THEOREM OnlyLateOrdersLoseTheirVoucher == Spec => []OrdersKeepTheirVoucherUnlessLate
  <1>1. VouchersInv => OrdersKeepTheirVoucherUnlessLate
    BY DEF VouchersInv
  <1> QED
    BY <1>1, VouchersCorrect, PTL
-----------------------------------------------------------------------------
(* The listings *)

\* The admin's statuses are a partition of the vouchers whose window does not end
\* before it starts, and ACTIVE is what customers are offered: it follows from the
\* shape of the rows alone.
THEOREM ListingsCorrect == Spec => []ListingsAgree
  <1>1. TypeOK => ListingsAgree
    <2> SUFFICES ASSUME TypeOK PROVE ListingsAgree
      OBVIOUS
    <2>1. now \in Nat
      BY VouchersAssumption DEF TypeOK
    <2>2. ASSUME NEW v \in Vouchers, Exists(v)
          PROVE  /\ voucher[v].used \in Nat /\ voucher[v].quota \in Nat
                 /\ voucher[v].from \in Nat /\ voucher[v].to \in Nat
      BY <2>2, RowOfVoucher DEF VoucherRows
    <2>3. \A v \in ActiveInWindow :
            AdminStatus(voucher[v]) =
              IF voucher[v].used >= voucher[v].quota THEN "EXHAUSTED" ELSE "ACTIVE"
      BY <2>1, <2>2 DEF ActiveInWindow, Live, AdminStatus, InWindow
    <2>4. AdminList("ACTIVE") = {v \in ActiveInWindow : voucher[v].used < voucher[v].quota}
      <3>1. AdminList("ACTIVE") = {v \in ActiveInWindow : AdminStatus(voucher[v]) = "ACTIVE"}
        BY DEF AdminList
      <3> QED
        BY <2>2, <2>3, <3>1 DEF ActiveInWindow, Live
    <2>5. AdminList("EXHAUSTED") = {v \in ActiveInWindow : voucher[v].used >= voucher[v].quota}
      <3>1. AdminList("EXHAUSTED") = {v \in ActiveInWindow : AdminStatus(voucher[v]) = "EXHAUSTED"}
        BY DEF AdminList
      <3> QED
        BY <2>2, <2>3, <3>1 DEF ActiveInWindow, Live
    <2>6. /\ AdminList("INACTIVE") = {v \in Live : ~voucher[v].active}
          /\ AdminList("EXPIRED") = {v \in Live : voucher[v].active /\ voucher[v].to < now}
          /\ AdminList("SCHEDULED") = {v \in Live : voucher[v].active /\ voucher[v].from > now}
      BY DEF AdminList
    <2>7. ASSUME NEW v \in Live, ~(voucher[v].to < now /\ now < voucher[v].from)
          PROVE  \E s \in Statuses : {t \in Statuses : v \in AdminList(t)} = {s}
      <3>1. v \in Vouchers /\ Exists(v)
        BY <2>7 DEF Live
      <3>2. CASE ~voucher[v].active
        <4>1. {t \in Statuses : v \in AdminList(t)} = {"INACTIVE"}
          BY <2>4, <2>5, <2>6, <2>7, <3>2 DEF Statuses, ActiveInWindow
        <4> QED
          BY <4>1 DEF Statuses
      <3>3. CASE voucher[v].active /\ voucher[v].to < now
        <4>1. {t \in Statuses : v \in AdminList(t)} = {"EXPIRED"}
          BY <2>1, <2>2, <2>4, <2>5, <2>6, <2>7, <3>1, <3>3 DEF Statuses, ActiveInWindow, InWindow
        <4> QED
          BY <4>1 DEF Statuses
      <3>4. CASE voucher[v].active /\ voucher[v].from > now
        <4>1. {t \in Statuses : v \in AdminList(t)} = {"SCHEDULED"}
          BY <2>1, <2>2, <2>4, <2>5, <2>6, <2>7, <3>1, <3>4 DEF Statuses, ActiveInWindow, InWindow
        <4> QED
          BY <4>1 DEF Statuses
      <3>5. CASE voucher[v].active /\ voucher[v].from <= now /\ now <= voucher[v].to
        <4>1. v \in ActiveInWindow
          BY <2>7, <3>5 DEF ActiveInWindow, InWindow
        <4>2. CASE voucher[v].used >= voucher[v].quota
          <5>1. {t \in Statuses : v \in AdminList(t)} = {"EXHAUSTED"}
            BY <2>1, <2>2, <2>4, <2>5, <2>6, <2>7, <3>1, <3>5, <4>1, <4>2 DEF Statuses
          <5> QED
            BY <5>1 DEF Statuses
        <4>3. CASE voucher[v].used < voucher[v].quota
          <5>1. {t \in Statuses : v \in AdminList(t)} = {"ACTIVE"}
            BY <2>1, <2>2, <2>4, <2>5, <2>6, <2>7, <3>1, <3>5, <4>1, <4>3 DEF Statuses
          <5> QED
            BY <5>1 DEF Statuses
        <4> QED
          BY <2>2, <3>1, <4>2, <4>3
      <3> QED
        BY <2>1, <2>2, <3>1, <3>2, <3>3, <3>4, <3>5
    <2>8. \A v \in Live :
            \/ Cardinality({s \in Statuses : v \in AdminList(s)}) = 1
            \/ voucher[v].to < now /\ now < voucher[v].from
      BY <2>7, FS_Singleton
    <2>9. PublicList = AdminList("ACTIVE")
      BY <2>4 DEF PublicList
    <2>10. PublicList = {v \in Live : Usable(voucher[v])}
      BY DEF PublicList, ActiveInWindow, Usable
    <2> QED
      BY <2>8, <2>9, <2>10 DEF ListingsAgree
  <1> QED
    BY <1>1, VoucherTypesCorrect, PTL
=============================================================================
