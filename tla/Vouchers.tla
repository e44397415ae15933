------------------------------ MODULE Vouchers ------------------------------
(***************************************************************************)
(* VouchersService, and the money side of orders that use a voucher: what  *)
(* a voucher is worth, which vouchers a customer may use, what an order    *)
(* then costs, and what becomes of orders when the admin edits, switches   *)
(* off or deletes the voucher meanwhile.                                   *)
(*                                                                         *)
(* A worker is one client: a customer who may first ask what a code is     *)
(* worth (POST /vouchers/validate) and then places the order, or an admin  *)
(* whose permanent removal reads before it deletes.  Every other handler   *)
(* is one step, because it is one statement or because it locks the        *)
(* voucher's row before it reads.  Placing an order is two steps: the      *)
(* transaction reads the voucher from the snapshot of its first read, and  *)
(* only the guard of the UPDATE that reserves it sees newer values.        *)
(*                                                                         *)
(* Amounts are integers.  A basket's subtotal and the shipping costs are   *)
(* whole rupiah, as variant prices are; the columns of a voucher hold      *)
(* hundredths; what arithmetic on them yields before a column rounds it    *)
(* has four decimals, and is counted here in ten-thousandths.              *)
(*                                                                         *)
(* Stock, payments and the keys of retried requests are in module Orders.  *)
(*                                                                         *)
(* An operator whose name has the suffix _bug is a deliberately wrong      *)
(* variant of the one that follows it, for testing the properties.         *)
(***************************************************************************)
EXTENDS Integers, FiniteSets

CONSTANTS
  Vouchers,    \* voucher ids
  Orders,      \* order ids
  Workers,     \* clients served at the same time
  Spellings,   \* codes as clients and admins type them
  Codes,       \* codes as stored
  Upper,       \* toUpperCase
  NewVouchers, \* bodies the admin creates vouchers from
  Changes,     \* bodies the admin updates vouchers with
  Subtotals,   \* what a basket may cost
  Methods,     \* shipping methods customers choose
  MaxTime,     \* bound: how far the clock runs
  Absent,      \* undefined: a field the body of an update leaves out
  None         \* SQL NULL

VoucherTypes == {"PERCENTAGE", "FIXED"}
ShippingMethods == {"REGULAR", "EXPRESS", "SAME_DAY"}

\* CreateVoucherDto and UpdateVoucherDto: what a body may hold, field by field.
\* Only maxDiscount may also be null.
Bodies ==
  [code : Spellings \cup {Absent}, type : VoucherTypes \cup {Absent},
   value : Nat \cup {Absent}, min : Nat \cup {Absent}, max : Nat \cup {None, Absent},
   quota : (Nat \ {0}) \cup {Absent}, from : Nat \cup {Absent}, to : Nat \cup {Absent},
   active : BOOLEAN \cup {Absent}]

ASSUME VouchersAssumption ==
  /\ Upper \in [Spellings -> Codes]
  /\ NewVouchers \subseteq Bodies
  /\ \A b \in NewVouchers : Absent \notin {b.code, b.type, b.value, b.quota, b.to}
  /\ Changes \subseteq Bodies
  /\ Subtotals \subseteq Nat
  /\ Methods \subseteq ShippingMethods
  /\ MaxTime \in Nat
  /\ None \notin Nat \cup Vouchers \cup Codes \cup ShippingMethods

VARIABLES
  voucher,  \* vouchers, by id
  deleted,  \* ids of vouchers deleted for good; an id is never drawn twice
  order,    \* orders, by id
  now,      \* the clock
  req       \* what each client is doing

vars == <<voucher, deleted, order, now, req>>
-----------------------------------------------------------------------------
(* The shape of the state *)

VoucherRows ==
  [code : Codes, type : VoucherTypes, value : Nat, min : Nat, max : Nat \cup {None},
   quota : Nat, used : Nat, from : Nat, to : Nat, active : BOOLEAN]
NoVoucher == [code |-> None]

\* voucher is the column voucherId, reserved the voucher whose use was counted;
\* quoted is the discount the customer was last told for this basket, and late
\* says that a removal of the voucher was under way when the order came.
OrderRows ==
  [voucher : Vouchers \cup {None}, reserved : Vouchers \cup {None},
   method : ShippingMethods, subtotal : Nat, discount : Nat, total : Int,
   cancelled : BOOLEAN, quoted : Nat \cup {None}, late : BOOLEAN]
NoOrder == [method |-> None]

\* A client that was told what its voucher is worth remembers it in quote, which
\* becomes None as soon as an admin changes what the voucher is worth.
Idle == [op |-> "idle"]
Requests ==
  {Idle}
    \cup [op : {"quoted"}, code : Codes, id : Vouchers, subtotal : Nat, quote : Nat \cup {None}]
    \cup [op : {"placing"}, id : Vouchers, seen : VoucherRows, subtotal : Nat,
          method : ShippingMethods, quote : Nat \cup {None}]
    \cup [op : {"removing"}, id : Vouchers]

\* Types of the rows and of the requests in flight.  usedCount is a natural number
\* because its decrement is guarded, a discount because it is capped.
TypeOK ==
  /\ voucher \in [Vouchers -> VoucherRows \cup {NoVoucher}]
  /\ deleted \subseteq Vouchers
  /\ order \in [Orders -> OrderRows \cup {NoOrder}]
  /\ now \in 0 .. MaxTime
  /\ req \in [Workers -> Requests]

Init ==
  /\ voucher = [v \in Vouchers |-> NoVoucher]
  /\ deleted = {}
  /\ order = [o \in Orders |-> NoOrder]
  /\ now = 0
  /\ req = [w \in Workers |-> Idle]

Exists(v) == voucher[v] # NoVoucher
Placed(o) == order[o] # NoOrder
Doing(w, op) == req[w].op = op
FindByCode(c) == {v \in Vouchers : Exists(v) /\ voucher[v].code = c}
-----------------------------------------------------------------------------
(* What a voucher is worth *)

Least(a, b) == IF a <= b THEN a ELSE b
Capped(d, max) == IF max = None THEN d ELSE Least(d, max * 100)

\* VouchersService.calculateDiscount, on a subtotal in rupiah.
CalculateDiscount_bug(row, subtotal) ==
  IF row.type = "PERCENTAGE" THEN subtotal * row.value
  ELSE Least(Capped(row.value * 100, row.max), subtotal * 10000)
CalculateDiscount(row, subtotal) ==
  LET full == IF row.type = "PERCENTAGE" THEN subtotal * row.value ELSE row.value * 100
  IN  Least(Capped(full, row.max), subtotal * 10000)

\* OrdersService.calculateDiscount, the same rule written a second time.
OrderDiscount_bug(row, subtotal) ==
  Capped(IF row.type = "PERCENTAGE" THEN subtotal * row.value ELSE row.value * 100, row.max)
OrderDiscount(row, subtotal) ==
  LET full == IF row.type = "PERCENTAGE" THEN subtotal * row.value ELSE row.value * 100
  IN  Least(Capped(full, row.max), subtotal * 10000)

\* MySQL stores an amount of four decimals in a column of two, rounding half up.
Stored(d) == (d + 50) \div 100

ShippingCost(method) ==
  CASE method = "SAME_DAY" -> 50000
    [] method = "EXPRESS"  -> 30000
    [] OTHER               -> 15000

\* subtotal + shippingCost - discount, before the column rounds it.
Total(subtotal, method, discount) == (subtotal + ShippingCost(method)) * 10000 - discount

InWindow(row) == row.from <= now /\ now <= row.to
Usable(row) == row.active /\ InWindow(row) /\ row.used < row.quota
ReachesMinimum(row, subtotal) == subtotal * 100 >= row.min
-----------------------------------------------------------------------------
(* VouchersService, for admins *)

Given_bug(field, old) == field
Given(field, old) == IF field = Absent THEN old ELSE field

\* toPrismaData: a field the body leaves out keeps its column, or its default.
Merged(row, b) ==
  [code |-> IF b.code = Absent THEN row.code ELSE Upper[b.code],
   type |-> Given(b.type, row.type), value |-> Given(b.value, row.value),
   min |-> Given(b.min, row.min), max |-> Given(b.max, row.max),
   quota |-> Given(b.quota, row.quota), used |-> row.used,
   from |-> Given(b.from, row.from), to |-> Given(b.to, row.to),
   active |-> Given(b.active, row.active)]
Defaults(b) ==
  [code |-> Upper[b.code], type |-> b.type, value |-> b.value, min |-> 0, max |-> None,
   quota |-> b.quota, used |-> 0, from |-> now, to |-> b.to, active |-> TRUE]

\* assertValidPercentageValue, on the type and the value the row will have.
ValidPercentage_bug(old, b) ==
  b.type = "PERCENTAGE" /\ b.value # Absent => b.value <= 100 * 100
ValidPercentage(old, b) ==
  Given(b.type, old.type) = "PERCENTAGE" => Given(b.value, old.value) <= 100 * 100

\* The unique index on code.
CodeIsFree(v, code) == FindByCode(code) \subseteq {v}

\* Bookkeeping for the properties: clients that were told what v is worth were
\* told so before this change of what it is worth.
Worth(row) == <<row.type, row.value, row.max>>
Outdated(v, row) ==
  [w \in Workers |->
     IF /\ req[w].op \in {"quoted", "placing"} /\ req[w].id = v
        /\ Worth(row) # Worth(voucher[v])
     THEN [req[w] EXCEPT !.quote = None] ELSE req[w]]

CreateVoucher(v, b) ==
  LET row == Merged(Defaults(b), b) IN
  /\ ~Exists(v) /\ v \notin deleted
  /\ ValidPercentage(row, b)
  /\ CodeIsFree(v, row.code)
  /\ voucher' = [voucher EXCEPT ![v] = row]
  /\ UNCHANGED <<deleted, order, now, req>>

\* The row is locked before it is read: the checks are on what is overwritten.
UpdateVoucher(v, b) ==
  LET old == voucher[v] IN
  /\ Exists(v)
  /\ b.quota # Absent => b.quota >= old.used
  /\ ValidPercentage(old, b)
  /\ CodeIsFree(v, Merged(old, b).code)
  /\ voucher' = [voucher EXCEPT ![v] = Merged(old, b)]
  /\ req' = Outdated(v, Merged(old, b))
  /\ UNCHANGED <<deleted, order, now>>

\* remove only switches the voucher off.
Deactivate(v) ==
  /\ Exists(v)
  /\ voucher' = [voucher EXCEPT ![v].active = FALSE]
  /\ UNCHANGED <<deleted, order, now, req>>

\* orders.count of removePermanent: cancelled orders count too.
OrdersWith(v) == {o \in Orders : Placed(o) /\ order[o].voucher = v}
Unused_bug(v) == voucher[v].used = 0
Unused(v) == voucher[v].used = 0 /\ OrdersWith(v) = {}

\* removePermanent reads the voucher and counts its orders on one snapshot ...
RemoveRead(w, v) ==
  /\ Doing(w, "idle")
  /\ Exists(v)
  /\ Unused(v)
  /\ req' = [req EXCEPT ![w] = [op |-> "removing", id |-> v]]
  /\ UNCHANGED <<voucher, deleted, order, now>>

\* ... and deletes the row, used or not by then.  voucherId is optional, so its
\* foreign key sets it to NULL in the orders that have it.
RemoveCommit(w) ==
  LET v == req[w].id IN
  /\ Doing(w, "removing")
  /\ Exists(v)
  /\ voucher' = [voucher EXCEPT ![v] = NoVoucher]
  /\ deleted' = deleted \cup {v}
  /\ order' = [o \in Orders |->
                 IF o \in OrdersWith(v) THEN [order[o] EXCEPT !.voucher = None] ELSE order[o]]
  /\ req' = [req EXCEPT ![w] = Idle]
  /\ UNCHANGED now
-----------------------------------------------------------------------------
(* Customers: POST /vouchers/validate, OrdersService.create and cancel *)

Validate(w, spelling, subtotal) ==
  /\ Doing(w, "idle")
  /\ \E v \in FindByCode(Upper[spelling]) :
       /\ Usable(voucher[v])
       /\ ReachesMinimum(voucher[v], subtotal)
       /\ req' = [req EXCEPT ![w] =
            [op |-> "quoted", code |-> Upper[spelling], id |-> v, subtotal |-> subtotal,
             quote |-> CalculateDiscount(voucher[v], subtotal)]]
  /\ UNCHANGED <<voucher, deleted, order, now>>

\* The first read of the order's transaction fixes the snapshot the voucher's
\* row will come from.  A code nobody has is refused.
Place(w, code, subtotal, method, quote) ==
  /\ \E v \in FindByCode(code) :
       req' = [req EXCEPT ![w] =
         [op |-> "placing", id |-> v, seen |-> voucher[v], subtotal |-> subtotal,
          method |-> method, quote |-> IF quote.id = v THEN quote.quote ELSE None]]
  /\ UNCHANGED <<voucher, deleted, order, now>>

PlaceUnasked(w, spelling, subtotal, method) ==
  /\ Doing(w, "idle")
  /\ Place(w, Upper[spelling], subtotal, method, [id |-> None])
PlaceQuoted(w, method) ==
  /\ Doing(w, "quoted")
  /\ Place(w, req[w].code, req[w].subtotal, method, req[w])

OrderRow(voucherId, subtotal, method, discount, quoted, late) ==
  [voucher |-> voucherId, reserved |-> voucherId, method |-> method,
   subtotal |-> subtotal, discount |-> Stored(discount),
   total |-> Stored(Total(subtotal, method, discount)),
   cancelled |-> FALSE, quoted |-> quoted, late |-> late]
Insert(row) == \E o \in Orders : ~Placed(o) /\ order' = [order EXCEPT ![o] = row]

\* reserveVoucher: checks on the row of the snapshot, with a clock read just now ...
SeenUsable(r) == Usable(r.seen) /\ ReachesMinimum(r.seen, r.subtotal)
\* ... and WHERE id, isActive, startsAt, expiresAt, quota as read, usedCount < quota.
ReserveGuard(r) ==
  LET row == voucher[r.id] IN
  /\ Exists(r.id)
  /\ row.active /\ InWindow(row)
  /\ row.quota = r.seen.quota /\ row.used < r.seen.quota

BeingRemoved(v) == \E w \in Workers : Doing(w, "removing") /\ req[w].id = v

\* The discount is that of the row of the snapshot.
PlaceCommit(w) ==
  LET r == req[w] IN
  /\ Doing(w, "placing")
  /\ SeenUsable(r) /\ ReserveGuard(r)
  /\ voucher' = [voucher EXCEPT ![r.id].used = voucher[r.id].used + 1]
  /\ Insert(OrderRow(r.id, r.subtotal, r.method, OrderDiscount(r.seen, r.subtotal), r.quote,
                     BeingRemoved(r.id)))
  /\ req' = [req EXCEPT ![w] = Idle]
  /\ UNCHANGED <<deleted, now>>

PlaceWithoutVoucher(subtotal, method) ==
  /\ Insert(OrderRow(None, subtotal, method, 0, None, FALSE))
  /\ UNCHANGED <<voucher, deleted, now, req>>

\* restoreVoucher of cancel: guarded at zero, and nothing once voucherId is NULL.
Cancel(o) ==
  LET v == order[o].voucher IN
  /\ Placed(o) /\ ~order[o].cancelled
  /\ order' = [order EXCEPT ![o].cancelled = TRUE]
  /\ voucher' = IF v # None /\ voucher[v].used > 0
                THEN [voucher EXCEPT ![v].used = voucher[v].used - 1] ELSE voucher
  /\ UNCHANGED <<deleted, now, req>>

\* 400 or 404: nobody has the code any more, a check or a guard of reserveVoucher
\* fails, or the voucher to remove is gone.
Refuse(w) ==
  /\ \/ Doing(w, "quoted") /\ FindByCode(req[w].code) = {}
     \/ Doing(w, "placing") /\ ~(SeenUsable(req[w]) /\ ReserveGuard(req[w]))
     \/ Doing(w, "removing") /\ ~Exists(req[w].id)
  /\ req' = [req EXCEPT ![w] = Idle]
  /\ UNCHANGED <<voucher, deleted, order, now>>

\* The client goes away, or its transaction is lost.
Abort(w) ==
  /\ ~Doing(w, "idle")
  /\ req' = [req EXCEPT ![w] = Idle]
  /\ UNCHANGED <<voucher, deleted, order, now>>

Tick ==
  /\ now < MaxTime
  /\ now' = now + 1
  /\ UNCHANGED <<voucher, deleted, order, req>>

Admin ==
  \E v \in Vouchers :
    \/ \E b \in NewVouchers : CreateVoucher(v, b)
    \/ \E b \in Changes : UpdateVoucher(v, b)
    \/ Deactivate(v)
    \/ \E w \in Workers : RemoveRead(w, v)

Customer(w) ==
  \/ \E sp \in Spellings, s \in Subtotals : Validate(w, sp, s)
  \/ \E sp \in Spellings, s \in Subtotals, m \in Methods : PlaceUnasked(w, sp, s, m)
  \/ \E m \in Methods : PlaceQuoted(w, m)
  \/ PlaceCommit(w)

Next ==
  \/ Admin
  \/ \E w \in Workers : Customer(w) \/ RemoveCommit(w) \/ Refuse(w) \/ Abort(w)
  \/ \E s \in Subtotals, m \in Methods : PlaceWithoutVoucher(s, m)
  \/ \E o \in Orders : Cancel(o)
  \/ Tick

Spec == Init /\ [][Next]_vars
-----------------------------------------------------------------------------
(* The listings *)

Statuses == {"ACTIVE", "INACTIVE", "SCHEDULED", "EXPIRED", "EXHAUSTED"}

AdminStatus_bug(row) ==
  CASE ~row.active                -> "INACTIVE"
    [] row.active /\ row.to < now -> "EXPIRED"
    [] row.active /\ row.to >= now /\ row.from > now -> "SCHEDULED"
    [] row.active /\ InWindow(row) -> IF row.used > row.quota THEN "EXHAUSTED" ELSE "ACTIVE"
AdminStatus(row) ==
  CASE ~row.active                -> "INACTIVE"
    [] row.active /\ row.to < now -> "EXPIRED"
    [] row.active /\ row.to >= now /\ row.from > now -> "SCHEDULED"
    [] row.active /\ InWindow(row) -> IF row.used >= row.quota THEN "EXHAUSTED" ELSE "ACTIVE"

Live == {v \in Vouchers : Exists(v)}
ActiveInWindow == {v \in Live : voucher[v].active /\ InWindow(voucher[v])}

\* findAll: what customers are offered.
PublicList == {v \in ActiveInWindow : voucher[v].used < voucher[v].quota}

\* findAllForAdmin with a status: three of them are a WHERE, the other two a filter
\* on the rows that are active and within their window.
AdminList(s) ==
  CASE s = "INACTIVE"  -> {v \in Live : ~voucher[v].active}
    [] s = "EXPIRED"   -> {v \in Live : voucher[v].active /\ voucher[v].to < now}
    [] s = "SCHEDULED" -> {v \in Live : voucher[v].active /\ voucher[v].from > now}
    [] OTHER           -> {v \in ActiveInWindow : AdminStatus(voucher[v]) = s}
-----------------------------------------------------------------------------
(* Properties *)

\* However a voucher is created and edited, one field at a time or more, a
\* percentage never exceeds 100.
PercentageAtMostHundred ==
  \A v \in Live : voucher[v].type = "PERCENTAGE" => voucher[v].value <= 100 * 100

\* A customer who was told a discount and then orders that basket gets that very
\* discount, unless what the voucher is worth was changed in between: the two
\* implementations of the rule agree.
QuotesAreKept ==
  \A o \in Orders : Placed(o) /\ order[o].quoted # None =>
    order[o].discount = Stored(order[o].quoted)

\* The parts of an order, sent to the gateway one by one, add up to its total
\* but for the hundredth that rounding them separately may cost (the tolerance of
\* amountsMatch), and no discount eats into the shipping.
TotalsAddUp ==
  \A o \in Orders : Placed(o) =>
    LET r == order[o]
        shipping == ShippingCost(r.method) * 100
        parts == r.subtotal * 100 + shipping - r.discount
    IN  /\ r.total \in {parts, parts + 1}
        /\ r.discount <= r.subtotal * 100

\* A voucher some order was placed with is not deleted, unless the order came
\* while a removal was between its checks and its DELETE: cancelled orders protect
\* their voucher too.
OrdersKeepTheirVoucherUnlessLate ==
  \A o \in Orders : Placed(o) =>
    order[o].voucher = order[o].reserved \/ order[o].late

\* "Permanently delete unused voucher" (vouchers.controller.ts): a voucher that an
\* order was placed with is not deleted.
OrdersKeepTheirVoucher ==
  \A o \in Orders : Placed(o) => order[o].voucher = order[o].reserved

\* Customers are offered exactly the vouchers they can use, which the admin sees as
\* ACTIVE, and the admin finds every voucher under one status, but for one whose
\* window ends before it starts: that one can be both expired and scheduled.
ListingsAgree ==
  /\ PublicList = AdminList("ACTIVE")
  /\ PublicList = {v \in Live : Usable(voucher[v])}
  /\ \A v \in Live :
       \/ Cardinality({s \in Statuses : v \in AdminList(s)}) = 1
       \/ voucher[v].to < now /\ now < voucher[v].from

\* What makes these inductive: a quote is what the voucher it was asked for is worth
\* still, or in the snapshot of the order; ids do not come back; the orders a
\* removal has not counted are late; and the voucher of an order is there.
QuotesHold ==
  \A w \in Workers : LET r == req[w] IN
    /\ r.op \in {"quoted", "placing"} => Exists(r.id) \/ r.id \in deleted
    /\ r.op = "quoted" /\ r.quote # None /\ Exists(r.id) =>
         r.quote = CalculateDiscount(voucher[r.id], r.subtotal)
    /\ r.op = "placing" /\ r.quote # None => r.quote = CalculateDiscount(r.seen, r.subtotal)
UncountedAreLate ==
  \A w \in Workers : Doing(w, "removing") => \A o \in OrdersWith(req[w].id) : order[o].late
KeysHold ==
  \A o \in Orders : Placed(o) /\ order[o].voucher # None => Exists(order[o].voucher)

VouchersInv ==
  /\ TypeOK
  /\ PercentageAtMostHundred
  /\ QuotesAreKept
  /\ TotalsAddUp
  /\ OrdersKeepTheirVoucherUnlessLate
  /\ QuotesHold
  /\ UncountedAreLate
  /\ KeysHold
=============================================================================
