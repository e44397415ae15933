------------------------------- MODULE Orders -------------------------------
(***************************************************************************)
(* OrdersService and PaymentsService over one MySQL database: placing,     *)
(* cancelling and fulfilling orders, opening payments at the gateway and   *)
(* applying what the gateway reports.                                      *)
(*                                                                         *)
(* A worker is one HTTP request being handled.  What a handler reads       *)
(* before its transaction is one step, and what it remembers of that read  *)
(* travels in req[w].  Its transaction is another step: the handlers that  *)
(* change an existing order take the row lock of the order first and read  *)
(* everything they decide on under it, so nothing of theirs interleaves.   *)
(* Two transactions are not one step.  createSnapToken calls the gateway   *)
(* while it holds the lock.  create reads the variants and the voucher     *)
(* from the snapshot its first read takes (REPEATABLE READ, the default)   *)
(* and writes later, when only the guards of its UPDATEs see new values.   *)
(*                                                                         *)
(* Left to other modules or out: prices and discounts, cart lines,         *)
(* notifications, catalogue flags, and which user may ask for what, save   *)
(* for the owner of an idempotency key.                                    *)
(*                                                                         *)
(* An operator whose name has the suffix _bug is a deliberately wrong      *)
(* variant of the one that follows it.  Nothing uses it: it takes the      *)
(* place of the right one when a property is tested against a mutant.      *)
(***************************************************************************)
EXTENDS OrderRules, FiniteSets

CONSTANTS
  Orders,      \* order ids
  Workers,     \* requests handled at the same time
  Users,
  Variants,
  Vouchers,
  Keys,        \* values of clientRequestId
  Baskets,     \* quantities a request may ask for, per variant
  Supply,      \* stock of each variant before any order
  Quotas,      \* values the admin gives vouchers.quota
  Reports,     \* bound: what the gateway reports, some of GatewayReports
  MaxRefunds,  \* bound: refund notifications the gateway sends per order
  MockMode,    \* MidtransService.isMockMode()
  None         \* SQL NULL

ASSUME OrdersAssumption ==
  /\ IsFiniteSet(Orders)
  /\ Supply \in [Variants -> Nat]
  /\ Baskets \subseteq [Variants -> Nat]
  /\ Quotas \subseteq Nat
  /\ Reports \subseteq GatewayReports
  /\ MaxRefunds \in Nat
  /\ MockMode \in BOOLEAN
  /\ None \notin Workers \cup Users \cup Vouchers \cup Keys \cup Orders

VARIABLES
  status,   \* orders.status, "NONE" before the row exists
  pay,      \* orders.paymentStatus
  content,  \* what create writes once: items, voucherId, clientRequestId, userId
  payment,  \* the payments row: its status, and whether it has an unexpired token
  stock,    \* product_variants.stock
  sold,     \* products.totalSold, by the variant it was sold through
  vouch,    \* vouchers: open (active and within its window), quota, usedCount
  lock,     \* who holds the row lock of an order across steps
  opened,   \* the gateway has a transaction for the order
  settled,  \* the gateway has taken the customer's money
  refunds,  \* refund notifications sent so far
  acked,    \* a report that the money was taken went through and was answered 200
  req       \* what each worker is doing

orderVars   == <<status, pay, content, payment>>
shopVars    == <<stock, sold, vouch>>
gatewayVars == <<opened, settled, refunds, acked>>
vars == <<orderVars, shopVars, gatewayVars, lock, req>>

-----------------------------------------------------------------------------
(* The shape of the state *)

NoBasket == [v \in Variants |-> 0]
NoContent == [items |-> NoBasket, voucher |-> None, key |-> None, owner |-> None]
NoPayment == [status |-> "NONE", token |-> FALSE]

\* What a create request asks for, and what the order row then says for ever.
Wishes == [items : Baskets, voucher : Vouchers \cup {None}, key : Keys \cup {None},
           owner : Users]
Contents == Wishes \cup {NoContent}
PaymentRows == [status : PaymentStatuses \cup {"NONE"}, token : BOOLEAN]
VoucherRows == [open : BOOLEAN, quota : Nat, used : Nat]
\* What a handler remembers of the order it read before its transaction.
Views == [status : OrderStatuses, pay : PaymentStatuses]

Idle == [op |-> "idle"]
Requests ==
  {Idle}
    \cup [op : {"create"}, order : Orders, content : Wishes]
    \cup [op : {"createTx"}, order : Orders, content : Wishes, quota : Nat]
    \cup [op : {"createDup"}, content : Wishes]
    \cup [op : {"answered"}, order : Orders, content : Wishes]
    \cup [op : {"cancel"}, order : Orders, seen : Views]
    \cup [op : {"status"}, order : Orders, seen : Views, target : OrderStatuses]
    \cup [op : {"notify"}, order : Orders, seen : Views, report : PaymentStatuses]
    \cup [op : {"snap"}, order : Orders]

\* Types of the columns and of the requests in flight.  Stock and usedCount are
\* natural numbers because the UPDATEs that lower them are guarded.
TypeOK ==
  /\ status \in [Orders -> RowStatuses]
  /\ pay \in [Orders -> PaymentStatuses]
  /\ content \in [Orders -> Contents]
  /\ payment \in [Orders -> PaymentRows]
  /\ stock \in [Variants -> Nat]
  /\ sold \in [Variants -> Int]
  /\ vouch \in [Vouchers -> VoucherRows]
  /\ lock \in [Orders -> Workers \cup {None}]
  /\ opened \in [Orders -> BOOLEAN]
  /\ settled \in [Orders -> BOOLEAN]
  /\ refunds \in [Orders -> 0 .. MaxRefunds]
  /\ acked \in [Orders -> BOOLEAN]
  /\ req \in [Workers -> Requests]

Init ==
  /\ status = [o \in Orders |-> "NONE"]
  /\ pay = [o \in Orders |-> "UNPAID"]
  /\ content = [o \in Orders |-> NoContent]
  /\ payment = [o \in Orders |-> NoPayment]
  /\ stock = Supply
  /\ sold = [v \in Variants |-> 0]
  /\ vouch \in [Vouchers -> {[open |-> TRUE, quota |-> q, used |-> 0] : q \in Quotas}]
  /\ lock = [o \in Orders |-> None]
  /\ opened = [o \in Orders |-> FALSE]
  /\ settled = [o \in Orders |-> FALSE]
  /\ refunds = [o \in Orders |-> 0]
  /\ acked = [o \in Orders |-> FALSE]
  /\ req = [w \in Workers |-> Idle]

Exists(o) == status[o] # "NONE"
View(o) == [status |-> status[o], pay |-> pay[o]]
Doing(w, op) == req[w].op = op
Start(w, r) == Doing(w, "idle") /\ req' = [req EXCEPT ![w] = r]
Finish(w) == req' = [req EXCEPT ![w] = Idle]
Answer(w, o) ==
  req' = [req EXCEPT ![w] = [op |-> "answered", order |-> o, content |-> req[w].content]]
\* The first statement of every transaction on an existing order.
LockFree_bug(o) == TRUE
LockFree(o) == lock[o] = None
\* The end of a transaction, by commit or by rollback.
Release(w) == lock' = [o \in Orders |-> IF lock[o] = w THEN None ELSE lock[o]]
-----------------------------------------------------------------------------
(* Stock, sales and voucher counters *)

\* restoreStock: every item goes back to its variant; the sale is taken out of
\* totalSold only when the order the caller passes in is PAID.
RestoreStock_bug(o, payStatus) ==
  /\ stock' = [v \in Variants |-> stock[v] + content[o].items[v]]
  /\ sold' = [v \in Variants |-> sold[v] - content[o].items[v]]
RestoreStock(o, payStatus) ==
  LET items == content[o].items IN
  /\ stock' = [v \in Variants |-> stock[v] + items[v]]
  /\ sold' = IF payStatus = "PAID" THEN [v \in Variants |-> sold[v] - items[v]] ELSE sold

\* restoreVoucher: UPDATE ... SET usedCount = usedCount - 1 WHERE usedCount > 0.
RestoreVoucher(o) ==
  LET c == content[o].voucher IN
  vouch' = [d \in Vouchers |->
              IF d = c /\ vouch[d].used > 0
              THEN [vouch[d] EXCEPT !.used = vouch[d].used - 1]
              ELSE vouch[d]]

IncrementTotalSold(o) == sold' = [v \in Variants |-> sold[v] + content[o].items[v]]
-----------------------------------------------------------------------------
(* OrdersService.create *)

OrderWithKey(k) == {o \in Orders : Exists(o) /\ k # None /\ content[o].key = k}

\* Neither taken by a row nor about to be inserted by another request: create
\* draws a fresh id.
FreshId(o) ==
  /\ ~Exists(o)
  /\ \A w \in Workers : req[w].op \in {"create", "createTx"} => req[w].order # o

\* The lookup before the transaction finds no order of this key, and goes on.
CreateLookup(w, o, c) ==
  /\ FreshId(o)
  /\ OrderWithKey(c.key) = {}
  /\ Start(w, [op |-> "create", order |-> o, content |-> c])
  /\ UNCHANGED <<orderVars, shopVars, gatewayVars, lock>>

\* findByClientRequestId answers with an order of its own caller only; for
\* another caller it throws a conflict.
OwnOrder_bug(o, u) == TRUE
OwnOrder(o, u) == content[o].owner = u

\* The lookup finds an earlier order: the answer is that order.
CreateAgain(w, c) ==
  \E o \in OrderWithKey(c.key) :
    /\ OwnOrder(o, c.owner)
    /\ Doing(w, "idle")
    /\ req' = [req EXCEPT ![w] = [op |-> "answered", order |-> o, content |-> c]]
    /\ UNCHANGED <<orderVars, shopVars, gatewayVars, lock>>

\* The checks create makes on what its snapshot shows.
StockSuffices(items) == \A v \in Variants : items[v] <= stock[v]
VoucherUsable(c) == c # None => vouch[c].open /\ vouch[c].used < vouch[c].quota
SnapshotAllows(c) == StockSuffices(c.items) /\ VoucherUsable(c.voucher)

\* The first read of the transaction: it fixes the snapshot that the stock
\* checks and the voucher row come from.  Of that snapshot the rest of the
\* transaction uses only the voucher's quota.
CreateSnapshot(w) ==
  LET r == req[w] IN
  /\ Doing(w, "create")
  /\ SnapshotAllows(r.content)
  /\ req' = [req EXCEPT ![w] =
       [op |-> "createTx", order |-> r.order, content |-> r.content,
        quota |-> IF r.content.voucher = None THEN 0 ELSE vouch[r.content.voucher].quota]]
  /\ UNCHANGED <<orderVars, shopVars, gatewayVars, lock>>

\* WHERE stock >= quantity, of the UPDATE that takes an item.
TakeGuard_bug(items) == TRUE
TakeGuard(items) == StockSuffices(items)

\* WHERE isActive AND in window AND quota = <read quota> AND usedCount < <read quota>.
ReserveGuard_bug(c, quota) == c # None => vouch[c].open
ReserveGuard(c, quota) ==
  c # None => vouch[c].open /\ vouch[c].quota = quota /\ vouch[c].used < quota

\* The unique index on clientRequestId.
KeyIsFree(k) == OrderWithKey(k) = {}

WritesAllowed(r) ==
  TakeGuard(r.content.items) /\ ReserveGuard(r.content.voucher, r.quota)

CreateCommit(w) ==
  LET r == req[w]
      c == r.content
  IN  /\ Doing(w, "createTx")
      /\ WritesAllowed(r)
      /\ KeyIsFree(c.key)
      /\ status' = [status EXCEPT ![r.order] = "PENDING"]
      /\ content' = [content EXCEPT ![r.order] = c]
      /\ stock' = [v \in Variants |-> stock[v] - c.items[v]]
      /\ vouch' = [d \in Vouchers |->
                     IF d = c.voucher THEN [vouch[d] EXCEPT !.used = vouch[d].used + 1]
                     ELSE vouch[d]]
      /\ Answer(w, r.order)
      /\ UNCHANGED <<pay, payment, sold, gatewayVars, lock>>

\* The insert hits the unique index: the transaction rolls back with P2002 ...
CreateDuplicate(w) ==
  LET r == req[w] IN
  /\ Doing(w, "createTx")
  /\ WritesAllowed(r)
  /\ ~KeyIsFree(r.content.key)
  /\ req' = [req EXCEPT ![w] = [op |-> "createDup", content |-> r.content]]
  /\ UNCHANGED <<orderVars, shopVars, gatewayVars, lock>>

\* ... and the handler looks the key up again and answers with the order it finds.
CreateRecheck(w) ==
  LET r == req[w] IN
  /\ Doing(w, "createDup")
  /\ \E o \in OrderWithKey(r.content.key) :
       IF OwnOrder(o, r.content.owner) THEN Answer(w, o) ELSE Finish(w)
  /\ UNCHANGED <<orderVars, shopVars, gatewayVars, lock>>

\* 400 from a check on the snapshot, or from an UPDATE that matched no row.
CreateRefuse(w) ==
  /\ \/ Doing(w, "create") /\ ~SnapshotAllows(req[w].content)
     \/ Doing(w, "createTx") /\ ~WritesAllowed(req[w])
  /\ Finish(w)
  /\ UNCHANGED <<orderVars, shopVars, gatewayVars, lock>>

Answered(w) ==
  /\ Doing(w, "answered")
  /\ Finish(w)
  /\ UNCHANGED <<orderVars, shopVars, gatewayVars, lock>>
-----------------------------------------------------------------------------
(* OrdersService.cancel *)

CancelRead(w, o) ==
  /\ status[o] \in Cancellable
  /\ Start(w, [op |-> "cancel", order |-> o, seen |-> View(o)])
  /\ UNCHANGED <<orderVars, shopVars, gatewayVars, lock>>

\* The second check of the status, on the locked row.
StillCancellable_bug(o, seen) == seen.status \in Cancellable
StillCancellable(o, seen) == status[o] \in Cancellable

\* PAID money is refunded; any other payment can no longer be made.
PaymentAfterCancel_bug(o, seen) == IF seen.pay = "PAID" THEN "REFUNDED" ELSE "EXPIRED"
PaymentAfterCancel(o, seen) == IF pay[o] = "PAID" THEN "REFUNDED" ELSE "EXPIRED"

CancelCommit(w) ==
  LET o == req[w].order
      p == PaymentAfterCancel(o, req[w].seen)
  IN  /\ Doing(w, "cancel")
      /\ LockFree(o)
      /\ StillCancellable(o, req[w].seen)
      /\ status' = [status EXCEPT ![o] = "CANCELLED"]
      /\ pay' = [pay EXCEPT ![o] = p]
      /\ RestoreStock(o, pay[o])
      /\ RestoreVoucher(o)
      /\ payment' = IF payment[o].status = "NONE" THEN payment
                    ELSE [payment EXCEPT ![o].status = p]
      /\ Finish(w)
      /\ UNCHANGED <<content, gatewayVars, lock>>

CancelRefuse(w) ==
  /\ Doing(w, "cancel")
  /\ LockFree(req[w].order)
  /\ ~StillCancellable(req[w].order, req[w].seen)
  /\ Finish(w)
  /\ UNCHANGED <<orderVars, shopVars, gatewayVars, lock>>
-----------------------------------------------------------------------------
(* OrdersService.updateStatus and confirmReceived *)

StatusRead(w, o, target) ==
  /\ Exists(o)
  /\ target \in AllowedTransitions[status[o]]
  /\ target = "PAID" => pay[o] = "PAID"
  /\ Start(w, [op |-> "status", order |-> o, seen |-> View(o), target |-> target])
  /\ UNCHANGED <<orderVars, shopVars, gatewayVars, lock>>

\* The owner confirms that a shipped order arrived.
ConfirmRead(w, o) ==
  /\ status[o] = "SHIPPED"
  /\ Start(w, [op |-> "status", order |-> o, seen |-> View(o), target |-> "DELIVERED"])
  /\ UNCHANGED <<orderVars, shopVars, gatewayVars, lock>>

\* WHERE status = <the status read before the transaction>.
StatusGuard_bug(o, seen) == Exists(o)
StatusGuard(o, seen) == status[o] = seen.status

StatusCommit(w) ==
  LET r == req[w] IN
  /\ Doing(w, "status")
  /\ LockFree(r.order)
  /\ StatusGuard(r.order, r.seen)
  /\ status' = [status EXCEPT ![r.order] = r.target]
  /\ Finish(w)
  /\ UNCHANGED <<pay, content, payment, shopVars, gatewayVars, lock>>

StatusRefuse(w) ==
  /\ Doing(w, "status")
  /\ LockFree(req[w].order)
  /\ ~StatusGuard(req[w].order, req[w].seen)
  /\ Finish(w)
  /\ UNCHANGED <<orderVars, shopVars, gatewayVars, lock>>
-----------------------------------------------------------------------------
(* PaymentsService.createSnapToken *)

MayPay(o) == status[o] = "PENDING" /\ pay[o] # "PAID"

CanReuseSnapToken(o) ==
  /\ payment[o].token
  /\ payment[o].status = "UNPAID"
  /\ pay[o] = "UNPAID"
  /\ status[o] = "PENDING"

\* Lock the order, check it, and call the gateway with the lock held.  A token
\* that can be reused is answered without any change.
SnapOpen(w, o) ==
  /\ LockFree(o)
  /\ MayPay(o)
  /\ ~CanReuseSnapToken(o)
  /\ Start(w, [op |-> "snap", order |-> o])
  /\ lock' = [lock EXCEPT ![o] = w]
  /\ opened' = [opened EXCEPT ![o] = opened[o] \/ ~MockMode]
  /\ UNCHANGED <<orderVars, shopVars, settled, refunds, acked>>

\* Store the token; whatever the payment was, the order is UNPAID again.
SnapSave(w) ==
  LET o == req[w].order IN
  /\ Doing(w, "snap")
  /\ payment' = [payment EXCEPT ![o] = [status |-> "UNPAID", token |-> TRUE]]
  /\ pay' = [pay EXCEPT ![o] = "UNPAID"]
  /\ Release(w)
  /\ Finish(w)
  /\ UNCHANGED <<status, content, shopVars, gatewayVars>>

\* 24 hours pass since the token was stored.
TokenExpires(o) ==
  /\ payment[o].token
  /\ payment' = [payment EXCEPT ![o].token = FALSE]
  /\ UNCHANGED <<status, pay, content, shopVars, gatewayVars, lock, req>>
-----------------------------------------------------------------------------
(* The payment gateway *)

\* The customer pays.  In mock mode nobody does: completeMockPayment pretends.
GatewaySettles(o) ==
  /\ ~MockMode
  /\ opened[o]
  /\ ~settled[o]
  /\ settled' = [settled EXCEPT ![o] = TRUE]
  /\ UNCHANGED <<orderVars, shopVars, opened, refunds, acked, lock, req>>

RefundReports == {"refund", "partial_refund"}

\* What may arrive for order o, again and in any order.  Only money that was taken
\* is reported as taken or given back; refund reports are capped by MaxRefunds.
Deliverable(o, report) ==
  IF MockMode
  THEN report \in {"settlement", "pending", "failure"}
  ELSE /\ opened[o]
       /\ report \in {"settlement", "capture"} \cup RefundReports => settled[o]
       /\ report \in RefundReports => refunds[o] < MaxRefunds
-----------------------------------------------------------------------------
(* PaymentsService.processTrustedNotification *)

\* The read before the transaction, and the two early returns that it decides.
\* They answer 200 and change nothing; a settlement they answer is one of a
\* cancelled order.
NotifyRead(w, o, report) ==
  LET s == MapPaymentStatus(report) IN
  /\ Exists(o)
  /\ Deliverable(o, report)
  /\ status[o] # "CANCELLED"
  /\ pay[o] = "PAID" => s \in {"PAID", "REFUNDED"}
  /\ Start(w, [op |-> "notify", order |-> o, seen |-> View(o), report |-> s])
  /\ settled' = [settled EXCEPT ![o] = settled[o] \/ (MockMode /\ report = "settlement")]
  /\ refunds' = [refunds EXCEPT ![o] = IF report \in RefundReports THEN refunds[o] + 1
                                        ELSE refunds[o]]
  /\ UNCHANGED <<orderVars, shopVars, opened, acked, lock>>

\* The same two decisions, under the lock and on the row as it is now.
ReportIsStale_bug(o, report) == pay[o] = "PAID" /\ report # "REFUNDED"
ReportIsStale(o, report) ==
  \/ status[o] = "CANCELLED"
  \/ pay[o] = "PAID" /\ report # "REFUNDED"

\* payment.upsert keeps a stored token.
RecordPayment(o, report) == payment' = [payment EXCEPT ![o].status = report]

\* The transaction has ended: the gateway gets its 200, be the report applied or
\* ignored.
Acknowledge(w) ==
  /\ acked' = [acked EXCEPT ![req[w].order] = @ \/ req[w].report = "PAID"]
  /\ UNCHANGED <<opened, settled, refunds>>

NotifyIgnore(w) ==
  /\ Doing(w, "notify")
  /\ LockFree(req[w].order)
  /\ ReportIsStale(req[w].order, req[w].report)
  /\ Acknowledge(w)
  /\ Finish(w)
  /\ UNCHANGED <<orderVars, shopVars, lock>>

\* Common to the three ways a report that is not stale is applied.
NotifyApply(w) ==
  /\ Doing(w, "notify")
  /\ LockFree(req[w].order)
  /\ ~ReportIsStale(req[w].order, req[w].report)
  /\ RecordPayment(req[w].order, req[w].report)
  /\ Acknowledge(w)
  /\ Finish(w)
  /\ UNCHANGED <<content, lock>>

\* WHERE status <> CANCELLED AND paymentStatus <> PAID.
PaidGuard(o) == status[o] # "CANCELLED" /\ pay[o] # "PAID"

NotifyPaid(w) ==
  LET o == req[w].order IN
  /\ NotifyApply(w)
  /\ req[w].report = "PAID"
  /\ IF PaidGuard(o)
     THEN /\ pay' = [pay EXCEPT ![o] = "PAID"]
          /\ status' = IF status[o] = "PENDING" THEN [status EXCEPT ![o] = "PAID"] ELSE status
          /\ IncrementTotalSold(o)
     ELSE UNCHANGED <<pay, status, sold>>
  /\ UNCHANGED <<stock, vouch>>

GivesUp(o, report) == report \in {"EXPIRED", "FAILED"} /\ status[o] = "PENDING"

\* A payment that failed or ran out while the order was PENDING cancels the order.
NotifyGiveUp(w) ==
  LET o == req[w].order IN
  /\ NotifyApply(w)
  /\ GivesUp(o, req[w].report)
  /\ status' = [status EXCEPT ![o] = "CANCELLED"]
  /\ pay' = [pay EXCEPT ![o] = req[w].report]
  /\ RestoreStock(o, req[w].seen.pay)
  /\ RestoreVoucher(o)

\* Every other report only overwrites the payment status.
NotifyOther(w) ==
  LET o == req[w].order IN
  /\ NotifyApply(w)
  /\ req[w].report # "PAID"
  /\ ~GivesUp(o, req[w].report)
  /\ pay' = [pay EXCEPT ![o] = req[w].report]
  /\ UNCHANGED <<status, shopVars>>

NotifyCommit(w) == NotifyIgnore(w) \/ NotifyPaid(w) \/ NotifyGiveUp(w) \/ NotifyOther(w)
-----------------------------------------------------------------------------
(* VouchersService, as far as create can see it *)

\* update refuses, under the row lock, a quota below what is already used.
QuotaAcceptable(c, q) == q >= vouch[c].used

UpdateQuota(c, q) ==
  /\ q # vouch[c].quota
  /\ QuotaAcceptable(c, q)
  /\ vouch' = [vouch EXCEPT ![c].quota = q]
  /\ UNCHANGED <<orderVars, stock, sold, gatewayVars, lock, req>>

\* The admin switches the voucher on or off, or its window opens or closes.
ToggleVoucher(c) ==
  /\ vouch' = [vouch EXCEPT ![c].open = ~vouch[c].open]
  /\ UNCHANGED <<orderVars, stock, sold, gatewayVars, lock, req>>
-----------------------------------------------------------------------------
\* A deadlock victim, a lock wait or transaction that times out, a gateway call
\* that fails, a lost connection, a process that dies: the transaction rolls
\* back, and what the gateway was told stays told.
Abort(w) ==
  /\ req[w].op \notin {"idle", "answered"}
  /\ Finish(w)
  /\ Release(w)
  /\ UNCHANGED <<orderVars, shopVars, gatewayVars>>

\* Prisma ends the transaction of createSnapToken after its default 5 seconds: it
\* rolls back and the lock is free.  The handler may still be waiting for the
\* gateway, which has no timeout; its next statement would be refused, so it can
\* change nothing and is followed no further.
SnapTimesOut_bug(w) == FALSE
SnapTimesOut(w) == Doing(w, "snap") /\ Abort(w)

\* The steps that wait for nothing but the database.
Serve(w) ==
  \/ CreateSnapshot(w) \/ CreateCommit(w) \/ CreateDuplicate(w) \/ CreateRecheck(w)
  \/ CreateRefuse(w) \/ Answered(w)
  \/ CancelCommit(w) \/ CancelRefuse(w)
  \/ StatusCommit(w) \/ StatusRefuse(w)
  \/ NotifyCommit(w)

Next ==
  \/ \E w \in Workers :
       \/ Serve(w)
       \/ SnapSave(w)
       \/ Abort(w)
       \/ \E new \in Wishes :
            \/ CreateAgain(w, new)
            \/ \E o \in Orders : CreateLookup(w, o, new)
       \/ \E o \in Orders :
            \/ CancelRead(w, o)
            \/ \E target \in OrderStatuses : StatusRead(w, o, target)
            \/ ConfirmRead(w, o)
            \/ SnapOpen(w, o)
            \/ \E report \in Reports : NotifyRead(w, o, report)
  \/ \E o \in Orders : TokenExpires(o) \/ GatewaySettles(o)
  \/ \E c \in Vouchers : ToggleVoucher(c) \/ \E q \in Quotas : UpdateQuota(c, q)

Spec == Init /\ [][Next]_vars
-----------------------------------------------------------------------------
(* Safety *)

\* Orders that hold goods: placed and not cancelled.
Live == {o \in Orders : status[o] \notin {"NONE", "CANCELLED"}}

\* The single pieces of variant v that the orders of S took.
Units(S, v) == UNION {{o} \X (1 .. content[o].items[v]) : o \in S}

\* Every piece of stock is either on the shelf or in exactly one live order: no
\* interleaving of create, cancel and give-up webhooks loses stock, sells it
\* twice or returns it twice.
StockConserved ==
  \A v \in Variants : stock[v] + Cardinality(Units(Live, v)) = Supply[v]

\* usedCount is the number of live orders that use the voucher, and stays within
\* the quota whatever the admin does to the quota while reservations run.
VoucherConserved ==
  \A c \in Vouchers :
    /\ vouch[c].used = Cardinality({o \in Live : content[o].voucher = c})
    /\ vouch[c].used <= vouch[c].quota

\* orders.paymentStatus and payments.status are two copies of one fact, written
\* by three handlers in separate statements; they never disagree.
PaymentCopiesAgree ==
  \A o \in Orders : payment[o].status # "NONE" => payment[o].status = pay[o]

\* An order that is PAID, or further, is one whose money the gateway has taken, and
\* its payment still says PAID unless a refund was reported: only then do late
\* reports overwrite it.  An order whose payment is PAID has left PENDING.
PaidMeansSettled ==
  \A o \in Orders :
    /\ status[o] \in {"PAID", "PACKED", "SHIPPED", "DELIVERED"} =>
         settled[o] /\ (pay[o] = "PAID" \/ refunds[o] > 0)
    /\ pay[o] = "PAID" => settled[o] /\ status[o] \notin {"NONE", "PENDING", "CANCELLED"}

\* totalSold covers at least the pieces of the orders that are paid now: a
\* decrement always undoes an increment of the same order.
SoldCoversPaid ==
  \A v \in Variants :
    sold[v] >= Cardinality(Units({o \in Live : pay[o] = "PAID"}, v))

\* A create request, and each retry of it with the same idempotency key, is
\* answered with the one order of that key, and that order is the caller's.
AnswerIsOwnOrder ==
  \A w \in Workers : req[w].op = "answered" =>
    LET o == req[w].order
        c == req[w].content
    IN  /\ Exists(o) /\ content[o].owner = c.owner
        /\ c.key # None => OrderWithKey(c.key) = {o}

\* createSnapToken checks the order, awaits the gateway and then writes.  What it
\* checked still holds when it writes: no webhook or cancel got in between.
SnapChecksStillHold ==
  \A w \in Workers : req[w].op = "snap" =>
    /\ lock[req[w].order] = w
    /\ MayPay(req[w].order)
    /\ ~CanReuseSnapToken(req[w].order)
-----------------------------------------------------------------------------
(* What the handlers in flight rely on: the strengthening that makes the safety *)
(* invariants inductive                                                         *)

\* The id a create request will insert under has no row, and is its alone.
FreshIds ==
  \A w \in Workers : req[w].op \in {"create", "createTx"} =>
    /\ ~Exists(req[w].order)
    /\ \A u \in Workers \ {w} :
         req[u].op \in {"create", "createTx"} => req[u].order # req[w].order

\* A status request was admitted by the graph; its order was not PENDING, since
\* PENDING to PAID asks for a PAID payment and a PENDING order never has one.
StatusRequestsAdmitted ==
  \A w \in Workers : req[w].op = "status" =>
    /\ req[w].target \in AllowedTransitions[req[w].seen.status]
    /\ req[w].seen.status # "PENDING"

\* A report in flight is about an existing order; it says PAID only of money that
\* was taken, REFUNDED only after a refund was sent, and a failure only if the
\* order was not seen PAID.
ReportsAdmitted ==
  \A w \in Workers : req[w].op = "notify" =>
    /\ Exists(req[w].order)
    /\ req[w].report = "PAID" => settled[req[w].order]
    /\ req[w].report = "REFUNDED" => refunds[req[w].order] > 0
    /\ req[w].report \in {"EXPIRED", "FAILED"} => req[w].seen.pay # "PAID"

\* Only a request at the gateway holds a lock between steps, that of its order.
LocksAreHeld ==
  \A o \in Orders : lock[o] # None =>
    req[lock[o]].op = "snap" /\ req[lock[o]].order = o

RequestInv == FreshIds /\ StatusRequestsAdmitted /\ ReportsAdmitted /\ LocksAreHeld

\* The part of the inductive invariant that is about payments and requests.
PaymentInv ==
  /\ TypeOK
  /\ RequestInv
  /\ PaymentCopiesAgree
  /\ PaidMeansSettled
  /\ SnapChecksStillHold
-----------------------------------------------------------------------------
(* Action properties *)

\* No late, duplicated or reordered report, no new snap token and no admin move
\* takes a payment out of PAID, other than a refund.
PaidIsOnlyRefunded ==
  [][\A o \in Orders : pay[o] = "PAID" => pay'[o] \in {"PAID", "REFUNDED"}]_vars

\* A cancelled order is closed: neither its status, nor its payment status, nor
\* the status of its payment row moves again, whatever is still in flight for it.
CancelledIsFinal ==
  [][\A o \in Orders : status[o] = "CANCELLED" =>
       /\ status'[o] = "CANCELLED"
       /\ pay'[o] = pay[o]
       /\ payment'[o].status = payment[o].status]_vars

\* Requests, transactions and webhooks implement the abstract order: one stage
\* at a time, goods and voucher taken once and given back once.
Lifecycle ==
  INSTANCE OrderLifecycle
    WITH stage <- status,
         goods <- [o \in Orders |-> content[o].items],
         voucher <- [o \in Orders |-> content[o].voucher],
         available <- stock,
         uses <- [c \in Vouchers |-> vouch[c].used]

ImplementsLifecycle == Lifecycle!Spec
-----------------------------------------------------------------------------
(* Liveness *)

\* Node and InnoDB serve every request: lock requests queue first come, first
\* served, so a step that waits only for the database and keeps becoming possible
\* is taken.  The gateway may never answer createSnapToken: of that request only
\* the transaction ends.  The gateway repeats a settlement until a report that the
\* money was taken is answered, no longer, and from some repetition on its
\* transactions are not aborted.
Fairness ==
  /\ \A w \in Workers : SF_vars(Serve(w)) /\ WF_vars(SnapTimesOut(w))
  /\ \A o \in Orders :
       SF_vars(/\ ~MockMode /\ ~acked[o]
               /\ \E w \in Workers : NotifyRead(w, o, "settlement"))
  /\ <>[][\A w \in Workers :
            Abort(w) => ~(req[w].op = "notify" /\ req[w].report = "PAID")]_vars

FairSpec == Spec /\ Fairness

\* Nobody waits for ever for the row lock of an order, though the gateway may
\* never answer the request that holds it: every request but that one ends, and
\* does not need its own time-outs for it.
RequestsEnd ==
  \A w \in Workers : req[w].op \notin {"idle", "snap"} ~> req[w].op = "idle"

\* Money the gateway has taken is recorded, though any single webhook may be lost,
\* and for good although nothing is sent again after an answer: from some moment
\* on the order is cancelled, or past PENDING and still PAID unless a refund was
\* reported too.
SettlementIsRecorded ==
  \A o \in Orders :
    settled[o] ~> [](\/ status[o] = "CANCELLED"
                     \/ /\ status[o] \notin {"NONE", "PENDING"}
                        /\ pay[o] = "PAID" \/ refunds[o] > 0)
-----------------------------------------------------------------------------
(* What comments in the code claim and the code does not do *)

\* "Idempotency + out-of-order protection", "Ignore a duplicate PAID" (comments
\* in processTrustedNotification): however often a settlement is reported, an
\* order adds its pieces to totalSold at most once.
DuplicatePaidCountsOnce ==
  \A v \in Variants :
    sold[v] <= Cardinality(Units({o \in Orders : Exists(o)}, v))
=============================================================================
