---------------------------- MODULE OrdersProofs ----------------------------
(***************************************************************************)
(* Theorems about module Orders, for every number of orders, requests,     *)
(* variants and vouchers, and every stock, quota and basket:               *)
(*   1. types, payments and the snap token;                                *)
(*   2. nothing the shop counts is ever lost: stock, voucher uses and      *)
(*      sales agree with the orders there are;                             *)
(*   3. what no step ever does to an order, that module Orders implements  *)
(*      module OrderLifecycle, and that a create request is answered with  *)
(*      the caller's own order.                                            *)
(***************************************************************************)
EXTENDS Orders, FiniteSetTheorems, TLAPS

USE DEF vars, orderVars, shopVars, gatewayVars
-----------------------------------------------------------------------------
(* Types *)

\* What the type invariant says of a request, by the step it waits for.
LEMMA RequestTypes ==
  ASSUME TypeOK, NEW w \in Workers
  PROVE  /\ req[w].op = "create" => req[w].order \in Orders /\ req[w].content \in Wishes
         /\ req[w].op = "createTx" => /\ req[w].order \in Orders
                                      /\ req[w].content \in Wishes
                                      /\ req[w].quota \in Nat
         /\ req[w].op = "createDup" => req[w].content \in Wishes
         /\ req[w].op = "answered" => req[w].order \in Orders /\ req[w].content \in Wishes
         /\ req[w].op = "cancel" => req[w].order \in Orders /\ req[w].seen \in Views
         /\ req[w].op = "status" => /\ req[w].order \in Orders /\ req[w].seen \in Views
                                    /\ req[w].target \in OrderStatuses
         /\ req[w].op = "notify" => /\ req[w].order \in Orders /\ req[w].seen \in Views
                                    /\ req[w].report \in PaymentStatuses
         /\ req[w].op = "snap" => req[w].order \in Orders
  <1>1. req[w] \in Requests
    BY DEF TypeOK
  <1> QED
    BY <1>1 DEF Requests, Idle

\* What an order took, and the voucher it used.
LEMMA ContentType ==
  ASSUME TypeOK, NEW o \in Orders
  PROVE  /\ content[o].items \in [Variants -> Nat]
         /\ content[o].voucher \in Vouchers \cup {None}
  <1>1. content[o] \in Wishes \/ content[o] = NoContent
    BY DEF TypeOK, Contents
  <1> QED
    BY <1>1, OrdersAssumption DEF Wishes, NoContent, NoBasket

\* Moving one request on keeps the type of all of them.
LEMMA RequestMoves ==
  ASSUME TypeOK, NEW w \in Workers, NEW r \in Requests,
         req' = [req EXCEPT ![w] = r]
  PROVE  req' \in [Workers -> Requests]
  BY DEF TypeOK

LEMMA FinishMoves ==
  ASSUME TypeOK, NEW w \in Workers, Finish(w)
  PROVE  req' \in [Workers -> Requests]
  BY DEF TypeOK, Finish, Requests

\* The row of an existing order fits into what a handler remembers of it.
LEMMA ViewType ==
  ASSUME TypeOK, NEW o \in Orders, Exists(o)
  PROVE  View(o) \in Views
  BY DEF TypeOK, Exists, View, Views, RowStatuses

LEMMA MapPaymentStatusType ==
  ASSUME NEW report PROVE MapPaymentStatus(report) \in PaymentStatuses
  BY DEF MapPaymentStatus, PaymentStatuses

\* Giving an order's goods and voucher back keeps the counters' types.
LEMMA RestoreTypes ==
  ASSUME TypeOK, NEW o \in Orders, NEW p,
         RestoreStock(o, p), RestoreVoucher(o)
  PROVE  /\ stock' \in [Variants -> Nat]
         /\ sold' \in [Variants -> Int]
         /\ vouch' \in [Vouchers -> VoucherRows]
  <1>1. content[o].items \in [Variants -> Nat]
    BY ContentType
  <1>2. stock' \in [Variants -> Nat] /\ sold' \in [Variants -> Int]
    BY <1>1 DEF TypeOK, RestoreStock
  <1>3. \A d \in Vouchers : vouch[d] \in VoucherRows
    BY DEF TypeOK
  <1>4. \A d \in Vouchers : vouch[d].used > 0 =>
          [vouch[d] EXCEPT !.used = vouch[d].used - 1] \in VoucherRows
    BY <1>3 DEF VoucherRows
  <1> QED
    BY <1>2, <1>3, <1>4 DEF RestoreVoucher

\* Nothing moves but requests, and possibly locks and acknowledgements.
Quiet ==
  /\ UNCHANGED <<orderVars, shopVars, opened, settled, refunds>>
  /\ UNCHANGED acked \/ acked' \in [Orders -> BOOLEAN]

\* Answering a report, whether it was applied or ignored.
LEMMA AcknowledgeType ==
  ASSUME TypeOK, NEW w \in Workers, Doing(w, "notify"), Acknowledge(w)
  PROVE  acked' \in [Orders -> BOOLEAN] /\ UNCHANGED <<opened, settled, refunds>>
  BY RequestTypes DEF TypeOK, Doing, Acknowledge

LEMMA QuietTypes ==
  ASSUME TypeOK, Quiet, req' \in [Workers -> Requests],
         lock' \in [Orders -> Workers \cup {None}]
  PROVE  TypeOK'
  BY DEF Quiet, TypeOK

LEMMA ReleaseType ==
  ASSUME TypeOK, NEW w \in Workers, Release(w)
  PROVE  lock' \in [Orders -> Workers \cup {None}]
  BY DEF TypeOK, Release

LEMMA QuietRequestTypes ==
  ASSUME TypeOK, Quiet, UNCHANGED lock, req' \in [Workers -> Requests]
  PROVE  TypeOK'
  BY QuietTypes DEF TypeOK

\* Every step, action by action: what a proof that a step keeps an invariant splits on.
LEMMA NextCases ==
  ASSUME [Next]_vars
  PROVE  \/ \E w \in Workers :
              \/ CreateSnapshot(w) \/ CreateCommit(w) \/ CreateDuplicate(w) \/ CreateRecheck(w)
              \/ CreateRefuse(w) \/ Answered(w)
              \/ CancelCommit(w) \/ CancelRefuse(w) \/ StatusCommit(w) \/ StatusRefuse(w)
              \/ SnapSave(w) \/ Abort(w)
              \/ NotifyIgnore(w) \/ NotifyPaid(w) \/ NotifyGiveUp(w) \/ NotifyOther(w)
              \/ \E new \in Wishes :
                   CreateAgain(w, new) \/ \E o \in Orders : CreateLookup(w, o, new)
              \/ \E o \in Orders :
                   \/ CancelRead(w, o) \/ ConfirmRead(w, o) \/ SnapOpen(w, o)
                   \/ \E target \in OrderStatuses : StatusRead(w, o, target)
                   \/ \E report \in Reports : NotifyRead(w, o, report)
         \/ \E o \in Orders : TokenExpires(o) \/ GatewaySettles(o)
         \/ \E c \in Vouchers : ToggleVoucher(c) \/ \E q \in Quotas : UpdateQuota(c, q)
         \/ UNCHANGED vars
  BY DEF Next, Serve, NotifyCommit

LEMMA TypeStep == TypeOK /\ [Next]_vars => TypeOK'
  <1> SUFFICES ASSUME TypeOK, [Next]_vars PROVE TypeOK'
    OBVIOUS
  <1>a. ASSUME NEW w \in Workers, CreateSnapshot(w) PROVE TypeOK'
    <2>1. req[w].order \in Orders /\ req[w].content \in Wishes
      BY <1>a, RequestTypes DEF CreateSnapshot, Doing
    <2> DEFINE q == IF req[w].content.voucher = None THEN 0
                    ELSE vouch[req[w].content.voucher].quota
    <2>2. q \in Nat
      BY <2>1 DEF TypeOK, VoucherRows, Wishes
    <2> HIDE DEF q
    <2>3. [op |-> "createTx", order |-> req[w].order, content |-> req[w].content,
           quota |-> q] \in Requests
      BY <2>1, <2>2 DEF Requests
    <2>4. req' \in [Workers -> Requests] /\ Quiet /\ UNCHANGED lock
      BY <1>a, <2>3, RequestMoves DEF CreateSnapshot, q, Quiet
    <2> QED
      BY <2>4, QuietRequestTypes
  <1>b. ASSUME NEW w \in Workers, CreateCommit(w) PROVE TypeOK'
    <2>1. req[w].order \in Orders /\ req[w].content \in Wishes
      BY <1>b, RequestTypes DEF CreateCommit, Doing
    <2>2. /\ req[w].content.items \in [Variants -> Nat]
          /\ \A v \in Variants : req[w].content.items[v] <= stock[v]
      BY <1>b, <2>1, OrdersAssumption
      DEF CreateCommit, WritesAllowed, TakeGuard, StockSuffices, Wishes
    <2>3. stock' \in [Variants -> Nat]
      BY <1>b, <2>2 DEF CreateCommit, TypeOK
    <2>4. ASSUME NEW d \in Vouchers
          PROVE  /\ vouch[d] \in VoucherRows
                 /\ [vouch[d] EXCEPT !.used = vouch[d].used + 1] \in VoucherRows
      BY DEF TypeOK, VoucherRows
    <2>5. vouch' \in [Vouchers -> VoucherRows]
      BY <1>b, <2>4 DEF CreateCommit
    <2>6. [op |-> "answered", order |-> req[w].order, content |-> req[w].content] \in Requests
      BY <2>1 DEF Requests
    <2>7. req' \in [Workers -> Requests]
      BY <1>b, <2>6, RequestMoves DEF CreateCommit, Answer
    <2> QED
      BY <1>b, <2>1, <2>3, <2>5, <2>7
      DEF CreateCommit, TypeOK, RowStatuses, OrderStatuses, Contents
  <1>c. ASSUME NEW w \in Workers, CreateDuplicate(w) PROVE TypeOK'
    <2>1. [op |-> "createDup", content |-> req[w].content] \in Requests
      BY <1>c, RequestTypes DEF CreateDuplicate, Doing, Requests
    <2>2. req' \in [Workers -> Requests] /\ Quiet /\ UNCHANGED lock
      BY <1>c, <2>1, RequestMoves DEF CreateDuplicate, Quiet
    <2> QED
      BY <2>2, QuietRequestTypes
  <1>d. ASSUME NEW w \in Workers, CreateRecheck(w) PROVE TypeOK'
    <2>1. PICK o \in OrderWithKey(req[w].content.key) : Answer(w, o) \/ Finish(w)
      BY <1>d DEF CreateRecheck
    <2>2. [op |-> "answered", order |-> o, content |-> req[w].content] \in Requests
      BY <1>d, RequestTypes DEF CreateRecheck, Doing, Requests, OrderWithKey
    <2>3. req' \in [Workers -> Requests]
      BY <2>1, <2>2, RequestMoves, FinishMoves DEF Answer
    <2>4. Quiet /\ UNCHANGED lock
      BY <1>d DEF CreateRecheck, Quiet
    <2> QED
      BY <2>3, <2>4, QuietRequestTypes
  <1>e. ASSUME NEW w \in Workers,
               CreateRefuse(w) \/ Answered(w) \/ CancelRefuse(w) \/ StatusRefuse(w)
                 \/ NotifyIgnore(w)
        PROVE TypeOK'
    <2>1. Finish(w) /\ Quiet /\ UNCHANGED lock
      BY <1>e, AcknowledgeType
      DEF CreateRefuse, Answered, CancelRefuse, StatusRefuse, NotifyIgnore, Quiet
    <2> QED
      BY <2>1, FinishMoves, QuietRequestTypes
  <1>f. ASSUME NEW w \in Workers, CancelCommit(w) PROVE TypeOK'
    <2>1. req[w].order \in Orders
      BY <1>f, RequestTypes DEF CancelCommit, Doing
    <2> DEFINE p == PaymentAfterCancel(req[w].order, req[w].seen)
    <2>2. p \in PaymentStatuses
      BY DEF PaymentAfterCancel, PaymentStatuses
    <2>3. /\ stock' \in [Variants -> Nat]
          /\ sold' \in [Variants -> Int]
          /\ vouch' \in [Vouchers -> VoucherRows]
      BY <1>f, <2>1, RestoreTypes DEF CancelCommit
    <2>4. payment' = payment \/ payment' = [payment EXCEPT ![req[w].order].status = p]
      BY <1>f DEF CancelCommit
    <2>5. pay' = [pay EXCEPT ![req[w].order] = p]
      BY <1>f DEF CancelCommit
    <2> HIDE DEF p
    <2>6. payment' \in [Orders -> PaymentRows] /\ pay' \in [Orders -> PaymentStatuses]
      BY <2>1, <2>2, <2>4, <2>5 DEF TypeOK, PaymentRows
    <2>7. status' \in [Orders -> RowStatuses]
      BY <1>f, <2>1 DEF CancelCommit, TypeOK, RowStatuses, OrderStatuses
    <2>8. req' \in [Workers -> Requests]
      BY <1>f, FinishMoves DEF CancelCommit
    <2> QED
      BY <1>f, <2>3, <2>6, <2>7, <2>8 DEF CancelCommit, TypeOK
  <1>g. ASSUME NEW w \in Workers, StatusCommit(w) PROVE TypeOK'
    <2>1. req[w].order \in Orders /\ req[w].target \in OrderStatuses
      BY <1>g, RequestTypes DEF StatusCommit, Doing
    <2>2. req' \in [Workers -> Requests]
      BY <1>g, FinishMoves DEF StatusCommit
    <2> QED
      BY <1>g, <2>1, <2>2 DEF StatusCommit, TypeOK, RowStatuses
  <1>h. ASSUME NEW w \in Workers, SnapSave(w) PROVE TypeOK'
    <2>1. req[w].order \in Orders
      BY <1>h, RequestTypes DEF SnapSave, Doing
    <2>2. req' \in [Workers -> Requests] /\ lock' \in [Orders -> Workers \cup {None}]
      BY <1>h, FinishMoves, ReleaseType DEF SnapSave
    <2>3. [status |-> "UNPAID", token |-> TRUE] \in PaymentRows
      BY DEF PaymentRows, PaymentStatuses
    <2>4. payment' \in [Orders -> PaymentRows] /\ pay' \in [Orders -> PaymentStatuses]
      BY <1>h, <2>1, <2>3 DEF SnapSave, TypeOK, PaymentStatuses
    <2> QED
      BY <1>h, <2>2, <2>4 DEF SnapSave, TypeOK
  <1>i. ASSUME NEW w \in Workers, NotifyPaid(w) \/ NotifyGiveUp(w) \/ NotifyOther(w)
        PROVE TypeOK'
    <2>0. NotifyApply(w)
      BY <1>i DEF NotifyPaid, NotifyGiveUp, NotifyOther
    <2>1. req[w].order \in Orders /\ req[w].report \in PaymentStatuses
      BY <2>0, RequestTypes DEF NotifyApply, Doing
    <2>2. payment' \in [Orders -> PaymentRows]
      BY <2>0, <2>1 DEF NotifyApply, RecordPayment, TypeOK, PaymentRows
    <2>3. /\ status' \in [Orders -> RowStatuses]
          /\ pay' \in [Orders -> PaymentStatuses]
      BY <1>i, <2>1
      DEF NotifyPaid, NotifyGiveUp, NotifyOther, TypeOK, RowStatuses, OrderStatuses
    <2>4. /\ stock' \in [Variants -> Nat]
          /\ sold' \in [Variants -> Int]
          /\ vouch' \in [Vouchers -> VoucherRows]
      <3>1. CASE NotifyPaid(w)
        <4>1. content[req[w].order].items \in [Variants -> Nat]
          BY <2>1, ContentType
        <4> QED
          BY <3>1, <4>1 DEF NotifyPaid, IncrementTotalSold, TypeOK
      <3>2. CASE NotifyGiveUp(w)
        BY <3>2, <2>1, RestoreTypes DEF NotifyGiveUp
      <3>3. CASE NotifyOther(w)
        BY <3>3 DEF NotifyOther, TypeOK
      <3> QED
        BY <1>i, <3>1, <3>2, <3>3
    <2>5. req' \in [Workers -> Requests]
      BY <2>0, FinishMoves DEF NotifyApply
    <2>6. acked' \in [Orders -> BOOLEAN] /\ UNCHANGED <<opened, settled, refunds>>
      BY <2>0, AcknowledgeType DEF NotifyApply
    <2> QED
      BY <2>0, <2>2, <2>3, <2>4, <2>5, <2>6 DEF NotifyApply, TypeOK
  <1>j. ASSUME NEW w \in Workers, Abort(w) PROVE TypeOK'
    <2>1. Quiet /\ Finish(w) /\ Release(w)
      BY <1>j DEF Abort, Quiet
    <2> QED
      BY <2>1, FinishMoves, ReleaseType, QuietTypes
  <1>k. ASSUME NEW w \in Workers, NEW new \in Wishes, CreateAgain(w, new)
        PROVE TypeOK'
    <2>1. PICK o \in OrderWithKey(new.key) :
            req' = [req EXCEPT ![w] = [op |-> "answered", order |-> o, content |-> new]]
      BY <1>k DEF CreateAgain
    <2>2. [op |-> "answered", order |-> o, content |-> new] \in Requests
      BY DEF Requests, OrderWithKey
    <2>3. Quiet /\ UNCHANGED lock
      BY <1>k DEF CreateAgain, Quiet
    <2> QED
      BY <2>1, <2>2, <2>3, RequestMoves, QuietRequestTypes
  <1>l. ASSUME NEW w \in Workers, NEW new \in Wishes, NEW o \in Orders,
               CreateLookup(w, o, new)
        PROVE TypeOK'
    <2>1. [op |-> "create", order |-> o, content |-> new] \in Requests
      BY DEF Requests
    <2>2. Quiet /\ UNCHANGED lock /\ req' \in [Workers -> Requests]
      BY <1>l, <2>1, RequestMoves DEF CreateLookup, Start, Quiet
    <2> QED
      BY <2>2, QuietRequestTypes
  <1>m. ASSUME NEW w \in Workers, NEW o \in Orders, CancelRead(w, o) PROVE TypeOK'
    <2>1. View(o) \in Views
      BY <1>m, ViewType DEF CancelRead, Exists, Cancellable
    <2>2. [op |-> "cancel", order |-> o, seen |-> View(o)] \in Requests
      BY <2>1 DEF Requests
    <2>3. Quiet /\ UNCHANGED lock /\ req' \in [Workers -> Requests]
      BY <1>m, <2>2, RequestMoves DEF CancelRead, Start, Quiet
    <2> QED
      BY <2>3, QuietRequestTypes
  <1>n. ASSUME NEW w \in Workers, NEW o \in Orders, NEW target \in OrderStatuses,
               StatusRead(w, o, target)
        PROVE TypeOK'
    <2>1. View(o) \in Views
      BY <1>n, ViewType DEF StatusRead
    <2>2. [op |-> "status", order |-> o, seen |-> View(o), target |-> target] \in Requests
      BY <2>1 DEF Requests
    <2>3. Quiet /\ UNCHANGED lock /\ req' \in [Workers -> Requests]
      BY <1>n, <2>2, RequestMoves DEF StatusRead, Start, Quiet
    <2> QED
      BY <2>3, QuietRequestTypes
  <1>o. ASSUME NEW w \in Workers, NEW o \in Orders, ConfirmRead(w, o) PROVE TypeOK'
    <2>1. View(o) \in Views
      BY <1>o, ViewType DEF ConfirmRead, Exists
    <2>2. [op |-> "status", order |-> o, seen |-> View(o), target |-> "DELIVERED"] \in Requests
      BY <2>1 DEF Requests, OrderStatuses
    <2>3. Quiet /\ UNCHANGED lock /\ req' \in [Workers -> Requests]
      BY <1>o, <2>2, RequestMoves DEF ConfirmRead, Start, Quiet
    <2> QED
      BY <2>3, QuietRequestTypes
  <1>p. ASSUME NEW w \in Workers, NEW o \in Orders, SnapOpen(w, o) PROVE TypeOK'
    <2>1. [op |-> "snap", order |-> o] \in Requests
      BY DEF Requests
    <2>2. req' \in [Workers -> Requests]
      BY <1>p, <2>1, RequestMoves DEF SnapOpen, Start
    <2> QED
      BY <1>p, <2>2, OrdersAssumption DEF SnapOpen, TypeOK
  <1>q. ASSUME NEW w \in Workers, NEW o \in Orders, NEW report \in Reports,
               NotifyRead(w, o, report)
        PROVE TypeOK'
    <2>1. View(o) \in Views
      BY <1>q, ViewType DEF NotifyRead
    <2>2. [op |-> "notify", order |-> o, seen |-> View(o),
           report |-> MapPaymentStatus(report)] \in Requests
      BY <2>1, MapPaymentStatusType DEF Requests
    <2>3. req' \in [Workers -> Requests]
      BY <1>q, <2>2, RequestMoves DEF NotifyRead, Start
    <2>4. refunds' \in [Orders -> 0 .. MaxRefunds]
      BY <1>q, OrdersAssumption DEF NotifyRead, Deliverable, RefundReports, TypeOK
    <2>5. settled' \in [Orders -> BOOLEAN]
      BY <1>q DEF NotifyRead, TypeOK
    <2> QED
      BY <1>q, <2>3, <2>4, <2>5 DEF NotifyRead, TypeOK
  <1>r. ASSUME NEW o \in Orders, TokenExpires(o) PROVE TypeOK'
    <2>1. payment' \in [Orders -> PaymentRows]
      BY <1>r DEF TokenExpires, TypeOK, PaymentRows
    <2> QED
      BY <1>r, <2>1 DEF TokenExpires, TypeOK
  <1>s. ASSUME NEW o \in Orders, GatewaySettles(o) PROVE TypeOK'
    BY <1>s DEF GatewaySettles, TypeOK
  <1>t. ASSUME NEW c \in Vouchers, ToggleVoucher(c) PROVE TypeOK'
    <2>1. vouch' \in [Vouchers -> VoucherRows]
      BY <1>t DEF ToggleVoucher, TypeOK, VoucherRows
    <2> QED
      BY <1>t, <2>1 DEF ToggleVoucher, TypeOK
  <1>u. ASSUME NEW c \in Vouchers, NEW q \in Quotas, UpdateQuota(c, q) PROVE TypeOK'
    <2>1. vouch' \in [Vouchers -> VoucherRows]
      BY <1>u, OrdersAssumption DEF UpdateQuota, TypeOK, VoucherRows
    <2> QED
      BY <1>u, <2>1 DEF UpdateQuota, TypeOK
  <1>v. CASE UNCHANGED vars
    BY <1>v DEF TypeOK
  <1> QED
    BY <1>a, <1>b, <1>c, <1>d, <1>e, <1>f, <1>g, <1>h, <1>i, <1>j, <1>k, <1>l, <1>m,
       <1>n, <1>o, <1>p, <1>q, <1>r, <1>s, <1>t, <1>u, <1>v, NextCases

LEMMA TypeInit == Init => TypeOK
  <1> SUFFICES ASSUME Init PROVE TypeOK
    OBVIOUS
  <1>1. NoContent \in Contents /\ NoPayment \in PaymentRows /\ Idle \in Requests
    BY DEF Contents, NoPayment, PaymentRows, Requests
  <1>2. vouch \in [Vouchers -> VoucherRows]
    <2>1. \A q \in Quotas : [open |-> TRUE, quota |-> q, used |-> 0] \in VoucherRows
      BY OrdersAssumption DEF VoucherRows
    <2>2. vouch \in [Vouchers -> {[open |-> TRUE, quota |-> q, used |-> 0] : q \in Quotas}]
      BY DEF Init
    <2>3. {[open |-> TRUE, quota |-> q, used |-> 0] : q \in Quotas} \subseteq VoucherRows
      BY <2>1
    <2> QED
      BY <2>2, <2>3
  <1>3. /\ status \in [Orders -> RowStatuses]
        /\ pay \in [Orders -> PaymentStatuses]
        /\ content \in [Orders -> Contents]
        /\ payment \in [Orders -> PaymentRows]
        /\ req \in [Workers -> Requests]
    BY <1>1 DEF Init, RowStatuses, PaymentStatuses
  <1>4. /\ stock \in [Variants -> Nat]
        /\ sold \in [Variants -> Int]
        /\ lock \in [Orders -> Workers \cup {None}]
        /\ opened \in [Orders -> BOOLEAN]
        /\ settled \in [Orders -> BOOLEAN]
        /\ acked \in [Orders -> BOOLEAN]
    BY OrdersAssumption DEF Init
  <1>5. refunds \in [Orders -> 0 .. MaxRefunds]
    BY OrdersAssumption DEF Init
  <1> QED
    BY <1>2, <1>3, <1>4, <1>5 DEF TypeOK

\* Every column and every request in flight has its type, always.
THEOREM TypeCorrect == Spec => []TypeOK
  BY TypeInit, TypeStep, PTL DEF Spec
-----------------------------------------------------------------------------
(* Requests in flight and payments *)

\* PaymentInv without the types.
PaymentRest ==
  RequestInv /\ PaymentCopiesAgree /\ PaidMeansSettled /\ SnapChecksStillHold

USE DEF PaymentRest, RequestInv

\* A request that ends, is answered or only remembers what it saw of an order
\* disturbs nobody.
LEMMA HarmlessMove ==
  ASSUME TypeOK, PaymentRest, Quiet, UNCHANGED lock,
         NEW w \in Workers, NEW r, req' = [req EXCEPT ![w] = r],
         r.op \in {"idle", "answered", "createDup", "cancel"}, req[w].op # "snap"
  PROVE  PaymentRest'
  <1>1. req'[w] = r /\ \A u \in Workers \ {w} : req'[u] = req[u]
    BY DEF TypeOK
  <1>2. FreshIds'
    BY <1>1 DEF FreshIds, Quiet, Exists
  <1>3. StatusRequestsAdmitted' /\ ReportsAdmitted'
    BY <1>1 DEF StatusRequestsAdmitted, ReportsAdmitted, Quiet, Exists
  <1>4. LocksAreHeld'
    <2>1. \A o \in Orders : lock[o] # None => lock[o] \in Workers \ {w}
      BY DEF LocksAreHeld, TypeOK
    <2> QED
      BY <1>1, <2>1 DEF LocksAreHeld
  <1>5. PaymentCopiesAgree' /\ PaidMeansSettled'
    BY DEF PaymentCopiesAgree, PaidMeansSettled, Quiet
  <1>6. SnapChecksStillHold'
    BY <1>1 DEF SnapChecksStillHold, Quiet, MayPay, CanReuseSnapToken
  <1> QED
    BY <1>2, <1>3, <1>4, <1>5, <1>6

\* The same for a request that ends and lets go of its lock.
LEMMA HarmlessRelease ==
  ASSUME TypeOK, PaymentRest, Quiet, NEW w \in Workers, Finish(w), Release(w)
  PROVE  PaymentRest'
  <1>1. req'[w] = Idle /\ \A u \in Workers \ {w} : req'[u] = req[u]
    BY DEF TypeOK, Finish
  <1>2. FreshIds'
    BY <1>1 DEF FreshIds, Quiet, Exists, Idle
  <1>3. StatusRequestsAdmitted' /\ ReportsAdmitted'
    BY <1>1 DEF StatusRequestsAdmitted, ReportsAdmitted, Quiet, Exists, Idle
  <1>4. LocksAreHeld'
    <2>1. \A o \in Orders : lock'[o] # None => lock'[o] = lock[o] /\ lock[o] \in Workers \ {w}
      BY DEF Release, TypeOK
    <2> QED
      BY <1>1, <2>1 DEF LocksAreHeld
  <1>5. PaymentCopiesAgree' /\ PaidMeansSettled'
    BY DEF PaymentCopiesAgree, PaidMeansSettled, Quiet
  <1>6. SnapChecksStillHold'
    <2> SUFFICES ASSUME NEW u \in Workers, (req[u].op = "snap")'
                 PROVE  (/\ lock[req[u].order] = u
                         /\ MayPay(req[u].order)
                         /\ ~CanReuseSnapToken(req[u].order))'
      BY DEF SnapChecksStillHold
    <2>1. u # w /\ req'[u] = req[u]
      BY <1>1 DEF Idle
    <2>2. req[u].order \in Orders
      BY <2>1, RequestTypes
    <2> QED
      BY <2>1, <2>2 DEF SnapChecksStillHold, Quiet, MayPay, CanReuseSnapToken, Release
  <1> QED
    BY <1>2, <1>3, <1>4, <1>5, <1>6

\* The requests that start by remembering something, and keep it.
LEMMA StartsKeepPayments ==
  ASSUME TypeOK, PaymentRest, NEW w \in Workers, NEW o \in Orders,
         \/ CreateSnapshot(w)
         \/ \E new \in Wishes : CreateLookup(w, o, new)
         \/ \E target \in OrderStatuses : StatusRead(w, o, target)
         \/ ConfirmRead(w, o)
  PROVE  PaymentRest'
  <1>1. Quiet /\ UNCHANGED lock
    BY DEF CreateSnapshot, CreateLookup, StatusRead, ConfirmRead, Quiet
  <1>2. PICK r : req' = [req EXCEPT ![w] = r]
    BY DEF CreateSnapshot, CreateLookup, StatusRead, ConfirmRead, Start
  <1>3. req'[w] = r /\ \A u \in Workers \ {w} : req'[u] = req[u]
    BY <1>2 DEF TypeOK
  <1>4. req[w].op \in {"idle", "create"} /\ r.op \in {"create", "createTx", "status"}
    BY <1>3 DEF CreateSnapshot, CreateLookup, StatusRead, ConfirmRead, Start, Doing, TypeOK
  <1>5. FreshIds'
    <2>1. CASE CreateSnapshot(w)
      <3>1. r.order = req[w].order /\ req[w].op = "create"
        BY <2>1, <1>3 DEF CreateSnapshot, Doing, TypeOK
      <3> QED
        BY <1>1, <1>3, <1>4, <3>1 DEF FreshIds, Quiet, Exists
    <2>2. CASE \E new \in Wishes : CreateLookup(w, o, new)
      <3>1. r.order = o /\ FreshId(o)
        BY <2>2, <1>3 DEF CreateLookup, Start, TypeOK
      <3> QED
        BY <1>1, <1>3, <3>1 DEF FreshIds, FreshId, Quiet, Exists
    <2>3. CASE (\E target \in OrderStatuses : StatusRead(w, o, target)) \/ ConfirmRead(w, o)
      <3>1. r.op = "status"
        BY <2>3, <1>3 DEF StatusRead, ConfirmRead, Start, TypeOK
      <3> QED
        BY <1>1, <1>3, <3>1 DEF FreshIds, Quiet, Exists
    <2> QED
      BY <2>1, <2>2, <2>3
  <1>6. StatusRequestsAdmitted'
    <2>1. ASSUME r.op = "status"
          PROVE  r.target \in AllowedTransitions[r.seen.status] /\ r.seen.status # "PENDING"
      <3>1. CASE \E target \in OrderStatuses : StatusRead(w, o, target)
        <4>1. PICK target \in OrderStatuses : StatusRead(w, o, target)
          BY <3>1
        <4>2. r.target = target /\ r.seen.status = status[o]
          BY <4>1, <1>3 DEF StatusRead, Start, View, TypeOK
        <4>3. target = "PAID" => status[o] # "PENDING"
          BY <4>1 DEF StatusRead, PaidMeansSettled
        <4> QED
          BY <4>1, <4>2, <4>3 DEF StatusRead, AllowedTransitions
      <3>2. CASE ConfirmRead(w, o)
        <4>1. r.target = "DELIVERED" /\ r.seen.status = "SHIPPED"
          BY <3>2, <1>3 DEF ConfirmRead, Start, View, TypeOK
        <4> QED
          BY <4>1 DEF AllowedTransitions
      <3>3. CASE CreateSnapshot(w) \/ \E new \in Wishes : CreateLookup(w, o, new)
        BY <3>3, <2>1, <1>3 DEF CreateSnapshot, CreateLookup, Start, TypeOK
      <3> QED
        BY <3>1, <3>2, <3>3
    <2> QED
      BY <2>1, <1>3 DEF StatusRequestsAdmitted
  <1>7. ReportsAdmitted'
    BY <1>1, <1>3, <1>4 DEF ReportsAdmitted, Quiet, Exists
  <1>8. LocksAreHeld'
    <2>1. \A p \in Orders : lock[p] # None => lock[p] \in Workers \ {w}
      BY <1>4 DEF LocksAreHeld, TypeOK
    <2> QED
      BY <1>1, <1>3, <2>1 DEF LocksAreHeld
  <1>9. PaymentCopiesAgree' /\ PaidMeansSettled'
    BY <1>1 DEF PaymentCopiesAgree, PaidMeansSettled, Quiet
  <1>10. SnapChecksStillHold'
    BY <1>1, <1>3, <1>4 DEF SnapChecksStillHold, Quiet, MayPay, CanReuseSnapToken
  <1> QED
    BY <1>5, <1>6, <1>7, <1>8, <1>9, <1>10

LEMMA SnapOpenKeepsPayments ==
  ASSUME TypeOK, PaymentRest, NEW w \in Workers, NEW o \in Orders, SnapOpen(w, o)
  PROVE  PaymentRest'
  <1>1. /\ req'[w] = [op |-> "snap", order |-> o]
        /\ \A u \in Workers \ {w} : req'[u] = req[u]
        /\ req[w].op = "idle"
    BY DEF SnapOpen, Start, Doing, TypeOK
  <1>2. /\ lock[o] = None /\ lock'[o] = w
        /\ \A p \in Orders \ {o} : lock'[p] = lock[p]
    BY DEF SnapOpen, LockFree, TypeOK
  <1>3. UNCHANGED <<orderVars, shopVars, settled, refunds>>
    BY DEF SnapOpen
  <1>4. FreshIds' /\ StatusRequestsAdmitted' /\ ReportsAdmitted'
    BY <1>1, <1>3 DEF FreshIds, StatusRequestsAdmitted, ReportsAdmitted, Exists
  <1>5. LocksAreHeld'
    <2>1. \A p \in Orders : lock[p] # None => lock[p] \in Workers \ {w}
      BY <1>1 DEF LocksAreHeld, TypeOK
    <2> QED
      BY <1>1, <1>2, <2>1 DEF LocksAreHeld
  <1>6. PaymentCopiesAgree' /\ PaidMeansSettled'
    BY <1>3 DEF PaymentCopiesAgree, PaidMeansSettled
  <1>7. SnapChecksStillHold'
    <2> SUFFICES ASSUME NEW u \in Workers, (req[u].op = "snap")'
                 PROVE  (/\ lock[req[u].order] = u
                         /\ MayPay(req[u].order)
                         /\ ~CanReuseSnapToken(req[u].order))'
      BY DEF SnapChecksStillHold
    <2>1. CASE u = w
      BY <2>1, <1>1, <1>2, <1>3 DEF SnapOpen, MayPay, CanReuseSnapToken
    <2>2. CASE u # w
      <3>1. req'[u] = req[u] /\ req[u].order \in Orders /\ lock[req[u].order] = u
        BY <2>2, <1>1, RequestTypes DEF SnapChecksStillHold
      <3>2. req[u].order # o
        BY <3>1, <1>2, OrdersAssumption
      <3> QED
        BY <2>2, <3>1, <3>2, <1>1, <1>2, <1>3
        DEF SnapChecksStillHold, MayPay, CanReuseSnapToken
    <2> QED
      BY <2>1, <2>2
  <1> QED
    BY <1>4, <1>5, <1>6, <1>7

LEMMA NotifyReadKeepsPayments ==
  ASSUME TypeOK, PaymentRest, NEW w \in Workers, NEW o \in Orders, NEW report \in Reports,
         NotifyRead(w, o, report)
  PROVE  PaymentRest'
  <1> DEFINE s == MapPaymentStatus(report)
  <1>1. /\ req'[w] = [op |-> "notify", order |-> o, seen |-> View(o), report |-> s]
        /\ \A u \in Workers \ {w} : req'[u] = req[u]
        /\ req[w].op = "idle"
    BY DEF NotifyRead, Start, Doing, TypeOK
  <1>2. UNCHANGED <<orderVars, shopVars, lock>>
    BY DEF NotifyRead
  <1>3. \A p \in Orders : /\ settled[p] => settled'[p]
                          /\ refunds[p] > 0 => refunds'[p] > 0
    BY OrdersAssumption DEF NotifyRead, TypeOK
  <1>4. s = "PAID" => settled'[o]
    <2>1. s = "PAID" => report \in {"settlement", "capture"}
      BY DEF MapPaymentStatus
    <2> QED
      BY <2>1 DEF NotifyRead, Deliverable, TypeOK
  <1>5. s \in {"EXPIRED", "FAILED"} => View(o).pay # "PAID"
    BY DEF NotifyRead, View
  <1>11. s = "REFUNDED" => refunds'[o] > 0
    <2>1. s = "REFUNDED" => report \in RefundReports
      BY DEF MapPaymentStatus, RefundReports
    <2> QED
      BY <2>1, OrdersAssumption DEF NotifyRead, TypeOK
  <1> HIDE DEF s
  <1>6. FreshIds' /\ StatusRequestsAdmitted'
    BY <1>1, <1>2 DEF FreshIds, StatusRequestsAdmitted, Exists
  <1>7. ReportsAdmitted'
    <2>1. Exists(o)
      BY DEF NotifyRead
    <2>2. \A u \in Workers : req[u].op = "notify" => req[u].order \in Orders
      BY RequestTypes
    <2> QED
      BY <1>1, <1>2, <1>3, <1>4, <1>5, <1>11, <2>1, <2>2 DEF ReportsAdmitted, Exists
  <1>8. LocksAreHeld'
    <2>1. \A p \in Orders : lock[p] # None => lock[p] \in Workers \ {w}
      BY <1>1 DEF LocksAreHeld, TypeOK
    <2> QED
      BY <1>1, <1>2, <2>1 DEF LocksAreHeld
  <1>9. PaymentCopiesAgree' /\ PaidMeansSettled'
    BY <1>2, <1>3 DEF PaymentCopiesAgree, PaidMeansSettled
  <1>10. SnapChecksStillHold'
    BY <1>1, <1>2 DEF SnapChecksStillHold, MayPay, CanReuseSnapToken
  <1> QED
    BY <1>6, <1>7, <1>8, <1>9, <1>10

\* Time, the customer and the voucher admin.
LEMMA WorldKeepsPayments ==
  ASSUME TypeOK, PaymentRest,
         \/ \E o \in Orders : TokenExpires(o) \/ GatewaySettles(o)
         \/ \E c \in Vouchers : ToggleVoucher(c) \/ \E q \in Quotas : UpdateQuota(c, q)
  PROVE  PaymentRest'
  <1>1. UNCHANGED <<status, pay, lock, req, refunds>>
    BY DEF TokenExpires, GatewaySettles, ToggleVoucher, UpdateQuota
  <1>2. \A p \in Orders : /\ settled[p] => settled'[p]
                          /\ payment'[p].status = payment[p].status
                          /\ payment'[p].token => payment[p].token
    BY DEF TokenExpires, GatewaySettles, ToggleVoucher, UpdateQuota, TypeOK, PaymentRows
  <1>3. \A u \in Workers : req[u].op \in {"notify", "snap"} => req[u].order \in Orders
    BY RequestTypes
  <1>4. FreshIds' /\ StatusRequestsAdmitted' /\ LocksAreHeld'
    BY <1>1 DEF FreshIds, StatusRequestsAdmitted, LocksAreHeld, Exists
  <1>5. ReportsAdmitted'
    BY <1>1, <1>2, <1>3 DEF ReportsAdmitted, Exists
  <1>6. PaymentCopiesAgree' /\ PaidMeansSettled'
    BY <1>1, <1>2 DEF PaymentCopiesAgree, PaidMeansSettled
  <1>7. SnapChecksStillHold'
    BY <1>1, <1>2, <1>3 DEF SnapChecksStillHold, MayPay, CanReuseSnapToken
  <1> QED
    BY <1>4, <1>5, <1>6, <1>7

\* A transaction that writes one order nobody holds a lock on, and leaves that
\* order's own facts right, keeps the facts about all others.
LEMMA OneOrderWritten ==
  ASSUME TypeOK, PaymentRest, NEW w \in Workers, NEW r, NEW o \in Orders,
         req' = [req EXCEPT ![w] = r], r.op \in {"idle", "answered"}, req[w].op # "snap",
         UNCHANGED <<lock, settled, refunds>>, lock[o] = None,
         \A p \in Orders \ {o} :
           status'[p] = status[p] /\ pay'[p] = pay[p] /\ payment'[p] = payment[p],
         status'[o] # "NONE",
         Exists(o) \/ (req[w].op = "createTx" /\ req[w].order = o),
         payment'[o].status # "NONE" => payment'[o].status = pay'[o],
         status'[o] \in {"PAID", "PACKED", "SHIPPED", "DELIVERED"} =>
           settled[o] /\ (pay'[o] = "PAID" \/ refunds[o] > 0),
         pay'[o] = "PAID" => settled[o] /\ status'[o] \notin {"NONE", "PENDING", "CANCELLED"}
  PROVE  PaymentRest'
  <1>1. req'[w] = r /\ \A u \in Workers \ {w} : req'[u] = req[u]
    BY DEF TypeOK
  <1>2. \A u \in Workers : req[u].op \in {"create", "createTx", "notify", "snap"} =>
          req[u].order \in Orders
    BY RequestTypes
  <1>3. FreshIds'
    <2> SUFFICES ASSUME NEW u \in Workers, (req[u].op \in {"create", "createTx"})'
                 PROVE  (/\ ~Exists(req[u].order)
                         /\ \A x \in Workers \ {u} : req[x].op \in {"create", "createTx"} =>
                              req[x].order # req[u].order)'
      BY DEF FreshIds
    <2>1. u # w /\ req'[u] = req[u]
      BY <1>1
    <2>2. req[u].order # o
      BY <2>1 DEF FreshIds, Exists
    <2> QED
      BY <1>1, <1>2, <2>1, <2>2 DEF FreshIds, Exists
  <1>4. StatusRequestsAdmitted'
    BY <1>1 DEF StatusRequestsAdmitted
  <1>5. ReportsAdmitted'
    <2> SUFFICES ASSUME NEW u \in Workers, (req[u].op = "notify")'
                 PROVE  (/\ Exists(req[u].order)
                         /\ req[u].report = "PAID" => settled[req[u].order]
                         /\ req[u].report = "REFUNDED" => refunds[req[u].order] > 0
                         /\ req[u].report \in {"EXPIRED", "FAILED"} =>
                              req[u].seen.pay # "PAID")'
      BY DEF ReportsAdmitted
    <2>1. u # w /\ req'[u] = req[u] /\ req[u].order \in Orders
      BY <1>1, <1>2
    <2> QED
      BY <2>1 DEF ReportsAdmitted, Exists
  <1>6. LocksAreHeld'
    <2>1. \A p \in Orders : lock[p] # None => lock[p] \in Workers \ {w}
      BY DEF LocksAreHeld, TypeOK
    <2> QED
      BY <1>1, <2>1 DEF LocksAreHeld
  <1>7. PaymentCopiesAgree' /\ PaidMeansSettled'
    BY DEF PaymentCopiesAgree, PaidMeansSettled
  <1>8. SnapChecksStillHold'
    <2> SUFFICES ASSUME NEW u \in Workers, (req[u].op = "snap")'
                 PROVE  (/\ lock[req[u].order] = u
                         /\ MayPay(req[u].order)
                         /\ ~CanReuseSnapToken(req[u].order))'
      BY DEF SnapChecksStillHold
    <2>1. u # w /\ req'[u] = req[u] /\ req[u].order \in Orders
      BY <1>1, <1>2
    <2>2. req[u].order # o
      BY <2>1, OrdersAssumption DEF SnapChecksStillHold
    <2> QED
      BY <2>1, <2>2 DEF SnapChecksStillHold, MayPay, CanReuseSnapToken
  <1> QED
    BY <1>3, <1>4, <1>5, <1>6, <1>7, <1>8

LEMMA CreateCommitKeepsPayments ==
  ASSUME TypeOK, PaymentRest, NEW w \in Workers, CreateCommit(w)
  PROVE  PaymentRest'
  <1> DEFINE o == req[w].order
  <1>1. o \in Orders /\ req[w].op = "createTx"
    BY RequestTypes DEF CreateCommit, Doing
  <1>2. ~Exists(o)
    BY <1>1 DEF FreshIds
  <1>3. lock[o] = None
    <2>1. ASSUME lock[o] # None PROVE FALSE
      <3>1. lock[o] \in Workers /\ req[lock[o]].op = "snap" /\ req[lock[o]].order = o
        BY <1>1, <2>1 DEF LocksAreHeld, TypeOK
      <3> QED
        BY <3>1, <1>2 DEF SnapChecksStillHold, MayPay, Exists
    <2> QED
      BY <2>1
  <1>4. /\ status'[o] = "PENDING" /\ UNCHANGED <<pay, payment, lock, settled, refunds>>
        /\ \A p \in Orders \ {o} : status'[p] = status[p]
    BY <1>1 DEF CreateCommit, TypeOK
  <1>5. PICK r : req' = [req EXCEPT ![w] = r] /\ r.op = "answered"
    <2> DEFINE a == [op |-> "answered", order |-> o, content |-> req[w].content]
    <2>1. req' = [req EXCEPT ![w] = a] /\ a.op = "answered"
      BY DEF CreateCommit, Answer
    <2> HIDE DEF a
    <2> QED
      BY <2>1
  <1>6. pay[o] # "PAID"
    BY <1>1, <1>2 DEF PaidMeansSettled, Exists
  <1>7. payment[o].status # "NONE" => payment[o].status = pay[o]
    BY <1>1 DEF PaymentCopiesAgree
  <1>8. o = req[w].order
    OBVIOUS
  <1> HIDE DEF o
  <1>9. /\ UNCHANGED <<lock, settled, refunds>>
        /\ \A p \in Orders \ {o} :
             status'[p] = status[p] /\ pay'[p] = pay[p] /\ payment'[p] = payment[p]
        /\ status'[o] # "NONE"
        /\ payment'[o].status # "NONE" => payment'[o].status = pay'[o]
        /\ status'[o] \notin {"PAID", "PACKED", "SHIPPED", "DELIVERED"}
        /\ pay'[o] # "PAID"
    BY <1>4, <1>6, <1>7
  <1> QED
    BY <1>1, <1>3, <1>5, <1>8, <1>9, OneOrderWritten

LEMMA CancelKeepsPayments ==
  ASSUME TypeOK, PaymentRest, NEW w \in Workers, CancelCommit(w)
  PROVE  PaymentRest'
  <1> DEFINE o == req[w].order
             p == PaymentAfterCancel(o, req[w].seen)
  <1>1. o \in Orders /\ req[w].op = "cancel" /\ lock[o] = None
    BY RequestTypes DEF CancelCommit, Doing, LockFree
  <1>2. Exists(o) /\ p \in {"REFUNDED", "EXPIRED"}
    BY DEF CancelCommit, StillCancellable, Cancellable, Exists, PaymentAfterCancel
  <1>3. /\ status' = [status EXCEPT ![o] = "CANCELLED"]
        /\ pay' = [pay EXCEPT ![o] = p]
        /\ payment' = IF payment[o].status = "NONE" THEN payment
                      ELSE [payment EXCEPT ![o].status = p]
        /\ req' = [req EXCEPT ![w] = Idle]
        /\ UNCHANGED <<lock, settled, refunds>>
    BY DEF CancelCommit, Finish
  <1> HIDE DEF o, p
  <1>4. /\ status'[o] = "CANCELLED" /\ pay'[o] = p
        /\ payment'[o].status # "NONE" => payment'[o].status = p
        /\ \A x \in Orders \ {o} :
             status'[x] = status[x] /\ pay'[x] = pay[x] /\ payment'[x] = payment[x]
    BY <1>1, <1>3 DEF TypeOK, PaymentRows
  <1> QED
    BY <1>1, <1>2, <1>3, <1>4, OneOrderWritten DEF Idle

LEMMA StatusCommitKeepsPayments ==
  ASSUME TypeOK, PaymentRest, NEW w \in Workers, StatusCommit(w)
  PROVE  PaymentRest'
  <1> DEFINE o == req[w].order
             t == req[w].target
  <1>1. /\ o \in Orders /\ req[w].op = "status" /\ lock[o] = None
        /\ req[w].seen \in Views
    BY RequestTypes DEF StatusCommit, Doing, LockFree
  <1>2. /\ status[o] = req[w].seen.status
        /\ t \in AllowedTransitions[status[o]]
        /\ status[o] \in OrderStatuses \ {"PENDING"}
    BY <1>1 DEF StatusCommit, StatusGuard, StatusRequestsAdmitted, Views
  <1>3. status[o] \in {"PAID", "PACKED", "SHIPPED"} /\ t \in {"PACKED", "SHIPPED", "DELIVERED"}
    BY <1>2 DEF AllowedTransitions, OrderStatuses
  <1>4. /\ status' = [status EXCEPT ![o] = t]
        /\ req' = [req EXCEPT ![w] = Idle]
        /\ UNCHANGED <<pay, payment, lock, settled, refunds>>
    BY DEF StatusCommit, Finish
  <1>5. Exists(o) /\ settled[o] /\ (pay[o] = "PAID" \/ refunds[o] > 0)
    BY <1>1, <1>3 DEF Exists, PaidMeansSettled
  <1>6. payment[o].status # "NONE" => payment[o].status = pay[o]
    BY <1>1 DEF PaymentCopiesAgree
  <1> HIDE DEF o, t
  <1>7. status'[o] = t /\ \A x \in Orders \ {o} : status'[x] = status[x]
    BY <1>1, <1>4 DEF TypeOK
  <1> QED
    BY <1>1, <1>3, <1>4, <1>5, <1>6, <1>7, OneOrderWritten DEF Idle

LEMMA SnapSaveKeepsPayments ==
  ASSUME TypeOK, PaymentRest, NEW w \in Workers, SnapSave(w)
  PROVE  PaymentRest'
  <1> DEFINE o == req[w].order
  <1>1. o \in Orders /\ req[w].op = "snap" /\ lock[o] = w /\ status[o] = "PENDING"
    BY RequestTypes DEF SnapSave, Doing, SnapChecksStillHold, MayPay
  <1>2. req'[w] = Idle /\ \A u \in Workers \ {w} : req'[u] = req[u]
    BY DEF SnapSave, Finish, TypeOK
  <1>3. /\ pay'[o] = "UNPAID" /\ payment'[o].status = "UNPAID"
        /\ \A x \in Orders \ {o} : pay'[x] = pay[x] /\ payment'[x] = payment[x]
        /\ UNCHANGED <<status, settled, refunds>>
        /\ lock' = [x \in Orders |-> IF lock[x] = w THEN None ELSE lock[x]]
    BY <1>1 DEF SnapSave, TypeOK, Release
  <1> HIDE DEF o
  <1>4. FreshIds' /\ StatusRequestsAdmitted' /\ ReportsAdmitted'
    BY <1>2, <1>3 DEF FreshIds, StatusRequestsAdmitted, ReportsAdmitted, Exists, Idle
  <1>5. LocksAreHeld'
    <2>1. \A x \in Orders : lock'[x] # None => lock'[x] = lock[x] /\ lock[x] \in Workers \ {w}
      BY <1>3 DEF TypeOK
    <2> QED
      BY <1>2, <2>1 DEF LocksAreHeld
  <1>6. PaymentCopiesAgree' /\ PaidMeansSettled'
    BY <1>1, <1>3 DEF PaymentCopiesAgree, PaidMeansSettled
  <1>7. SnapChecksStillHold'
    <2> SUFFICES ASSUME NEW u \in Workers, (req[u].op = "snap")'
                 PROVE  (/\ lock[req[u].order] = u
                         /\ MayPay(req[u].order)
                         /\ ~CanReuseSnapToken(req[u].order))'
      BY DEF SnapChecksStillHold
    <2>1. u # w /\ req'[u] = req[u] /\ req[u].order \in Orders /\ lock[req[u].order] = u
      BY <1>2, RequestTypes DEF Idle, SnapChecksStillHold
    <2>2. req[u].order # o
      BY <2>1, <1>1
    <2> QED
      BY <2>1, <2>2, <1>3 DEF SnapChecksStillHold, MayPay, CanReuseSnapToken
  <1> QED
    BY <1>4, <1>5, <1>6, <1>7

LEMMA NotifyKeepsPayments ==
  ASSUME TypeOK, PaymentRest, NEW w \in Workers,
         NotifyPaid(w) \/ NotifyGiveUp(w) \/ NotifyOther(w)
  PROVE  PaymentRest'
  <1> DEFINE o == req[w].order
             p == req[w].report
  <1>1. /\ NotifyApply(w) /\ o \in Orders /\ req[w].op = "notify" /\ lock[o] = None
        /\ p \in PaymentStatuses /\ ~ReportIsStale(o, p)
    BY RequestTypes DEF NotifyPaid, NotifyGiveUp, NotifyOther, NotifyApply, Doing, LockFree
  <1>2. /\ req' = [req EXCEPT ![w] = Idle]
        /\ payment' = [payment EXCEPT ![o].status = p]
        /\ UNCHANGED <<lock, settled, refunds>>
    BY <1>1 DEF NotifyApply, Acknowledge, Finish, RecordPayment
  <1>3. /\ Exists(o) /\ (p = "PAID" => settled[o])
        /\ p = "REFUNDED" => refunds[o] > 0
    BY <1>1 DEF ReportsAdmitted
  <1>9. pay[o] = "PAID" => p = "REFUNDED"
    BY <1>1 DEF ReportIsStale
  <1>4. pay' = [pay EXCEPT ![o] = p]
    BY <1>1 DEF NotifyPaid, NotifyGiveUp, NotifyOther, PaidGuard, ReportIsStale
  <1>5. /\ \A x \in Orders \ {o} : status'[x] = status[x]
        /\ \/ status'[o] = status[o]
           \/ status[o] = "PENDING" /\ status'[o] = "PAID" /\ p = "PAID"
           \/ status'[o] = "CANCELLED" /\ p # "PAID"
        /\ p = "PAID" => status'[o] \notin {"NONE", "PENDING", "CANCELLED"}
    BY <1>1, <1>3
    DEF NotifyPaid, NotifyGiveUp, NotifyOther, GivesUp, PaidGuard, ReportIsStale, TypeOK,
        Exists, RowStatuses, OrderStatuses
  <1> HIDE DEF o, p
  <1>6. /\ pay'[o] = p /\ payment'[o].status = p
        /\ \A x \in Orders \ {o} : pay'[x] = pay[x] /\ payment'[x] = payment[x]
    BY <1>1, <1>2, <1>4 DEF TypeOK, PaymentRows
  <1>7. status'[o] # "NONE"
    BY <1>3, <1>5 DEF Exists
  <1>8. status'[o] \in {"PAID", "PACKED", "SHIPPED", "DELIVERED"} =>
          settled[o] /\ (p = "PAID" \/ refunds[o] > 0)
    BY <1>1, <1>3, <1>5, <1>9 DEF PaidMeansSettled
  <1> QED
    BY <1>1, <1>2, <1>3, <1>5, <1>6, <1>7, <1>8, OneOrderWritten DEF Idle

\* The requests that only move on, action by action.
LEMMA RefusalsKeepPayments ==
  ASSUME TypeOK, PaymentRest, NEW w \in Workers,
         CreateRefuse(w) \/ Answered(w) \/ CancelRefuse(w) \/ StatusRefuse(w) \/ NotifyIgnore(w)
  PROVE  PaymentRest'
  <1>1. Finish(w) /\ Quiet /\ UNCHANGED lock /\ req[w].op # "snap"
    BY AcknowledgeType
    DEF CreateRefuse, Answered, CancelRefuse, StatusRefuse, NotifyIgnore, Quiet, Doing
  <1>2. Idle.op = "idle"
    BY DEF Idle
  <1> QED
    BY <1>1, <1>2, HarmlessMove DEF Finish

LEMMA CreateAnswersKeepPayments ==
  ASSUME TypeOK, PaymentRest, NEW w \in Workers,
         CreateDuplicate(w) \/ CreateRecheck(w) \/ \E new \in Wishes : CreateAgain(w, new)
  PROVE  PaymentRest'
  <1>1. Quiet /\ UNCHANGED lock /\ req[w].op # "snap"
    BY DEF CreateDuplicate, CreateRecheck, CreateAgain, Quiet, Doing
  <1>2. CASE CreateDuplicate(w)
    BY <1>1, <1>2, HarmlessMove DEF CreateDuplicate
  <1>3. CASE CreateRecheck(w)
    <2>1. PICK o : Answer(w, o) \/ Finish(w)
      BY <1>3 DEF CreateRecheck
    <2> QED
      BY <1>1, <2>1, HarmlessMove DEF Answer, Finish, Idle
  <1>4. CASE \E new \in Wishes : CreateAgain(w, new)
    <2>1. PICK new, o :
            req' = [req EXCEPT ![w] = [op |-> "answered", order |-> o, content |-> new]]
      BY <1>4 DEF CreateAgain
    <2> QED
      BY <1>1, <2>1, HarmlessMove
  <1> QED
    BY <1>2, <1>3, <1>4

LEMMA CancelReadKeepsPayments ==
  ASSUME TypeOK, PaymentRest, NEW w \in Workers, NEW o \in Orders, CancelRead(w, o)
  PROVE  PaymentRest'
  <1>1. /\ Quiet /\ UNCHANGED lock /\ req[w].op # "snap"
        /\ req' = [req EXCEPT ![w] = [op |-> "cancel", order |-> o, seen |-> View(o)]]
    BY DEF CancelRead, Quiet, Start, Doing
  <1> QED
    BY <1>1, HarmlessMove

LEMMA PaymentStep == PaymentInv /\ [Next]_vars => PaymentInv'
  <1> SUFFICES ASSUME TypeOK, PaymentRest, [Next]_vars PROVE PaymentRest'
    BY TypeStep DEF PaymentInv
  <1>a. ASSUME NEW w \in Workers, CreateSnapshot(w) PROVE PaymentRest'
    <2>1. req[w].order \in Orders
      BY <1>a, RequestTypes DEF CreateSnapshot, Doing
    <2> QED
      BY <1>a, <2>1, StartsKeepPayments
  <1>b. ASSUME NEW w \in Workers,
               CreateDuplicate(w) \/ CreateRecheck(w) \/ CreateRefuse(w) \/ Answered(w)
                 \/ CancelRefuse(w) \/ StatusRefuse(w) \/ NotifyIgnore(w)
        PROVE  PaymentRest'
    BY <1>b, RefusalsKeepPayments, CreateAnswersKeepPayments
  <1>c. ASSUME NEW w \in Workers, Abort(w) PROVE PaymentRest'
    BY <1>c, HarmlessRelease DEF Abort, Quiet
  <1>d. ASSUME NEW w \in Workers,
               CreateCommit(w) \/ CancelCommit(w) \/ StatusCommit(w) \/ SnapSave(w)
                 \/ NotifyPaid(w) \/ NotifyGiveUp(w) \/ NotifyOther(w)
        PROVE  PaymentRest'
    BY <1>d, CreateCommitKeepsPayments, CancelKeepsPayments, StatusCommitKeepsPayments,
       SnapSaveKeepsPayments, NotifyKeepsPayments
  <1>e. ASSUME NEW w \in Workers, NEW new \in Wishes, CreateAgain(w, new)
        PROVE  PaymentRest'
    BY <1>e, CreateAnswersKeepPayments
  <1>f. ASSUME NEW w \in Workers, NEW new \in Wishes, NEW o \in Orders,
               CreateLookup(w, o, new)
        PROVE  PaymentRest'
    BY <1>f, StartsKeepPayments
  <1>g. ASSUME NEW w \in Workers, NEW o \in Orders,
               \/ CancelRead(w, o) \/ ConfirmRead(w, o) \/ SnapOpen(w, o)
               \/ \E target \in OrderStatuses : StatusRead(w, o, target)
               \/ \E report \in Reports : NotifyRead(w, o, report)
        PROVE  PaymentRest'
    BY <1>g, CancelReadKeepsPayments, StartsKeepPayments, SnapOpenKeepsPayments,
       NotifyReadKeepsPayments
  <1>h. CASE UNCHANGED vars
    <2>1. FreshIds' /\ StatusRequestsAdmitted' /\ ReportsAdmitted' /\ LocksAreHeld'
      BY <1>h DEF FreshIds, StatusRequestsAdmitted, ReportsAdmitted, LocksAreHeld, Exists
    <2>2. PaymentCopiesAgree' /\ PaidMeansSettled'
      BY <1>h DEF PaymentCopiesAgree, PaidMeansSettled
    <2>3. SnapChecksStillHold'
      BY <1>h DEF SnapChecksStillHold, MayPay, CanReuseSnapToken
    <2> QED
      BY <2>1, <2>2, <2>3
  <1> QED
    BY <1>a, <1>b, <1>c, <1>d, <1>e, <1>f, <1>g, <1>h, NextCases, WorldKeepsPayments

LEMMA PaymentInit == Init => PaymentInv
  <1> SUFFICES ASSUME Init PROVE PaymentInv
    OBVIOUS
  <1>1. TypeOK
    BY TypeInit
  <1>2. PaymentRest
    BY DEF Init, Idle, NoPayment, FreshIds, StatusRequestsAdmitted, ReportsAdmitted,
           LocksAreHeld, Exists, PaymentCopiesAgree, PaidMeansSettled, SnapChecksStillHold
  <1> QED
    BY <1>1, <1>2 DEF PaymentInv

\* The inductive invariant of requests in flight and payments.
THEOREM PaymentsCorrect == Spec => []PaymentInv
  BY PaymentInit, PaymentStep, PTL DEF Spec

\* The two copies of the payment status agree, always.
THEOREM PaymentCopiesCorrect == Spec => []PaymentCopiesAgree
  BY PaymentsCorrect, PTL DEF PaymentInv

\* Only orders whose money the gateway has taken are paid or fulfilled, and their
\* payment says PAID unless a refund was reported.
THEOREM PaidCorrect == Spec => []PaidMeansSettled
  BY PaymentsCorrect, PTL DEF PaymentInv

\* What createSnapToken checked before it called the gateway holds when it writes.
THEOREM SnapCorrect == Spec => []SnapChecksStillHold
  BY PaymentsCorrect, PTL DEF PaymentInv

HIDE DEF PaymentRest
-----------------------------------------------------------------------------
(* Counting the pieces of a set of orders *)

\* The pieces of the orders of S, when order o has n[o] of them.
Pieces(n, S) == UNION {{o} \X (1 .. n[o]) : o \in S}

LEMMA PiecesFinite ==
  ASSUME NEW S, IsFiniteSet(S), NEW n, \A o \in S : n[o] \in Nat
  PROVE  IsFiniteSet(Pieces(n, S))
  <1> DEFINE f == [o \in S |-> {o} \X (1 .. n[o])]
             T == {{o} \X (1 .. n[o]) : o \in S}
  <1>1. f \in Surjection(S, T)
    BY DEF Surjection
  <1>2. IsFiniteSet(T)
    BY <1>1, FS_Surjection
  <1>3. \A o \in S : IsFiniteSet({o} \X (1 .. n[o]))
    <2> TAKE o \in S
    <2>1. IsFiniteSet({o})
      BY FS_Singleton
    <2>2. n[o] \in Nat
      OBVIOUS
    <2>3. IsFiniteSet(1 .. n[o])
      BY <2>2, FS_Interval
    <2> QED
      BY <2>1, <2>3, FS_Product
  <1>4. \A t \in T : IsFiniteSet(t)
    BY <1>3
  <1> HIDE DEF T
  <1>5. IsFiniteSet(UNION T)
    BY <1>2, <1>4, FS_UNION
  <1> QED
    BY <1>5 DEF Pieces, T

\* One order more adds its own pieces.
LEMMA PiecesOfOneMore ==
  ASSUME NEW S, IsFiniteSet(S), NEW n, NEW o, o \notin S,
         \A p \in S \cup {o} : n[p] \in Nat
  PROVE  Cardinality(Pieces(n, S \cup {o})) = Cardinality(Pieces(n, S)) + n[o]
  <1> DEFINE own == {o} \X (1 .. n[o])
  <1>1. IsFiniteSet(own) /\ Cardinality(own) = n[o]
    <2>1. IsFiniteSet({o}) /\ Cardinality({o}) = 1
      BY FS_Singleton
    <2>2. IsFiniteSet(1 .. n[o]) /\ Cardinality(1 .. n[o]) = n[o]
      BY FS_Interval
    <2>3. IsFiniteSet(own) /\ Cardinality(own) = 1 * n[o]
      BY <2>1, <2>2, FS_Product
    <2> QED
      BY <2>3
  <1>2. IsFiniteSet(Pieces(n, S)) /\ Cardinality(Pieces(n, S)) \in Nat
    BY PiecesFinite, FS_CardinalityType
  <1>3. Pieces(n, S \cup {o}) = Pieces(n, S) \cup own
    BY DEF Pieces
  <1>4. Pieces(n, S) \cap own = {}
    BY DEF Pieces
  <1> DEFINE rest == Pieces(n, S)
  <1> HIDE DEF own, rest
  <1>5. IsFiniteSet(rest) /\ rest \cap own = {}
    BY <1>2, <1>4 DEF rest
  <1>6. Cardinality(rest \cup own) = Cardinality(rest) + Cardinality(own) - Cardinality({})
    BY <1>1, <1>5, FS_Union
  <1>7. Cardinality({}) = 0
    BY FS_EmptySet
  <1>8. Cardinality(rest) \in Nat /\ Pieces(n, S \cup {o}) = rest \cup own /\ n[o] \in Nat
    BY <1>2, <1>3 DEF rest
  <1>9. Cardinality(rest \cup own) = Cardinality(rest) + n[o]
    BY <1>1, <1>6, <1>7, <1>8
  <1> QED
    BY <1>8, <1>9 DEF rest

LEMMA PiecesOfOneLess ==
  ASSUME NEW S, IsFiniteSet(S), NEW n, NEW o \in S, \A p \in S : n[p] \in Nat
  PROVE  Cardinality(Pieces(n, S)) = Cardinality(Pieces(n, S \ {o})) + n[o]
  <1>1. IsFiniteSet(S \ {o}) /\ (S \ {o}) \cup {o} = S
    BY FS_RemoveElement
  <1> QED
    BY <1>1, PiecesOfOneMore

\* Fewer orders have no more pieces.
LEMMA PiecesMonotone ==
  ASSUME NEW S, IsFiniteSet(S), NEW R \in SUBSET S, NEW n, \A p \in S : n[p] \in Nat
  PROVE  Cardinality(Pieces(n, R)) <= Cardinality(Pieces(n, S))
  <1>1. Pieces(n, R) \in SUBSET Pieces(n, S)
    BY DEF Pieces
  <1> QED
    BY <1>1, PiecesFinite, FS_Subset

\* Only the counts of the orders of S matter.
LEMMA PiecesExtensional ==
  ASSUME NEW S, NEW n, NEW m, \A o \in S : n[o] = m[o]
  PROVE  Pieces(n, S) = Pieces(m, S)
  BY DEF Pieces
-----------------------------------------------------------------------------
(* What a step does to the live orders *)

LEMMA LiveFinite == IsFiniteSet(Live)
  BY OrdersAssumption, FS_Subset DEF Live

\* The step places no order and closes none.
KeepsGoods ==
  /\ Live' = Live
  /\ UNCHANGED <<content, stock>>
  /\ \A c \in Vouchers :
       /\ vouch'[c].used = vouch[c].used
       /\ vouch'[c].quota = vouch[c].quota \/ vouch[c].used <= vouch'[c].quota

\* The step closes the live order o and gives back what it took.
GivesBack(o) ==
  /\ Live' = Live \ {o}
  /\ content' = content
  /\ stock' = [v \in Variants |-> stock[v] + content[o].items[v]]
  /\ RestoreVoucher(o)

LEMMA NothingMovesKeepsGoods ==
  ASSUME UNCHANGED <<status, content, stock, vouch>>
  PROVE  KeepsGoods
  BY DEF KeepsGoods, Live

LEMMA CancelGivesBack ==
  ASSUME PaymentInv, NEW w \in Workers, CancelCommit(w) \/ NotifyGiveUp(w)
  PROVE  req[w].order \in Live /\ GivesBack(req[w].order)
  <1> DEFINE o == req[w].order
  <1>1. o \in Orders
    BY RequestTypes DEF PaymentInv, CancelCommit, NotifyGiveUp, NotifyApply, Doing
  <1>2. status[o] \in {"PENDING", "PAID"}
    BY DEF CancelCommit, StillCancellable, Cancellable, NotifyGiveUp, GivesUp
  <1>3. /\ status' = [status EXCEPT ![o] = "CANCELLED"]
        /\ content' = content
        /\ RestoreVoucher(o)
        /\ stock' = [v \in Variants |-> stock[v] + content[o].items[v]]
    BY DEF CancelCommit, NotifyGiveUp, NotifyApply, RestoreStock
  <1> HIDE DEF o
  <1>4. Live' = Live \ {o}
    BY <1>1, <1>3 DEF Live, PaymentInv, TypeOK
  <1>5. o \in Live
    BY <1>1, <1>2 DEF Live
  <1> QED
    BY <1>3, <1>4, <1>5 DEF GivesBack, o

LEMMA StatusCommitKeepsGoods ==
  ASSUME PaymentInv, NEW w \in Workers, StatusCommit(w)
  PROVE  KeepsGoods
  <1> DEFINE o == req[w].order
             t == req[w].target
  <1>1. o \in Orders /\ req[w].op = "status" /\ req[w].seen \in Views
    BY RequestTypes DEF PaymentInv, StatusCommit, Doing
  <1>2. status[o] \in OrderStatuses /\ t \in AllowedTransitions[status[o]]
    BY <1>1 DEF PaymentInv, StatusCommit, StatusGuard, StatusRequestsAdmitted, Views
  <1>3. status[o] # "CANCELLED" /\ status[o] # "NONE" /\ t \notin {"NONE", "CANCELLED"}
    BY <1>2 DEF AllowedTransitions, OrderStatuses
  <1>4. /\ status' = [status EXCEPT ![o] = t]
        /\ UNCHANGED <<content, stock, vouch>>
    BY DEF StatusCommit
  <1> HIDE DEF o, t
  <1>5. Live' = Live
    BY <1>1, <1>3, <1>4 DEF Live, PaymentInv, TypeOK
  <1> QED
    BY <1>4, <1>5 DEF KeepsGoods

LEMMA NotifyPaidKeepsGoods ==
  ASSUME PaymentInv, NEW w \in Workers, NotifyPaid(w)
  PROVE  KeepsGoods
  <1> DEFINE o == req[w].order
  <1>1. o \in Orders
    BY RequestTypes DEF PaymentInv, NotifyPaid, NotifyApply, Doing
  <1>2. /\ UNCHANGED <<content, stock, vouch>>
        /\ \/ status' = status
           \/ status[o] = "PENDING" /\ status' = [status EXCEPT ![o] = "PAID"]
    BY DEF NotifyPaid, NotifyApply
  <1> HIDE DEF o
  <1>3. Live' = Live
    BY <1>1, <1>2 DEF Live, PaymentInv, TypeOK
  <1> QED
    BY <1>2, <1>3 DEF KeepsGoods

LEMMA AdminKeepsGoods ==
  ASSUME PaymentInv, NEW c \in Vouchers,
         ToggleVoucher(c) \/ \E q \in Quotas : UpdateQuota(c, q)
  PROVE  KeepsGoods
  <1>1. UNCHANGED <<status, content, stock>>
    BY DEF ToggleVoucher, UpdateQuota
  <1>2. \A d \in Vouchers : vouch[d] \in VoucherRows
    BY DEF PaymentInv, TypeOK
  <1>3. ASSUME NEW d \in Vouchers
        PROVE  /\ vouch'[d].used = vouch[d].used
               /\ vouch'[d].quota = vouch[d].quota \/ vouch[d].used <= vouch'[d].quota
    BY <1>2 DEF ToggleVoucher, UpdateQuota, QuotaAcceptable, VoucherRows, PaymentInv, TypeOK
  <1> QED
    BY <1>1, <1>3 DEF KeepsGoods, Live

\* Every step places one order, closes one, or leaves all goods where they are.
LEMMA GoodsCases ==
  ASSUME PaymentInv, [Next]_vars
  PROVE  \/ KeepsGoods
         \/ \E w \in Workers : CreateCommit(w)
         \/ \E o \in Live : GivesBack(o)
  <1>1. ASSUME NEW w \in Workers,
               \/ CreateSnapshot(w) \/ CreateDuplicate(w) \/ CreateRecheck(w)
               \/ CreateRefuse(w) \/ Answered(w) \/ CancelRefuse(w) \/ StatusRefuse(w)
               \/ SnapSave(w) \/ Abort(w) \/ NotifyIgnore(w)
        PROVE  KeepsGoods
    BY <1>1, NothingMovesKeepsGoods
    DEF CreateSnapshot, CreateDuplicate, CreateRecheck, CreateRefuse, Answered,
        CancelRefuse, StatusRefuse, SnapSave, Abort, NotifyIgnore
  <1>2. ASSUME NEW w \in Workers, NotifyOther(w) PROVE KeepsGoods
    BY <1>2, NothingMovesKeepsGoods DEF NotifyOther, NotifyApply
  <1>3. ASSUME NEW w \in Workers, NEW new \in Wishes,
               CreateAgain(w, new) \/ \E o \in Orders : CreateLookup(w, o, new)
        PROVE  KeepsGoods
    BY <1>3, NothingMovesKeepsGoods DEF CreateAgain, CreateLookup
  <1>4. ASSUME NEW w \in Workers, NEW o \in Orders,
               \/ CancelRead(w, o) \/ ConfirmRead(w, o) \/ SnapOpen(w, o)
               \/ \E target \in OrderStatuses : StatusRead(w, o, target)
               \/ \E report \in Reports : NotifyRead(w, o, report)
        PROVE  KeepsGoods
    BY <1>4, NothingMovesKeepsGoods
    DEF CancelRead, ConfirmRead, SnapOpen, StatusRead, NotifyRead
  <1>5. ASSUME NEW o \in Orders, TokenExpires(o) \/ GatewaySettles(o) PROVE KeepsGoods
    BY <1>5, NothingMovesKeepsGoods DEF TokenExpires, GatewaySettles
  <1>6. ASSUME UNCHANGED vars PROVE KeepsGoods
    BY <1>6, NothingMovesKeepsGoods
  <1> QED
    BY <1>1, <1>2, <1>3, <1>4, <1>5, <1>6, NextCases, CancelGivesBack,
       StatusCommitKeepsGoods, NotifyPaidKeepsGoods, AdminKeepsGoods

\* The order that create inserts was not live, and is now.
LEMMA CreatePlaces ==
  ASSUME PaymentInv, NEW w \in Workers, CreateCommit(w)
  PROVE  /\ req[w].order \in Orders \ Live
         /\ req[w].content \in Wishes
         /\ Live' = Live \cup {req[w].order}
         /\ content' = [content EXCEPT ![req[w].order] = req[w].content]
         /\ content'[req[w].order] = req[w].content
         /\ \A p \in Live : content'[p] = content[p]
  <1>1. req[w].order \in Orders /\ req[w].content \in Wishes /\ req[w].op = "createTx"
    BY RequestTypes DEF PaymentInv, CreateCommit, Doing
  <1>2. ~Exists(req[w].order)
    BY <1>1 DEF PaymentInv, FreshIds
  <1>3. /\ status' = [status EXCEPT ![req[w].order] = "PENDING"]
        /\ content' = [content EXCEPT ![req[w].order] = req[w].content]
    BY DEF CreateCommit
  <1>4. req[w].order \in Orders \ Live
    BY <1>1, <1>2 DEF Live, Exists
  <1>5. Live' = Live \cup {req[w].order}
    BY <1>1, <1>3 DEF Live, PaymentInv, TypeOK
  <1>6. /\ content'[req[w].order] = req[w].content
        /\ \A p \in Live : content'[p] = content[p]
    BY <1>1, <1>3, <1>4 DEF PaymentInv, TypeOK, Live
  <1> QED
    BY <1>1, <1>3, <1>4, <1>5, <1>6
-----------------------------------------------------------------------------
(* Stock *)

LEMMA StockStep ==
  ASSUME PaymentInv, StockConserved, [Next]_vars
  PROVE  StockConserved'
  <1> SUFFICES ASSUME NEW v \in Variants
               PROVE  (stock[v] + Cardinality(Units(Live, v)) = Supply[v])'
    BY DEF StockConserved
  <1>1. /\ stock \in [Variants -> Nat]
        /\ \A o \in Orders : content[o].items[v] \in Nat
        /\ stock[v] + Cardinality(Units(Live, v)) = Supply[v]
        /\ Supply[v] \in Nat /\ Live \subseteq Orders
    BY ContentType, OrdersAssumption DEF PaymentInv, TypeOK, StockConserved, Live
  <1>2. CASE KeepsGoods
    BY <1>1, <1>2 DEF KeepsGoods, Units
  <1>3. ASSUME NEW w \in Workers, CreateCommit(w)
        PROVE  (stock[v] + Cardinality(Units(Live, v)) = Supply[v])'
    <2> DEFINE o == req[w].order
               n == [p \in Orders |-> content'[p].items[v]]
    <2>1. /\ o \in Orders \ Live /\ Live' = Live \cup {o}
          /\ \A p \in Live : content'[p] = content[p]
          /\ content'[o] = req[w].content
          /\ req[w].content.items[v] \in Nat
      BY <1>3, CreatePlaces, OrdersAssumption DEF Wishes
    <2>2. n[o] = req[w].content.items[v] /\ \A p \in Live \cup {o} : n[p] \in Nat
      BY <1>1, <2>1
    <2>3. stock'[v] = stock[v] - req[w].content.items[v]
      BY <1>3 DEF CreateCommit
    <2>4. Units(Live, v) = Pieces(n, Live)
      BY <1>1, <2>1 DEF Units, Pieces
    <2>5. Units(Live, v)' = Pieces(n, Live \cup {o})
      BY <1>1, <2>1 DEF Units, Pieces
    <2> HIDE DEF n, o
    <2>6. Cardinality(Pieces(n, Live \cup {o})) = Cardinality(Pieces(n, Live)) + n[o]
      <3>1. IsFiniteSet(Live) /\ o \notin Live
        BY <2>1, LiveFinite
      <3>2. \A p \in Live \cup {o} : n[p] \in Nat
        BY <2>2
      <3> QED
        BY <3>1, <3>2, PiecesOfOneMore
    <2>7. Cardinality(Pieces(n, Live)) \in Nat
      BY <2>2, LiveFinite, PiecesFinite, FS_CardinalityType
    <2> QED
      BY <1>1, <2>1, <2>2, <2>3, <2>4, <2>5, <2>6, <2>7
  <1>4. ASSUME NEW o \in Live, GivesBack(o)
        PROVE  (stock[v] + Cardinality(Units(Live, v)) = Supply[v])'
    <2> DEFINE n == [p \in Orders |-> content[p].items[v]]
    <2>1. \A p \in Live : n[p] \in Nat /\ n[p] = content[p].items[v]
      BY <1>1
    <2>2. stock'[v] = stock[v] + n[o] /\ Live' = Live \ {o} /\ content' = content
      BY <1>1, <1>4 DEF GivesBack
    <2>3. Units(Live, v) = Pieces(n, Live)
      BY <1>1 DEF Units, Pieces
    <2>4. Units(Live, v)' = Pieces(n, Live \ {o})
      BY <1>1, <2>2 DEF Units, Pieces
    <2> HIDE DEF n
    <2>5. Cardinality(Pieces(n, Live)) = Cardinality(Pieces(n, Live \ {o})) + n[o]
      BY <2>1, LiveFinite, PiecesOfOneLess
    <2>6. IsFiniteSet(Live \ {o})
      BY LiveFinite, FS_RemoveElement
    <2>7. Cardinality(Pieces(n, Live \ {o})) \in Nat
      BY <2>1, <2>6, PiecesFinite, FS_CardinalityType
    <2> QED
      BY <1>1, <2>1, <2>2, <2>3, <2>4, <2>5, <2>7
  <1> QED
    BY <1>2, <1>3, <1>4, GoodsCases

LEMMA StockInit == Init => StockConserved
  <1> SUFFICES ASSUME Init PROVE StockConserved
    OBVIOUS
  <1>1. Live = {}
    BY DEF Init, Live
  <1>2. \A v \in Variants : Units(Live, v) = {}
    BY <1>1 DEF Units
  <1>3. Cardinality({}) = 0
    BY FS_EmptySet
  <1>4. \A v \in Variants : Supply[v] \in Nat /\ stock[v] = Supply[v]
    BY OrdersAssumption DEF Init
  <1> QED
    BY <1>2, <1>3, <1>4 DEF StockConserved

\* Every piece of stock is on the shelf or in exactly one live order, always.
THEOREM StockCorrect == Spec => []StockConserved
  <1>1. PaymentInv /\ StockConserved /\ [Next]_vars => (PaymentInv /\ StockConserved)'
    BY PaymentStep, StockStep
  <1> QED
    BY <1>1, PaymentInit, StockInit, PTL DEF Spec
-----------------------------------------------------------------------------
(* Vouchers *)

\* The live orders that use voucher c.
Uses(c) == {o \in Live : content[o].voucher = c}

LEMMA UsesFinite ==
  ASSUME NEW c
  PROVE  IsFiniteSet(Uses(c)) /\ Cardinality(Uses(c)) \in Nat
  <1>1. IsFiniteSet(Uses(c))
    BY LiveFinite, FS_Subset DEF Uses
  <1> QED
    BY <1>1, FS_CardinalityType

LEMMA VoucherStep ==
  ASSUME PaymentInv, VoucherConserved, [Next]_vars
  PROVE  VoucherConserved'
  <1> SUFFICES ASSUME NEW c \in Vouchers
               PROVE  (/\ vouch[c].used = Cardinality(Uses(c))
                       /\ vouch[c].used <= vouch[c].quota)'
    BY DEF VoucherConserved, Uses
  <1>1. /\ vouch[c] \in VoucherRows
        /\ vouch[c].used = Cardinality(Uses(c))
        /\ vouch[c].used <= vouch[c].quota
        /\ Live \subseteq Orders
    BY DEF PaymentInv, TypeOK, VoucherConserved, Uses, Live
  <1>2. vouch'[c].quota \in Nat /\ vouch'[c].used \in Nat
    BY TypeStep DEF PaymentInv, TypeOK, VoucherRows
  <1>3. CASE KeepsGoods
    <2>1. Uses(c)' = Uses(c)
      BY <1>3 DEF KeepsGoods, Uses
    <2> QED
      BY <1>1, <1>3, <2>1 DEF KeepsGoods
  <1>4. ASSUME NEW w \in Workers, CreateCommit(w)
        PROVE  (/\ vouch[c].used = Cardinality(Uses(c))
                /\ vouch[c].used <= vouch[c].quota)'
    <2> DEFINE o == req[w].order
    <2>1. /\ o \in Orders \ Live /\ Live' = Live \cup {o}
          /\ \A p \in Live : content'[p] = content[p]
          /\ content'[o].voucher = req[w].content.voucher
      BY <1>4, CreatePlaces
    <2>2. CASE req[w].content.voucher = c
      <3>1. /\ vouch'[c] = [vouch[c] EXCEPT !.used = vouch[c].used + 1]
            /\ vouch[c].used < vouch[c].quota
        BY <1>4, <2>2, OrdersAssumption DEF CreateCommit, WritesAllowed, ReserveGuard
      <3>2. Uses(c)' = Uses(c) \cup {o} /\ o \notin Uses(c)
        BY <2>1, <2>2 DEF Uses
      <3> HIDE DEF o
      <3>3. Cardinality(Uses(c) \cup {o}) = Cardinality(Uses(c)) + 1
        BY <3>2, UsesFinite, FS_AddElement
      <3>4. vouch'[c].used = vouch[c].used + 1 /\ vouch'[c].quota = vouch[c].quota
        BY <1>1, <3>1 DEF VoucherRows
      <3>5. vouch[c].used \in Nat /\ vouch[c].quota \in Nat
        BY <1>1 DEF VoucherRows
      <3> QED
        BY <1>1, <3>1, <3>2, <3>3, <3>4, <3>5
    <2>3. CASE req[w].content.voucher # c
      <3>1. vouch'[c] = vouch[c]
        BY <1>4, <2>3 DEF CreateCommit
      <3>2. Uses(c)' = Uses(c)
        BY <2>1, <2>3 DEF Uses
      <3> QED
        BY <1>1, <3>1, <3>2
    <2> QED
      BY <2>2, <2>3
  <1>5. ASSUME NEW o \in Live, GivesBack(o)
        PROVE  (/\ vouch[c].used = Cardinality(Uses(c))
                /\ vouch[c].used <= vouch[c].quota)'
    <2>1. Live' = Live \ {o} /\ content' = content
      BY <1>5 DEF GivesBack
    <2>2. CASE content[o].voucher = c
      <3>1. Uses(c)' = Uses(c) \ {o} /\ o \in Uses(c)
        BY <2>1, <2>2 DEF Uses
      <3>2. Cardinality(Uses(c) \ {o}) = Cardinality(Uses(c)) - 1
        BY <3>1, UsesFinite, FS_RemoveElement
      <3>3. Cardinality(Uses(c)) # 0
        BY <3>1, UsesFinite, FS_EmptySet
      <3>4. vouch[c].used > 0
        BY <1>1, <3>3, UsesFinite
      <3>5. vouch'[c] = [vouch[c] EXCEPT !.used = vouch[c].used - 1]
        BY <1>5, <2>2, <3>4 DEF GivesBack, RestoreVoucher
      <3>6. /\ vouch'[c].used = vouch[c].used - 1 /\ vouch'[c].quota = vouch[c].quota
            /\ vouch[c].used \in Nat /\ vouch[c].quota \in Nat
        BY <1>1, <3>5 DEF VoucherRows
      <3> QED
        BY <1>1, <3>1, <3>2, <3>6
    <2>3. CASE content[o].voucher # c
      <3>1. vouch'[c] = vouch[c]
        BY <1>5, <2>3 DEF GivesBack, RestoreVoucher
      <3>2. Uses(c)' = Uses(c)
        BY <2>1, <2>3 DEF Uses
      <3> QED
        BY <1>1, <3>1, <3>2
    <2> QED
      BY <2>2, <2>3
  <1> QED
    BY <1>3, <1>4, <1>5, GoodsCases

LEMMA VoucherInit == Init => VoucherConserved
  <1> SUFFICES ASSUME Init, NEW c \in Vouchers
               PROVE  vouch[c].used = Cardinality(Uses(c)) /\ vouch[c].used <= vouch[c].quota
    BY DEF VoucherConserved, Uses
  <1>1. Uses(c) = {}
    BY DEF Init, Live, Uses
  <1>2. PICK q \in Quotas : vouch[c] = [open |-> TRUE, quota |-> q, used |-> 0]
    <2>1. vouch[c] \in {[open |-> TRUE, quota |-> q, used |-> 0] : q \in Quotas}
      BY DEF Init
    <2> QED
      BY <2>1
  <1>3. vouch[c].used = 0 /\ vouch[c].quota \in Nat
    BY <1>2, OrdersAssumption
  <1>4. Cardinality({}) = 0
    BY FS_EmptySet
  <1> QED
    BY <1>1, <1>3, <1>4

\* usedCount counts the live orders that use the voucher and stays within the
\* quota, always.
THEOREM VoucherCorrect == Spec => []VoucherConserved
  <1>1. PaymentInv /\ VoucherConserved /\ [Next]_vars => (PaymentInv /\ VoucherConserved)'
    BY PaymentStep, VoucherStep
  <1> QED
    BY <1>1, PaymentInit, VoucherInit, PTL DEF Spec
-----------------------------------------------------------------------------
(* Sales *)

PaidOrders == {o \in Live : pay[o] = "PAID"}

\* The step adds no paid order and takes no sale back.
SellsNothing ==
  /\ sold' = sold
  /\ PaidOrders' \subseteq PaidOrders
  /\ \A p \in PaidOrders : content'[p] = content[p]

\* The step makes the order o paid, and counts its pieces.
Sells(o) ==
  /\ o \in Orders \ PaidOrders
  /\ PaidOrders' = PaidOrders \cup {o}
  /\ content' = content
  /\ sold' = [v \in Variants |-> sold[v] + content[o].items[v]]

\* The step takes the order o out of the paid ones, and its pieces out of the count.
Unsells(o) ==
  /\ o \in PaidOrders
  /\ PaidOrders' = PaidOrders \ {o}
  /\ content' = content
  /\ sold' = [v \in Variants |-> sold[v] - content[o].items[v]]

LEMMA NothingMovesSellsNothing ==
  ASSUME UNCHANGED <<status, pay, content, sold>>
  PROVE  SellsNothing
  BY DEF SellsNothing, PaidOrders, Live

LEMMA CreateSellsNothing ==
  ASSUME PaymentInv, NEW w \in Workers, CreateCommit(w)
  PROVE  SellsNothing
  <1>1. /\ req[w].order \in Orders \ Live
        /\ Live' = Live \cup {req[w].order}
        /\ \A p \in Live : content'[p] = content[p]
    BY CreatePlaces
  <1>2. pay[req[w].order] # "PAID"
    BY <1>1 DEF PaymentInv, PaidMeansSettled, Live
  <1>3. pay' = pay /\ sold' = sold
    BY DEF CreateCommit
  <1> QED
    BY <1>1, <1>2, <1>3 DEF SellsNothing, PaidOrders

LEMMA CancelUnsells ==
  ASSUME PaymentInv, NEW w \in Workers, CancelCommit(w)
  PROVE  SellsNothing \/ Unsells(req[w].order)
  <1> DEFINE o == req[w].order
  <1>1. o \in Live /\ Live' = Live \ {o} /\ content' = content
    BY CancelGivesBack DEF GivesBack
  <1>2. \A p \in Live \ {o} : pay'[p] = pay[p]
    BY DEF CancelCommit, PaymentInv, TypeOK, Live
  <1>3. sold' = IF pay[o] = "PAID" THEN [v \in Variants |-> sold[v] - content[o].items[v]]
                ELSE sold
    BY DEF CancelCommit, RestoreStock
  <1> HIDE DEF o
  <1>4. PaidOrders' = PaidOrders \ {o}
    BY <1>1, <1>2 DEF PaidOrders
  <1>5. pay[o] = "PAID" => Unsells(o)
    BY <1>1, <1>3, <1>4 DEF Unsells, PaidOrders
  <1>6. pay[o] # "PAID" => SellsNothing
    BY <1>1, <1>3, <1>4 DEF SellsNothing
  <1> QED
    BY <1>5, <1>6 DEF o

LEMMA NotifySells ==
  ASSUME PaymentInv, NEW w \in Workers, NotifyPaid(w)
  PROVE  Sells(req[w].order)
  <1> DEFINE o == req[w].order
  <1>1. o \in Orders /\ req[w].op = "notify"
    BY RequestTypes DEF PaymentInv, NotifyPaid, NotifyApply, Doing
  <1>2. status[o] # "CANCELLED" /\ pay[o] # "PAID" /\ status[o] # "NONE"
    BY <1>1 DEF NotifyPaid, NotifyApply, ReportIsStale, PaymentInv, ReportsAdmitted, Exists
  <1>3. Live' = Live /\ content' = content
    BY NotifyPaidKeepsGoods DEF KeepsGoods
  <1>4. /\ pay' = [pay EXCEPT ![o] = "PAID"]
        /\ sold' = [v \in Variants |-> sold[v] + content[o].items[v]]
    BY <1>2 DEF NotifyPaid, PaidGuard, IncrementTotalSold
  <1>5. o \in Live
    BY <1>1, <1>2 DEF Live
  <1> HIDE DEF o
  <1>6. \A p \in Orders : pay'[p] = IF p = o THEN "PAID" ELSE pay[p]
    BY <1>1, <1>4 DEF PaymentInv, TypeOK
  <1>7. PaidOrders' = PaidOrders \cup {o}
    BY <1>3, <1>5, <1>6 DEF PaidOrders, Live
  <1> QED
    BY <1>1, <1>2, <1>3, <1>4, <1>7 DEF Sells, PaidOrders, o

\* A payment that is not PAID is overwritten, and no row becomes live.
LEMMA NotifyOtherSellsNothing ==
  ASSUME PaymentInv, NEW w \in Workers, NotifyOther(w) \/ NotifyGiveUp(w) \/ SnapSave(w)
  PROVE  SellsNothing
  <1> DEFINE o == req[w].order
  <1>1. o \in Orders
    BY RequestTypes DEF PaymentInv, NotifyOther, NotifyGiveUp, SnapSave, NotifyApply, Doing
  <1>2. \A q \in Orders : pay'[q] = "PAID" => pay[q] = "PAID"
    <2>1. CASE SnapSave(w)
      <3>1. pay' = [pay EXCEPT ![o] = "UNPAID"]
        BY <2>1 DEF SnapSave
      <3> QED
        BY <1>1, <3>1 DEF PaymentInv, TypeOK
    <2>2. CASE NotifyOther(w) \/ NotifyGiveUp(w)
      <3>1. pay' = [pay EXCEPT ![o] = req[w].report] /\ req[w].report # "PAID"
        BY <2>2 DEF NotifyOther, NotifyGiveUp, GivesUp
      <3> QED
        BY <1>1, <3>1 DEF PaymentInv, TypeOK
    <2> QED
      BY <2>1, <2>2
  <1>3. content' = content /\ Live' \subseteq Live
    <2>1. CASE NotifyGiveUp(w)
      BY <2>1, CancelGivesBack DEF GivesBack
    <2>2. CASE NotifyOther(w) \/ SnapSave(w)
      BY <2>2 DEF NotifyOther, NotifyApply, SnapSave, Live
    <2> QED
      BY <2>1, <2>2
  <1>4. sold' = sold
    <2>1. CASE NotifyGiveUp(w)
      <3>1. req[w].op = "notify" /\ req[w].report \in {"EXPIRED", "FAILED"}
        BY <2>1 DEF NotifyGiveUp, NotifyApply, GivesUp, Doing
      <3>2. req[w].seen.pay # "PAID"
        BY <3>1 DEF PaymentInv, ReportsAdmitted
      <3> QED
        BY <2>1, <3>2 DEF NotifyGiveUp, RestoreStock
    <2>2. CASE NotifyOther(w) \/ SnapSave(w)
      BY <2>2 DEF NotifyOther, SnapSave
    <2> QED
      BY <2>1, <2>2
  <1> QED
    BY <1>2, <1>3, <1>4 DEF SellsNothing, PaidOrders, Live

LEMMA SaleCases ==
  ASSUME PaymentInv, [Next]_vars
  PROVE  SellsNothing \/ \E o \in Orders : Sells(o) \/ Unsells(o)
  <1>1. ASSUME NEW w \in Workers,
               \/ CreateSnapshot(w) \/ CreateDuplicate(w) \/ CreateRecheck(w)
               \/ CreateRefuse(w) \/ Answered(w) \/ CancelRefuse(w) \/ StatusRefuse(w)
               \/ Abort(w) \/ NotifyIgnore(w)
        PROVE  SellsNothing
    BY <1>1, NothingMovesSellsNothing
    DEF CreateSnapshot, CreateDuplicate, CreateRecheck, CreateRefuse, Answered,
        CancelRefuse, StatusRefuse, Abort, NotifyIgnore
  <1>2. ASSUME NEW w \in Workers, StatusCommit(w) PROVE SellsNothing
    <2>1. Live' = Live /\ content' = content /\ pay' = pay /\ sold' = sold
      BY <1>2, StatusCommitKeepsGoods DEF KeepsGoods, StatusCommit
    <2> QED
      BY <2>1 DEF SellsNothing, PaidOrders
  <1>3. ASSUME NEW w \in Workers, NEW new \in Wishes,
               CreateAgain(w, new) \/ \E o \in Orders : CreateLookup(w, o, new)
        PROVE  SellsNothing
    BY <1>3, NothingMovesSellsNothing DEF CreateAgain, CreateLookup
  <1>4. ASSUME NEW w \in Workers, NEW o \in Orders,
               \/ CancelRead(w, o) \/ ConfirmRead(w, o) \/ SnapOpen(w, o)
               \/ \E target \in OrderStatuses : StatusRead(w, o, target)
               \/ \E report \in Reports : NotifyRead(w, o, report)
        PROVE  SellsNothing
    BY <1>4, NothingMovesSellsNothing
    DEF CancelRead, ConfirmRead, SnapOpen, StatusRead, NotifyRead
  <1>5. ASSUME NEW o \in Orders, TokenExpires(o) \/ GatewaySettles(o) PROVE SellsNothing
    BY <1>5, NothingMovesSellsNothing DEF TokenExpires, GatewaySettles
  <1>6. ASSUME NEW c \in Vouchers, ToggleVoucher(c) \/ \E q \in Quotas : UpdateQuota(c, q)
        PROVE  SellsNothing
    BY <1>6, NothingMovesSellsNothing DEF ToggleVoucher, UpdateQuota
  <1>7. ASSUME UNCHANGED vars PROVE SellsNothing
    BY <1>7, NothingMovesSellsNothing
  <1>8. ASSUME NEW w \in Workers, CancelCommit(w)
        PROVE  SellsNothing \/ \E o \in Orders : Unsells(o)
    BY <1>8, CancelUnsells DEF Unsells, PaidOrders, Live
  <1>9. ASSUME NEW w \in Workers, NotifyPaid(w) PROVE \E o \in Orders : Sells(o)
    BY <1>9, NotifySells DEF Sells
  <1> QED
    BY <1>1, <1>2, <1>3, <1>4, <1>5, <1>6, <1>7, <1>8, <1>9, NextCases,
       CreateSellsNothing, NotifyOtherSellsNothing

LEMMA PaidOrdersFinite == IsFiniteSet(PaidOrders)
  BY LiveFinite, FS_Subset DEF PaidOrders

LEMMA SoldStep ==
  ASSUME PaymentInv, SoldCoversPaid, [Next]_vars
  PROVE  SoldCoversPaid'
  <1> SUFFICES ASSUME NEW v \in Variants
               PROVE  (sold[v] >= Cardinality(Units(PaidOrders, v)))'
    BY DEF SoldCoversPaid, PaidOrders
  <1> DEFINE n == [p \in Orders |-> content[p].items[v]]
  <1>1. /\ sold \in [Variants -> Int]
        /\ \A o \in Orders : n[o] \in Nat /\ n[o] = content[o].items[v]
        /\ sold[v] >= Cardinality(Units(PaidOrders, v))
        /\ PaidOrders \subseteq Orders
    BY ContentType DEF PaymentInv, TypeOK, SoldCoversPaid, PaidOrders, Live
  <1>2. Units(PaidOrders, v) = Pieces(n, PaidOrders)
    BY <1>1 DEF Units, Pieces
  <1>3. Cardinality(Pieces(n, PaidOrders)) \in Nat
    BY <1>1, PaidOrdersFinite, PiecesFinite, FS_CardinalityType
  <1>4. CASE SellsNothing
    <2>1. Units(PaidOrders, v)' = Pieces(n, PaidOrders')
      BY <1>1, <1>4 DEF Units, Pieces, SellsNothing
    <2>2. PaidOrders' \in SUBSET PaidOrders
      BY <1>4 DEF SellsNothing
    <2> HIDE DEF n
    <2>3. Cardinality(Pieces(n, PaidOrders')) <= Cardinality(Pieces(n, PaidOrders))
      BY <1>1, <2>2, PaidOrdersFinite, PiecesMonotone
    <2>4. Cardinality(Pieces(n, PaidOrders')) \in Nat
      <3>1. IsFiniteSet(PaidOrders')
        BY <2>2, PaidOrdersFinite, FS_Subset
      <3> QED
        BY <1>1, <2>2, <3>1, PiecesFinite, FS_CardinalityType
    <2> QED
      BY <1>1, <1>2, <1>3, <1>4, <2>1, <2>3, <2>4 DEF SellsNothing
  <1>5. ASSUME NEW o \in Orders, Sells(o)
        PROVE  (sold[v] >= Cardinality(Units(PaidOrders, v)))'
    <2>1. Units(PaidOrders, v)' = Pieces(n, PaidOrders \cup {o})
      BY <1>1, <1>5 DEF Units, Pieces, Sells
    <2>2. sold'[v] = sold[v] + n[o] /\ o \notin PaidOrders
      BY <1>1, <1>5 DEF Sells
    <2> HIDE DEF n
    <2>3. \A p \in PaidOrders \cup {o} : n[p] \in Nat
      BY <1>1
    <2>4. Cardinality(Pieces(n, PaidOrders \cup {o})) = Cardinality(Pieces(n, PaidOrders)) + n[o]
      BY <2>2, <2>3, PaidOrdersFinite, PiecesOfOneMore
    <2> QED
      BY <1>1, <1>2, <1>3, <2>1, <2>2, <2>4
  <1>6. ASSUME NEW o \in Orders, Unsells(o)
        PROVE  (sold[v] >= Cardinality(Units(PaidOrders, v)))'
    <2>1. Units(PaidOrders, v)' = Pieces(n, PaidOrders \ {o})
      BY <1>1, <1>6 DEF Units, Pieces, Unsells
    <2>2. sold'[v] = sold[v] - n[o] /\ o \in PaidOrders
      BY <1>1, <1>6 DEF Unsells
    <2> HIDE DEF n
    <2>3. Cardinality(Pieces(n, PaidOrders)) = Cardinality(Pieces(n, PaidOrders \ {o})) + n[o]
      BY <1>1, <2>2, PaidOrdersFinite, PiecesOfOneLess
    <2>4. IsFiniteSet(PaidOrders \ {o})
      BY PaidOrdersFinite, FS_RemoveElement
    <2>5. Cardinality(Pieces(n, PaidOrders \ {o})) \in Nat
      BY <1>1, <2>4, PiecesFinite, FS_CardinalityType
    <2> QED
      BY <1>1, <1>2, <1>3, <2>1, <2>2, <2>3, <2>5
  <1> QED
    BY <1>4, <1>5, <1>6, SaleCases

LEMMA SoldInit == Init => SoldCoversPaid
  <1> SUFFICES ASSUME Init PROVE SoldCoversPaid
    OBVIOUS
  <1>1. PaidOrders = {}
    BY DEF Init, Live, PaidOrders
  <1>2. \A v \in Variants : Units(PaidOrders, v) = {}
    BY <1>1 DEF Units
  <1>3. Cardinality({}) = 0
    BY FS_EmptySet
  <1>4. \A v \in Variants : sold[v] = 0
    BY DEF Init
  <1> QED
    BY <1>2, <1>3, <1>4 DEF SoldCoversPaid, PaidOrders

\* totalSold covers the pieces of the paid orders, always.
THEOREM SoldCorrect == Spec => []SoldCoversPaid
  <1>1. PaymentInv /\ SoldCoversPaid /\ [Next]_vars => (PaymentInv /\ SoldCoversPaid)'
    BY PaymentStep, SoldStep
  <1> QED
    BY <1>1, PaymentInit, SoldInit, PTL DEF Spec
-----------------------------------------------------------------------------
(* Paid orders and cancelled orders *)

\* The step leaves the status and the payment of order o alone.
Spares(o) ==
  status'[o] = status[o] /\ pay'[o] = pay[o] /\ payment'[o].status = payment[o].status

\* The step moves an order that is not cancelled, and un-pays only by a refund.
MovesOpenOrder(o) ==
  /\ status[o] # "CANCELLED"
  /\ pay[o] = "PAID" => pay'[o] \in {"PAID", "REFUNDED"}

LEMMA SparesAll ==
  ASSUME UNCHANGED <<status, pay, payment>>, NEW o PROVE Spares(o)
  BY DEF Spares

LEMMA CreateSparesOrMoves ==
  ASSUME PaymentInv, NEW w \in Workers, CreateCommit(w), NEW o \in Orders
  PROVE  Spares(o) \/ MovesOpenOrder(o)
  <1>1. req[w].order \in Orders /\ req[w].op = "createTx"
    BY RequestTypes DEF PaymentInv, CreateCommit, Doing
  <1>2. ~Exists(req[w].order)
    BY <1>1 DEF PaymentInv, FreshIds
  <1>3. pay' = pay /\ payment' = payment /\ status' = [status EXCEPT ![req[w].order] = "PENDING"]
    BY DEF CreateCommit
  <1>4. CASE o = req[w].order
    BY <1>2, <1>3, <1>4 DEF MovesOpenOrder, Exists
  <1>5. CASE o # req[w].order
    BY <1>3, <1>5 DEF Spares, PaymentInv, TypeOK
  <1> QED
    BY <1>4, <1>5

LEMMA CancelSparesOrMoves ==
  ASSUME PaymentInv, NEW w \in Workers, CancelCommit(w), NEW o \in Orders
  PROVE  Spares(o) \/ MovesOpenOrder(o)
  <1> DEFINE x == req[w].order
             p == PaymentAfterCancel(x, req[w].seen)
  <1>1. x \in Orders
    BY RequestTypes DEF PaymentInv, CancelCommit, Doing
  <1>2. status[x] # "CANCELLED" /\ (pay[x] = "PAID" => p = "REFUNDED")
    BY DEF CancelCommit, StillCancellable, Cancellable, PaymentAfterCancel
  <1>3. /\ status' = [status EXCEPT ![x] = "CANCELLED"]
        /\ pay' = [pay EXCEPT ![x] = p]
        /\ payment' = payment \/ payment' = [payment EXCEPT ![x].status = p]
    BY DEF CancelCommit
  <1> HIDE DEF x, p
  <1>4. CASE o = x
    BY <1>1, <1>2, <1>3, <1>4 DEF MovesOpenOrder, PaymentInv, TypeOK
  <1>5. CASE o # x
    BY <1>1, <1>3, <1>5 DEF Spares, PaymentInv, TypeOK
  <1> QED
    BY <1>4, <1>5

LEMMA StatusSparesOrMoves ==
  ASSUME PaymentInv, NEW w \in Workers, StatusCommit(w), NEW o \in Orders
  PROVE  Spares(o) \/ MovesOpenOrder(o)
  <1> DEFINE x == req[w].order
             t == req[w].target
  <1>1. x \in Orders /\ req[w].op = "status" /\ req[w].seen \in Views
    BY RequestTypes DEF PaymentInv, StatusCommit, Doing
  <1>2. status[x] \in OrderStatuses /\ t \in AllowedTransitions[status[x]]
    BY <1>1 DEF PaymentInv, StatusCommit, StatusGuard, StatusRequestsAdmitted, Views
  <1>3. status[x] # "CANCELLED"
    BY <1>2 DEF AllowedTransitions, OrderStatuses
  <1>4. /\ status' = [status EXCEPT ![x] = t]
        /\ pay' = pay /\ payment' = payment
    BY DEF StatusCommit
  <1> HIDE DEF x, t
  <1>5. CASE o = x
    BY <1>3, <1>4, <1>5 DEF MovesOpenOrder
  <1>6. CASE o # x
    BY <1>4, <1>6 DEF Spares, PaymentInv, TypeOK
  <1> QED
    BY <1>5, <1>6

LEMMA SnapSparesOrMoves ==
  ASSUME PaymentInv, NEW w \in Workers, SnapSave(w), NEW o \in Orders
  PROVE  Spares(o) \/ MovesOpenOrder(o)
  <1> DEFINE x == req[w].order
  <1>1. x \in Orders /\ req[w].op = "snap"
    BY RequestTypes DEF PaymentInv, SnapSave, Doing
  <1>2. status[x] # "CANCELLED" /\ pay[x] # "PAID"
    BY <1>1 DEF PaymentInv, SnapChecksStillHold, MayPay
  <1>3. /\ status' = status
        /\ pay' = [pay EXCEPT ![x] = "UNPAID"]
        /\ payment' = [payment EXCEPT ![x] = [status |-> "UNPAID", token |-> TRUE]]
    BY DEF SnapSave
  <1> HIDE DEF x
  <1>4. CASE o = x
    BY <1>2, <1>4 DEF MovesOpenOrder
  <1>5. CASE o # x
    BY <1>3, <1>5 DEF Spares, PaymentInv, TypeOK
  <1> QED
    BY <1>4, <1>5

LEMMA NotifySparesOrMoves ==
  ASSUME PaymentInv, NEW w \in Workers,
         NotifyPaid(w) \/ NotifyGiveUp(w) \/ NotifyOther(w), NEW o \in Orders
  PROVE  Spares(o) \/ MovesOpenOrder(o)
  <1> DEFINE x == req[w].order
             p == req[w].report
  <1>1. NotifyApply(w)
    BY DEF NotifyPaid, NotifyGiveUp, NotifyOther
  <1>2. x \in Orders
    BY <1>1, RequestTypes DEF PaymentInv, NotifyApply, Doing
  <1>3. status[x] # "CANCELLED" /\ (pay[x] = "PAID" => p = "REFUNDED")
    BY <1>1 DEF NotifyApply, ReportIsStale
  <1>4. /\ status' = status \/ \E t : status' = [status EXCEPT ![x] = t]
        /\ pay' = pay \/ pay' = [pay EXCEPT ![x] = p]
        /\ payment' = [payment EXCEPT ![x].status = p]
    BY <1>1 DEF NotifyPaid, NotifyGiveUp, NotifyOther, NotifyApply, RecordPayment
  <1> HIDE DEF x, p
  <1>5. CASE o = x
    BY <1>2, <1>3, <1>4, <1>5 DEF MovesOpenOrder, PaymentInv, TypeOK
  <1>6. CASE o # x
    BY <1>2, <1>4, <1>6 DEF Spares, PaymentInv, TypeOK
  <1> QED
    BY <1>5, <1>6

LEMMA OrderMoves ==
  ASSUME PaymentInv, [Next]_vars, NEW o \in Orders
  PROVE  Spares(o) \/ MovesOpenOrder(o)
  <1>1. ASSUME NEW w \in Workers,
               \/ CreateSnapshot(w) \/ CreateDuplicate(w) \/ CreateRecheck(w)
               \/ CreateRefuse(w) \/ Answered(w) \/ CancelRefuse(w) \/ StatusRefuse(w)
               \/ Abort(w) \/ NotifyIgnore(w)
        PROVE  Spares(o)
    BY <1>1, SparesAll
    DEF CreateSnapshot, CreateDuplicate, CreateRecheck, CreateRefuse, Answered,
        CancelRefuse, StatusRefuse, Abort, NotifyIgnore
  <1>2. ASSUME NEW w \in Workers, NEW new \in Wishes,
               CreateAgain(w, new) \/ \E x \in Orders : CreateLookup(w, x, new)
        PROVE  Spares(o)
    BY <1>2, SparesAll DEF CreateAgain, CreateLookup
  <1>3. ASSUME NEW w \in Workers, NEW x \in Orders,
               \/ CancelRead(w, x) \/ ConfirmRead(w, x) \/ SnapOpen(w, x)
               \/ \E target \in OrderStatuses : StatusRead(w, x, target)
               \/ \E report \in Reports : NotifyRead(w, x, report)
        PROVE  Spares(o)
    BY <1>3, SparesAll DEF CancelRead, ConfirmRead, SnapOpen, StatusRead, NotifyRead
  <1>4. ASSUME NEW x \in Orders, TokenExpires(x) \/ GatewaySettles(x) PROVE Spares(o)
    <2>1. UNCHANGED <<status, pay>> /\ payment'[o].status = payment[o].status
      BY <1>4 DEF TokenExpires, GatewaySettles, PaymentInv, TypeOK, PaymentRows
    <2> QED
      BY <2>1 DEF Spares
  <1>5. ASSUME NEW c \in Vouchers, ToggleVoucher(c) \/ \E q \in Quotas : UpdateQuota(c, q)
        PROVE  Spares(o)
    BY <1>5, SparesAll DEF ToggleVoucher, UpdateQuota
  <1>6. ASSUME UNCHANGED vars PROVE Spares(o)
    BY <1>6, SparesAll
  <1> QED
    BY <1>1, <1>2, <1>3, <1>4, <1>5, <1>6, NextCases, CreateSparesOrMoves,
       CancelSparesOrMoves, StatusSparesOrMoves, SnapSparesOrMoves, NotifySparesOrMoves

\* No step takes a payment out of PAID, other than a refund.
THEOREM PaidStaysPaid == Spec => PaidIsOnlyRefunded
  <1>1. PaymentInv /\ [Next]_vars
          => [\A o \in Orders : pay[o] = "PAID" => pay'[o] \in {"PAID", "REFUNDED"}]_vars
    BY OrderMoves DEF Spares, MovesOpenOrder
  <1> QED
    BY <1>1, PaymentsCorrect, PTL DEF Spec, PaidIsOnlyRefunded

\* No step moves a cancelled order or its payment.
THEOREM CancelledStaysCancelled == Spec => CancelledIsFinal
  <1>1. PaymentInv /\ [Next]_vars
          => [\A o \in Orders : status[o] = "CANCELLED" =>
                /\ status'[o] = "CANCELLED"
                /\ pay'[o] = pay[o]
                /\ payment'[o].status = payment[o].status]_vars
    BY OrderMoves DEF Spares, MovesOpenOrder
  <1> QED
    BY <1>1, PaymentsCorrect, PTL DEF Spec, CancelledIsFinal
-----------------------------------------------------------------------------
(* Refinement *)

\* The step leaves every status alone, or moves one order one stage on.
Advances ==
  \/ status' = status
  \/ \E o \in Orders :
       /\ status[o] \in OrderStatuses \ {"CANCELLED"}
       /\ \E next \in AllowedTransitions[status[o]] : status' = [status EXCEPT ![o] = next]

\* The step cancels the order o.
Cancels(o) ==
  /\ status[o] \in Cancellable
  /\ status' = [status EXCEPT ![o] = "CANCELLED"]

LEMMA StatusCommitAdvances ==
  ASSUME PaymentInv, NEW w \in Workers, StatusCommit(w)
  PROVE  Advances
  <1> DEFINE o == req[w].order
             t == req[w].target
  <1>1. o \in Orders /\ req[w].op = "status" /\ req[w].seen \in Views
    BY RequestTypes DEF PaymentInv, StatusCommit, Doing
  <1>2. status[o] \in OrderStatuses /\ t \in AllowedTransitions[status[o]]
    BY <1>1 DEF PaymentInv, StatusCommit, StatusGuard, StatusRequestsAdmitted, Views
  <1>3. status[o] # "CANCELLED"
    BY <1>2 DEF AllowedTransitions, OrderStatuses
  <1>4. status' = [status EXCEPT ![o] = t]
    BY DEF StatusCommit
  <1> HIDE DEF o, t
  <1> QED
    BY <1>1, <1>2, <1>3, <1>4 DEF Advances

LEMMA NotifyPaidAdvances ==
  ASSUME PaymentInv, NEW w \in Workers, NotifyPaid(w)
  PROVE  Advances
  <1> DEFINE o == req[w].order
  <1>1. o \in Orders
    BY RequestTypes DEF PaymentInv, NotifyPaid, NotifyApply, Doing
  <1>2. CASE status' = status
    BY <1>2 DEF Advances
  <1>3. CASE status[o] = "PENDING" /\ status' = [status EXCEPT ![o] = "PAID"]
    <2>1. "PAID" \in AllowedTransitions["PENDING"] /\ "PENDING" \in OrderStatuses
      BY DEF AllowedTransitions, OrderStatuses
    <2> HIDE DEF o
    <2> QED
      BY <1>1, <1>3, <2>1 DEF Advances
  <1> QED
    BY <1>2, <1>3 DEF NotifyPaid

LEMMA CancelCancels ==
  ASSUME NEW w \in Workers, CancelCommit(w) \/ NotifyGiveUp(w)
  PROVE  Cancels(req[w].order)
  BY DEF Cancels, CancelCommit, StillCancellable, NotifyGiveUp, GivesUp, Cancellable

\* Every step places an order, cancels one, or moves at most one on; and what it
\* does to the goods goes with it.
LEMMA StageCases ==
  ASSUME PaymentInv, [Next]_vars
  PROVE  \/ KeepsGoods /\ Advances
         \/ \E w \in Workers : CreateCommit(w)
         \/ \E o \in Live : GivesBack(o) /\ Cancels(o)
  <1>1. ASSUME UNCHANGED <<status, content, stock, vouch>> PROVE KeepsGoods /\ Advances
    BY <1>1, NothingMovesKeepsGoods DEF Advances
  <1>2. ASSUME NEW w \in Workers,
               \/ CreateSnapshot(w) \/ CreateDuplicate(w) \/ CreateRecheck(w)
               \/ CreateRefuse(w) \/ Answered(w) \/ CancelRefuse(w) \/ StatusRefuse(w)
               \/ SnapSave(w) \/ Abort(w) \/ NotifyIgnore(w) \/ NotifyOther(w)
        PROVE  KeepsGoods /\ Advances
    BY <1>1, <1>2
    DEF CreateSnapshot, CreateDuplicate, CreateRecheck, CreateRefuse, Answered,
        CancelRefuse, StatusRefuse, SnapSave, Abort, NotifyIgnore, NotifyOther, NotifyApply
  <1>3. ASSUME NEW w \in Workers, NEW new \in Wishes,
               CreateAgain(w, new) \/ \E o \in Orders : CreateLookup(w, o, new)
        PROVE  KeepsGoods /\ Advances
    BY <1>1, <1>3 DEF CreateAgain, CreateLookup
  <1>4. ASSUME NEW w \in Workers, NEW o \in Orders,
               \/ CancelRead(w, o) \/ ConfirmRead(w, o) \/ SnapOpen(w, o)
               \/ \E target \in OrderStatuses : StatusRead(w, o, target)
               \/ \E report \in Reports : NotifyRead(w, o, report)
        PROVE  KeepsGoods /\ Advances
    BY <1>1, <1>4 DEF CancelRead, ConfirmRead, SnapOpen, StatusRead, NotifyRead
  <1>5. ASSUME NEW o \in Orders, TokenExpires(o) \/ GatewaySettles(o)
        PROVE  KeepsGoods /\ Advances
    BY <1>1, <1>5 DEF TokenExpires, GatewaySettles
  <1>6. ASSUME NEW c \in Vouchers, ToggleVoucher(c) \/ \E q \in Quotas : UpdateQuota(c, q)
        PROVE  KeepsGoods /\ Advances
    <2>1. status' = status
      BY <1>6 DEF ToggleVoucher, UpdateQuota
    <2> QED
      BY <1>6, <2>1, AdminKeepsGoods DEF Advances
  <1>7. ASSUME UNCHANGED vars PROVE KeepsGoods /\ Advances
    BY <1>1, <1>7
  <1>8. ASSUME NEW w \in Workers, StatusCommit(w) \/ NotifyPaid(w)
        PROVE  KeepsGoods /\ Advances
    BY <1>8, StatusCommitKeepsGoods, NotifyPaidKeepsGoods, StatusCommitAdvances,
       NotifyPaidAdvances
  <1>9. ASSUME NEW w \in Workers, CancelCommit(w) \/ NotifyGiveUp(w)
        PROVE  \E o \in Live : GivesBack(o) /\ Cancels(o)
    BY <1>9, CancelGivesBack, CancelCancels
  <1> QED
    BY <1>2, <1>3, <1>4, <1>5, <1>6, <1>7, <1>8, <1>9, NextCases

\* The refinement mapping of the three variables that are not simply renamed.
Goods == [o \in Orders |-> content[o].items]
VoucherOf == [o \in Orders |-> content[o].voucher]
UseCounts == [c \in Vouchers |-> vouch[c].used]

LEMMA CreateImplementsPlace ==
  ASSUME PaymentInv, NEW w \in Workers, CreateCommit(w),
         NEW o, o = req[w].order, NEW c, c = req[w].content
  PROVE  Lifecycle!Place(o, c.items, c.voucher)
  <1>1. o \in Orders /\ req[w].op = "createTx" /\ c \in Wishes
    BY RequestTypes DEF PaymentInv, CreateCommit, Doing
  <1>2. status[o] = "NONE"
    BY <1>1 DEF PaymentInv, FreshIds, Exists
  <1>3. \A v \in Variants : c.items[v] <= stock[v]
    BY DEF CreateCommit, WritesAllowed, TakeGuard, StockSuffices
  <1>4. /\ status' = [status EXCEPT ![o] = "PENDING"]
        /\ content' = [content EXCEPT ![o] = c]
        /\ stock' = [v \in Variants |-> stock[v] - c.items[v]]
        /\ vouch' = [d \in Vouchers |->
                       IF d = c.voucher THEN [vouch[d] EXCEPT !.used = vouch[d].used + 1]
                       ELSE vouch[d]]
    BY DEF CreateCommit
  <1>5. Goods' = [Goods EXCEPT ![o] = c.items]
    BY <1>1, <1>4 DEF Goods, PaymentInv, TypeOK
  <1>6. VoucherOf' = [VoucherOf EXCEPT ![o] = c.voucher]
    BY <1>1, <1>4 DEF VoucherOf, PaymentInv, TypeOK
  <1>7. UseCounts' = [d \in Vouchers |-> IF d = c.voucher THEN UseCounts[d] + 1
                                         ELSE UseCounts[d]]
    <2>1. \A d \in Vouchers : vouch[d] \in VoucherRows
      BY DEF PaymentInv, TypeOK
    <2> QED
      BY <1>4, <2>1 DEF UseCounts, VoucherRows
  <1> QED
    BY <1>2, <1>3, <1>4, <1>5, <1>6, <1>7
    DEF Lifecycle!Place, Goods, VoucherOf, UseCounts

LEMMA GivesBackImplementsCancel ==
  ASSUME PaymentInv, VoucherConserved, NEW o \in Live, GivesBack(o), Cancels(o)
  PROVE  Lifecycle!Cancel(o)
  <1>1. o \in Orders
    BY DEF Live
  <1>2. content' = content /\ stock' = [v \in Variants |-> stock[v] + content[o].items[v]]
    BY DEF GivesBack
  <1>3. UseCounts' = [d \in Vouchers |-> IF d = VoucherOf[o] THEN UseCounts[d] - 1
                                         ELSE UseCounts[d]]
    <2> SUFFICES ASSUME NEW d \in Vouchers
                 PROVE  vouch'[d].used = IF d = VoucherOf[o] THEN vouch[d].used - 1
                                         ELSE vouch[d].used
      BY DEF UseCounts
    <2>1. vouch[d] \in VoucherRows /\ vouch[d].used = Cardinality(Uses(d))
      BY DEF PaymentInv, TypeOK, VoucherConserved, Uses
    <2>2. CASE content[o].voucher = d
      <3>1. Uses(d) # {}
        BY <2>2 DEF Uses
      <3>2. vouch[d].used > 0
        BY <2>1, <3>1, UsesFinite, FS_EmptySet
      <3>3. vouch'[d] = [vouch[d] EXCEPT !.used = vouch[d].used - 1]
        BY <2>2, <3>2 DEF GivesBack, RestoreVoucher
      <3> QED
        BY <1>1, <2>1, <2>2, <3>3 DEF VoucherOf, VoucherRows
    <2>3. CASE content[o].voucher # d
      <3>1. vouch'[d] = vouch[d]
        BY <2>3 DEF GivesBack, RestoreVoucher
      <3> QED
        BY <1>1, <2>3, <3>1 DEF VoucherOf
    <2> QED
      BY <2>2, <2>3
  <1>4. Cancellable = Lifecycle!Cancellable
    BY DEF Cancellable, Lifecycle!Cancellable
  <1> QED
    BY <1>1, <1>2, <1>3, <1>4
    DEF Lifecycle!Cancel, Cancels, Goods, VoucherOf, UseCounts

LEMMA AdvanceImplementsAdvance ==
  ASSUME KeepsGoods, Advances
  PROVE  \/ \E o \in Orders : Lifecycle!Advance(o)
         \/ UNCHANGED Lifecycle!vars
  <1>1. UNCHANGED <<Goods, VoucherOf, UseCounts, stock>>
    BY DEF KeepsGoods, Goods, VoucherOf, UseCounts
  <1>2. CASE status' = status
    BY <1>1, <1>2 DEF Lifecycle!vars, Goods, VoucherOf, UseCounts
  <1>3. CASE \E o \in Orders :
               /\ status[o] \in OrderStatuses \ {"CANCELLED"}
               /\ \E next \in AllowedTransitions[status[o]] :
                    status' = [status EXCEPT ![o] = next]
    <2>1. /\ OrderStatuses = Lifecycle!OrderStatuses
          /\ AllowedTransitions = Lifecycle!AllowedTransitions
      BY DEF OrderStatuses, Lifecycle!OrderStatuses, AllowedTransitions,
             Lifecycle!AllowedTransitions
    <2>2. PICK o \in Orders :
            /\ status[o] \in OrderStatuses \ {"CANCELLED"}
            /\ \E next \in AllowedTransitions[status[o]] : status' = [status EXCEPT ![o] = next]
      BY <1>3
    <2>3. Lifecycle!Advance(o)
      BY <1>1, <2>1, <2>2 DEF Lifecycle!Advance, Goods, VoucherOf, UseCounts
    <2> QED
      BY <2>3
  <1> QED
    BY <1>2, <1>3 DEF Advances

LEMMA LifecycleStep ==
  ASSUME PaymentInv, VoucherConserved, [Next]_vars
  PROVE  [Lifecycle!Next]_(Lifecycle!vars)
  <1>1. CASE KeepsGoods /\ Advances
    <2>1. ASSUME NEW o \in Orders, Lifecycle!Advance(o) PROVE Lifecycle!Next
      BY <2>1 DEF Lifecycle!Next
    <2> QED
      BY <1>1, <2>1, AdvanceImplementsAdvance
  <1>2. ASSUME NEW w \in Workers, CreateCommit(w) PROVE Lifecycle!Next
    <2>1. PICK o \in Orders, c \in Wishes : o = req[w].order /\ c = req[w].content
      BY <1>2, CreatePlaces
    <2>2. Lifecycle!Place(o, c.items, c.voucher)
      BY <1>2, <2>1, CreateImplementsPlace
    <2>3. c.items \in Baskets /\ c.voucher \in Vouchers \cup {None}
      BY DEF Wishes
    <2> QED
      BY <2>2, <2>3 DEF Lifecycle!Next
  <1>3. ASSUME NEW o \in Live, GivesBack(o), Cancels(o) PROVE Lifecycle!Next
    <2>1. o \in Orders /\ Lifecycle!Cancel(o)
      BY <1>3, GivesBackImplementsCancel DEF Live
    <2> QED
      BY <2>1 DEF Lifecycle!Next
  <1> QED
    BY <1>1, <1>2, <1>3, StageCases

LEMMA LifecycleInit == Init => Lifecycle!Init
  <1> SUFFICES ASSUME Init PROVE Lifecycle!Init
    OBVIOUS
  <1>1. \A o \in Orders : content[o].items = [v \in Variants |-> 0] /\ content[o].voucher = None
    BY DEF Init, NoContent, NoBasket
  <1>2. \A c \in Vouchers : vouch[c].used = 0
    <2> TAKE c \in Vouchers
    <2>1. vouch[c] \in {[open |-> TRUE, quota |-> q, used |-> 0] : q \in Quotas}
      BY DEF Init
    <2> QED
      BY <2>1
  <1> QED
    BY <1>1, <1>2 DEF Init, Lifecycle!Init

\* Requests, transactions and webhooks implement the abstract life of an order.
THEOREM OrdersImplementLifecycle == Spec => ImplementsLifecycle
  <1>1. PaymentInv /\ VoucherConserved /\ [Next]_vars => [Lifecycle!Next]_(Lifecycle!vars)
    BY LifecycleStep
  <1> QED
    BY <1>1, LifecycleInit, PaymentsCorrect, VoucherCorrect, PTL
    DEF Spec, ImplementsLifecycle, Lifecycle!Spec
-----------------------------------------------------------------------------
(* Idempotency keys *)

\* The unique index on clientRequestId.
KeysAreUnique ==
  \A o, p \in Orders :
    Exists(o) /\ Exists(p) /\ content[o].key # None /\ content[o].key = content[p].key => o = p

\* An answer is an order of the caller, with the key of the request.
AnswersMatch ==
  \A w \in Workers : req[w].op = "answered" =>
    /\ Exists(req[w].order)
    /\ content[req[w].order].owner = req[w].content.owner
    /\ req[w].content.key # None => content[req[w].order].key = req[w].content.key

AnswerInv == KeysAreUnique /\ AnswersMatch

LEMMA AnswerInvSuffices ==
  ASSUME TypeOK, AnswerInv PROVE AnswerIsOwnOrder
  <1> SUFFICES ASSUME NEW w \in Workers, req[w].op = "answered"
               PROVE  /\ Exists(req[w].order)
                      /\ content[req[w].order].owner = req[w].content.owner
                      /\ req[w].content.key # None =>
                           OrderWithKey(req[w].content.key) = {req[w].order}
    BY DEF AnswerIsOwnOrder
  <1>1. req[w].order \in Orders
    BY RequestTypes
  <1> QED
    BY <1>1 DEF AnswerInv, KeysAreUnique, AnswersMatch, OrderWithKey

\* Rows are never deleted, and what create wrote is never rewritten.
LEMMA ContentIsFinal ==
  ASSUME PaymentInv, [Next]_vars, NEW o \in Orders, Exists(o)
  PROVE  Exists(o)' /\ content'[o] = content[o]
  <1>1. CASE KeepsGoods /\ Advances
    <2>1. content' = content
      BY <1>1 DEF KeepsGoods
    <2>2. Exists(o)'
      BY <1>1 DEF Advances, AllowedTransitions, OrderStatuses, Exists, PaymentInv, TypeOK
    <2> QED
      BY <2>1, <2>2
  <1>2. ASSUME NEW w \in Workers, CreateCommit(w)
        PROVE  Exists(o)' /\ content'[o] = content[o]
    <2>1. req[w].order \in Orders /\ req[w].op = "createTx"
      BY <1>2, RequestTypes DEF PaymentInv, CreateCommit, Doing
    <2>2. o # req[w].order
      BY <2>1 DEF PaymentInv, FreshIds
    <2> QED
      BY <1>2, <2>2 DEF CreateCommit, Exists, PaymentInv, TypeOK
  <1>3. ASSUME NEW p \in Live, GivesBack(p), Cancels(p)
        PROVE  Exists(o)' /\ content'[o] = content[o]
    BY <1>3 DEF GivesBack, Cancels, Exists, PaymentInv, TypeOK
  <1> QED
    BY <1>1, <1>2, <1>3, StageCases

\* An order is never deleted, and nothing rewrites what it was placed with: the buyer,
\* the goods, the voucher and the key that create inserted are those of every later
\* read, whichever handlers ran in between.
THEOREM OrdersAreKept ==
  Spec => [][\A o \in Orders : Exists(o) => Exists(o)' /\ content'[o] = content[o]]_vars
  <1>1. PaymentInv /\ [Next]_vars
          => [\A o \in Orders : Exists(o) => Exists(o)' /\ content'[o] = content[o]]_vars
    BY ContentIsFinal
  <1> QED
    BY <1>1, PaymentsCorrect, PTL DEF Spec

\* The status of an order moves along the edges of updateStatus or to CANCELLED from
\* PENDING or PAID, whichever of the four handlers moves it and however old the
\* status is that the handler has read.  What was packed is not cancelled any more.
THEOREM StatusKeepsToTheGraph ==
  Spec => [][\A o \in Orders : Exists(o) =>
               \/ status'[o] = status[o]
               \/ status'[o] \in AllowedTransitions[status[o]]
               \/ status[o] \in Cancellable /\ status'[o] = "CANCELLED"]_vars
  <1> DEFINE Kept(o) == \/ status'[o] = status[o]
                        \/ status'[o] \in AllowedTransitions[status[o]]
                        \/ status[o] \in Cancellable /\ status'[o] = "CANCELLED"
  <1>1. ASSUME PaymentInv, [Next]_vars, NEW o \in Orders, Exists(o) PROVE Kept(o)
    <2>1. status \in [Orders -> RowStatuses]
      BY <1>1 DEF PaymentInv, TypeOK
    <2>2. CASE Advances
      BY <2>1, <2>2 DEF Advances
    <2>3. ASSUME NEW w \in Workers, CreateCommit(w) PROVE Kept(o)
      <3>1. req[w].order \in Orders /\ req[w].op = "createTx"
        BY <1>1, <2>3, RequestTypes DEF PaymentInv, CreateCommit, Doing
      <3>2. o # req[w].order
        BY <1>1, <3>1 DEF PaymentInv, FreshIds
      <3> QED
        BY <2>1, <2>3, <3>2 DEF CreateCommit
    <2>4. ASSUME NEW p \in Live, Cancels(p) PROVE Kept(o)
      BY <2>1, <2>4 DEF Cancels
    <2> QED
      BY <1>1, <2>2, <2>3, <2>4, StageCases
  <1>2. PaymentInv /\ [Next]_vars => [\A o \in Orders : Exists(o) => Kept(o)]_vars
    BY <1>1
  <1> QED
    BY <1>2, PaymentsCorrect, PTL DEF Spec

\* Only create itself gives answers.
LEMMA AnswerCases ==
  ASSUME PaymentInv, [Next]_vars, NEW w \in Workers, req'[w].op = "answered"
  PROVE  \/ req'[w] = req[w]
         \/ CreateCommit(w)
         \/ \E o \in Orders, new \in Wishes :
              /\ o \in OrderWithKey(new.key) /\ OwnOrder(o, new.owner)
              /\ req'[w] = [op |-> "answered", order |-> o, content |-> new]
  <1> DEFINE FromOrder == \E o \in Orders, new \in Wishes :
               /\ o \in OrderWithKey(new.key) /\ OwnOrder(o, new.owner)
               /\ req'[w] = [op |-> "answered", order |-> o, content |-> new]
  <1>1. req \in [Workers -> Requests] /\ Idle.op # "answered"
    BY DEF PaymentInv, TypeOK, Idle
  <1>2. ASSUME NEW u \in Workers,
               \/ CreateSnapshot(u) \/ CreateDuplicate(u) \/ CreateRefuse(u) \/ Answered(u)
               \/ CancelCommit(u) \/ CancelRefuse(u) \/ StatusCommit(u) \/ StatusRefuse(u)
               \/ SnapSave(u) \/ Abort(u) \/ NotifyIgnore(u) \/ NotifyPaid(u)
               \/ NotifyGiveUp(u) \/ NotifyOther(u)
        PROVE  req'[w] = req[w]
    <2>1. \E r : req' = [req EXCEPT ![u] = r] /\ r.op # "answered"
      <3>1. CASE CreateSnapshot(u)
        <4> DEFINE r == [op |-> "createTx", order |-> req[u].order, content |-> req[u].content,
                         quota |-> IF req[u].content.voucher = None THEN 0
                                   ELSE vouch[req[u].content.voucher].quota]
        <4>1. req' = [req EXCEPT ![u] = r] /\ r.op # "answered"
          BY <3>1 DEF CreateSnapshot
        <4> HIDE DEF r
        <4> QED
          BY <4>1
      <3>2. CASE CreateDuplicate(u)
        <4> DEFINE r == [op |-> "createDup", content |-> req[u].content]
        <4>1. req' = [req EXCEPT ![u] = r] /\ r.op # "answered"
          BY <3>2 DEF CreateDuplicate
        <4> HIDE DEF r
        <4> QED
          BY <4>1
      <3>3. CASE Finish(u)
        BY <1>1, <3>3 DEF Finish
      <3> QED
        BY <1>2, <3>1, <3>2, <3>3
        DEF CreateRefuse, Answered, CancelCommit, CancelRefuse, StatusCommit, StatusRefuse,
            SnapSave, Abort, NotifyIgnore, NotifyPaid, NotifyGiveUp, NotifyOther, NotifyApply
    <2> QED
      BY <1>1, <2>1
  <1>3. ASSUME NEW u \in Workers, CreateCommit(u)
        PROVE  req'[w] = req[w] \/ CreateCommit(w)
    BY <1>1, <1>3 DEF CreateCommit, Answer
  <1>4. ASSUME NEW u \in Workers, CreateRecheck(u)
        PROVE  req'[w] = req[w] \/ FromOrder
    <2>1. req[u].content \in Wishes
      BY <1>4, RequestTypes DEF PaymentInv, CreateRecheck, Doing
    <2>2. CASE w # u
      BY <1>1, <1>4, <2>2 DEF CreateRecheck, Answer, Finish
    <2>3. CASE w = u
      <3>1. PICK o \in OrderWithKey(req[u].content.key) :
              IF OwnOrder(o, req[u].content.owner) THEN Answer(u, o) ELSE Finish(u)
        BY <1>4 DEF CreateRecheck
      <3>2. OwnOrder(o, req[u].content.owner) /\ Answer(u, o)
        BY <1>1, <2>3, <3>1 DEF Finish
      <3>3. req'[w] = [op |-> "answered", order |-> o, content |-> req[u].content]
        BY <1>1, <2>3, <3>2 DEF Answer
      <3>4. o \in Orders
        BY DEF OrderWithKey
      <3> QED
        BY <2>1, <3>1, <3>2, <3>3, <3>4
    <2> QED
      BY <2>2, <2>3
  <1>5. ASSUME NEW u \in Workers, NEW new \in Wishes, CreateAgain(u, new)
        PROVE  req'[w] = req[w] \/ FromOrder
    BY <1>1, <1>5 DEF CreateAgain, OrderWithKey
  <1>6. ASSUME NEW u \in Workers, NEW o \in Orders,
               \/ \E new \in Wishes : CreateLookup(u, o, new)
               \/ CancelRead(u, o) \/ ConfirmRead(u, o) \/ SnapOpen(u, o)
               \/ \E target \in OrderStatuses : StatusRead(u, o, target)
               \/ \E report \in Reports : NotifyRead(u, o, report)
        PROVE  req'[w] = req[w]
    BY <1>1, <1>6 DEF CreateLookup, CancelRead, ConfirmRead, SnapOpen, StatusRead, NotifyRead,
                      Start
  <1>7. ASSUME \/ \E o \in Orders : TokenExpires(o) \/ GatewaySettles(o)
               \/ \E c \in Vouchers : ToggleVoucher(c) \/ \E q \in Quotas : UpdateQuota(c, q)
               \/ UNCHANGED vars
        PROVE  req'[w] = req[w]
    BY <1>7 DEF TokenExpires, GatewaySettles, ToggleVoucher, UpdateQuota
  <1> SUFFICES req'[w] = req[w] \/ CreateCommit(w) \/ FromOrder
    OBVIOUS
  <1> HIDE DEF FromOrder
  <1> QED
    BY <1>2, <1>3, <1>4, <1>5, <1>6, <1>7, NextCases

LEMMA KeysStep ==
  ASSUME PaymentInv, AnswerInv, [Next]_vars
  PROVE  KeysAreUnique'
  <1>1. CASE KeepsGoods /\ Advances
    <2>1. \A o \in Orders : Exists(o)' => Exists(o)
      BY <1>1 DEF Advances, OrderStatuses, Exists, PaymentInv, TypeOK
    <2> QED
      BY <1>1, <2>1 DEF KeepsGoods, AnswerInv, KeysAreUnique
  <1>2. ASSUME NEW w \in Workers, CreateCommit(w) PROVE KeysAreUnique'
    <2> DEFINE o == req[w].order
               c == req[w].content
    <2>1. o \in Orders
      BY <1>2, CreatePlaces
    <2>2. /\ content' = [content EXCEPT ![o] = c]
          /\ status' = [status EXCEPT ![o] = "PENDING"]
          /\ \A p \in Orders : Exists(p) /\ c.key # None => content[p].key # c.key
      BY <1>2 DEF CreateCommit, KeyIsFree, OrderWithKey
    <2> HIDE DEF o, c
    <2>3. content'[o] = c /\ \A p \in Orders \ {o} : content'[p] = content[p]
                                                    /\ (Exists(p)' => Exists(p))
      BY <2>1, <2>2 DEF PaymentInv, TypeOK, Exists
    <2> QED
      BY <2>1, <2>2, <2>3 DEF AnswerInv, KeysAreUnique
  <1>3. ASSUME NEW o \in Live, GivesBack(o), Cancels(o) PROVE KeysAreUnique'
    <2>1. \A p \in Orders : Exists(p)' => Exists(p)
      BY <1>3 DEF Cancels, Cancellable, Exists, PaymentInv, TypeOK
    <2> QED
      BY <1>3, <2>1 DEF GivesBack, AnswerInv, KeysAreUnique
  <1> QED
    BY <1>1, <1>2, <1>3, StageCases

LEMMA AnswersStep ==
  ASSUME PaymentInv, AnswerInv, [Next]_vars
  PROVE  AnswersMatch'
  <1> SUFFICES ASSUME NEW w \in Workers, (req[w].op = "answered")'
               PROVE  (/\ Exists(req[w].order)
                       /\ content[req[w].order].owner = req[w].content.owner
                       /\ req[w].content.key # None =>
                            content[req[w].order].key = req[w].content.key)'
    BY DEF AnswersMatch
  <1>1. CASE req'[w] = req[w]
    <2>1. req[w].order \in Orders /\ Exists(req[w].order)
      BY <1>1, RequestTypes DEF PaymentInv, AnswerInv, AnswersMatch
    <2>2. Exists(req[w].order)' /\ content'[req[w].order] = content[req[w].order]
      <3>1. \A o \in Orders : Exists(o) => status'[o] # "NONE" /\ content'[o] = content[o]
        BY ContentIsFinal DEF Exists
      <3> QED
        BY <1>1, <2>1, <3>1 DEF Exists
    <2> QED
      BY <1>1, <2>2 DEF AnswerInv, AnswersMatch
  <1>2. CASE CreateCommit(w)
    <2>1. req[w].order \in Orders /\ content'[req[w].order] = req[w].content
      BY <1>2, CreatePlaces
    <2>2. req'[w] = [op |-> "answered", order |-> req[w].order, content |-> req[w].content]
      BY <1>2 DEF CreateCommit, Answer, PaymentInv, TypeOK
    <2>3. status'[req[w].order] = "PENDING"
      BY <1>2, <2>1 DEF CreateCommit, PaymentInv, TypeOK
    <2> QED
      BY <2>1, <2>2, <2>3 DEF Exists
  <1>3. CASE \E o \in Orders, new \in Wishes :
               /\ o \in OrderWithKey(new.key) /\ OwnOrder(o, new.owner)
               /\ req'[w] = [op |-> "answered", order |-> o, content |-> new]
    <2>1. PICK o \in Orders, new \in Wishes :
            /\ o \in OrderWithKey(new.key) /\ OwnOrder(o, new.owner)
            /\ req'[w] = [op |-> "answered", order |-> o, content |-> new]
      BY <1>3
    <2>2. Exists(o) /\ content[o].key = new.key /\ content[o].owner = new.owner
      BY <2>1 DEF OrderWithKey, OwnOrder
    <2>3. status'[o] # "NONE" /\ content'[o] = content[o]
      BY <2>2, ContentIsFinal DEF Exists
    <2> QED
      BY <2>1, <2>2, <2>3 DEF Exists
  <1> QED
    BY <1>1, <1>2, <1>3, AnswerCases

LEMMA AnswerInit == Init => AnswerInv
  BY DEF Init, AnswerInv, KeysAreUnique, AnswersMatch, Exists, Idle

\* A create request and its retries are answered with the caller's one order, always.
THEOREM AnswersCorrect == Spec => []AnswerIsOwnOrder
  <1>1. PaymentInv /\ AnswerInv /\ [Next]_vars => (PaymentInv /\ AnswerInv)'
    BY PaymentStep, KeysStep, AnswersStep DEF AnswerInv
  <1>2. PaymentInv /\ AnswerInv => AnswerIsOwnOrder
    BY AnswerInvSuffices DEF PaymentInv
  <1> QED
    BY <1>1, <1>2, PaymentInit, AnswerInit, PTL DEF Spec
=============================================================================
