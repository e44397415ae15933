-------------------------------- MODULE Seed --------------------------------
(***************************************************************************)
(* prisma/seed.ts: it empties every table, parents after their children,   *)
(* and then creates the demonstration data, each statement by itself and   *)
(* without a transaction around them.  It is run on a database in use or   *)
(* half seeded, may be killed between any two statements, is run again,    *)
(* and may by mistake be run twice at once.                                *)
(*                                                                         *)
(* A row is <<table, key, writer>>.  The keys number the rows the seed     *)
(* creates in a table; 0 is a row it has nothing to do with.  The writer   *)
(* of a row is the run of the seed that created it or "shop".  Parents     *)
(* are not recorded: the seed deletes whole tables, so a row loses its     *)
(* parent exactly when the parent's table is emptied, and what the seed    *)
(* creates refers to rows of its own run.                                  *)
(*                                                                         *)
(* An operator with the suffix _bug is a wrong variant of the one that     *)
(* follows it, for mutation tests.                                         *)
(***************************************************************************)
EXTENDS Integers, FiniteSets, Sequences

CONSTANTS
  Runs,           \* executions of the seed that may overlap
  CategoryCount,  \* eight in seed.ts
  ProductCount,   \* eight in seed.ts
  ShopTables,     \* bound: tables the shop inserts into meanwhile
  MaxWrites       \* bound: rows the shop inserts meanwhile

ASSUME SeedAssumption ==
  /\ "shop" \notin Runs
  /\ CategoryCount \in Nat \ {0} /\ ProductCount \in Nat \ {0}
  /\ MaxWrites \in Nat

VARIABLES
  rows,       \* the database
  pc,         \* which statement of Program each run is at
  status,     \* how each run stands
  disturbed,  \* history: runs that were not alone since they started
  writes      \* rows the shop has inserted

vars == <<rows, pc, status, disturbed, writes>>
-----------------------------------------------------------------------------
(* The tables *)

\* Foreign keys, <<child, parent>>, by what a DELETE of the parent does.
Cascades ==
  {<<"refreshToken", "user">>, <<"address", "user">>, <<"review", "user">>,
   <<"notification", "user">>, <<"cartItem", "user">>, <<"wishlistItem", "user">>,
   <<"productVariant", "product">>, <<"productImage", "product">>, <<"productSpec", "product">>,
   <<"review", "product">>, <<"cartItem", "product">>, <<"wishlistItem", "product">>,
   <<"cartItem", "productVariant">>, <<"orderItem", "order">>, <<"payment", "order">>}
Restricts ==
  {<<"order", "user">>, <<"order", "address">>, <<"product", "category">>,
   <<"orderItem", "product">>, <<"orderItem", "productVariant">>}
Tables ==
  (UNION {{fk[1], fk[2]} : fk \in Cascades \cup Restricts}) \cup {"voucher", "banner"}

ASSUME ShopTablesAssumption == ShopTables \subseteq Tables

\* Tables whose seeded rows carry a unique email, slug, sku or code.
UniqueKeys == {"user", "category", "product", "productVariant", "voucher"}

ShopKeys(T) == IF T \in UniqueKeys THEN {0, 1} ELSE {0}
RowsOf(T) == {x \in rows : x[1] = T}
RowsBy(r) == {x \in rows : x[3] = r}

\* Emptying T empties the tables that cascade from it (no cascade reaches further
\* than these), and is refused when a row elsewhere restricts one of them.
EmptiedWith(T) == {T} \cup {fk[1] : fk \in {c \in Cascades : c[2] = T}}
MayEmpty(T) ==
  \A fk \in Restricts : fk[2] \in EmptiedWith(T) => RowsOf(fk[1]) = {}
-----------------------------------------------------------------------------
(* The script *)

\* "Cleanup in correct order"
Cleanup_bugOrder ==
  <<"notification", "payment", "orderItem", "wishlistItem", "cartItem", "review",
    "refreshToken", "address", "order", "productImage", "productVariant", "product", "category",
    "voucher", "banner", "user">>
Cleanup_bugBanner ==
  <<"notification", "payment", "orderItem", "order", "wishlistItem", "cartItem", "review",
    "refreshToken", "address", "productImage", "productVariant", "product", "category",
    "voucher", "user">>
Cleanup ==
  <<"notification", "payment", "orderItem", "order", "wishlistItem", "cartItem", "review",
    "refreshToken", "address", "productImage", "productVariant", "product", "category",
    "voucher", "banner", "user">>

Admin == 1
Customer == 2
CategoryOf(p) == ((p - 1) % CategoryCount) + 1

\* A create statement makes rows and refers to others: sets of <<table, key>>.
Create(made, refers) == [made |-> made, refers |-> refers]

\* Per product one create with its variants and images, one of each here, and one
\* with the review of the demo customer.
CreateProduct(p) ==
  Create({<<"product", p>>, <<"productVariant", p>>, <<"productImage", p>>},
         {<<"category", CategoryOf(p)>>})
CreateReview(p) == Create({<<"review", p>>}, {<<"product", p>>, <<"user", Customer>>})

Creation ==
  <<Create({<<"user", Admin>>}, {}), Create({<<"user", Customer>>}, {})>>
    \o [c \in 1 .. CategoryCount |-> Create({<<"category", c>>}, {})]
    \o [i \in 1 .. 2 * ProductCount |->
          IF i % 2 = 1 THEN CreateProduct((i + 1) \div 2) ELSE CreateReview(i \div 2)]
    \o <<Create({"banner"} \X (1 .. 3), {}),
         Create({"voucher"} \X (1 .. 3), {}),
         Create({<<"address", 1>>}, {<<"user", Customer>>}),
         Create({"notification"} \X (1 .. 3), {<<"user", Customer>>})>>

LastStep == Len(Cleanup) + Len(Creation)
Cleaning(r) == status[r] = "running" /\ pc[r] <= Len(Cleanup)
Creating(r) == status[r] = "running" /\ pc[r] > Len(Cleanup)
Table(r) == Cleanup[pc[r]]
Statement(r) == Creation[pc[r] - Len(Cleanup)]

Init ==
  /\ rows = UNION {{T} \X ShopKeys(T) \X {"shop"} : T \in Tables}
  /\ pc = [r \in Runs |-> 1]
  /\ status = [r \in Runs |-> "new"]
  /\ disturbed = [r \in Runs |-> FALSE]
  /\ writes = 0

\* Every run but r has had company.
Disturb(r) == disturbed' = [s \in Runs |-> disturbed[s] \/ s # r]
Advance(r) ==
  /\ pc' = [pc EXCEPT ![r] = pc[r] + 1]
  /\ status' = [status EXCEPT ![r] = IF pc[r] = LastStep THEN "done" ELSE "running"]
Stop(r, how) == status' = [status EXCEPT ![r] = how] /\ UNCHANGED pc

\* npm run prisma:seed, a first time or again; what this run made last time is
\* then part of what it finds.
Start(r) ==
  /\ status[r] # "running"
  /\ rows' = (rows \ RowsBy(r)) \cup {<<x[1], x[2], "shop">> : x \in RowsBy(r)}
  /\ pc' = [pc EXCEPT ![r] = 1]
  /\ status' = [status EXCEPT ![r] = "running"]
  /\ disturbed' = [disturbed EXCEPT ![r] = FALSE]
  /\ UNCHANGED writes

\* deleteMany({})
Delete(r) ==
  /\ Cleaning(r)
  /\ MayEmpty(Table(r))
  /\ rows' = {x \in rows : x[1] \notin EmptiedWith(Table(r))}
  /\ Disturb(r) /\ Advance(r)
  /\ UNCHANGED writes

Made(r) == {<<x[1], x[2], r>> : x \in Statement(r).made}
Clashes(r) ==
  \E x \in rows : x[1] \in UniqueKeys /\ <<x[1], x[2]>> \in Statement(r).made
RefersToRows(r) == \A x \in Statement(r).refers : <<x[1], x[2], r>> \in rows

Insert(r) ==
  /\ Creating(r)
  /\ ~Clashes(r) /\ RefersToRows(r)
  /\ rows' = rows \cup Made(r)
  /\ Disturb(r) /\ Advance(r)
  /\ UNCHANGED writes

\* Promise.all has sent the other categories along, each on a connection of its
\* own: some are in the table though the run ends with one of them.
AlsoSent(r) ==
  IF ~Creating(r) \/ Statement(r).made \cap ({"category"} \X Nat) = {} THEN {}
  ELSE {x \in {"category"} \X (1 .. CategoryCount) \X {r} :
          \A y \in rows : y[1] = "category" => y[2] # x[2]}

\* A foreign key or a unique index stops the run: main().catch, exit code 1.
Fail(r) ==
  /\ \/ Cleaning(r) /\ ~MayEmpty(Table(r))
     \/ Creating(r) /\ (Clashes(r) \/ ~RefersToRows(r))
  /\ \E sent \in SUBSET AlsoSent(r) : rows' = rows \cup sent
  /\ Stop(r, "failed")
  /\ Disturb(r)
  /\ UNCHANGED writes

\* The process is killed, or loses the database.
Crash(r) ==
  /\ status[r] = "running"
  /\ \E sent \in SUBSET AlsoSent(r) : rows' = rows \cup sent
  /\ Stop(r, "killed")
  /\ Disturb(r)
  /\ UNCHANGED writes

\* The shop stores a row whose parents exist; it may take a key the seed uses, as
\* when a customer registers with the address of the demo account.
ShopInserts(T, key) ==
  /\ writes < MaxWrites
  /\ \A fk \in Cascades \cup Restricts : fk[1] = T => RowsOf(fk[2]) # {}
  /\ T \in UniqueKeys => \A x \in RowsOf(T) : key = 0 \/ x[2] # key
  /\ rows' = rows \cup {<<T, key, "shop">>}
  /\ disturbed' = [r \in Runs |-> TRUE]
  /\ writes' = writes + 1
  /\ UNCHANGED <<pc, status>>

Next ==
  \/ \E r \in Runs : Start(r) \/ Delete(r) \/ Insert(r) \/ Fail(r) \/ Crash(r)
  \/ \E T \in ShopTables : \E key \in ShopKeys(T) : ShopInserts(T, key)

Spec == Init /\ [][Next]_vars
-----------------------------------------------------------------------------
(* Properties *)

\* "populate data awal (1 admin, 1 customer, 8 kategori, 8 produk, 3 banner,
\* 3 voucher)" (FEATURES.md), with what comes along.
DemoData ==
  ({"user"} \X {Admin, Customer})
     \cup ({"category"} \X (1 .. CategoryCount))
     \cup ({"product", "productVariant", "productImage", "review"} \X (1 .. ProductCount))
     \cup ({"banner", "voucher", "notification"} \X (1 .. 3))
     \cup {<<"address", 1>>}

\* Whatever an earlier run left behind, finished, failed or killed halfway, a run
\* that is alone is stopped by no foreign key and no unique index.
FailsOnlyIfDisturbed == \A r \in Runs : status[r] = "failed" => disturbed[r]

\* A run that was alone leaves the demonstration data and nothing else.
LeavesExactlyTheSeed ==
  \A r \in Runs : status[r] = "done" /\ ~disturbed[r] =>
    rows = {<<x[1], x[2], r>> : x \in DemoData}

-----------------------------------------------------------------------------
(* What makes the properties inductive *)

Statuses == {"new", "running", "failed", "killed", "done"}
TypeOK ==
  /\ rows \subseteq Tables \X Nat \X (Runs \cup {"shop"})
  /\ pc \in [Runs -> Nat \ {0}]
  /\ status \in [Runs -> Statuses]
  /\ disturbed \in [Runs -> BOOLEAN]
  /\ \A r \in Runs : status[r] = "running" => pc[r] <= LastStep

\* The tables the first k - 1 statements of the cleanup have not emptied, and the
\* rows the first n - 1 statements after it have made.
Left(k) == Tables \ UNION {EmptiedWith(Cleanup[j]) : j \in 1 .. k - 1}
MadeBefore(n) == UNION {Creation[j].made : j \in 1 .. n - 1}
MadeBy(r, n) == {<<x[1], x[2], r>> : x \in MadeBefore(n)}

\* A run that is alone is where the script says: first only the tables it has not
\* come to have rows, then the rows are those it has made.
AloneIsOnTrack ==
  \A r \in Runs : ~disturbed[r] =>
    /\ status[r] # "failed"
    /\ Cleaning(r) => \A x \in rows : x[1] \in Left(pc[r])
    /\ Creating(r) => rows = MadeBy(r, pc[r] - Len(Cleanup))
    /\ status[r] = "done" => rows = MadeBy(r, Len(Creation) + 1)

SeedInv == TypeOK /\ AloneIsOnTrack
=============================================================================
