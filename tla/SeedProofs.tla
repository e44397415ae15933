----------------------------- MODULE SeedProofs -----------------------------
(***************************************************************************)
(* Proofs about the seed script, in three parts: what the order of the     *)
(* cleanup guarantees, what the order of the creation guarantees, and that *)
(* a run nobody disturbs is always where the script says.                  *)
(***************************************************************************)
EXTENDS Seed, SequenceTheorems, TLAPS

\* How many categories and products the script creates.
C == CategoryCount
P == ProductCount

(***************************************************************************)
(* The cleanup.                                                            *)
(***************************************************************************)
LEMMA CleanupLength == Len(Cleanup) = 16
BY DEF Cleanup

\* What each statement of the cleanup finds emptied by those before it.
LEMMA LeftStep ==
  ASSUME NEW k \in 1 .. 16
  PROVE  Left(k + 1) = Left(k) \ EmptiedWith(Cleanup[k])
<1>1. 1 .. (k + 1) - 1 = (1 .. k - 1) \cup {k}
  OBVIOUS
<1> QED BY <1>1 DEF Left

LEMMA LeftFirst == Left(1) = Tables
<1>1. 1 .. 1 - 1 = {}
  OBVIOUS
<1> QED BY <1>1 DEF Left

\* After the last statement every table is empty.
LEMMA LeftLast == Left(17) = {}
<1>1. \A T \in Tables : \E k \in 1 .. 16 : T \in EmptiedWith(Cleanup[k])
  <2> DEFINE Names ==
         {"refreshToken", "user", "address", "review", "notification", "cartItem",
          "wishlistItem", "productVariant", "product", "productImage", "productSpec",
          "orderItem", "order", "payment", "category", "voucher", "banner"}
  <2>1. Tables \subseteq Names
    <3>1. \A fk \in Cascades \cup Restricts : fk[1] \in Names /\ fk[2] \in Names
      BY DEF Cascades, Restricts
    <3>2. "voucher" \in Names /\ "banner" \in Names
      OBVIOUS
    <3> HIDE DEF Names
    <3>3. SUFFICES ASSUME NEW T \in Tables PROVE T \in Names
      OBVIOUS
    <3>4. \/ \E fk \in Cascades \cup Restricts : T \in {fk[1], fk[2]}
          \/ T \in {"voucher", "banner"}
      BY <3>3 DEF Tables
    <3> QED BY <3>1, <3>2, <3>4
  <2>2. \A T : T \in EmptiedWith(T)
    BY DEF EmptiedWith
  <2>3. "productSpec" \in EmptiedWith("product")
    <3>1. <<"productSpec", "product">> \in Cascades
      BY DEF Cascades
    <3> QED BY <3>1 DEF EmptiedWith
  <2>4. /\ Cleanup[1] = "notification" /\ Cleanup[2] = "payment" /\ Cleanup[3] = "orderItem"
        /\ Cleanup[4] = "order" /\ Cleanup[5] = "wishlistItem" /\ Cleanup[6] = "cartItem"
        /\ Cleanup[7] = "review" /\ Cleanup[8] = "refreshToken" /\ Cleanup[9] = "address"
        /\ Cleanup[10] = "productImage" /\ Cleanup[11] = "productVariant"
        /\ Cleanup[12] = "product" /\ Cleanup[13] = "category" /\ Cleanup[14] = "voucher"
        /\ Cleanup[15] = "banner" /\ Cleanup[16] = "user"
    BY DEF Cleanup
  <2> QED BY <2>1, <2>2, <2>3, <2>4
<1>2. 1 .. 17 - 1 = 1 .. 16
  OBVIOUS
<1> QED BY <1>1, <1>2 DEF Left

\* The order of the cleanup: no deleteMany of seed.ts empties a table that a foreign
\* key without a cascade still guards, for such a key belongs to a table that an
\* earlier statement has emptied.
THEOREM ChildrenGoFirst ==
  ASSUME NEW k \in 1 .. 16, NEW fk \in Restricts, fk[2] \in EmptiedWith(Cleanup[k])
  PROVE  fk[1] \notin Left(k)
<1>1. \E j \in 1 .. k - 1 : fk[1] \in EmptiedWith(Cleanup[j])
  <2>1. \/ fk = <<"order", "user">> \/ fk = <<"order", "address">>
        \/ fk = <<"product", "category">> \/ fk = <<"orderItem", "product">>
        \/ fk = <<"orderItem", "productVariant">>
    BY DEF Restricts
  <2>2. Cleanup[3] = "orderItem" /\ Cleanup[4] = "order" /\ Cleanup[12] = "product"
    BY DEF Cleanup
  <2>3. \A T : T \in EmptiedWith(T)
    BY DEF EmptiedWith
  <2>4. k \in {1, 2, 3} => fk[2] \notin EmptiedWith(Cleanup[k])
    BY <2>1 DEF EmptiedWith, Cascades, Cleanup
  <2>5. k = 4 => fk[2] \notin EmptiedWith(Cleanup[k])
    BY <2>1 DEF EmptiedWith, Cascades, Cleanup
  <2>6. k \in 5 .. 12 /\ fk[1] = "product" => fk[2] \notin EmptiedWith(Cleanup[k])
    <3> SUFFICES ASSUME k \in 5 .. 12, fk[1] = "product", "category" \in EmptiedWith(Cleanup[k])
                 PROVE FALSE
      BY <2>1
    <3>1. "category" = Cleanup[k]
      BY DEF EmptiedWith, Cascades
    <3> QED BY <3>1 DEF Cleanup
  <2>7. fk[1] \in {"order", "product", "orderItem"}
    BY <2>1
  <2>8. k \in 5 .. 16
    BY <2>4, <2>5
  <2>9. CASE fk[1] = "orderItem"
    BY <2>2, <2>3, <2>8, <2>9
  <2>10. CASE fk[1] = "order"
    BY <2>2, <2>3, <2>8, <2>10
  <2>11. CASE fk[1] = "product"
    <3>1. k \in 13 .. 16
      BY <2>6, <2>8, <2>11
    <3> QED BY <3>1, <2>2, <2>3, <2>11
  <2> QED BY <2>7, <2>9, <2>10, <2>11
<1> QED BY <1>1 DEF Left

(***************************************************************************)
(* The creation.                                                           *)
(***************************************************************************)
Statements == [made : SUBSET (Tables \X Nat), refers : SUBSET (Tables \X Nat)]

Users == <<Create({<<"user", Admin>>}, {}), Create({<<"user", Customer>>}, {})>>
Categories == [c \in 1 .. C |-> Create({<<"category", c>>}, {})]
Products ==
  [i \in 1 .. 2 * P |->
     IF i % 2 = 1 THEN CreateProduct((i + 1) \div 2) ELSE CreateReview(i \div 2)]
Rest ==
  <<Create({"banner"} \X (1 .. 3), {}),
    Create({"voucher"} \X (1 .. 3), {}),
    Create({<<"address", 1>>}, {<<"user", Customer>>}),
    Create({"notification"} \X (1 .. 3), {<<"user", Customer>>})>>

LEMMA TableNames ==
  {"user", "category", "product", "productVariant", "productImage", "review", "banner", "voucher",
   "address", "notification"} \subseteq Tables
<1> DEFINE Keys == Cascades \cup Restricts
<1>1. \A fk \in Keys : fk[1] \in Tables /\ fk[2] \in Tables
  BY DEF Tables
<1>2. /\ <<"refreshToken", "user">> \in Keys /\ <<"product", "category">> \in Keys
      /\ <<"productVariant", "product">> \in Keys /\ <<"productImage", "product">> \in Keys
      /\ <<"review", "user">> \in Keys /\ <<"address", "user">> \in Keys
      /\ <<"notification", "user">> \in Keys
  BY DEF Cascades, Restricts
<1>3. "voucher" \in Tables /\ "banner" \in Tables
  BY DEF Tables
<1> HIDE DEF Keys
<1> QED BY <1>1, <1>2, <1>3

LEMMA CategoryExists ==
  ASSUME NEW p \in 1 .. P
  PROVE  CategoryOf(p) \in 1 .. C
BY SeedAssumption DEF CategoryOf, C, P

LEMMA CreateType ==
  ASSUME NEW made \in SUBSET (Tables \X Nat), NEW refers \in SUBSET (Tables \X Nat)
  PROVE  Create(made, refers) \in Statements
BY DEF Create, Statements

LEMMA PartTypes ==
  Users \in Seq(Statements) /\ Categories \in Seq(Statements) /\ Products \in Seq(Statements)
    /\ Rest \in Seq(Statements)
<1> USE TableNames
<1>1. C \in Nat /\ P \in Nat
  BY SeedAssumption DEF C, P
<1>2. Users \in Seq(Statements)
  <2>1. /\ Create({<<"user", Admin>>}, {}) \in Statements
        /\ Create({<<"user", Customer>>}, {}) \in Statements
    BY DEF Create, Statements, Admin, Customer
  <2> QED BY <2>1 DEF Users
<1>3. Categories \in Seq(Statements)
  <2>1. \A c \in 1 .. C : Create({<<"category", c>>}, {}) \in Statements
    BY DEF Create, Statements
  <2> QED BY <1>1, <2>1, IsASeq DEF Categories
<1>4. Products \in Seq(Statements)
  <2>1. ASSUME NEW i \in 1 .. 2 * P
        PROVE  (IF i % 2 = 1 THEN CreateProduct((i + 1) \div 2) ELSE CreateReview(i \div 2))
                 \in Statements
    <3>1. CASE i % 2 = 1
      <4>1. (i + 1) \div 2 \in 1 .. P
        BY <1>1
      <4>2. CategoryOf((i + 1) \div 2) \in Nat
        BY <4>1, CategoryExists, <1>1
      <4>3. CreateProduct((i + 1) \div 2) \in Statements
        BY <4>1, <4>2 DEF CreateProduct, Create, Statements
      <4> QED BY <3>1, <4>3
    <3>2. CASE i % 2 # 1
      <4>1. i \div 2 \in Nat
        BY <1>1
      <4>2. CreateReview(i \div 2) \in Statements
        BY <4>1 DEF CreateReview, Create, Statements, Customer
      <4> QED BY <3>2, <4>2
    <3> QED BY <3>1, <3>2
  <2>2. 2 * P \in Nat
    BY <1>1
  <2> QED BY <2>1, <2>2, IsASeq DEF Products
<1>5. Rest \in Seq(Statements)
  <2>1. /\ Create({"banner"} \X (1 .. 3), {}) \in Statements
        /\ Create({"voucher"} \X (1 .. 3), {}) \in Statements
        /\ Create({<<"address", 1>>}, {<<"user", Customer>>}) \in Statements
        /\ Create({"notification"} \X (1 .. 3), {<<"user", Customer>>}) \in Statements
    BY DEF Create, Statements, Customer
  <2> QED BY <2>1 DEF Rest
<1> QED BY <1>2, <1>3, <1>4, <1>5

LEMMA Joined ==
  ASSUME NEW a \in Seq(Statements), NEW b \in Seq(Statements)
  PROVE  /\ a \o b \in Seq(Statements) /\ Len(a \o b) = Len(a) + Len(b)
         /\ \A k \in 1 .. Len(a) : (a \o b)[k] = a[k]
         /\ \A k \in 1 .. Len(b) : (a \o b)[Len(a) + k] = b[k]
BY ConcatProperties

\* The statements of the script, by number.
LEMMA CreationIs ==
  /\ Len(Creation) = C + 2 * P + 6
  /\ Creation[1] = Users[1] /\ Creation[2] = Users[2]
  /\ \A k \in 3 .. C + 2 : Creation[k] = Create({<<"category", k - 2>>}, {})
  /\ \A k \in C + 3 .. C + 2 * P + 2 : Creation[k] = Products[k - (C + 2)]
  /\ \A k \in 1 .. 4 : Creation[C + 2 * P + 2 + k] = Rest[k]
<1> DEFINE UC == Users \o Categories
           UCP == UC \o Products
<1>1. C \in Nat /\ P \in Nat /\ 2 * P \in Nat
  BY SeedAssumption DEF C, P
<1>2. /\ Len(Users) = 2 /\ Len(Categories) = C /\ Len(Products) = 2 * P /\ Len(Rest) = 4
  <2>1. Len(Users) = 2
    BY DEF Users
  <2>2. Len(Categories) = C
    BY <1>1 DEF Categories
  <2>3. Len(Products) = 2 * P
    BY <1>1 DEF Products
  <2>4. Len(Rest) = 4
    BY DEF Rest
  <2> QED BY <2>1, <2>2, <2>3, <2>4
<1> HIDE DEF UC, UCP
<1>3. /\ UC \in Seq(Statements) /\ Len(UC) = C + 2
      /\ \A k \in 1 .. 2 : UC[k] = Users[k]
      /\ \A k \in 1 .. C : UC[2 + k] = Categories[k]
  <2>1. /\ UC \in Seq(Statements) /\ Len(UC) = Len(Users) + Len(Categories)
        /\ \A k \in 1 .. Len(Users) : UC[k] = Users[k]
        /\ \A k \in 1 .. Len(Categories) : UC[Len(Users) + k] = Categories[k]
    BY PartTypes, Joined DEF UC
  <2> QED BY <1>1, <1>2, <2>1
<1>4. /\ UCP \in Seq(Statements) /\ Len(UCP) = C + 2 + 2 * P
      /\ \A k \in 1 .. C + 2 : UCP[k] = UC[k]
      /\ \A k \in 1 .. 2 * P : UCP[C + 2 + k] = Products[k]
  <2>1. /\ UCP \in Seq(Statements) /\ Len(UCP) = Len(UC) + Len(Products)
        /\ \A k \in 1 .. Len(UC) : UCP[k] = UC[k]
        /\ \A k \in 1 .. Len(Products) : UCP[Len(UC) + k] = Products[k]
    BY <1>3, PartTypes, Joined DEF UCP
  <2> QED BY <1>1, <1>2, <1>3, <2>1
<1>5. Creation = UCP \o Rest
  BY Zenon DEF Creation, UC, UCP, Users, Categories, Products, Rest, C, P
<1>6. /\ Len(Creation) = C + 2 * P + 6
      /\ \A k \in 1 .. C + 2 + 2 * P : Creation[k] = UCP[k]
      /\ \A k \in 1 .. 4 : Creation[C + 2 + 2 * P + k] = Rest[k]
  <2>1. /\ Creation \in Seq(Statements) /\ Len(Creation) = Len(UCP) + Len(Rest)
        /\ \A k \in 1 .. Len(UCP) : Creation[k] = UCP[k]
        /\ \A k \in 1 .. Len(Rest) : Creation[Len(UCP) + k] = Rest[k]
    BY <1>4, <1>5, PartTypes, Joined
  <2> QED BY <1>1, <1>2, <1>4, <2>1
<1>7. \A k \in 3 .. C + 2 : Creation[k] = Create({<<"category", k - 2>>}, {})
  <2> SUFFICES ASSUME NEW k \in 3 .. C + 2 PROVE Creation[k] = Create({<<"category", k - 2>>}, {})
    OBVIOUS
  <2>1. k - 2 \in 1 .. C /\ 2 + (k - 2) = k /\ k \in 1 .. C + 2 /\ k \in 1 .. C + 2 + 2 * P
    BY <1>1
  <2>2. Creation[k] = Categories[k - 2]
    BY <1>3, <1>4, <1>6, <2>1
  <2> QED BY <2>1, <2>2 DEF Categories
<1>8. \A k \in C + 3 .. C + 2 * P + 2 : Creation[k] = Products[k - (C + 2)]
  <2> SUFFICES ASSUME NEW k \in C + 3 .. C + 2 * P + 2 PROVE Creation[k] = Products[k - (C + 2)]
    OBVIOUS
  <2>1. k - (C + 2) \in 1 .. 2 * P /\ C + 2 + (k - (C + 2)) = k /\ k \in 1 .. C + 2 + 2 * P
    BY <1>1
  <2> QED BY <1>4, <1>6, <2>1
<1>9. \A k \in 1 .. 4 : Creation[C + 2 * P + 2 + k] = Rest[k]
  <2>1. C + 2 + 2 * P = C + 2 * P + 2
    BY <1>1
  <2> QED BY <1>6, <2>1
<1>10. Creation[1] = Users[1] /\ Creation[2] = Users[2]
  BY <1>1, <1>3, <1>4, <1>6
<1> QED BY <1>1, <1>6, <1>7, <1>8, <1>9, <1>10

\* The statement that makes a row of the demonstration data.
StepOf(x) ==
  CASE x[1] = "user" -> x[2]
    [] x[1] = "category" -> 2 + x[2]
    [] x[1] \in {"product", "productVariant", "productImage"} -> C + 2 * x[2] + 1
    [] x[1] = "review" -> C + 2 * x[2] + 2
    [] x[1] = "banner" -> C + 2 * P + 3
    [] x[1] = "voucher" -> C + 2 * P + 4
    [] x[1] = "address" -> C + 2 * P + 5
    [] x[1] = "notification" -> C + 2 * P + 6

LEMMA DemoRows ==
  /\ \A x \in DemoData : x = <<x[1], x[2]>>
  /\ \A T, n : <<T, n>> \in DemoData <=>
       \/ T = "user" /\ n \in {1, 2}
       \/ T = "category" /\ n \in 1 .. C
       \/ T \in {"product", "productVariant", "productImage", "review"} /\ n \in 1 .. P
       \/ T \in {"banner", "voucher", "notification"} /\ n \in 1 .. 3
       \/ T = "address" /\ n = 1
BY DEF DemoData, Admin, Customer, C, P

\* Every row is made once, by the statement StepOf names, and what a statement
\* refers to is made before it.
LEMMA StatementMakes ==
  ASSUME NEW k \in 1 .. Len(Creation)
  PROVE  /\ Creation[k] \in Statements
         /\ Creation[k].made = {x \in DemoData : StepOf(x) = k}
         /\ \A x \in Creation[k].refers : x \in DemoData /\ StepOf(x) < k
<1> USE DEF Create
<1>1. C \in Nat \ {0} /\ P \in Nat \ {0} /\ k \in 1 .. C + 2 * P + 6
  BY CreationIs, SeedAssumption DEF C, P
<1>2. Creation[k] \in Statements
  <2>1. Creation \in Seq(Statements)
    <3>1. Users \o Categories \in Seq(Statements)
      BY PartTypes, Joined
    <3>2. (Users \o Categories) \o Products \in Seq(Statements)
      BY <3>1, PartTypes, Joined
    <3>3. ((Users \o Categories) \o Products) \o Rest \in Seq(Statements)
      BY <3>2, PartTypes, Joined
    <3> QED BY <3>3, Zenon DEF Creation, Users, Categories, Products, Rest, C, P
  <2> QED BY <2>1
<1> DEFINE Now == {x \in DemoData : StepOf(x) = k}
<1>3. ASSUME NEW x \in Now
      PROVE  \E T, n :
               /\ x = <<T, n>>
               /\ \/ T = "user" /\ n \in {1, 2} /\ k = n
                  \/ T = "category" /\ n \in 1 .. C /\ k = 2 + n
                  \/ /\ T \in {"product", "productVariant", "productImage"}
                     /\ n \in 1 .. P /\ k = C + 2 * n + 1
                  \/ T = "review" /\ n \in 1 .. P /\ k = C + 2 * n + 2
                  \/ T = "banner" /\ n \in 1 .. 3 /\ k = C + 2 * P + 3
                  \/ T = "voucher" /\ n \in 1 .. 3 /\ k = C + 2 * P + 4
                  \/ T = "address" /\ n = 1 /\ k = C + 2 * P + 5
                  \/ T = "notification" /\ n \in 1 .. 3 /\ k = C + 2 * P + 6
  <2>1. PICK T, n : x = <<T, n>>
    BY DemoRows
  <2>2. k = StepOf(<<T, n>>) /\ <<T, n>> \in DemoData
    BY <2>1
  <2>3. \/ T = "user" /\ n \in {1, 2} /\ k = n
        \/ T = "category" /\ n \in 1 .. C /\ k = 2 + n
        \/ /\ T \in {"product", "productVariant", "productImage"}
           /\ n \in 1 .. P /\ k = C + 2 * n + 1
        \/ T = "review" /\ n \in 1 .. P /\ k = C + 2 * n + 2
        \/ T = "banner" /\ n \in 1 .. 3 /\ k = C + 2 * P + 3
        \/ T = "voucher" /\ n \in 1 .. 3 /\ k = C + 2 * P + 4
        \/ T = "address" /\ n = 1 /\ k = C + 2 * P + 5
        \/ T = "notification" /\ n \in 1 .. 3 /\ k = C + 2 * P + 6
    BY <2>2, DemoRows DEF StepOf
  <2> QED BY <2>1, <2>3
<1>4. /\ \A n \in {1, 2} : <<"user", n>> \in DemoData /\ StepOf(<<"user", n>>) = n
      /\ \A n \in 1 .. C : <<"category", n>> \in DemoData /\ StepOf(<<"category", n>>) = 2 + n
      /\ \A n \in 1 .. P : \A T \in {"product", "productVariant", "productImage"} :
           <<T, n>> \in DemoData /\ StepOf(<<T, n>>) = C + 2 * n + 1
      /\ \A n \in 1 .. P : <<"review", n>> \in DemoData /\ StepOf(<<"review", n>>) = C + 2 * n + 2
  BY DemoRows DEF StepOf
<1>5. CASE k \in 1 .. 2
  <2>1. Creation[k].made = {<<"user", k>>} /\ Creation[k].refers = {}
    BY <1>5, CreationIs DEF Users, Admin, Customer
  <2>2. ASSUME NEW x \in Now PROVE x = <<"user", k>>
    BY <1>1, <1>3, <1>5
  <2>3. <<"user", k>> \in Now
    BY <1>4, <1>5
  <2> QED BY <1>2, <2>1, <2>2, <2>3
<1>6. CASE k \in 3 .. C + 2
  <2> DEFINE c == k - 2
  <2>0. Creation[k] = Create({<<"category", c>>}, {})
    BY <1>6, CreationIs, Zenon
  <2>1. Creation[k].made = {<<"category", c>>} /\ Creation[k].refers = {}
    <3> HIDE DEF c
    <3> QED BY <2>0
  <2>2. ASSUME NEW x \in Now PROVE x = <<"category", k - 2>>
    BY <1>1, <1>3, <1>6
  <2>3. <<"category", k - 2>> \in Now
    BY <1>1, <1>4, <1>6
  <2> QED BY <1>2, <2>1, <2>2, <2>3
<1>7. CASE k \in C + 3 .. C + 2 * P + 2
  <2> DEFINE i == k - (C + 2)
  <2>1. i \in 1 .. 2 * P /\ k = C + 2 + i
    BY <1>1, <1>7
  <2>2. Creation[k] = IF i % 2 = 1 THEN CreateProduct((i + 1) \div 2) ELSE CreateReview(i \div 2)
    <3>1. Creation[k] = Products[i]
      BY <1>7, CreationIs
    <3> HIDE DEF i
    <3> QED BY <2>1, <3>1 DEF Products
  <2> HIDE DEF i
  <2>3. CASE i % 2 = 1
    <3> DEFINE p == (i + 1) \div 2
    <3>1. p \in 1 .. P /\ k = C + 2 * p + 1
      BY <1>1, <2>1, <2>3
    <3> HIDE DEF p
    <3>2. Creation[k] = CreateProduct(p)
      BY <2>2, <2>3 DEF p
    <3>3. /\ Creation[k].made =
               {<<"product", p>>, <<"productVariant", p>>, <<"productImage", p>>}
          /\ Creation[k].refers = {<<"category", CategoryOf(p)>>}
      BY <3>2 DEF CreateProduct
    <3>4. ASSUME NEW x \in Now PROVE x \in Creation[k].made
      BY <1>1, <1>3, <3>1, <3>3
    <3>5. Creation[k].made \subseteq Now
      BY <1>4, <3>1, <3>3
    <3>6. <<"category", CategoryOf(p)>> \in DemoData /\ StepOf(<<"category", CategoryOf(p)>>) < k
      BY <1>1, <1>4, <3>1, CategoryExists
    <3> QED BY <1>2, <3>3, <3>4, <3>5, <3>6
  <2>4. CASE i % 2 # 1
    <3> DEFINE p == i \div 2
    <3>1. p \in 1 .. P /\ k = C + 2 * p + 2
      BY <1>1, <2>1, <2>4
    <3> HIDE DEF p
    <3>2. Creation[k] = CreateReview(p)
      BY <2>2, <2>4 DEF p
    <3>3. /\ Creation[k].made = {<<"review", p>>}
          /\ Creation[k].refers = {<<"product", p>>, <<"user", 2>>}
      BY <3>2 DEF CreateReview, Customer
    <3>4. ASSUME NEW x \in Now PROVE x = <<"review", p>>
      BY <1>1, <1>3, <3>1
    <3>5. <<"review", p>> \in Now
      BY <1>4, <3>1
    <3>6. <<"product", p>> \in DemoData /\ StepOf(<<"product", p>>) < k
      <4>1. <<"product", p>> \in DemoData /\ StepOf(<<"product", p>>) = C + 2 * p + 1
        BY <1>4, <3>1
      <4> QED BY <1>1, <3>1, <4>1
    <3>7. <<"user", 2>> \in DemoData /\ StepOf(<<"user", 2>>) < k
      <4>1. <<"user", 2>> \in DemoData /\ StepOf(<<"user", 2>>) = 2
        BY <1>4
      <4> QED BY <1>1, <3>1, <4>1
    <3> QED BY <1>2, <3>3, <3>4, <3>5, <3>6, <3>7
  <2> QED BY <2>3, <2>4
<1>8. CASE k \in C + 2 * P + 3 .. C + 2 * P + 6
  <2>1. PICK j \in 1 .. 4 : k = C + 2 * P + 2 + j
    <3>1. k - (C + 2 * P + 2) \in 1 .. 4 /\ k = C + 2 * P + 2 + (k - (C + 2 * P + 2))
      BY <1>1, <1>8
    <3> QED BY <3>1
  <2>2. Creation[k] = Rest[j]
    BY <2>1, CreationIs
  <2>3. <<"user", 2>> \in DemoData /\ StepOf(<<"user", 2>>) < k
    BY <1>1, <1>4, <1>8
  <2>4. /\ \A n \in 1 .. 3 :
             /\ <<"banner", n>> \in DemoData /\ StepOf(<<"banner", n>>) = C + 2 * P + 3
             /\ <<"voucher", n>> \in DemoData /\ StepOf(<<"voucher", n>>) = C + 2 * P + 4
             /\ <<"notification", n>> \in DemoData
             /\ StepOf(<<"notification", n>>) = C + 2 * P + 6
        /\ <<"address", 1>> \in DemoData /\ StepOf(<<"address", 1>>) = C + 2 * P + 5
    BY DemoRows DEF StepOf
  <2>5. CASE j = 1
    <3>1. Rest[1] = Create({"banner"} \X (1 .. 3), {})
      BY DEF Rest, Customer
    <3>2. Creation[k].made = {"banner"} \X (1 .. 3) /\ Creation[k].refers = {}
      BY <2>2, <2>5, <3>1
    <3>3. ASSUME NEW x \in Now PROVE x \in {"banner"} \X (1 .. 3)
      BY <1>1, <1>3, <2>1, <2>5
    <3>4. {"banner"} \X (1 .. 3) \subseteq Now
      BY <1>1, <2>1, <2>4, <2>5
    <3> QED BY <1>2, <2>3, <3>2, <3>3, <3>4
  <2>6. CASE j = 2
    <3>1. Rest[2] = Create({"voucher"} \X (1 .. 3), {})
      BY DEF Rest, Customer
    <3>2. Creation[k].made = {"voucher"} \X (1 .. 3) /\ Creation[k].refers = {}
      BY <2>2, <2>6, <3>1
    <3>3. ASSUME NEW x \in Now PROVE x \in {"voucher"} \X (1 .. 3)
      BY <1>1, <1>3, <2>1, <2>6
    <3>4. {"voucher"} \X (1 .. 3) \subseteq Now
      BY <1>1, <2>1, <2>4, <2>6
    <3> QED BY <1>2, <2>3, <3>2, <3>3, <3>4
  <2>7. CASE j = 3
    <3>1. Rest[3] = Create({<<"address", 1>>}, {<<"user", 2>>})
      BY DEF Rest, Customer
    <3>2. Creation[k].made = {<<"address", 1>>} /\ Creation[k].refers = {<<"user", 2>>}
      BY <2>2, <2>7, <3>1
    <3>3. ASSUME NEW x \in Now PROVE x \in {<<"address", 1>>}
      BY <1>1, <1>3, <2>1, <2>7
    <3>4. {<<"address", 1>>} \subseteq Now
      BY <1>1, <2>1, <2>4, <2>7
    <3> QED BY <1>2, <2>3, <3>2, <3>3, <3>4
  <2>8. CASE j = 4
    <3>1. Rest[4] = Create({"notification"} \X (1 .. 3), {<<"user", 2>>})
      BY DEF Rest, Customer
    <3>2. Creation[k].made = {"notification"} \X (1 .. 3) /\ Creation[k].refers = {<<"user", 2>>}
      BY <2>2, <2>8, <3>1
    <3>3. ASSUME NEW x \in Now PROVE x \in {"notification"} \X (1 .. 3)
      BY <1>1, <1>3, <2>1, <2>8
    <3>4. {"notification"} \X (1 .. 3) \subseteq Now
      BY <1>1, <2>1, <2>4, <2>8
    <3> QED BY <1>2, <2>3, <3>2, <3>3, <3>4
  <2> QED BY <2>5, <2>6, <2>7, <2>8
<1> QED BY <1>1, <1>5, <1>6, <1>7, <1>8

LEMMA StepsOfDemoData ==
  ASSUME NEW x \in DemoData
  PROVE  StepOf(x) \in 1 .. Len(Creation)
<1>1. C \in Nat \ {0} /\ P \in Nat \ {0} /\ Len(Creation) = C + 2 * P + 6
  BY CreationIs, SeedAssumption DEF C, P
<1>2. PICK T, n : x = <<T, n>>
  BY DemoRows
<1>3. StepOf(<<T, n>>) \in 1 .. C + 2 * P + 6
  <2>1. <<T, n>> \in DemoData
    BY <1>2
  <2> QED BY <1>1, <2>1, DemoRows DEF StepOf
<1> QED BY <1>1, <1>2, <1>3

\* What has been made before a statement, and after the last one.
LEMMA MadeIs ==
  ASSUME NEW n \in 1 .. Len(Creation) + 1
  PROVE  MadeBefore(n) = {x \in DemoData : StepOf(x) < n}
<1>1. Len(Creation) \in Nat
  BY CreationIs, SeedAssumption DEF C, P
<1>2. ASSUME NEW x \in MadeBefore(n) PROVE x \in DemoData /\ StepOf(x) < n
  <2>1. PICK j \in 1 .. n - 1 : x \in Creation[j].made
    BY <1>2 DEF MadeBefore
  <2> QED BY <1>1, <2>1, StatementMakes
<1>3. ASSUME NEW x \in DemoData, StepOf(x) < n PROVE x \in MadeBefore(n)
  <2>1. StepOf(x) \in 1 .. n - 1 /\ StepOf(x) \in 1 .. Len(Creation)
    BY <1>1, <1>3, StepsOfDemoData
  <2>2. x \in Creation[StepOf(x)].made
    BY <2>1, StatementMakes
  <2> QED BY <2>1, <2>2 DEF MadeBefore
<1> QED BY <1>2, <1>3

LEMMA MadeFirst ==
  ASSUME NEW r
  PROVE  MadeBy(r, 1) = {}
<1>1. 1 .. 1 - 1 = {}
  OBVIOUS
<1> QED BY <1>1 DEF MadeBy, MadeBefore

LEMMA MadeAll ==
  ASSUME NEW r
  PROVE  MadeBy(r, Len(Creation) + 1) = {<<x[1], x[2], r>> : x \in DemoData}
<1>1. Len(Creation) \in Nat
  BY CreationIs, SeedAssumption DEF C, P
<1>2. MadeBefore(Len(Creation) + 1) = DemoData
  <2> DEFINE n == Len(Creation) + 1
  <2>1. n \in 1 .. Len(Creation) + 1
    BY <1>1
  <2>2. MadeBefore(n) = {x \in DemoData : StepOf(x) < n}
    BY <2>1, MadeIs
  <2>3. \A x \in DemoData : StepOf(x) < n
    BY <1>1, StepsOfDemoData
  <2> QED BY <2>2, <2>3
<1> QED BY <1>2 DEF MadeBy

LEMMA MadeNext ==
  ASSUME NEW r, NEW n \in 1 .. Len(Creation)
  PROVE  MadeBy(r, n + 1) = MadeBy(r, n) \cup {<<x[1], x[2], r>> : x \in Creation[n].made}
<1>1. Len(Creation) \in Nat
  BY CreationIs, SeedAssumption DEF C, P
<1>2. 1 .. (n + 1) - 1 = (1 .. n - 1) \cup {n}
  OBVIOUS
<1>3. MadeBefore(n + 1) = MadeBefore(n) \cup Creation[n].made
  BY <1>2 DEF MadeBefore
<1> QED BY <1>3 DEF MadeBy

\* A statement finds no key taken and every parent there, if the table holds what the
\* statements before it have made.
LEMMA StatementSucceeds ==
  ASSUME NEW r \in Runs, NEW n \in 1 .. Len(Creation)
  PROVE  /\ \A x \in MadeBy(r, n) : <<x[1], x[2]>> \notin Creation[n].made
         /\ \A x \in Creation[n].refers : <<x[1], x[2], r>> \in MadeBy(r, n)
<1>1. Len(Creation) \in Nat
  BY CreationIs, SeedAssumption DEF C, P
<1>2. n \in 1 .. Len(Creation) + 1
  BY <1>1
<1>3. MadeBefore(n) = {x \in DemoData : StepOf(x) < n}
  BY <1>2, MadeIs
<1>4. ASSUME NEW x \in MadeBy(r, n) PROVE <<x[1], x[2]>> \notin Creation[n].made
  <2>1. PICK y \in MadeBefore(n) : x = <<y[1], y[2], r>>
    BY <1>4 DEF MadeBy
  <2>2. y \in DemoData /\ StepOf(y) < n /\ y = <<y[1], y[2]>>
    BY <1>3, <2>1, DemoRows
  <2>3. StepOf(y) # n
    BY <2>2, StepsOfDemoData
  <2>4. <<x[1], x[2]>> = y
    BY <2>1, <2>2
  <2> QED BY <2>2, <2>3, <2>4, StatementMakes
<1>5. ASSUME NEW x \in Creation[n].refers PROVE <<x[1], x[2], r>> \in MadeBy(r, n)
  BY <1>3, <1>5, StatementMakes DEF MadeBy
<1> QED BY <1>4, <1>5

(***************************************************************************)
(* A run that is alone.                                                    *)
(***************************************************************************)
LEMMA ScriptLength ==
  LastStep \in Nat /\ LastStep > 16 /\ Len(Creation) \in Nat /\ LastStep = 16 + Len(Creation)
BY CleanupLength, CreationIs, SeedAssumption DEF C, P, LastStep

LEMMA StatementOf ==
  ASSUME TypeOK, NEW r \in Runs, Creating(r)
  PROVE  pc[r] - 16 \in 1 .. Len(Creation) /\ Statement(r) = Creation[pc[r] - 16]
BY CleanupLength, ScriptLength DEF TypeOK, Creating, Statement

LEMMA InitSeed == Init => SeedInv
<1> SUFFICES ASSUME Init PROVE SeedInv
  OBVIOUS
<1>1. rows \subseteq Tables \X Nat \X (Runs \cup {"shop"})
  <2>1. \A T \in Tables :
          {T} \X ShopKeys(T) \X {"shop"} \subseteq Tables \X Nat \X (Runs \cup {"shop"})
    BY DEF ShopKeys
  <2> QED BY <2>1 DEF Init
<1>2. TypeOK
  BY <1>1 DEF TypeOK, Init, Statuses
<1>3. AloneIsOnTrack
  BY DEF AloneIsOnTrack, Init, Cleaning, Creating
<1> QED BY <1>2, <1>3 DEF SeedInv

LEMMA SentTypes ==
  ASSUME NEW r \in Runs, NEW sent \in SUBSET AlsoSent(r)
  PROVE  sent \subseteq Tables \X Nat \X (Runs \cup {"shop"})
<1>1. "category" \in Tables
  BY TableNames
<1>2. AlsoSent(r) \subseteq {"category"} \X (1 .. CategoryCount) \X {r}
  BY DEF AlsoSent
<1> QED BY <1>1, <1>2

\* Types, but for the rows, which each action adds differently.
LEMMA AdvanceTypes ==
  ASSUME TypeOK, NEW r \in Runs, status[r] = "running", Advance(r)
  PROVE  /\ pc' \in [Runs -> Nat \ {0}] /\ status' \in [Runs -> Statuses]
         /\ \A s \in Runs : status'[s] = "running" => pc'[s] <= LastStep
  BY ScriptLength DEF TypeOK, Advance, Statuses

LEMMA DisturbTypes ==
  ASSUME TypeOK, NEW r \in Runs, Disturb(r)
  PROVE  /\ disturbed' \in [Runs -> BOOLEAN]
         /\ \A s \in Runs : ~disturbed'[s] => s = r /\ ~disturbed[r]
  BY DEF TypeOK, Disturb

LEMMA StartStep ==
  ASSUME SeedInv, NEW r \in Runs, Start(r)
  PROVE  SeedInv'
<1> USE DEF SeedInv
<1>1. TypeOK'
  <2>1. rows' \subseteq Tables \X Nat \X (Runs \cup {"shop"})
    BY DEF TypeOK, Start, RowsBy
  <2> QED BY <2>1, ScriptLength DEF TypeOK, Start, Statuses
<1>2. ASSUME NEW s \in Runs, ~disturbed'[s]
      PROVE  /\ status'[s] # "failed"
             /\ Cleaning(s)' => \A x \in rows' : x[1] \in Left(pc'[s])
             /\ Creating(s)' => rows' = MadeBy(s, pc'[s] - Len(Cleanup))
             /\ status'[s] = "done" => rows' = MadeBy(s, Len(Creation) + 1)
  <2>1. CASE s = r
    <3>1. status'[s] = "running" /\ pc'[s] = 1
      BY <2>1 DEF Start, TypeOK
    <3>2. \A x \in rows' : x[1] \in Left(1)
      BY <1>1, LeftFirst DEF TypeOK
    <3> QED BY <3>1, <3>2, CleanupLength DEF Creating
  <2>2. CASE s # r
    <3>1. ~disturbed[s] /\ status'[s] = status[s] /\ pc'[s] = pc[s]
      BY <1>2, <2>2 DEF Start, TypeOK
    <3>2. \A n : rows = MadeBy(s, n) => rows' = rows
      <4> SUFFICES ASSUME NEW n, rows = MadeBy(s, n) PROVE rows' = rows
        OBVIOUS
      <4>1. \A x \in rows : x[3] = s
        BY DEF MadeBy
      <4>2. RowsBy(r) = {}
        BY <2>2, <4>1 DEF RowsBy
      <4> QED BY <4>2 DEF Start
    <3>3. \A x \in rows' : \E y \in rows : x[1] = y[1]
      BY DEF Start, RowsBy
    <3> QED BY <3>1, <3>2, <3>3 DEF AloneIsOnTrack, Cleaning, Creating
  <2> QED BY <2>1, <2>2
<1> QED BY <1>1, <1>2 DEF AloneIsOnTrack

LEMMA DeleteStep ==
  ASSUME SeedInv, NEW r \in Runs, Delete(r)
  PROVE  SeedInv'
<1> USE DEF SeedInv
<1>1. status[r] = "running" /\ pc[r] \in 1 .. 16
  BY CleanupLength DEF Delete, Cleaning, TypeOK
<1>2. pc'[r] = pc[r] + 1 /\ status'[r] = "running"
  BY <1>1, ScriptLength DEF Delete, Advance, TypeOK
<1>3. TypeOK'
  BY <1>1, AdvanceTypes, DisturbTypes DEF TypeOK, Delete
<1>4. ASSUME ~disturbed'[r]
      PROVE  /\ Cleaning(r)' => \A x \in rows' : x[1] \in Left(pc'[r])
             /\ Creating(r)' => rows' = MadeBy(r, pc'[r] - Len(Cleanup))
  <2>1. ~disturbed[r]
    BY <1>4, DisturbTypes DEF Delete
  <2>2. \A x \in rows : x[1] \in Left(pc[r])
    BY <2>1 DEF AloneIsOnTrack, Delete
  <2>3. \A x \in rows' : x[1] \in Left(pc[r] + 1)
    BY <1>1, <2>2, LeftStep DEF Delete, Table
  <2>4. ASSUME Creating(r)' PROVE rows' = MadeBy(r, pc'[r] - Len(Cleanup))
    <3>1. pc[r] = 16
      BY <1>1, <1>2, <2>4, CleanupLength DEF Creating
    <3>2. rows' = {}
      BY <2>3, <3>1, LeftLast
    <3>3. pc'[r] - Len(Cleanup) = 1
      BY <1>2, <3>1, CleanupLength
    <3> QED BY <3>2, <3>3, MadeFirst
  <2> QED BY <1>2, <2>3, <2>4
<1>5. \A s \in Runs : ~disturbed'[s] => s = r
  BY DisturbTypes DEF Delete
<1> QED BY <1>2, <1>3, <1>4, <1>5 DEF AloneIsOnTrack

LEMMA InsertStep ==
  ASSUME SeedInv, NEW r \in Runs, Insert(r)
  PROVE  SeedInv'
<1> USE DEF SeedInv
<1> DEFINE n == pc[r] - 16
<1>1. status[r] = "running" /\ pc[r] \in 17 .. LastStep /\ Creating(r)
  BY CleanupLength, ScriptLength DEF Insert, Creating, TypeOK
<1>2. n \in 1 .. Len(Creation) /\ Statement(r) = Creation[n]
  BY <1>1, StatementOf
<1>3. rows' \subseteq Tables \X Nat \X (Runs \cup {"shop"})
  <2>1. Creation[n].made \subseteq Tables \X Nat
    BY <1>2, StatementMakes DEF Statements
  <2>2. Made(r) \subseteq Tables \X Nat \X (Runs \cup {"shop"})
    BY <1>2, <2>1 DEF Made
  <2> QED BY <2>2 DEF Insert, TypeOK
<1>4. TypeOK'
  BY <1>1, <1>3, AdvanceTypes, DisturbTypes DEF TypeOK, Insert
<1>5. /\ pc'[r] = pc[r] + 1
      /\ status'[r] = IF pc[r] = LastStep THEN "done" ELSE "running"
  BY DEF Insert, Advance, TypeOK
<1>6. ASSUME ~disturbed'[r] PROVE rows' = MadeBy(r, n + 1)
  <2>1. ~disturbed[r]
    BY <1>6, DisturbTypes DEF Insert
  <2>2. rows = MadeBy(r, n)
    BY <1>1, <2>1, CleanupLength DEF AloneIsOnTrack
  <2>3. rows' = rows \cup {<<x[1], x[2], r>> : x \in Creation[n].made}
    BY <1>2 DEF Insert, Made
  <2> QED BY <1>2, <2>2, <2>3, MadeNext
<1>7. ~Cleaning(r)' /\ pc'[r] - Len(Cleanup) = n + 1
  BY <1>1, <1>5, CleanupLength DEF Cleaning
<1>8. status'[r] = "done" => n + 1 = Len(Creation) + 1
  BY <1>5, ScriptLength
<1>9. \A s \in Runs : ~disturbed'[s] => s = r
  BY DisturbTypes DEF Insert
<1> HIDE DEF n
<1> QED BY <1>4, <1>5, <1>6, <1>7, <1>8, <1>9 DEF AloneIsOnTrack

\* A run that is alone never fails.
LEMMA FailStep ==
  ASSUME SeedInv, NEW r \in Runs, Fail(r)
  PROVE  SeedInv'
<1> USE DEF SeedInv
<1>1. TypeOK'
  <2>1. rows' \subseteq Tables \X Nat \X (Runs \cup {"shop"})
    BY SentTypes DEF Fail, TypeOK
  <2> QED BY <2>1, DisturbTypes DEF Fail, Stop, TypeOK, Statuses
<1>2. disturbed[r]
  <2> SUFFICES ASSUME ~disturbed[r] PROVE FALSE
    BY DEF TypeOK
  <2>1. CASE Cleaning(r) /\ ~MayEmpty(Table(r))
    <3>1. pc[r] \in 1 .. 16
      BY <2>1, CleanupLength DEF Cleaning, TypeOK
    <3>2. PICK fk \in Restricts : fk[2] \in EmptiedWith(Cleanup[pc[r]]) /\ RowsOf(fk[1]) # {}
      BY <2>1 DEF MayEmpty, Table
    <3>3. fk[1] \notin Left(pc[r])
      BY <3>1, <3>2, ChildrenGoFirst
    <3>4. \A x \in rows : x[1] \in Left(pc[r])
      BY <2>1 DEF AloneIsOnTrack
    <3> QED BY <3>2, <3>3, <3>4 DEF RowsOf
  <2>2. CASE Creating(r) /\ (Clashes(r) \/ ~RefersToRows(r))
    <3> DEFINE n == pc[r] - 16
    <3>1. n \in 1 .. Len(Creation) /\ Statement(r) = Creation[n]
      BY <2>2, StatementOf
    <3>2. rows = MadeBy(r, n)
      BY <2>2, CleanupLength DEF AloneIsOnTrack
    <3> HIDE DEF n
    <3>3. ~Clashes(r)
      BY <3>1, <3>2, StatementSucceeds DEF Clashes
    <3>4. RefersToRows(r)
      BY <3>1, <3>2, StatementSucceeds DEF RefersToRows
    <3> QED BY <2>2, <3>3, <3>4
  <2> QED BY <2>1, <2>2 DEF Fail
<1>3. \A s \in Runs : disturbed'[s]
  BY <1>1, <1>2, DisturbTypes DEF Fail, TypeOK
<1> QED BY <1>1, <1>3 DEF AloneIsOnTrack

LEMMA CrashStep ==
  ASSUME SeedInv, NEW r \in Runs, Crash(r)
  PROVE  SeedInv'
<1> USE DEF SeedInv
<1>1. TypeOK'
  <2>1. rows' \subseteq Tables \X Nat \X (Runs \cup {"shop"})
    BY SentTypes DEF Crash, TypeOK
  <2> QED BY <2>1, DisturbTypes DEF Crash, Stop, TypeOK, Statuses
<1>2. status'[r] = "killed"
  BY DEF Crash, Stop, TypeOK
<1>3. \A s \in Runs : ~disturbed'[s] => s = r
  BY DisturbTypes DEF Crash
<1> QED BY <1>1, <1>2, <1>3 DEF AloneIsOnTrack, Cleaning, Creating

LEMMA ShopStep ==
  ASSUME SeedInv, NEW T \in ShopTables, NEW key \in ShopKeys(T), ShopInserts(T, key)
  PROVE  SeedInv'
<1>1. key \in Nat /\ T \in Tables
  BY ShopTablesAssumption DEF ShopKeys
<1>2. TypeOK'
  BY <1>1 DEF SeedInv, TypeOK, ShopInserts
<1>3. \A r \in Runs : disturbed'[r]
  BY DEF ShopInserts
<1> QED BY <1>2, <1>3 DEF SeedInv, AloneIsOnTrack

LEMMA SeedStep == SeedInv /\ [Next]_vars => SeedInv'
<1> SUFFICES ASSUME SeedInv, [Next]_vars PROVE SeedInv'
  OBVIOUS
<1>1. CASE UNCHANGED vars
  BY <1>1 DEF vars, SeedInv, TypeOK, AloneIsOnTrack, Cleaning, Creating
<1>2. CASE Next
  BY <1>2, StartStep, DeleteStep, InsertStep, FailStep, CrashStep, ShopStep, Zenon DEF Next
<1> QED BY <1>1, <1>2

\* Whatever is in the database when a run starts and however the runs before it ended, a run
\* that is alone finds only the tables it has not yet emptied filled, and then exactly the rows
\* it has made.
THEOREM SeedCorrect == Spec => []SeedInv
<1>1. SeedInv /\ [Next]_vars => SeedInv'
  BY SeedStep
<1> QED BY <1>1, InitSeed, PTL DEF Spec

\* No foreign key and no unique index stops npm run prisma:seed while it has the database to
\* itself, whatever an earlier run left behind and however many categories and products it makes.
THEOREM SeedAloneSucceeds == Spec => []FailsOnlyIfDisturbed
<1>1. SeedInv => FailsOnlyIfDisturbed
  BY DEF SeedInv, AloneIsOnTrack, FailsOnlyIfDisturbed
<1> QED BY <1>1, SeedCorrect, PTL

\* A run that had the database to itself leaves the demonstration data, all of its own making,
\* and no other row.
THEOREM SeedAloneLeavesTheSeed == Spec => []LeavesExactlyTheSeed
<1>1. SeedInv => LeavesExactlyTheSeed
  BY MadeAll, Zenon DEF SeedInv, AloneIsOnTrack, LeavesExactlyTheSeed
<1> QED BY <1>1, SeedCorrect, PTL
=============================================================================
