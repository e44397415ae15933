--------------------------- MODULE AddressesProofs ---------------------------
(***************************************************************************)
(* AddressesInv is inductive: the count of create holds until it writes,   *)
(* and a user's default is unique unless a race on isDefault was lost, for *)
(* any number of users, requests and addresses.                            *)
(***************************************************************************)
EXTENDS Addresses, WellFoundedInduction, TLAPS

-----------------------------------------------------------------------------
(* The newest address of a set *)

\* A set of naturals that is not empty has a smallest element.
LEMMA SmallestExists ==
  ASSUME NEW S, S \subseteq Nat, S # {}
  PROVE  \E i \in S : \A k \in S : i <= k
  <1> DEFINE R == OpToRel(<, Nat)
  <1>1. PICK i \in S : \A k \in S : ~(<<k, i>> \in R)
    <2> HIDE DEF R
    <2> QED
      BY NatLessThanWellFounded, WFMin DEF R
  <1>2. \A k \in S : <<k, i>> \in R <=> k < i
    BY DEF OpToRel
  <1>3. ASSUME NEW k \in S PROVE i <= k
    <2>1. ~(k < i)
      <3> HIDE DEF R
      <3> QED
        BY <1>1, <1>2
    <2> QED
      BY <2>1
  <1> QED
    BY <1>3

\* A set of addresses that is not empty has exactly one newest.
LEMMA NewestExists ==
  ASSUME NEW S, S \subseteq Ids, S # {}
  PROVE  \E i \in S : Newest(S) = {i}
  <1> DEFINE T == {MaxAddresses - k : k \in S}
  <1>1. S \subseteq Nat /\ \A k \in S : k <= MaxAddresses
    BY AddressesAssumption DEF Ids
  <1>2. T \subseteq Nat /\ T # {}
    <2>1. ASSUME NEW k \in S PROVE MaxAddresses - k \in Nat
      BY <1>1, AddressesAssumption
    <2>2. PICK k \in S : TRUE
      OBVIOUS
    <2>3. MaxAddresses - k \in T
      OBVIOUS
    <2> QED
      BY <2>1, <2>3
  <1>3. PICK m \in T : \A n \in T : m <= n
    <2> HIDE DEF T
    <2> QED
      BY <1>2, SmallestExists
  <1>4. PICK i \in S : m = MaxAddresses - i
    BY <1>3
  <1>5. \A k \in S : k <= i
    <2> SUFFICES ASSUME NEW k \in S PROVE k <= i
      OBVIOUS
    <2>1. MaxAddresses - k \in T
      OBVIOUS
    <2>2. m <= MaxAddresses - k
      BY <1>3, <2>1
    <2>3. k \in Nat /\ i \in Nat /\ MaxAddresses \in Nat
      BY <1>1, <1>4, AddressesAssumption
    <2> QED
      BY <1>4, <2>2, <2>3
  <1>6. Newest(S) = {i}
    <2>1. \A k \in S : k \in Nat
      BY <1>1
    <2>2. i \in Newest(S)
      BY <1>4, <1>5 DEF Newest
    <2>3. ASSUME NEW j \in Newest(S) PROVE j = i
      <3>1. j \in S /\ i <= j /\ j <= i
        BY <1>4, <1>5, <2>3 DEF Newest
      <3> QED
        BY <2>1, <3>1
    <2> QED
      BY <2>2, <2>3
  <1> QED
    BY <1>4, <1>6
-----------------------------------------------------------------------------
(* Types *)

\* What the type invariant says of a request, by the step it waits for.
LEMMA RequestTypes ==
  ASSUME TypeOK, NEW w \in Workers
  PROVE  /\ req[w].op = "create" => req[w].user \in Users /\ req[w].makeDefault \in BOOLEAN
         /\ req[w].op \in {"update", "remove"} =>
              req[w].user \in Users /\ req[w].id \in Ids /\ req[w].isDefault \in BOOLEAN
         /\ req[w].op = "setDefault" => req[w].user \in Users /\ req[w].id \in Ids
  <1>1. req[w] \in Requests
    BY DEF TypeOK
  <1> QED
    BY <1>1 DEF Requests, Idle

\* A row that is there is complete; a row that is not is no default.
LEMMA CompleteRow ==
  ASSUME NEW row \in Addresses
  PROVE  /\ row = [owner |-> row.owner, isDefault |-> row.isDefault]
         /\ row.owner \in Users \cup {None}
         /\ row.isDefault \in BOOLEAN
         /\ row.owner = None => row = NoAddress
  <1>1. CASE row = NoAddress
    BY <1>1 DEF NoAddress
  <1>2. CASE row \in [owner : Users, isDefault : BOOLEAN]
    BY <1>2, AddressesAssumption
  <1> QED
    BY <1>1, <1>2 DEF Addresses

LEMMA RowTypes ==
  ASSUME TypeOK, NEW i \in Ids
  PROVE  /\ address[i] = [owner |-> address[i].owner, isDefault |-> address[i].isDefault]
         /\ address[i].owner \in Users \cup {None}
         /\ address[i].isDefault \in BOOLEAN
         /\ address[i].owner = None => address[i] = NoAddress
  BY CompleteRow DEF TypeOK

LEMMA RequestMoves ==
  ASSUME TypeOK, NEW w \in Workers, NEW r \in Requests, req' = [req EXCEPT ![w] = r]
  PROVE  req' \in [Workers -> Requests]
  BY DEF TypeOK

LEMMA FinishMoves ==
  ASSUME TypeOK, NEW w \in Workers, Finish(w)
  PROVE  req' \in [Workers -> Requests]
  BY RequestMoves DEF Finish, Requests
-----------------------------------------------------------------------------
(* The default of one user *)

\* What the main property says of one user.
OneDefault(u) == ~raced[u] /\ AddressesOf(u) # {} => \E i \in Ids : DefaultsOf(u) = {i}

\* A step that leaves the addresses of a user alone leaves the property alone.
LEMMA OthersKeepTheirs ==
  ASSUME NEW u \in Users, OneDefault(u), raced'[u] = raced[u],
         \A i \in Ids : /\ address[i].owner = u <=> address'[i].owner = u
                        /\ address[i].owner = u => address'[i] = address[i]
  PROVE  OneDefault(u)' /\ AddressesOf(u)' = AddressesOf(u)
  <1>1. AddressesOf(u)' = AddressesOf(u) /\ DefaultsOf(u)' = DefaultsOf(u)
    BY DEF AddressesOf, DefaultsOf
  <1> QED
    BY <1>1 DEF OneDefault

\* Choosing a default leaves exactly one.
LEMMA ChooseLeavesOne ==
  ASSUME NEW rows \in [Ids -> Addresses], NEW u \in Users, NEW i \in Ids,
         rows[i].owner = u, address' = Choose(rows, u, i)
  PROVE  /\ address' \in [Ids -> Addresses]
         /\ \A k \in Ids : address'[k].owner = rows[k].owner
         /\ \A k \in Ids : rows[k].owner # u => address'[k] = rows[k]
         /\ DefaultsOf(u)' = {i}
  <1>1. \A k \in Ids : /\ rows[k] = [owner |-> rows[k].owner, isDefault |-> rows[k].isDefault]
                       /\ rows[k].owner \in Users \cup {None}
                       /\ rows[k].isDefault \in BOOLEAN
                       /\ rows[k].owner = None => rows[k] = NoAddress
    BY CompleteRow
  <1>2. \A k \in Ids :
          address'[k] = [owner |-> rows[k].owner,
                         isDefault |-> (k = i) \/ (rows[k].isDefault /\ rows[k].owner # u)]
    BY <1>1 DEF Choose
  <1>3. \A k \in Ids : rows[k].owner # u => address'[k] = rows[k]
    <2> SUFFICES ASSUME NEW k \in Ids, rows[k].owner # u PROVE address'[k] = rows[k]
      OBVIOUS
    <2>1. k # i
      OBVIOUS
    <2>2. ((k = i) \/ (rows[k].isDefault /\ rows[k].owner # u)) = rows[k].isDefault
      BY <1>1, <2>1
    <2> QED
      BY <1>1, <1>2, <2>2
  <1>4. address' \in [Ids -> Addresses]
    <2>1. \A k \in Ids : address'[k] \in Addresses
      <3> SUFFICES ASSUME NEW k \in Ids PROVE address'[k] \in Addresses
        OBVIOUS
      <3>1. CASE rows[k].owner = u
        <4> DEFINE b == (k = i) \/ (rows[k].isDefault /\ rows[k].owner # u)
        <4>1. b \in BOOLEAN
          OBVIOUS
        <4>2. address'[k] = [owner |-> u, isDefault |-> b]
          BY <1>2, <3>1
        <4> HIDE DEF b
        <4> QED
          BY <4>1, <4>2 DEF Addresses
      <3>2. CASE rows[k].owner # u
        BY <1>3, <3>2
      <3> QED
        BY <3>1, <3>2
    <2> QED
      BY <2>1 DEF Choose
  <1>5. \A k \in Ids : address'[k].owner = rows[k].owner
    <2>1. ASSUME NEW k \in Ids PROVE address'[k].owner = rows[k].owner
      <3> DEFINE b == (k = i) \/ (rows[k].isDefault /\ rows[k].owner # u)
      <3>1. address'[k] = [owner |-> rows[k].owner, isDefault |-> b]
        BY <1>2
      <3> HIDE DEF b
      <3> QED
        BY <3>1
    <2> QED
      BY <2>1
  <1>6. DefaultsOf(u)' = {i}
    <2>2. ASSUME NEW k \in Ids, rows[k].owner = u PROVE address'[k].isDefault <=> k = i
      <3> DEFINE b == (k = i) \/ (rows[k].isDefault /\ rows[k].owner # u)
      <3>1. b <=> k = i
        BY <2>2
      <3>2. address'[k] = [owner |-> u, isDefault |-> b]
        BY <1>2, <2>2
      <3> HIDE DEF b
      <3>3. address'[k].isDefault = b
        BY <3>2
      <3> QED
        BY <3>1, <3>3
    <2> QED
      BY <1>5, <2>2 DEF DefaultsOf, AddressesOf
  <1> QED
    BY <1>3, <1>4, <1>5, <1>6
-----------------------------------------------------------------------------
(* The inductive step *)

\* A step that only starts or ends a request, and perhaps frees a lock.
LEMMA QuietStep ==
  ASSUME AddressesInv, UNCHANGED <<address, last, raced>>,
         TypeOK', RowsAndLocks', CountStillHolds'
  PROVE  AddressesInv'
  BY DEF AddressesInv, OneDefaultUnlessRaced, AddressesOf, DefaultsOf

\* Other requests of the step's worker, and the locks it holds.
LEMMA ReleaseFacts ==
  ASSUME AddressesInv, NEW w \in Workers, Finish(w), Release(w)
  PROVE  /\ lock' \in [Users -> Workers \cup {None}]
         /\ req' \in [Workers -> Requests]
         /\ \A x \in Workers : Doing(x, "create")' =>
              x # w /\ Doing(x, "create") /\ req'[x] = req[x] /\ lock'[req[x].user] = x
         /\ \A u \in Users : lock'[u] # None =>
              /\ lock'[u] = lock[u] /\ lock[u] # w
              /\ req'[lock[u]] = req[lock[u]]
         /\ \A x \in Workers : req'[x].op # "idle" => x # w /\ req'[x] = req[x]
  <1>1. TypeOK /\ CountStillHolds
    BY DEF AddressesInv
  <1>2. req' \in [Workers -> Requests]
    BY <1>1, FinishMoves
  <1>3. lock' \in [Users -> Workers \cup {None}]
    BY <1>1 DEF TypeOK, Release
  <1>4. \A x \in Workers : /\ x # w => req'[x] = req[x]
                           /\ x = w => req'[x] = Idle
    BY <1>1 DEF Finish, TypeOK
  <1>5. \A x \in Workers : req'[x].op # "idle" => x # w /\ req'[x] = req[x]
    BY <1>4 DEF Idle
  <1>6. ASSUME NEW x \in Workers, Doing(x, "create")'
        PROVE  x # w /\ Doing(x, "create") /\ req'[x] = req[x] /\ lock'[req[x].user] = x
    <2>1. x # w /\ req'[x] = req[x] /\ Doing(x, "create")
      BY <1>5, <1>6 DEF Doing
    <2>2. req[x].user \in Users /\ lock[req[x].user] = x
      BY <1>1, <2>1, RequestTypes DEF CountStillHolds, Doing
    <2> QED
      BY <2>1, <2>2 DEF Release
  <1>7. ASSUME NEW u \in Users, lock'[u] # None
        PROVE  lock'[u] = lock[u] /\ lock[u] # w /\ req'[lock[u]] = req[lock[u]]
    <2>1. lock'[u] = lock[u] /\ lock[u] # w /\ lock[u] \in Workers
      BY <1>1, <1>7 DEF Release, TypeOK
    <2> QED
      BY <1>4, <2>1
  <1> QED
    BY <1>2, <1>3, <1>5, <1>6, <1>7

\* A transaction on an address of u that keeps the owners of all rows, or removes
\* one of u's: nobody who has counted the addresses of u is waiting to write.
LEMMA TransactionFacts ==
  ASSUME AddressesInv, NEW w \in Workers,
         InTransaction(w, "update") \/ InTransaction(w, "remove")
           \/ InTransaction(w, "setDefault")
  PROVE  /\ req[w].user \in Users /\ req[w].id \in Ids /\ req[w].id <= last
         /\ address[req[w].id].owner = req[w].user
         /\ UNCHANGED <<last, lock>>
         /\ req' \in [Workers -> Requests]
         /\ \A x \in Workers : Doing(x, "create") => req[x].user # req[w].user
         /\ \A x \in Workers : req'[x].op # "idle" => req'[x] = req[x]
         /\ \A x \in Workers : req[x].op = "create" => req'[x] = req[x]
  <1>1. TypeOK /\ RowsAndLocks /\ CountStillHolds
    BY DEF AddressesInv
  <1>2. req[w].op \in {"update", "remove", "setDefault"} /\ Finish(w) /\ LockFree(req[w].user)
        /\ address[req[w].id].owner # None /\ UNCHANGED <<last, lock>>
    BY DEF InTransaction, StillThere, Doing
  <1>3. req[w].user \in Users /\ req[w].id \in Ids
    BY <1>1, <1>2, RequestTypes
  <1>4. req[w].id <= last /\ address[req[w].id].owner = req[w].user
    BY <1>1, <1>2 DEF RowsAndLocks
  <1>5. req' \in [Workers -> Requests]
    BY <1>1, <1>2, FinishMoves
  <1>6. \A x \in Workers : /\ x # w => req'[x] = req[x]
                           /\ x = w => req'[x] = Idle
    BY <1>1, <1>2 DEF Finish, TypeOK
  <1>7. \A x \in Workers : Doing(x, "create") => req[x].user # req[w].user
    BY <1>1, <1>2, AddressesAssumption DEF CountStillHolds, LockFree
  <1>8. \A x \in Workers : req'[x].op # "idle" => req'[x] = req[x]
    BY <1>6 DEF Idle
  <1>9. \A x \in Workers : req[x].op = "create" => req'[x] = req[x]
    BY <1>2, <1>6
  <1> QED
    BY <1>2, <1>3, <1>4, <1>5, <1>7, <1>8, <1>9

\* What is left to show of a transaction once the rows it writes are known.
LEMMA TransactionKeepsRest ==
  ASSUME AddressesInv, NEW w \in Workers,
         InTransaction(w, "update") \/ InTransaction(w, "remove")
           \/ InTransaction(w, "setDefault"),
         address' \in [Ids -> Addresses], raced' \in [Users -> BOOLEAN],
         OneDefaultUnlessRaced',
         \A k \in Ids : address[k] = NoAddress => address'[k] = NoAddress,
         \A k \in Ids : address'[k].owner \in {address[k].owner, None},
         \A v \in Users : v # req[w].user /\ AddressesOf(v) # {} => AddressesOf(v)' # {}
  PROVE  AddressesInv'
  <1>1. TypeOK /\ RowsAndLocks /\ CountStillHolds
    BY DEF AddressesInv
  <1>2. /\ UNCHANGED <<last, lock>>
        /\ req' \in [Workers -> Requests]
        /\ \A x \in Workers : Doing(x, "create") => req[x].user # req[w].user
        /\ \A x \in Workers : req'[x].op # "idle" => req'[x] = req[x]
        /\ \A x \in Workers : req[x].op = "create" => req'[x] = req[x]
    BY TransactionFacts
  <1>3. TypeOK'
    BY <1>1, <1>2 DEF TypeOK
  <1>4. RowsAndLocks'
    <2>1. \A v \in Users : lock'[v] # None =>
            Doing(lock[v], "create")' /\ (req[lock[v]].user = v)'
      <3>1. \A v \in Users : lock[v] # None => lock[v] \in Workers
        BY <1>1 DEF TypeOK
      <3> QED
        BY <1>1, <1>2, <3>1 DEF RowsAndLocks, Doing
    <2>2. ASSUME NEW x \in Workers, req'[x].op \in {"update", "remove", "setDefault"}
          PROVE  address'[req'[x].id].owner \in {req'[x].user, None} /\ req'[x].id <= last'
      <3>1. req'[x] = req[x]
        BY <1>2, <2>2
      <3>2. /\ req[x].id \in Ids /\ req[x].id <= last
            /\ address[req[x].id].owner \in {req[x].user, None}
        BY <1>1, <2>2, <3>1, RequestTypes DEF RowsAndLocks
      <3> QED
        BY <1>2, <3>1, <3>2
    <2>3. \A k \in Ids : k > last' => address'[k] = NoAddress
      BY <1>1, <1>2 DEF RowsAndLocks
    <2> QED
      BY <2>1, <2>2, <2>3 DEF RowsAndLocks
  <1>5. CountStillHolds'
    <2> SUFFICES ASSUME NEW x \in Workers, Doing(x, "create")'
                 PROVE  /\ lock'[req'[x].user] = x
                        /\ req'[x].makeDefault \/ AddressesOf(req[x].user)' # {}
      BY DEF CountStillHolds
    <2>1. req'[x] = req[x] /\ Doing(x, "create")
      BY <1>2 DEF Doing
    <2>2. PICK v \in Users : v = req[x].user
      BY <1>1, <2>1, RequestTypes DEF Doing
    <2>3. lock[v] = x /\ (req[x].makeDefault \/ AddressesOf(v) # {})
      BY <1>1, <2>1, <2>2 DEF CountStillHolds
    <2>4. AddressesOf(v) # {} => AddressesOf(v)' # {}
      BY <1>2, <2>1, <2>2
    <2> QED
      BY <1>2, <2>1, <2>2, <2>3, <2>4
  <1> QED
    BY <1>3, <1>4, <1>5 DEF AddressesInv

\* Locking, counting and looking up.
LEMMA ReadsKeepInv ==
  ASSUME AddressesInv, NEW w \in Workers,
         \/ \E u \in Users, wish \in BOOLEAN : CreateCount(w, u, wish)
         \/ \E i \in Ids : \/ \E isDefault \in BOOLEAN : UpdateRead(w, i, isDefault)
                          \/ SetDefaultRead(w, i)
                          \/ RemoveRead(w, i)
  PROVE  AddressesInv'
  <1>1. TypeOK /\ RowsAndLocks /\ CountStillHolds
    BY DEF AddressesInv
  <1>2. CASE \E u \in Users, wish \in BOOLEAN : CreateCount(w, u, wish)
    <2>1. PICK u \in Users, wish \in BOOLEAN : CreateCount(w, u, wish)
      BY <1>2
    <2> DEFINE b == FirstIsDefault(u, wish)
    <2>2. b \in BOOLEAN /\ (b \/ AddressesOf(u) # {})
      BY DEF FirstIsDefault
    <2> HIDE DEF b
    <2>3. /\ req' = [req EXCEPT ![w] = [op |-> "create", user |-> u, makeDefault |-> b]]
          /\ req[w].op = "idle"
          /\ lock[u] = None /\ lock' = [lock EXCEPT ![u] = w]
          /\ UNCHANGED <<address, last, raced>>
      BY <2>1 DEF CreateCount, Start, Doing, LockFree, b
    <2>4. [op |-> "create", user |-> u, makeDefault |-> b] \in Requests
      BY <2>2 DEF Requests
    <2>5. TypeOK'
      BY <1>1, <2>3, <2>4 DEF TypeOK
    <2>6. \A x \in Workers \ {w} : req'[x] = req[x]
      BY <1>1, <2>3 DEF TypeOK
    <2>7. req'[w] = [op |-> "create", user |-> u, makeDefault |-> b]
      BY <1>1, <2>3 DEF TypeOK
    <2>8. /\ \A v \in Users \ {u} : lock'[v] = lock[v] /\ lock[v] # w
          /\ lock'[u] = w
      BY <1>1, <2>3, AddressesAssumption DEF TypeOK, RowsAndLocks, Doing
    <2>9. RowsAndLocks'
      <3>1. \A v \in Users : lock'[v] # None =>
              Doing(lock[v], "create")' /\ (req[lock[v]].user = v)'
        <4> SUFFICES ASSUME NEW v \in Users, lock'[v] # None
                     PROVE  req'[lock'[v]].op = "create" /\ req'[lock'[v]].user = v
          BY DEF Doing
        <4>1. CASE v = u
          BY <2>7, <2>8, <4>1
        <4>2. CASE v # u
          <5>1. lock'[v] = lock[v] /\ lock[v] \in Workers \ {w}
            BY <1>1, <2>8, <4>2 DEF TypeOK
          <5> QED
            BY <1>1, <2>6, <5>1 DEF RowsAndLocks, Doing
        <4> QED
          BY <4>1, <4>2
      <3>2. \A x \in Workers : req'[x].op \in {"update", "remove", "setDefault"} =>
              req'[x] = req[x]
        BY <2>6, <2>7
      <3> QED
        BY <1>1, <2>3, <3>1, <3>2 DEF RowsAndLocks
    <2>10. CountStillHolds'
      <3> SUFFICES ASSUME NEW x \in Workers, Doing(x, "create")'
                   PROVE  /\ lock'[req'[x].user] = x
                          /\ req'[x].makeDefault \/ AddressesOf(req[x].user)' # {}
        BY DEF CountStillHolds
      <3>1. CASE x = w
        <4>1. AddressesOf(u)' = AddressesOf(u)
          BY <2>3 DEF AddressesOf
        <4> QED
          BY <2>2, <2>7, <2>8, <3>1, <4>1 DEF AddressesOf
      <3>2. CASE x # w
        <4>1. req'[x] = req[x] /\ Doing(x, "create")
          BY <2>6, <3>2 DEF Doing
        <4>2. lock[req[x].user] = x /\ req[x].user \in Users
          BY <1>1, <4>1, RequestTypes DEF CountStillHolds, Doing
        <4>3. req[x].user # u
          BY <2>3, <4>2, AddressesAssumption
        <4>4. AddressesOf(req[x].user)' = AddressesOf(req[x].user)
          BY <2>3, <4>1 DEF AddressesOf
        <4> QED
          BY <1>1, <2>8, <4>1, <4>2, <4>3, <4>4 DEF CountStillHolds
      <3> QED
        BY <3>1, <3>2
    <2> QED
      BY <2>3, <2>5, <2>9, <2>10, QuietStep
  <1>3. CASE \E i \in Ids : \/ \E isDefault \in BOOLEAN : UpdateRead(w, i, isDefault)
                           \/ SetDefaultRead(w, i)
                           \/ RemoveRead(w, i)
    <2>1. PICK i \in Ids : \/ \E isDefault \in BOOLEAN : UpdateRead(w, i, isDefault)
                          \/ SetDefaultRead(w, i)
                          \/ RemoveRead(w, i)
      BY <1>3
    <2>2. address[i].owner \in Users /\ address[i].isDefault \in BOOLEAN
      BY <1>1, <2>1, RowTypes DEF UpdateRead, SetDefaultRead, RemoveRead
    <2> DEFINE Looked(r) == /\ r \in Requests
                            /\ r.op \in {"update", "remove", "setDefault"}
                            /\ r.id = i /\ r.user = address[i].owner
    <2>a. ASSUME NEW b \in BOOLEAN, UpdateRead(w, i, b)
          PROVE  \E r : Looked(r) /\ req' = [req EXCEPT ![w] = r]
      <3> DEFINE r == [op |-> "update", user |-> address[i].owner, id |-> i, isDefault |-> b]
      <3>1. r \in Requests
        BY <2>2 DEF Requests
      <3> QED
        BY <2>a, <3>1 DEF UpdateRead, Start
    <2>b. ASSUME SetDefaultRead(w, i)
          PROVE  \E r : Looked(r) /\ req' = [req EXCEPT ![w] = r]
      <3> DEFINE r == [op |-> "setDefault", user |-> address[i].owner, id |-> i]
      <3>1. r \in Requests
        BY <2>2 DEF Requests
      <3> QED
        BY <2>b, <3>1 DEF SetDefaultRead, Start
    <2>c. ASSUME RemoveRead(w, i)
          PROVE  \E r : Looked(r) /\ req' = [req EXCEPT ![w] = r]
      <3> DEFINE b == address[i].isDefault
                 r == [op |-> "remove", user |-> address[i].owner, id |-> i, isDefault |-> b]
      <3>1. r \in Requests
        BY <2>2 DEF Requests
      <3> QED
        BY <2>c, <3>1 DEF RemoveRead, Start
    <2>3. PICK r : Looked(r) /\ req' = [req EXCEPT ![w] = r]
      <3> HIDE DEF Looked
      <3> QED
        BY <2>1, <2>a, <2>b, <2>c
    <2>4. req[w].op = "idle" /\ UNCHANGED <<address, last, lock, raced>>
      BY <2>1 DEF UpdateRead, SetDefaultRead, RemoveRead, Start, Doing
    <2>5. TypeOK'
      BY <1>1, <2>3, <2>4 DEF TypeOK
    <2>6. /\ \A x \in Workers \ {w} : req'[x] = req[x]
          /\ req'[w] = r
      BY <1>1, <2>3 DEF TypeOK
    <2>7. i <= last
      <3>1. i \in Int /\ last \in Int /\ address[i] # NoAddress
        BY <1>1, <2>2, AddressesAssumption DEF TypeOK, Ids, NoAddress
      <3> QED
        BY <1>1, <3>1 DEF RowsAndLocks
    <2>8. RowsAndLocks'
      <3>1. \A v \in Users : lock[v] # None => lock[v] \in Workers \ {w}
        BY <1>1, <2>4 DEF RowsAndLocks, TypeOK, Doing
      <3>2. \A v \in Users : lock'[v] # None =>
              Doing(lock[v], "create")' /\ (req[lock[v]].user = v)'
        BY <1>1, <2>4, <2>6, <3>1 DEF RowsAndLocks, Doing
      <3>3. \A x \in Workers : req'[x].op \in {"update", "remove", "setDefault"} =>
              address[req'[x].id].owner \in {req'[x].user, None} /\ req'[x].id <= last
        BY <1>1, <2>3, <2>6, <2>7 DEF RowsAndLocks
      <3> QED
        BY <1>1, <2>4, <3>2, <3>3 DEF RowsAndLocks
    <2>9. CountStillHolds'
      <3>1. \A x \in Workers : Doing(x, "create")' => Doing(x, "create") /\ req'[x] = req[x]
        BY <2>3, <2>6 DEF Doing
      <3> QED
        BY <1>1, <2>4, <3>1 DEF CountStillHolds, AddressesOf
    <2> QED
      BY <2>4, <2>5, <2>8, <2>9, QuietStep
  <1> QED
    BY <1>2, <1>3

LEMMA AbortKeepsInv ==
  ASSUME AddressesInv, NEW w \in Workers, Abort(w)
  PROVE  AddressesInv'
  <1>1. TypeOK /\ RowsAndLocks /\ CountStillHolds
    BY DEF AddressesInv
  <1>2. Finish(w) /\ Release(w) /\ UNCHANGED <<address, last, raced>>
    BY DEF Abort
  <1>3. TypeOK'
    BY <1>1, <1>2, ReleaseFacts DEF TypeOK
  <1>4. RowsAndLocks'
    <2>1. \A v \in Users : lock'[v] # None =>
            Doing(lock[v], "create")' /\ (req[lock[v]].user = v)'
      BY <1>1, <1>2, ReleaseFacts DEF RowsAndLocks, Doing
    <2>2. \A x \in Workers : req'[x].op \in {"update", "remove", "setDefault"} =>
            req'[x] = req[x]
      BY <1>2, ReleaseFacts
    <2> QED
      BY <1>1, <1>2, <2>1, <2>2 DEF RowsAndLocks
  <1>5. CountStillHolds'
    BY <1>1, <1>2, ReleaseFacts DEF CountStillHolds, AddressesOf
  <1> QED
    BY <1>2, <1>3, <1>4, <1>5, QuietStep
-----------------------------------------------------------------------------
(* The four writes *)

LEMMA CreateWriteKeepsInv ==
  ASSUME AddressesInv, NEW w \in Workers, CreateWrite(w)
  PROVE  AddressesInv'
  <1>0. PICK u \in Users, i \in Ids : u = req[w].user /\ i = last + 1
    BY RequestTypes DEF CreateWrite, AddressesInv, Doing
  <1> DEFINE inserted == [address EXCEPT ![i] = [owner |-> u, isDefault |-> FALSE]]
  <1>1. TypeOK /\ RowsAndLocks /\ CountStillHolds /\ OneDefaultUnlessRaced
    BY DEF AddressesInv
  <1>2. /\ Doing(w, "create") /\ i \in Ids /\ last' = i
        /\ Release(w) /\ Finish(w)
        /\ \/ /\ req[w].makeDefault /\ address' = Choose(inserted, u, i)
              /\ raced' = [raced EXCEPT ![u] = FALSE]
           \/ ~req[w].makeDefault /\ address' = inserted /\ raced' = raced
    BY <1>0 DEF CreateWrite
  <1>3. i > last /\ u \in Users /\ req[w].makeDefault \in BOOLEAN /\ last \in Int
    BY <1>0, <1>1, <1>2, RequestTypes, AddressesAssumption DEF Doing, TypeOK
  <1>4. address[i] = NoAddress
    BY <1>1, <1>2, <1>3 DEF RowsAndLocks
  <1>5. /\ inserted \in [Ids -> Addresses]
        /\ inserted[i] = [owner |-> u, isDefault |-> FALSE]
        /\ \A k \in Ids \ {i} : inserted[k] = address[k]
    BY <1>1, <1>2, <1>3 DEF TypeOK, Addresses
  <1>6. /\ address' \in [Ids -> Addresses]
        /\ \A k \in Ids : address'[k].owner = inserted[k].owner
        /\ \A k \in Ids : inserted[k].owner # u => address'[k] = inserted[k]
        /\ req[w].makeDefault => DefaultsOf(u)' = {i}
    <2>1. CASE req[w].makeDefault
      <3>1. address' = Choose(inserted, u, i) /\ inserted[i].owner = u
        BY <1>2, <1>5, <2>1
      <3>2. inserted \in [Ids -> Addresses] /\ u \in Users /\ i \in Ids
        BY <1>2, <1>3, <1>5
      <3> HIDE DEF inserted
      <3>3. /\ address' \in [Ids -> Addresses]
            /\ \A k \in Ids : address'[k].owner = inserted[k].owner
            /\ \A k \in Ids : inserted[k].owner # u => address'[k] = inserted[k]
            /\ DefaultsOf(u)' = {i}
        BY <3>1, <3>2, ChooseLeavesOne
      <3> QED
        BY <3>3
    <2>2. CASE ~req[w].makeDefault
      BY <1>2, <1>5, <2>2
    <2> QED
      BY <1>3, <2>1, <2>2
  <1>7. raced' \in [Users -> BOOLEAN] /\ \A v \in Users \ {u} : raced'[v] = raced[v]
    BY <1>1, <1>2, <1>3 DEF TypeOK
  <1>8. TypeOK'
    <2>1. last' \in 0 .. MaxAddresses
      BY <1>2, <1>3, AddressesAssumption DEF Ids, TypeOK
    <2> QED
      BY <1>2, <1>6, <1>7, <2>1, ReleaseFacts DEF TypeOK
  <1>9. \A k \in Ids : /\ k # i => address'[k].owner = address[k].owner
                       /\ k # i /\ address[k].owner # u => address'[k] = address[k]
    BY <1>5, <1>6
  <1>10. /\ i \in AddressesOf(u)'
         /\ \A v \in Users \ {u} : AddressesOf(v)' = AddressesOf(v)
                                  /\ DefaultsOf(v)' = DefaultsOf(v)
    <2>1. address'[i].owner = u /\ address[i].owner = None
      BY <1>2, <1>4, <1>5, <1>6 DEF NoAddress
    <2>2. \A v \in Users : v # None
      BY AddressesAssumption
    <2>3. \A v \in Users \ {u}, k \in Ids :
            /\ address'[k].owner = v <=> address[k].owner = v
            /\ address[k].owner = v => address'[k] = address[k]
      BY <1>9, <2>1, <2>2
    <2>4. i \in AddressesOf(u)'
      <3>1. i \in {k \in Ids : address'[k].owner = u}
        BY <1>2, <2>1
      <3> QED
        BY <3>1 DEF AddressesOf
    <2>5. ASSUME NEW v \in Users \ {u}
          PROVE  AddressesOf(v)' = AddressesOf(v) /\ DefaultsOf(v)' = DefaultsOf(v)
      <3>1. \A k \in Ids : /\ address'[k].owner = v <=> address[k].owner = v
                           /\ address[k].owner = v => address'[k] = address[k]
        BY <2>3
      <3> QED
        BY <3>1 DEF AddressesOf, DefaultsOf
    <2> QED
      BY <2>4, <2>5
  <1>11. RowsAndLocks'
    <2>1. \A k \in Ids : k > last' => address'[k] = NoAddress
      <3> SUFFICES ASSUME NEW k \in Ids, k > i PROVE address'[k] = NoAddress
        BY <1>2
      <3>1. k > last /\ k # i
        BY <1>3, AddressesAssumption DEF Ids
      <3>2. address[k] = NoAddress /\ NoAddress.owner # u
        BY <1>1, <1>3, <3>1, AddressesAssumption DEF RowsAndLocks, NoAddress
      <3> QED
        BY <1>9, <3>1, <3>2
    <2>2. \A v \in Users : lock'[v] # None =>
            Doing(lock[v], "create")' /\ (req[lock[v]].user = v)'
      BY <1>1, <1>2, ReleaseFacts DEF RowsAndLocks, Doing
    <2>3. ASSUME NEW x \in Workers, req'[x].op \in {"update", "remove", "setDefault"}
          PROVE  address'[req'[x].id].owner \in {req'[x].user, None} /\ req'[x].id <= last'
      <3>1. req'[x] = req[x]
        BY <1>2, <2>3, ReleaseFacts
      <3>2. /\ req[x].id \in Ids /\ req[x].id <= last
            /\ address[req[x].id].owner \in {req[x].user, None}
        BY <1>1, <2>3, <3>1, RequestTypes DEF RowsAndLocks
      <3>3. req[x].id # i /\ req[x].id <= i
        BY <1>3, <3>2, AddressesAssumption DEF Ids
      <3> QED
        BY <1>2, <1>9, <3>1, <3>2, <3>3
    <2> QED
      BY <2>1, <2>2, <2>3 DEF RowsAndLocks
  <1>12. CountStillHolds'
    <2> SUFFICES ASSUME NEW x \in Workers, Doing(x, "create")'
                 PROVE  /\ lock'[req'[x].user] = x
                        /\ req'[x].makeDefault \/ AddressesOf(req[x].user)' # {}
      BY DEF CountStillHolds
    <2>1. x # w /\ Doing(x, "create") /\ req'[x] = req[x] /\ lock'[req[x].user] = x
      BY <1>2, ReleaseFacts
    <2>2. req[x].user \in Users \ {u}
      BY <1>0, <1>1, <1>2, <2>1, RequestTypes DEF CountStillHolds, Doing
    <2> QED
      BY <1>1, <1>10, <2>1, <2>2 DEF CountStillHolds
  <1>13. OneDefaultUnlessRaced'
    <2> SUFFICES ASSUME NEW v \in Users, ~raced'[v], AddressesOf(v)' # {}
                 PROVE  \E k \in Ids : DefaultsOf(v)' = {k}
      BY DEF OneDefaultUnlessRaced
    <2>1. CASE v # u
      BY <1>1, <1>7, <1>10, <2>1 DEF OneDefaultUnlessRaced
    <2>2. CASE v = u /\ req[w].makeDefault
      BY <1>2, <1>6, <2>2
    <2>3. CASE v = u /\ ~req[w].makeDefault
      <3>1. AddressesOf(u) # {} /\ ~raced[u]
        BY <1>0, <1>1, <1>2, <2>3 DEF CountStillHolds
      <3>2. PICK d \in Ids : DefaultsOf(u) = {d}
        BY <1>1, <1>3, <3>1 DEF OneDefaultUnlessRaced
      <3>3. address' = inserted
        BY <1>2, <2>3
      <3>4. DefaultsOf(u)' = DefaultsOf(u)
        <4>1. \A k \in Ids : address'[k].owner = u /\ address'[k].isDefault
                            <=> address[k].owner = u /\ address[k].isDefault
          BY <1>4, <1>5, <3>3 DEF NoAddress
        <4> QED
          BY <4>1 DEF DefaultsOf, AddressesOf
      <3> QED
        BY <2>3, <3>2, <3>4
    <2> QED
      BY <1>3, <2>1, <2>2, <2>3
  <1> QED
    BY <1>8, <1>11, <1>12, <1>13 DEF AddressesInv

\* setDefault, and update with isDefault = true.
LEMMA ChooseKeepsInv ==
  ASSUME AddressesInv, NEW w \in Workers, ChooseDefault(w)
  PROVE  AddressesInv'
  <1>1. TypeOK /\ RowsAndLocks /\ CountStillHolds /\ OneDefaultUnlessRaced
    BY DEF AddressesInv
  <1>2. InTransaction(w, "setDefault") \/ InTransaction(w, "update")
    BY DEF ChooseDefault
  <1>3. PICK u \in Users, i \in Ids : u = req[w].user /\ i = req[w].id
    BY <1>2, TransactionFacts
  <1>4. /\ address' = Choose(address, u, i)
        /\ raced' = [raced EXCEPT ![u] = FALSE]
    BY <1>3 DEF ChooseDefault
  <1>5. /\ address[i].owner = u
        /\ \A x \in Workers : Doing(x, "create") => req[x].user # u
    BY <1>2, <1>3, TransactionFacts
  <1>6. /\ address' \in [Ids -> Addresses]
        /\ \A k \in Ids : address'[k].owner = address[k].owner
        /\ \A k \in Ids : address[k].owner # u => address'[k] = address[k]
        /\ DefaultsOf(u)' = {i}
    BY <1>1, <1>4, <1>5, ChooseLeavesOne DEF TypeOK
  <1>7. raced' \in [Users -> BOOLEAN] /\ \A v \in Users \ {u} : raced'[v] = raced[v]
    BY <1>1, <1>4 DEF TypeOK
  <1>8. \A v \in Users \ {u} : OneDefault(v)'
    BY <1>1, <1>6, <1>7, OthersKeepTheirs DEF OneDefaultUnlessRaced, OneDefault
  <1>9. OneDefaultUnlessRaced'
    BY <1>6, <1>8 DEF OneDefaultUnlessRaced, OneDefault
  <1>10. \A k \in Ids : address[k] = NoAddress => address'[k] = NoAddress
    <2>1. NoAddress.owner # u
      BY AddressesAssumption DEF NoAddress
    <2> QED
      BY <1>6, <2>1
  <1>11. \A v \in Users : AddressesOf(v)' = AddressesOf(v)
    BY <1>6 DEF AddressesOf
  <1> QED
    BY <1>2, <1>6, <1>7, <1>9, <1>10, <1>11, TransactionKeepsRest

\* update with isDefault = false.
LEMMA ClearKeepsInv ==
  ASSUME AddressesInv, NEW w \in Workers, ClearDefault(w)
  PROVE  AddressesInv'
  <1>1. TypeOK /\ RowsAndLocks /\ CountStillHolds /\ OneDefaultUnlessRaced
    BY DEF AddressesInv
  <1>2. InTransaction(w, "update")
    BY DEF ClearDefault
  <1>3. PICK u \in Users, i \in Ids : u = req[w].user /\ i = req[w].id
    BY <1>2, TransactionFacts
  <1>4. /\ address' = [address EXCEPT ![i].isDefault = FALSE]
        /\ raced' = [raced EXCEPT ![u] = raced[u] \/ address[i].isDefault]
    BY <1>3 DEF ClearDefault
  <1>5. address[i].owner = u /\ address[i].isDefault \in BOOLEAN
    BY <1>1, <1>2, <1>3, TransactionFacts, RowTypes
  <1>6. address'[i] = [owner |-> u, isDefault |-> FALSE]
    <2>1. address[i] = [owner |-> u, isDefault |-> address[i].isDefault]
      BY <1>1, <1>5, RowTypes
    <2> DEFINE f == FALSE
    <2>2. address'[i] = [address[i] EXCEPT !.isDefault = f]
      BY <1>1, <1>4 DEF TypeOK
    <2> HIDE DEF f
    <2>3. address'[i] = [owner |-> u, isDefault |-> f]
      BY <2>1, <2>2
    <2> QED
      BY <2>3 DEF f
  <1>7. \A k \in Ids \ {i} : address'[k] = address[k]
    BY <1>1, <1>4 DEF TypeOK
  <1>8. /\ address' \in [Ids -> Addresses]
        /\ \A k \in Ids : address'[k].owner = address[k].owner
    BY <1>1, <1>4, <1>5, <1>6, <1>7 DEF TypeOK, Addresses
  <1>9. raced' \in [Users -> BOOLEAN] /\ \A v \in Users \ {u} : raced'[v] = raced[v]
    <2> DEFINE b == raced[u] \/ address[i].isDefault
    <2>1. b \in BOOLEAN
      OBVIOUS
    <2> HIDE DEF b
    <2>2. raced' = [raced EXCEPT ![u] = b]
      BY <1>4 DEF b
    <2> QED
      BY <1>1, <2>1, <2>2 DEF TypeOK
  <1>10. \A v \in Users \ {u} : OneDefault(v)'
    BY <1>1, <1>5, <1>7, <1>8, <1>9, OthersKeepTheirs DEF OneDefaultUnlessRaced, OneDefault
  <1>11. OneDefault(u)'
    <2> SUFFICES ASSUME ~raced'[u], AddressesOf(u)' # {}
                 PROVE  \E k \in Ids : DefaultsOf(u)' = {k}
      BY DEF OneDefault
    <2>1. ~raced[u] /\ ~address[i].isDefault
      BY <1>1, <1>4 DEF TypeOK
    <2>2. \A k \in Ids : /\ address'[k].owner = address[k].owner
                         /\ address'[k].isDefault <=> address[k].isDefault
      BY <1>6, <1>7, <1>8, <2>1
    <2>3. AddressesOf(u)' = AddressesOf(u) /\ DefaultsOf(u)' = DefaultsOf(u)
      BY <2>2 DEF AddressesOf, DefaultsOf
    <2> QED
      BY <1>1, <2>1, <2>3 DEF OneDefaultUnlessRaced
  <1>12. OneDefaultUnlessRaced'
    BY <1>10, <1>11 DEF OneDefaultUnlessRaced, OneDefault
  <1>13. \A k \in Ids : address[k] = NoAddress => address'[k] = NoAddress
    <2>1. address[i] # NoAddress
      BY <1>5, AddressesAssumption DEF NoAddress
    <2> QED
      BY <1>7, <2>1
  <1>14. \A v \in Users : AddressesOf(v)' = AddressesOf(v)
    BY <1>8 DEF AddressesOf
  <1> QED
    BY <1>2, <1>8, <1>9, <1>12, <1>13, <1>14, TransactionKeepsRest

LEMMA RemoveKeepsInv ==
  ASSUME AddressesInv, NEW w \in Workers, RemoveCommit(w)
  PROVE  AddressesInv'
  <1>1. TypeOK /\ RowsAndLocks /\ CountStillHolds /\ OneDefaultUnlessRaced
    BY DEF AddressesInv
  <1>2. InTransaction(w, "remove")
    BY DEF RemoveCommit
  <1>3. PICK u \in Users, i \in Ids, d \in BOOLEAN :
          u = req[w].user /\ i = req[w].id /\ d = req[w].isDefault
    BY <1>1, <1>2, TransactionFacts, RequestTypes DEF InTransaction, Doing
  <1>4. PICK heirs \in SUBSET Ids : heirs = (IF d THEN Successor(u, i) ELSE {})
    BY DEF Successor, Newest, AddressesOf
  <1>5. /\ address' = [k \in Ids |-> IF k = i THEN NoAddress
                                     ELSE IF k \in heirs THEN [owner |-> u, isDefault |-> TRUE]
                                     ELSE address[k]]
        /\ raced' = [raced EXCEPT ![u] = raced[u] \/ d # address[i].isDefault]
    BY <1>3, <1>4 DEF RemoveCommit
  <1>6. address[i].owner = u /\ address[i].isDefault \in BOOLEAN /\ u # None
    BY <1>1, <1>2, <1>3, TransactionFacts, RowTypes, AddressesAssumption
  <1>7. heirs \subseteq AddressesOf(u) \ {i}
    BY <1>4 DEF Successor, Newest
  <1>8. /\ address'[i] = NoAddress /\ NoAddress.owner = None
        /\ \A k \in heirs : address'[k] = [owner |-> u, isDefault |-> TRUE]
        /\ \A k \in Ids \ (heirs \cup {i}) : address'[k] = address[k]
    BY <1>5, <1>7 DEF NoAddress
  <1>9. address' \in [Ids -> Addresses]
    <2>1. NoAddress \in Addresses /\ [owner |-> u, isDefault |-> TRUE] \in Addresses
      BY DEF Addresses
    <2> QED
      BY <1>1, <1>5, <2>1 DEF TypeOK
  <1>10. \A k \in Ids \ {i} : address'[k].owner = address[k].owner
    BY <1>7, <1>8 DEF AddressesOf
  <1>11. raced' \in [Users -> BOOLEAN] /\ \A v \in Users \ {u} : raced'[v] = raced[v]
    <2> DEFINE b == raced[u] \/ d # address[i].isDefault
    <2>1. b \in BOOLEAN
      OBVIOUS
    <2> HIDE DEF b
    <2>2. raced' = [raced EXCEPT ![u] = b]
      BY <1>5 DEF b
    <2> QED
      BY <1>1, <2>1, <2>2 DEF TypeOK
  <1>12. \A v \in Users \ {u} : OneDefault(v)'
    <2> SUFFICES ASSUME NEW v \in Users \ {u} PROVE OneDefault(v)'
      OBVIOUS
    <2>1. v # None
      BY AddressesAssumption
    <2>2. \A k \in Ids : /\ address[k].owner = v <=> address'[k].owner = v
                         /\ address[k].owner = v => address'[k] = address[k]
      BY <1>6, <1>7, <1>8, <1>10, <2>1 DEF AddressesOf
    <2> QED
      BY <1>1, <1>11, <2>2, OthersKeepTheirs DEF OneDefaultUnlessRaced, OneDefault
  <1>13. OneDefault(u)'
    <2> SUFFICES ASSUME ~raced'[u], AddressesOf(u)' # {}
                 PROVE  \E k \in Ids : DefaultsOf(u)' = {k}
      BY DEF OneDefault
    <2>1. ~raced[u] /\ d = address[i].isDefault
      BY <1>1, <1>5 DEF TypeOK
    <2>2. AddressesOf(u)' = AddressesOf(u) \ {i}
      BY <1>6, <1>8, <1>10 DEF AddressesOf
    <2>3. i \in AddressesOf(u)
      BY <1>6 DEF AddressesOf
    <2>4. PICK e \in Ids : DefaultsOf(u) = {e}
      BY <1>1, <2>1, <2>3 DEF OneDefaultUnlessRaced
    <2>5. CASE d
      <3>1. e = i
        BY <2>1, <2>3, <2>4, <2>5 DEF DefaultsOf
      <3>2. PICK h \in Ids : heirs = {h}
        BY <1>4, <2>2, <2>5, NewestExists DEF Successor, AddressesOf
      <3>3. \A k \in Ids \ {i, h} : address'[k] = address[k]
        BY <1>8, <3>2
      <3>4. DefaultsOf(u)' = {h}
        <4>1. h # i /\ address'[h].owner = u /\ address'[h].isDefault
          BY <1>7, <1>8, <3>2
        <4>2. address'[i].owner # u
          BY <1>6, <1>8
        <4>3. ASSUME NEW k \in Ids \ {i, h}, address'[k].owner = u PROVE ~address'[k].isDefault
          <5>1. k \notin DefaultsOf(u)
            BY <2>4, <3>1
          <5> QED
            BY <3>3, <4>3, <5>1 DEF DefaultsOf, AddressesOf
        <4> QED
          BY <4>1, <4>2, <4>3 DEF DefaultsOf, AddressesOf
      <3> QED
        BY <3>4
    <2>6. CASE ~d
      <3>1. heirs = {} /\ ~address[i].isDefault
        BY <1>4, <2>1, <2>6
      <3>2. \A k \in Ids \ {i} : address'[k] = address[k]
        BY <1>8, <3>1
      <3>3. DefaultsOf(u)' = DefaultsOf(u)
        BY <1>6, <1>8, <3>1, <3>2 DEF DefaultsOf, AddressesOf
      <3> QED
        BY <2>4, <3>3
    <2> QED
      BY <2>5, <2>6
  <1>14. OneDefaultUnlessRaced'
    BY <1>12, <1>13 DEF OneDefaultUnlessRaced, OneDefault
  <1>15. \A k \in Ids : address[k] = NoAddress => address'[k] = NoAddress
    BY <1>6, <1>7, <1>8 DEF AddressesOf
  <1>16. \A k \in Ids : address'[k].owner \in {address[k].owner, None}
    BY <1>8, <1>10
  <1>17. \A v \in Users \ {u} : AddressesOf(v) # {} => AddressesOf(v)' # {}
    BY <1>6, <1>10 DEF AddressesOf
  <1> QED
    BY <1>2, <1>3, <1>9, <1>11, <1>14, <1>15, <1>16, <1>17, TransactionKeepsRest
-----------------------------------------------------------------------------
(* The theorems *)

LEMMA AddressesInit == Init => AddressesInv
  <1> SUFFICES ASSUME Init PROVE AddressesInv
    OBVIOUS
  <1>1. TypeOK
    BY AddressesAssumption DEF Init, TypeOK, Addresses, Requests
  <1>2. RowsAndLocks /\ CountStillHolds
    BY DEF Init, RowsAndLocks, CountStillHolds, Doing, Idle
  <1>3. \A u \in Users : AddressesOf(u) = {}
    BY AddressesAssumption DEF Init, AddressesOf, NoAddress
  <1> QED
    BY <1>1, <1>2, <1>3 DEF AddressesInv, OneDefaultUnlessRaced

LEMMA AddressesStep == AddressesInv /\ [Next]_vars => AddressesInv'
  <1> SUFFICES ASSUME AddressesInv, [Next]_vars PROVE AddressesInv'
    OBVIOUS
  <1>1. CASE UNCHANGED vars
    BY <1>1 DEF vars, AddressesInv, TypeOK, RowsAndLocks, CountStillHolds,
                OneDefaultUnlessRaced, AddressesOf, DefaultsOf, Doing
  <1>2. CASE Next
    BY <1>2, ReadsKeepInv, CreateWriteKeepsInv, ChooseKeepsInv, ClearKeepsInv,
       RemoveKeepsInv, AbortKeepsInv DEF Next
  <1> QED
    BY <1>1, <1>2

\* AddressesInv, the invariant that the step preserves, holds in every state.
THEOREM AddressesCorrect == Spec => []AddressesInv
  BY AddressesInit, AddressesStep, PTL DEF Spec

\* Rows and requests keep their types.
THEOREM AddressTypesCorrect == Spec => []TypeOK
  <1>1. AddressesInv => TypeOK
    BY DEF AddressesInv
  <1> QED
    BY <1>1, AddressesCorrect, PTL

\* What create has counted under the lock still holds when it writes.
THEOREM CountCorrect == Spec => []CountStillHolds
  <1>1. AddressesInv => CountStillHolds
    BY DEF AddressesInv
  <1> QED
    BY <1>1, AddressesCorrect, PTL

\* A user with addresses has exactly one default, unless a race on isDefault was lost
\* and no default has been chosen since.
THEOREM DefaultCorrect == Spec => []OneDefaultUnlessRaced
  <1>1. AddressesInv => OneDefaultUnlessRaced
    BY DEF AddressesInv
  <1> QED
    BY <1>1, AddressesCorrect, PTL
=============================================================================
