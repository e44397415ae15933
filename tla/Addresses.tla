------------------------------ MODULE Addresses ------------------------------
(***************************************************************************)
(* AddressesService: the address book of each user, with one default       *)
(* address that several handlers move.                                     *)
(*                                                                         *)
(* Every transaction locks the user's row first, and reads and writes the  *)
(* addresses after that.  create decides on a count it makes under the     *)
(* lock, and is two steps to show what the lock is for.  update, remove    *)
(* and setDefault look the address up before they lock; the transaction    *)
(* that follows is one step.                                               *)
(*                                                                         *)
(* Left out: the other fields, and the foreign key of orders, which only   *)
(* makes the removal of some addresses fail.                               *)
(*                                                                         *)
(* An operator with the suffix _bug is a wrong variant of the one that     *)
(* follows it, for mutation tests.                                         *)
(***************************************************************************)
EXTENDS Integers

CONSTANTS
  Users,
  Workers,       \* requests handled at the same time
  MaxAddresses,  \* bound: addresses that may ever be created
  None           \* SQL NULL

ASSUME AddressesAssumption ==
  /\ MaxAddresses \in Nat
  /\ None \notin Users \cup Workers

\* Addresses are numbered in the order of createdAt.
Ids == 1 .. MaxAddresses

VARIABLES
  address,  \* addresses: owner and isDefault; a row that is not there has no owner
  last,     \* the latest address created
  lock,     \* who holds the row lock of a user across steps
  raced,    \* history: users whose default was changed on an outdated isDefault
            \* and has not been chosen since
  req       \* what each worker is doing

vars == <<address, last, lock, raced, req>>

NoAddress == [owner |-> None, isDefault |-> FALSE]
Addresses == [owner : Users, isDefault : BOOLEAN] \cup {NoAddress}

\* update and remove remember isDefault: the one asked for, and the one that was read.
Idle == [op |-> "idle"]
Requests ==
  {Idle}
    \cup [op : {"create"}, user : Users, makeDefault : BOOLEAN]
    \cup [op : {"update", "remove"}, user : Users, id : Ids, isDefault : BOOLEAN]
    \cup [op : {"setDefault"}, user : Users, id : Ids]

\* Types of the rows and of the requests in flight.
TypeOK ==
  /\ address \in [Ids -> Addresses]
  /\ last \in 0 .. MaxAddresses
  /\ lock \in [Users -> Workers \cup {None}]
  /\ raced \in [Users -> BOOLEAN]
  /\ req \in [Workers -> Requests]

Init ==
  /\ address = [i \in Ids |-> NoAddress]
  /\ last = 0
  /\ lock = [u \in Users |-> None]
  /\ raced = [u \in Users |-> FALSE]
  /\ req = [w \in Workers |-> Idle]

AddressesOf(u) == {i \in Ids : address[i].owner = u}
DefaultsOf(u) == {i \in AddressesOf(u) : address[i].isDefault}
Doing(w, op) == req[w].op = op
Start(w, r) == Doing(w, "idle") /\ req' = [req EXCEPT ![w] = r]
Finish(w) == req' = [req EXCEPT ![w] = Idle]
\* lockUserAddressSet, and the end of the transaction.
LockFree_bug(u) == TRUE
LockFree(u) == lock[u] = None
Release(w) == lock' = [u \in Users |-> IF lock[u] = w THEN None ELSE lock[u]]

\* The rows once isDefault is cleared on all addresses of u and set on address i.
Choose(rows, u, i) ==
  [k \in Ids |-> [rows[k] EXCEPT !.isDefault = (k = i) \/ (rows[k].isDefault /\ rows[k].owner # u)]]
-----------------------------------------------------------------------------
(* create *)

\* Under the lock: the first address of a user becomes the default anyway.
FirstIsDefault(u, wish) == wish \/ AddressesOf(u) = {}

CreateCount(w, u, wish) ==
  /\ LockFree(u)
  /\ Start(w, [op |-> "create", user |-> u, makeDefault |-> FirstIsDefault(u, wish)])
  /\ lock' = [lock EXCEPT ![u] = w]
  /\ UNCHANGED <<address, last, raced>>

CreateWrite(w) ==
  LET u == req[w].user
      i == last + 1
      inserted == [address EXCEPT ![i] = [owner |-> u, isDefault |-> FALSE]]
  IN  /\ Doing(w, "create")
      /\ i \in Ids
      /\ last' = i
      /\ IF req[w].makeDefault
         THEN address' = Choose(inserted, u, i) /\ raced' = [raced EXCEPT ![u] = FALSE]
         ELSE address' = inserted /\ UNCHANGED raced
      /\ Release(w)
      /\ Finish(w)
-----------------------------------------------------------------------------
(* update and setDefault *)

\* findOwnedAddress, and the refusal to take isDefault from the default address.
UpdateRead(w, i, isDefault) ==
  /\ address[i].owner # None
  /\ isDefault \/ ~address[i].isDefault
  /\ Start(w, [op |-> "update", user |-> address[i].owner, id |-> i,
               isDefault |-> isDefault])
  /\ UNCHANGED <<address, last, lock, raced>>

SetDefaultRead(w, i) ==
  /\ address[i].owner # None
  /\ Start(w, [op |-> "setDefault", user |-> address[i].owner, id |-> i])
  /\ UNCHANGED <<address, last, lock, raced>>

\* The row the transaction updates or deletes: if it was removed in between, nothing
\* matches and the transaction rolls back.
StillThere(i) == address[i].owner # None

InTransaction(w, op) ==
  /\ Doing(w, op)
  /\ LockFree(req[w].user)
  /\ StillThere(req[w].id)
  /\ Finish(w)
  /\ UNCHANGED <<last, lock>>

\* setDefault, and update with isDefault = true.
ChooseDefault(w) ==
  LET u == req[w].user IN
  /\ \/ InTransaction(w, "setDefault")
     \/ InTransaction(w, "update") /\ req[w].isDefault
  /\ address' = Choose(address, u, req[w].id)
  /\ raced' = [raced EXCEPT ![u] = FALSE]

\* update with isDefault = false: the refusal is not repeated.
ClearDefault(w) ==
  LET u == req[w].user
      i == req[w].id
  IN  /\ InTransaction(w, "update")
      /\ ~req[w].isDefault
      /\ address' = [address EXCEPT ![i].isDefault = FALSE]
      /\ raced' = [raced EXCEPT ![u] = raced[u] \/ address[i].isDefault]
-----------------------------------------------------------------------------
(* remove *)

RemoveRead(w, i) ==
  /\ address[i].owner # None
  /\ Start(w, [op |-> "remove", user |-> address[i].owner, id |-> i,
               isDefault |-> address[i].isDefault])
  /\ UNCHANGED <<address, last, lock, raced>>

Newest(S) == {i \in S : \A k \in S : k <= i}

\* If the address was the default when it was looked up, the newest of the others
\* takes over.
Successor_bug(u, i) == {}
Successor(u, i) == Newest(AddressesOf(u) \ {i})

RemoveCommit(w) ==
  LET u == req[w].user
      i == req[w].id
      heirs == IF req[w].isDefault THEN Successor(u, i) ELSE {}
  IN  /\ InTransaction(w, "remove")
      /\ address' = [k \in Ids |-> IF k = i THEN NoAddress
                                   ELSE IF k \in heirs THEN [owner |-> u, isDefault |-> TRUE]
                                   ELSE address[k]]
      /\ raced' = [raced EXCEPT ![u] = raced[u] \/ req[w].isDefault # address[i].isDefault]
-----------------------------------------------------------------------------
\* A request that ends without a change: its address is gone, or its transaction is
\* rolled back.
Abort(w) ==
  /\ ~Doing(w, "idle")
  /\ Finish(w)
  /\ Release(w)
  /\ UNCHANGED <<address, last, raced>>

Next ==
  \E w \in Workers :
    \/ \E u \in Users, wish \in BOOLEAN : CreateCount(w, u, wish)
    \/ \E i \in Ids :
         \/ \E isDefault \in BOOLEAN : UpdateRead(w, i, isDefault)
         \/ SetDefaultRead(w, i)
         \/ RemoveRead(w, i)
    \/ CreateWrite(w) \/ ChooseDefault(w) \/ ClearDefault(w) \/ RemoveCommit(w)
    \/ Abort(w)

Spec == Init /\ [][Next]_vars
-----------------------------------------------------------------------------
(* Safety *)

\* create decides on a count and writes later.  The count still holds when it
\* writes: no other create, and no removal of the last address, got in between.
CountStillHolds ==
  \A w \in Workers : Doing(w, "create") =>
    /\ lock[req[w].user] = w
    /\ req[w].makeDefault \/ AddressesOf(req[w].user) # {}

\* A user with addresses has exactly one default, as long as no update or removal
\* has acted on an isDefault that changed after it was read; and choosing a default
\* puts it right again.
OneDefaultUnlessRaced ==
  \A u \in Users :
    ~raced[u] /\ AddressesOf(u) # {} => \E i \in Ids : DefaultsOf(u) = {i}

\* What makes these inductive: a row that is there has been created, and only a
\* create holds a lock between steps, that of its user.
RowsAndLocks ==
  /\ \A i \in Ids : i > last => address[i] = NoAddress
  /\ \A u \in Users : lock[u] # None =>
       Doing(lock[u], "create") /\ req[lock[u]].user = u
  /\ \A w \in Workers : req[w].op \in {"update", "remove", "setDefault"} =>
       address[req[w].id].owner \in {req[w].user, None} /\ req[w].id <= last

AddressesInv == TypeOK /\ RowsAndLocks /\ CountStillHolds /\ OneDefaultUnlessRaced
=============================================================================
