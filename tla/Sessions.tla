------------------------------ MODULE Sessions ------------------------------
(***************************************************************************)
(* AuthService over the tables users and refresh_tokens: registering,      *)
(* logging in, rotating a refresh token, detecting its reuse, logging out  *)
(* and changing the password, while admins promote, demote, deactivate and *)
(* remove users (UsersService).                                            *)
(*                                                                         *)
(* A session is what a login starts: a chain of refresh tokens, each one   *)
(* issued for the one before it.  Handlers check first and write in a      *)
(* later transaction.  The transactions are one step each: all of them     *)
(* write or scan, under locks, the unrevoked tokens of one user.           *)
(*                                                                         *)
(* Access tokens are not stored and expire by themselves; the expiry of a  *)
(* refresh token only makes a refresh fail earlier.  Both are left out.    *)
(*                                                                         *)
(* An operator with the suffix _bug is a wrong variant of the one that     *)
(* follows it, for mutation tests.                                         *)
(***************************************************************************)
EXTENDS Integers

CONSTANTS
  Users,
  Admins,       \* the accounts the seed gives the role ADMIN
  Tokens,       \* the refresh tokens that may ever be drawn
  Workers,      \* requests handled at the same time
  MaxPassword,  \* bound: no change of password starts from this one on
  None          \* SQL NULL

Roles == {"CUSTOMER", "ADMIN"}

ASSUME SessionsAssumption ==
  /\ Admins \subseteq Users /\ Admins # {}
  /\ MaxPassword \in Nat
  /\ None \notin Users \cup Tokens \cup Roles \cup {"yes", "no"}

VARIABLES
  account,  \* users: the current password, role, isActive, whether deletedAt is set
  token,    \* refresh_tokens
  ended,    \* history: sessions that a logout, a password change or a reuse ended
  req       \* what each worker is doing

vars == <<account, token, ended, req>>

\* Passwords are numbered in the order they are set; 0 means no account yet.
NoAccount == [password |-> 0, role |-> "CUSTOMER", active |-> FALSE, deleted |-> FALSE]
NewAccount(role) == [password |-> 1, role |-> role, active |-> TRUE, deleted |-> FALSE]
Accounts == [password : Nat, role : Roles, active : BOOLEAN, deleted : BOOLEAN]

\* What an admin may do to an account: update with a role and a status, either of
\* which may be left out, toggleActive, and remove.
Removal == [role |-> None, active |-> "no", remove |-> TRUE]
Changes == [role : Roles \cup {None}, active : {"yes", "no", None}, remove : {FALSE}]
             \cup {Removal}

\* A row says whose the token is and whether it is revoked.  The rest is history:
\* the first token of its session, the password that login checked, and whether
\* that password had been replaced by the time the first token was stored.  A
\* token that was never issued cannot be used any more than a revoked one.
NoToken ==
  [user |-> None, revoked |-> TRUE, root |-> None, proof |-> 0, late |-> FALSE]
TokenRows ==
  [user : Users \cup {None}, revoked : BOOLEAN, root : Tokens \cup {None},
   proof : Nat, late : BOOLEAN]

Idle == [op |-> "idle"]
Requests ==
  {Idle}
    \cup [op : {"login", "change"}, user : Users, proof : Nat \ {0}]
    \cup [op : {"refresh", "rotate"}, token : Tokens]
    \cup [op : {"reuse", "admin"}, user : Users]
    \cup [op : {"manage"}, user : Users, change : Changes]

\* Types of the rows and of the requests in flight.  Nobody proves a password who
\* has none: a request past the password check is one of a registered user.
TypeOK ==
  /\ account \in [Users -> Accounts]
  /\ token \in [Tokens -> TokenRows]
  /\ ended \subseteq Tokens
  /\ req \in [Workers -> Requests]

Init ==
  /\ account = [u \in Users |-> IF u \in Admins THEN NewAccount("ADMIN") ELSE NoAccount]
  /\ token = [t \in Tokens |-> NoToken]
  /\ ended = {}
  /\ req = [w \in Workers |-> Idle]

Registered(u) == account[u].password # 0
Usable_bug(u) == ~account[u].deleted
Usable(u) == account[u].active /\ ~account[u].deleted
Issued(t) == token[t].user # None
Live(t) == ~token[t].revoked
TokensOf(u) == {t \in Tokens : token[t].user = u}
Doing(w, op) == req[w].op = op
Start(w, r) == Doing(w, "idle") /\ req' = [req EXCEPT ![w] = r]
Finish(w) == req' = [req EXCEPT ![w] = Idle]

\* generateTokensInTx: insert a token nobody has seen before.
Issue(t, row) == ~Issued(t) /\ token' = [token EXCEPT ![t] = row]

\* UPDATE refresh_tokens SET revokedAt ... WHERE userId = u AND revokedAt IS NULL.
RevokeAll_bug(u) == token' = token
RevokeAll(u) ==
  token' = [t \in Tokens |-> IF t \in TokensOf(u) THEN [token[t] EXCEPT !.revoked = TRUE]
                             ELSE token[t]]
EndSessions(u) == RevokeAll(u) /\ ended' = ended \cup {token[t].root : t \in TokensOf(u)}
-----------------------------------------------------------------------------
(* register and login *)

Register(u, t) ==
  /\ ~Registered(u)
  /\ account' = [account EXCEPT ![u] = NewAccount("CUSTOMER")]
  /\ Issue(t, [user |-> u, revoked |-> FALSE, root |-> t, proof |-> 1, late |-> FALSE])
  /\ UNCHANGED <<ended, req>>

\* The account is read and the password compared ...
LoginRead(w, u) ==
  /\ Usable(u)
  /\ Start(w, [op |-> "login", user |-> u, proof |-> account[u].password])
  /\ UNCHANGED <<account, token, ended>>

\* ... and the token is stored later, with no second look at the account.
LoginCommit(w, t) ==
  LET r == req[w] IN
  /\ Doing(w, "login")
  /\ Issue(t, [user |-> r.user, revoked |-> FALSE, root |-> t, proof |-> r.proof,
               late |-> r.proof # account[r.user].password])
  /\ Finish(w)
  /\ UNCHANGED <<account, ended>>
-----------------------------------------------------------------------------
(* refreshTokens *)

\* The token is known and not revoked.
RefreshRead(w, t) ==
  /\ Live(t)
  /\ Start(w, [op |-> "refresh", token |-> t])
  /\ UNCHANGED <<account, token, ended>>

\* Its user is read next.
RefreshUser(w) ==
  LET t == req[w].token IN
  /\ Doing(w, "refresh")
  /\ IF Usable(token[t].user) THEN req' = [req EXCEPT ![w] = [op |-> "rotate", token |-> t]]
     ELSE Finish(w)
  /\ UNCHANGED <<account, token, ended>>

\* WHERE id = <the token> AND revokedAt IS NULL.
RotateGuard_bug(t) == TRUE
RotateGuard(t) == Live(t)

\* Revoke the old token and issue the next one of its session, in one transaction.
Rotate(w, next) ==
  LET t == req[w].token IN
  /\ Doing(w, "rotate")
  /\ RotateGuard(t)
  /\ ~Issued(next)
  /\ token' = [token EXCEPT ![t].revoked = TRUE,
                            ![next] = [token[t] EXCEPT !.revoked = FALSE]]
  /\ Finish(w)
  /\ UNCHANGED <<account, ended>>

\* Somebody was faster: this transaction rolls back ...
RotateReuse(w) ==
  /\ Doing(w, "rotate")
  /\ ~RotateGuard(req[w].token)
  /\ req' = [req EXCEPT ![w] = [op |-> "reuse", user |-> token[req[w].token].user]]
  /\ UNCHANGED <<account, token, ended>>

\* ... and a write of its own revokes every token of the user.
RevokeFamily(w) ==
  /\ Doing(w, "reuse")
  /\ EndSessions(req[w].user)
  /\ Finish(w)
  /\ UNCHANGED account
-----------------------------------------------------------------------------
(* logout and changePassword *)

\* The caller was authenticated by an access token, which outlives deactivation
\* by the time it takes to reach this statement.
Logout(u) ==
  /\ Registered(u)
  /\ EndSessions(u)
  /\ UNCHANGED <<account, req>>

ChangeRead(w, u) ==
  /\ Usable(u)
  /\ account[u].password < MaxPassword
  /\ Start(w, [op |-> "change", user |-> u, proof |-> account[u].password])
  /\ UNCHANGED <<account, token, ended>>

\* The update of the password does not look at the old one again.
ChangeCommit(w) ==
  LET u == req[w].user IN
  /\ Doing(w, "change")
  /\ account' = [account EXCEPT ![u].password = account[u].password + 1]
  /\ EndSessions(u)
  /\ Finish(w)
-----------------------------------------------------------------------------
(* UsersService: update, toggleActive and remove *)

IsAdmin(u) == account[u].role = "ADMIN"

\* JwtStrategy.validate and RolesGuard: the caller's role as it is when the request
\* comes in, which is the one the handler goes by.
Authorize(w, u) ==
  /\ Usable(u)
  /\ IsAdmin(u)
  /\ Start(w, [op |-> "admin", user |-> u])
  /\ UNCHANGED <<account, token, ended>>

\* Nobody switches an admin off or lowers its role, nor that of the own account.
Lowers(change) == change.active = "no" \/ change.role = "CUSTOMER"
MayManage_bug(actor, u, change) == Lowers(change) => actor # u
MayManage(actor, u, change) == Lowers(change) => actor # u /\ ~IsAdmin(u)

\* The account to change is read and the rules are checked on what was read ...
ManageRead(w, u, change) ==
  /\ Doing(w, "admin")
  /\ Registered(u)
  /\ ~account[u].deleted
  /\ MayManage(req[w].user, u, change)
  /\ req' = [req EXCEPT ![w] = [op |-> "manage", user |-> u, change |-> change]]
  /\ UNCHANGED <<account, token, ended>>

\* ... and the update looks at nothing again.  A field left out keeps its column;
\* deletedAt is set by remove alone.
Changed(row, change) ==
  [password |-> row.password,
   role |-> IF change.role = None THEN row.role ELSE change.role,
   active |-> IF change.active = None THEN row.active ELSE change.active = "yes",
   deleted |-> row.deleted \/ change.remove]
ManageCommit(w) ==
  LET u == req[w].user IN
  /\ Doing(w, "manage")
  /\ account' = [account EXCEPT ![u] = Changed(account[u], req[w].change)]
  /\ Finish(w)
  /\ UNCHANGED <<token, ended>>
-----------------------------------------------------------------------------
\* A transaction that is rolled back, a lost connection, a process that dies.
Abort(w) ==
  /\ ~Doing(w, "idle")
  /\ Finish(w)
  /\ UNCHANGED <<account, token, ended>>

Next ==
  \/ \E u \in Users : Logout(u) \/ \E t \in Tokens : Register(u, t)
  \/ \E w \in Workers :
       \/ \E u \in Users :
            \/ LoginRead(w, u)
            \/ ChangeRead(w, u)
            \/ Authorize(w, u)
            \/ \E change \in Changes : ManageRead(w, u, change)
       \/ \E t \in Tokens : LoginCommit(w, t) \/ RefreshRead(w, t) \/ Rotate(w, t)
       \/ RefreshUser(w) \/ RotateReuse(w) \/ RevokeFamily(w)
       \/ ChangeCommit(w) \/ ManageCommit(w)
       \/ Abort(w)

Spec == Init /\ [][Next]_vars
-----------------------------------------------------------------------------
(* Safety *)

\* However many requests present a token at once, a session is a chain: at most
\* one of its tokens can still be rotated.
SessionIsAChain ==
  \A s, t \in Tokens : Live(s) /\ Live(t) /\ token[s].root = token[t].root => s = t

\* A session ended by a logout, a password change or a detected reuse stays
\* ended, though a refresh of one of its tokens was past its checks already.
EndedSessionsStayEnded == \A t \in Tokens : Live(t) => token[t].root \notin ended

\* A session that outlives a change of password is one whose login had compared
\* the old password before the change and stored its token after it; no refresh
\* carries any other session over.
OldSessionsAreLateLogins ==
  \A t \in Tokens : Live(t) =>
    token[t].proof = account[token[t].user].password \/ token[t].late

\* There is always an admin who can get in.  Admins guard each other and nobody acts
\* on the own account, so the last one cannot be locked out, whatever is under way
\* at once: a customer promoted while being switched off is lost, but not those who
\* were admins before.
SomebodyIsAdmin == \E u \in Users : Usable(u) /\ IsAdmin(u)

\* Why: no request in flight lowers an account of the seed, which all stay as they are.
SeededAdminsStay ==
  \A u \in Admins :
    /\ Usable(u) /\ IsAdmin(u)
    /\ \A w \in Workers : Doing(w, "manage") /\ req[w].user = u => ~Lowers(req[w].change)

\* What makes the above inductive: a token belongs to an account and to a session
\* whose first token is the same account's, and every ended session has one too.
SessionsHaveRoots ==
  /\ \A t \in Tokens : Issued(t) =>
       /\ Registered(token[t].user)
       /\ token[t].root \in Tokens /\ token[token[t].root].user = token[t].user
  /\ \A t \in Tokens : Live(t) => Issued(t)
  /\ \A t \in ended : Issued(t)

\* A request that is past its checks holds a token or an account that exists.
RequestsAdmitted ==
  /\ \A u \in Users : account[u].active => Registered(u)
  /\ \A w \in Workers :
       /\ req[w].op \in {"refresh", "rotate"} => Issued(req[w].token)
       /\ req[w].op \in {"login", "change", "manage"} => Registered(req[w].user)

SessionInv ==
  /\ TypeOK
  /\ SessionsHaveRoots
  /\ RequestsAdmitted
  /\ SessionIsAChain
  /\ EndedSessionsStayEnded
  /\ OldSessionsAreLateLogins
  /\ SeededAdminsStay
=============================================================================
