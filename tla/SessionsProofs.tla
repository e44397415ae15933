--------------------------- MODULE SessionsProofs ---------------------------
(***************************************************************************)
(* Theorems about module Sessions, for every number of users, tokens and   *)
(* requests.                                                               *)
(***************************************************************************)
EXTENDS Sessions, TLAPS

USE DEF vars
-----------------------------------------------------------------------------
(* Types *)

\* What the type invariant says of a request, by the step it waits for.
LEMMA RequestTypes ==
  ASSUME TypeOK, NEW w \in Workers
  PROVE  /\ req[w].op \in {"login", "change"} =>
              req[w].user \in Users /\ req[w].proof \in Nat \ {0}
         /\ req[w].op \in {"refresh", "rotate"} => req[w].token \in Tokens
         /\ req[w].op \in {"reuse", "admin"} => req[w].user \in Users
         /\ req[w].op = "manage" => req[w].user \in Users /\ req[w].change \in Changes
  <1>1. req[w] \in Requests
    BY DEF TypeOK
  <1> QED
    BY <1>1 DEF Requests, Idle

\* The user of an issued token is a user.
LEMMA TokenUser ==
  ASSUME TypeOK, NEW t \in Tokens, Issued(t)
  PROVE  token[t].user \in Users
  BY DEF TypeOK, TokenRows, Issued

\* Moving one request on keeps the type of all of them.
LEMMA RequestMoves ==
  ASSUME TypeOK, NEW w \in Workers, NEW r \in Requests,
         req' = [req EXCEPT ![w] = r]
  PROVE  req' \in [Workers -> Requests]
  BY DEF TypeOK

LEMMA FinishMoves ==
  ASSUME TypeOK, NEW w \in Workers, Finish(w)
  PROVE  req' \in [Workers -> Requests]
  BY DEF TypeOK, Finish, Requests

\* Ending the sessions of a user only revokes tokens and adds to the history.
LEMMA EndTypes ==
  ASSUME TypeOK, SessionsHaveRoots, NEW u \in Users, EndSessions(u)
  PROVE  /\ token' \in [Tokens -> TokenRows]
         /\ ended' \subseteq Tokens
  <1>1. token' \in [Tokens -> TokenRows]
    BY DEF TypeOK, TokenRows, EndSessions, RevokeAll
  <1>2. \A t \in TokensOf(u) : t \in Tokens /\ token[t].root \in Tokens
    BY SessionsAssumption DEF TokensOf, SessionsHaveRoots, Issued
  <1> QED
    BY <1>1, <1>2 DEF TypeOK, EndSessions

\* What a rotation does to the rows, field by field.
LEMMA RotateEffect ==
  ASSUME TypeOK, RequestsAdmitted, NEW w \in Workers, NEW next \in Tokens, Rotate(w, next)
  PROVE  LET t == req[w].token IN
         /\ t \in Tokens /\ Issued(t) /\ ~Issued(next)
         /\ RotateGuard(t)
         /\ token' \in [Tokens -> TokenRows]
         /\ \A s \in Tokens \ {t, next} : token'[s] = token[s]
         /\ token'[t].revoked = TRUE
         /\ \A s \in {t, next} : /\ token'[s].user = token[t].user
                                 /\ token'[s].root = token[t].root
                                 /\ token'[s].proof = token[t].proof
                                 /\ token'[s].late = token[t].late
  <1> DEFINE t == req[w].token
             old == [token[t] EXCEPT !.revoked = TRUE]
             new == [token[t] EXCEPT !.revoked = FALSE]
  <1>1. t \in Tokens /\ Issued(t) /\ ~Issued(next)
    BY RequestTypes DEF Rotate, Doing, RequestsAdmitted
  <1>2. token[t] \in TokenRows
    BY <1>1 DEF TypeOK
  <1>3. /\ old \in TokenRows /\ old.revoked = TRUE
        /\ new \in TokenRows
        /\ \A r \in {old, new} : /\ r.user = token[t].user
                                 /\ r.root = token[t].root
                                 /\ r.proof = token[t].proof
                                 /\ r.late = token[t].late
    BY <1>2 DEF TokenRows
  <1>4. token' = [token EXCEPT ![t] = old, ![next] = new]
    BY DEF Rotate
  <1> HIDE DEF old, new
  <1>5. t # next
    BY <1>1
  <1>6. token'[t] = old /\ token'[next] = new
    BY <1>1, <1>4, <1>5 DEF TypeOK
  <1>7. token' \in [Tokens -> TokenRows]
    BY <1>1, <1>3, <1>4 DEF TypeOK
  <1>8. \A s \in Tokens \ {t, next} : token'[s] = token[s]
    BY <1>4 DEF TypeOK
  <1>9. RotateGuard(t)
    BY DEF Rotate
  <1> QED
    BY <1>1, <1>3, <1>6, <1>7, <1>8, <1>9

\* The fields of a change, a removal being one.
LEMMA ChangeFields ==
  ASSUME NEW c \in Changes
  PROVE  /\ c.role \in Roles \cup {None}
         /\ c.active \in {"yes", "no", None}
         /\ c # Removal => c.remove = FALSE
  <1>1. CASE c = Removal
    <2>1. c.role = None /\ c.active = "no"
      BY <1>1 DEF Removal
    <2> QED
      BY <1>1, <2>1
  <1>2. CASE c \in [role : Roles \cup {None}, active : {"yes", "no", None}, remove : {FALSE}]
    BY <1>2
  <1> QED
    BY <1>1, <1>2 DEF Changes

\* A change keeps the type of the row, and its password.
LEMMA ChangedType ==
  ASSUME NEW row \in Accounts, NEW c \in Changes
  PROVE  Changed(row, c) \in Accounts /\ Changed(row, c).password = row.password
  <1>1. c.role \in Roles \cup {None}
    BY ChangeFields
  <1>2. row.role \in Roles /\ row.active \in BOOLEAN /\ row.password \in Nat
    BY DEF Accounts
  <1>3. (row.deleted \/ c.remove) \in BOOLEAN /\ (c.active = "yes") \in BOOLEAN
    OBVIOUS
  <1> QED
    BY <1>1, <1>2, <1>3 DEF Changed, Accounts

\* Every step keeps the types.
LEMMA TypeStep ==
  ASSUME SessionInv, Next
  PROVE  TypeOK'
  <1> USE DEF SessionInv
  <1>1. ASSUME NEW u \in Users, Logout(u) PROVE TypeOK'
    BY <1>1, EndTypes DEF Logout, TypeOK
  <1>2. ASSUME NEW u \in Users, NEW t \in Tokens, Register(u, t) PROVE TypeOK'
    BY <1>2 DEF Register, NewAccount, Roles, Issue, TypeOK, Accounts, TokenRows
  <1>3. ASSUME NEW w \in Workers, NEW u \in Users, LoginRead(w, u) PROVE TypeOK'
    <2>1. account[u].password \in Nat \ {0}
      BY <1>3 DEF LoginRead, Usable, RequestsAdmitted, Registered, TypeOK, Accounts
    <2>2. [op |-> "login", user |-> u, proof |-> account[u].password] \in Requests
      BY <2>1 DEF Requests
    <2> QED
      BY <1>3, <2>2, RequestMoves DEF LoginRead, Start, TypeOK
  <1>4. ASSUME NEW w \in Workers, NEW u \in Users, ChangeRead(w, u) PROVE TypeOK'
    <2>1. account[u].password \in Nat \ {0}
      BY <1>4 DEF ChangeRead, Usable, RequestsAdmitted, Registered, TypeOK, Accounts
    <2>2. [op |-> "change", user |-> u, proof |-> account[u].password] \in Requests
      BY <2>1 DEF Requests
    <2> QED
      BY <1>4, <2>2, RequestMoves DEF ChangeRead, Start, TypeOK
  <1>5. ASSUME NEW w \in Workers, NEW u \in Users, NEW c \in Changes, ManageRead(w, u, c)
        PROVE  TypeOK'
    <2>1. [op |-> "manage", user |-> u, change |-> c] \in Requests
      BY DEF Requests
    <2> QED
      BY <1>5, <2>1, RequestMoves DEF ManageRead, TypeOK
  <1>6. ASSUME NEW w \in Workers, NEW t \in Tokens, LoginCommit(w, t) PROVE TypeOK'
    <2>1. req[w].user \in Users /\ req[w].proof \in Nat
      BY <1>6, RequestTypes DEF LoginCommit, Doing
    <2> QED
      BY <1>6, <2>1, FinishMoves DEF LoginCommit, Issue, TypeOK, TokenRows
  <1>7. ASSUME NEW w \in Workers, NEW t \in Tokens, RefreshRead(w, t) PROVE TypeOK'
    <2>1. [op |-> "refresh", token |-> t] \in Requests
      BY DEF Requests
    <2> QED
      BY <1>7, <2>1, RequestMoves DEF RefreshRead, Start, TypeOK
  <1>8. ASSUME NEW w \in Workers, NEW t \in Tokens, Rotate(w, t) PROVE TypeOK'
    <2>1. token' \in [Tokens -> TokenRows]
      BY <1>8, RotateEffect
    <2>2. req' \in [Workers -> Requests] /\ UNCHANGED <<account, ended>>
      BY <1>8, FinishMoves DEF Rotate
    <2> QED
      BY <2>1, <2>2 DEF TypeOK
  <1>9. ASSUME NEW w \in Workers, RefreshUser(w) PROVE TypeOK'
    <2>1. req[w].token \in Tokens
      BY <1>9, RequestTypes DEF RefreshUser, Doing
    <2>2. [op |-> "rotate", token |-> req[w].token] \in Requests
      BY <2>1 DEF Requests
    <2>3. req' \in [Workers -> Requests]
      BY <1>9, <2>2, RequestMoves, FinishMoves DEF RefreshUser
    <2> QED
      BY <1>9, <2>3 DEF RefreshUser, TypeOK
  <1>10. ASSUME NEW w \in Workers, RotateReuse(w) PROVE TypeOK'
    <2>1. req[w].token \in Tokens /\ Issued(req[w].token)
      BY <1>10, RequestTypes DEF RotateReuse, Doing, RequestsAdmitted
    <2>2. [op |-> "reuse", user |-> token[req[w].token].user] \in Requests
      BY <2>1, TokenUser DEF Requests
    <2> QED
      BY <1>10, <2>2, RequestMoves DEF RotateReuse, TypeOK
  <1>11. ASSUME NEW w \in Workers, RevokeFamily(w) PROVE TypeOK'
    <2>1. req[w].user \in Users
      BY <1>11, RequestTypes DEF RevokeFamily, Doing
    <2> QED
      BY <1>11, <2>1, EndTypes, FinishMoves DEF RevokeFamily, TypeOK
  <1>12. ASSUME NEW w \in Workers, ChangeCommit(w) PROVE TypeOK'
    <2>1. req[w].user \in Users
      BY <1>12, RequestTypes DEF ChangeCommit, Doing
    <2>2. account' \in [Users -> Accounts]
      BY <1>12, <2>1 DEF ChangeCommit, TypeOK, Accounts
    <2> QED
      BY <1>12, <2>1, <2>2, EndTypes, FinishMoves DEF ChangeCommit, TypeOK
  <1>13. ASSUME NEW w \in Workers, ManageCommit(w) PROVE TypeOK'
    <2>1. req[w].user \in Users /\ req[w].change \in Changes
      BY <1>13, RequestTypes DEF ManageCommit, Doing
    <2>2. Changed(account[req[w].user], req[w].change) \in Accounts
      BY <2>1, ChangedType DEF TypeOK
    <2>3. account' \in [Users -> Accounts]
      BY <1>13, <2>1, <2>2 DEF ManageCommit, TypeOK
    <2> QED
      BY <1>13, <2>3, FinishMoves DEF ManageCommit, TypeOK
  <1>14. ASSUME NEW w \in Workers, Abort(w) PROVE TypeOK'
    BY <1>14, FinishMoves DEF Abort, TypeOK
  <1>15. ASSUME NEW w \in Workers, NEW u \in Users, Authorize(w, u) PROVE TypeOK'
    <2>1. [op |-> "admin", user |-> u] \in Requests
      BY DEF Requests
    <2> QED
      BY <1>15, <2>1, RequestMoves DEF Authorize, Start, TypeOK
  <1> QED
    BY <1>1, <1>2, <1>3, <1>4, <1>5, <1>6, <1>7, <1>8, <1>9, <1>10, <1>11, <1>12, <1>13,
       <1>14, <1>15 DEF Next
-----------------------------------------------------------------------------
(* The parts of the invariant that are about tokens, by what a step does to them *)

TokenInv ==
  /\ SessionsHaveRoots
  /\ SessionIsAChain
  /\ EndedSessionsStayEnded
  /\ OldSessionsAreLateLogins

\* A step that touches no token, ends no session and changes no password.
LEMMA TokensIdle ==
  ASSUME TypeOK, TokenInv, UNCHANGED <<token, ended>>,
         \A u \in Users : account'[u].password = account[u].password
  PROVE  TokenInv'
  <1>1. \A t \in Tokens : Issued(t) => token[t].user \in Users
    BY TokenUser
  <1> QED
    BY <1>1 DEF TokenInv, SessionsHaveRoots, SessionIsAChain, EndedSessionsStayEnded,
                OldSessionsAreLateLogins, Issued, Live, Registered

\* A step that issues the first token of a new session of u.
LEMMA TokensBegin ==
  ASSUME TypeOK, TokenInv, NEW u \in Users, NEW t \in Tokens, NEW p \in Nat, NEW l \in BOOLEAN,
         Issue(t, [user |-> u, revoked |-> FALSE, root |-> t, proof |-> p, late |-> l]),
         UNCHANGED ended,
         account'[u].password # 0,
         p = account'[u].password \/ l,
         \A s \in Tokens : Issued(s) =>
           account'[token[s].user].password = account[token[s].user].password
  PROVE  TokenInv'
  <1>1. /\ ~Issued(t)
        /\ token'[t] = [user |-> u, revoked |-> FALSE, root |-> t, proof |-> p, late |-> l]
        /\ \A s \in Tokens \ {t} : token'[s] = token[s]
    BY DEF Issue, TypeOK
  <1>2. u # None
    BY SessionsAssumption
  <1>3. SessionsHaveRoots'
    <2>1. ASSUME NEW s \in Tokens, Issued(s)'
          PROVE  /\ Registered(token[s].user)'
                 /\ (token[s].root \in Tokens)' /\ (token[token[s].root].user = token[s].user)'
      <3>1. CASE s = t
        BY <1>1, <3>1 DEF Registered
      <3>2. CASE s # t
        <4>1. Issued(s) /\ token'[s] = token[s]
          BY <1>1, <2>1, <3>2 DEF Issued
        <4>2. /\ Registered(token[s].user)
              /\ token[s].root \in Tokens /\ token[token[s].root].user = token[s].user
          BY <4>1 DEF TokenInv, SessionsHaveRoots
        <4>3. Registered(token[s].user)'
          BY <4>1, <4>2 DEF Registered
        <4>4. token[s].root # t
          BY <1>1, <4>1, <4>2 DEF Issued
        <4> QED
          BY <1>1, <4>1, <4>2, <4>3, <4>4
      <3> QED
        BY <3>1, <3>2
    <2>2. \A s \in Tokens : Live(s)' => Issued(s)'
      BY <1>1, <1>2 DEF TokenInv, SessionsHaveRoots, Issued, Live
    <2>3. \A s \in ended' : Issued(s)'
      BY <1>1, <1>2 DEF TokenInv, SessionsHaveRoots, Issued, TypeOK
    <2> QED
      BY <2>1, <2>2, <2>3 DEF SessionsHaveRoots
  <1>4. \A s \in Tokens \ {t} : Live(s)' => Live(s) /\ Issued(s) /\ token'[s].root # t
    <2>1. \A s \in Tokens \ {t} : Live(s)' => Live(s)
      BY <1>1 DEF Live
    <2> QED
      BY <1>1, <2>1 DEF TokenInv, SessionsHaveRoots, Issued
  <1>5. SessionIsAChain'
    BY <1>1, <1>4 DEF TokenInv, SessionIsAChain, Live
  <1>6. EndedSessionsStayEnded'
    BY <1>1, <1>4 DEF TokenInv, SessionsHaveRoots, EndedSessionsStayEnded, Live
  <1>7. OldSessionsAreLateLogins'
    BY <1>1, <1>4 DEF TokenInv, OldSessionsAreLateLogins, Live
  <1> QED
    BY <1>3, <1>5, <1>6, <1>7 DEF TokenInv

\* A step that ends the sessions of u, and changes no password but that of u.
LEMMA TokensEnd ==
  ASSUME TypeOK, TokenInv, NEW u \in Users, EndSessions(u),
         account'[u].password # 0,
         \A v \in Users \ {u} : account'[v].password = account[v].password
  PROVE  TokenInv'
  <1>1. \A t \in Tokens :
           /\ token'[t].user = token[t].user /\ token'[t].root = token[t].root
           /\ token'[t].proof = token[t].proof /\ token'[t].late = token[t].late
           /\ Live(t)' => Live(t) /\ token[t].user # u
    <2> SUFFICES ASSUME NEW t \in Tokens
                 PROVE  /\ token'[t].user = token[t].user /\ token'[t].root = token[t].root
                        /\ token'[t].proof = token[t].proof /\ token'[t].late = token[t].late
                        /\ Live(t)' => Live(t) /\ token[t].user # u
      OBVIOUS
    <2>1. token[t] \in TokenRows
      BY DEF TypeOK
    <2>2. CASE t \in TokensOf(u)
      BY <2>1, <2>2 DEF EndSessions, RevokeAll, TokenRows, Live
    <2>3. CASE t \notin TokensOf(u)
      BY <2>3 DEF EndSessions, RevokeAll, TokensOf, Live
    <2> QED
      BY <2>2, <2>3
  <1>2. \A t \in Tokens : Live(t) => Issued(t) /\ token[t].user \in Users
    BY TokenUser DEF TokenInv, SessionsHaveRoots
  <1>3. ended' = ended \cup {token[t].root : t \in TokensOf(u)}
    BY DEF EndSessions
  <1>4. \A t \in Tokens : Issued(t) => token[t].user \in Users
    BY TokenUser
  <1>5. \A t \in ended' : Issued(t)'
    <2>1. \A t \in TokensOf(u) : Issued(token[t].root) /\ token[t].root \in Tokens
      BY SessionsAssumption DEF TokensOf, TokenInv, SessionsHaveRoots, Issued
    <2> QED
      BY <1>1, <1>3, <2>1 DEF TokenInv, SessionsHaveRoots, Issued, TypeOK
  <1>6. SessionsHaveRoots'
    BY <1>1, <1>2, <1>4, <1>5 DEF TokenInv, SessionsHaveRoots, Issued, Registered
  <1>7. SessionIsAChain'
    BY <1>1 DEF TokenInv, SessionIsAChain
  <1>8. EndedSessionsStayEnded'
    <2> SUFFICES ASSUME NEW t \in Tokens, Live(t)', token'[t].root \in ended'
                 PROVE  FALSE
      BY DEF EndedSessionsStayEnded
    <2>1. Live(t) /\ token[t].user # u /\ token'[t].root = token[t].root
      BY <1>1
    <2>2. token[t].root \notin ended
      BY <2>1 DEF TokenInv, EndedSessionsStayEnded
    <2>3. PICK s \in TokensOf(u) : token[s].root = token[t].root
      BY <1>3, <2>1, <2>2
    <2>4. Issued(s) /\ s \in Tokens /\ Issued(t)
      BY <1>2, <2>1, <2>3, SessionsAssumption DEF TokensOf, Issued
    <2>5. token[t].user = token[s].user
      BY <2>3, <2>4 DEF TokenInv, SessionsHaveRoots
    <2> QED
      BY <2>1, <2>3, <2>5 DEF TokensOf
  <1>9. OldSessionsAreLateLogins'
    BY <1>1, <1>2 DEF TokenInv, OldSessionsAreLateLogins
  <1> QED
    BY <1>6, <1>7, <1>8, <1>9 DEF TokenInv

\* A rotation: the session goes on with its next token.
LEMMA TokensRotate ==
  ASSUME TypeOK, TokenInv, RequestsAdmitted,
         NEW w \in Workers, NEW next \in Tokens, Rotate(w, next)
  PROVE  TokenInv'
  <1> DEFINE t == req[w].token
  <1>1. /\ t \in Tokens /\ Issued(t) /\ ~Issued(next) /\ Live(t)
        /\ \A s \in Tokens \ {t, next} : token'[s] = token[s]
        /\ token'[t].revoked = TRUE
        /\ \A s \in {t, next} : /\ token'[s].user = token[t].user
                                /\ token'[s].root = token[t].root
                                /\ token'[s].proof = token[t].proof
                                /\ token'[s].late = token[t].late
    BY RotateEffect DEF RotateGuard
  <1>2. UNCHANGED <<account, ended>>
    BY DEF Rotate
  <1> HIDE DEF t
  \* Every token has the session it had, and next that of t.
  <1> DEFINE old(s) == IF s = next THEN t ELSE s
  <1>3. \A s \in Tokens :
           /\ old(s) \in Tokens
           /\ token'[s].user = token[old(s)].user /\ token'[s].root = token[old(s)].root
           /\ token'[s].proof = token[old(s)].proof /\ token'[s].late = token[old(s)].late
    BY <1>1
  <1>4. \A s \in Tokens : Live(s)' => s # t /\ Live(old(s)) /\ Issued(old(s))
    BY <1>1 DEF Live, TokenInv, SessionsHaveRoots
  <1>5. \A s \in Tokens : Issued(s)' => Issued(old(s))
    BY <1>3 DEF Issued
  <1>6. \A s \in Tokens : Issued(s) => Issued(s)' /\ s # next /\ token'[s].user = token[s].user
    BY <1>1, <1>3 DEF Issued
  <1>7. SessionsHaveRoots'
    <2>1. ASSUME NEW s \in Tokens, Issued(s)'
          PROVE  /\ Registered(token[s].user)'
                 /\ (token[s].root \in Tokens)' /\ (token[token[s].root].user = token[s].user)'
      <3> DEFINE q == old(s)
      <3>1. q \in Tokens /\ Issued(q) /\ token'[s].user = token[q].user
                         /\ token'[s].root = token[q].root
        BY <1>3, <1>5, <2>1
      <3> HIDE DEF q
      <3>2. /\ Registered(token[q].user)
            /\ token[q].root \in Tokens /\ token[token[q].root].user = token[q].user
        BY <3>1 DEF TokenInv, SessionsHaveRoots
      <3>3. token'[token[q].root].user = token[q].user
        BY <1>6, <3>1, <3>2 DEF Issued
      <3>4. Registered(token[s].user)'
        BY <1>2, <3>1, <3>2 DEF Registered
      <3> QED
        BY <3>1, <3>2, <3>3, <3>4
    <2>2. \A s \in Tokens : Live(s)' => Issued(s)'
      BY <1>3, <1>4 DEF Issued
    <2>3. \A s \in ended' : Issued(s)'
      BY <1>2, <1>6 DEF TokenInv, SessionsHaveRoots, TypeOK
    <2> QED
      BY <2>1, <2>2, <2>3 DEF SessionsHaveRoots
  <1>8. SessionIsAChain'
    <2> SUFFICES ASSUME NEW r \in Tokens, NEW s \in Tokens, Live(r)', Live(s)',
                        token'[r].root = token'[s].root
                 PROVE  r = s
      BY DEF SessionIsAChain
    <2>1. old(r) \in Tokens /\ old(s) \in Tokens /\ Live(old(r)) /\ Live(old(s))
          /\ token[old(r)].root = token[old(s)].root
      BY <1>3, <1>4
    <2>2. old(r) = old(s)
      BY <2>1 DEF TokenInv, SessionIsAChain
    <2> QED
      BY <1>4, <2>2
  <1>9. EndedSessionsStayEnded'
    BY <1>2, <1>3, <1>4 DEF TokenInv, EndedSessionsStayEnded
  <1>10. OldSessionsAreLateLogins'
    BY <1>2, <1>3, <1>4 DEF TokenInv, OldSessionsAreLateLogins
  <1> QED
    BY <1>7, <1>8, <1>9, <1>10 DEF TokenInv
-----------------------------------------------------------------------------
(* Every step, and the theorems *)

\* Accounts and tokens never stop to exist.
AccountsStay ==
  /\ \A u \in Users : account[u].password # 0 => account'[u].password # 0
  /\ \A u \in Users : account'[u].active => account'[u].password # 0
TokensStay == \A t \in Tokens : token[t].user # None => token'[t].user # None

LEMMA StayLemma ==
  ASSUME SessionInv
  PROVE  /\ UNCHANGED account => AccountsStay
         /\ UNCHANGED token => TokensStay
         /\ \A u \in Users : EndSessions(u) => TokensStay
         /\ \A t \in Tokens, u \in Users, p \in Nat, l \in BOOLEAN :
              Issue(t, [user |-> u, revoked |-> FALSE, root |-> t, proof |-> p, late |-> l])
                => TokensStay
  <1>1. UNCHANGED account => AccountsStay
    BY DEF AccountsStay, SessionInv, RequestsAdmitted, Registered
  <1>2. UNCHANGED token => TokensStay
    BY DEF TokensStay
  <1>3. ASSUME NEW u \in Users, EndSessions(u) PROVE TokensStay
    <2> SUFFICES ASSUME NEW t \in Tokens PROVE token'[t].user = token[t].user
      BY DEF TokensStay
    <2>1. token[t] \in TokenRows
      BY DEF SessionInv, TypeOK
    <2> QED
      BY <1>3, <2>1 DEF EndSessions, RevokeAll, TokenRows
  <1>4. ASSUME NEW t \in Tokens, NEW u \in Users, NEW p \in Nat, NEW l \in BOOLEAN,
               Issue(t, [user |-> u, revoked |-> FALSE, root |-> t, proof |-> p, late |-> l])
        PROVE  TokensStay
    BY <1>4, SessionsAssumption DEF Issue, TokensStay, SessionInv, TypeOK
  <1> QED
    BY <1>1, <1>2, <1>3, <1>4

LEMMA StayUse ==
  ASSUME AccountsStay, TokensStay
  PROVE  /\ \A u \in Users : account[u].password # 0 => account'[u].password # 0
         /\ \A u \in Users : account'[u].active => account'[u].password # 0
         /\ \A t \in Tokens : token[t].user # None => token'[t].user # None
  <1>1. /\ \A u \in Users : account[u].password # 0 => account'[u].password # 0
        /\ \A u \in Users : account'[u].active => account'[u].password # 0
    BY DEF AccountsStay
  <1>2. \A t \in Tokens : token[t].user # None => token'[t].user # None
    BY DEF TokensStay
  <1> QED
    BY <1>1, <1>2

\* A request that was fit for its step still is.
LEMMA StayFit ==
  ASSUME SessionInv, AccountsStay, TokensStay, NEW x \in Workers
  PROVE  /\ req[x].op \in {"refresh", "rotate"} => token'[req[x].token].user # None
         /\ req[x].op \in {"login", "change", "manage"} => account'[req[x].user].password # 0
  <1>1. /\ req[x].op \in {"refresh", "rotate"} =>
             req[x].token \in Tokens /\ token[req[x].token].user # None
        /\ req[x].op \in {"login", "change", "manage"} =>
             req[x].user \in Users /\ account[req[x].user].password # 0
    BY RequestTypes DEF SessionInv, RequestsAdmitted, Issued, Registered
  <1> QED
    BY <1>1, StayUse

\* A step that moves no request, or moves one on to a step it is fit for.
LEMMA AdmittedMove ==
  ASSUME SessionInv, AccountsStay, TokensStay,
         NEW w \in Workers, NEW r,
         req' = [req EXCEPT ![w] = r] \/ UNCHANGED req,
         r.op \in {"refresh", "rotate"} => r.token \in Tokens /\ token'[r.token].user # None,
         r.op \in {"login", "change", "manage"} =>
           r.user \in Users /\ account'[r.user].password # 0
  PROVE  RequestsAdmitted'
  <1>1. ASSUME NEW x \in Workers
        PROVE  /\ req'[x].op \in {"refresh", "rotate"} => token'[req'[x].token].user # None
               /\ req'[x].op \in {"login", "change", "manage"} =>
                    account'[req'[x].user].password # 0
    <2>1. CASE req'[x] = r
      BY <2>1
    <2>2. CASE req'[x] = req[x]
      BY <2>2, StayFit
    <2>3. req'[x] \in {r, req[x]}
      BY DEF SessionInv, TypeOK
    <2> QED
      BY <2>1, <2>2, <2>3
  <1>2. \A u \in Users : account'[u].active => account'[u].password # 0
    BY StayUse
  <1> QED
    BY <1>1, <1>2 DEF RequestsAdmitted, Issued, Registered

\* A request that ends is fit for anything.
LEMMA AdmittedFinish ==
  ASSUME SessionInv, AccountsStay, TokensStay, NEW w \in Workers, Finish(w) \/ UNCHANGED req
  PROVE  RequestsAdmitted'
  <1>1. ASSUME NEW x \in Workers
        PROVE  /\ req'[x].op \in {"refresh", "rotate"} => token'[req'[x].token].user # None
               /\ req'[x].op \in {"login", "change", "manage"} =>
                    account'[req'[x].user].password # 0
    <2>1. CASE req'[x] = Idle
      BY <2>1 DEF Idle
    <2>2. CASE req'[x] = req[x]
      BY <2>2, StayFit
    <2>3. req'[x] \in {Idle, req[x]}
      BY DEF SessionInv, TypeOK, Finish
    <2> QED
      BY <2>1, <2>2, <2>3
  <1>2. \A u \in Users : account'[u].active => account'[u].password # 0
    BY StayUse
  <1> QED
    BY <1>1, <1>2 DEF RequestsAdmitted, Issued, Registered

\* Requests keep pointing at accounts and tokens that exist.
LEMMA AdmittedStep ==
  ASSUME SessionInv, Next
  PROVE  RequestsAdmitted'
  <1> USE DEF SessionInv
  <1>1. \A u \in Users : account[u].active => account[u].password # 0
    BY DEF RequestsAdmitted, Registered
  <1>2. ASSUME NEW u \in Users, Logout(u) PROVE RequestsAdmitted'
    <2>1. AccountsStay /\ TokensStay /\ UNCHANGED req
      BY <1>2, StayLemma DEF Logout
    <2>2. CASE Workers = {}
      BY <1>2, <1>1, <2>2 DEF Logout, RequestsAdmitted, Registered
    <2>3. CASE Workers # {}
      BY <2>1, <2>3, AdmittedFinish
    <2> QED
      BY <2>2, <2>3
  <1>3. ASSUME NEW u \in Users, NEW t \in Tokens, Register(u, t) PROVE RequestsAdmitted'
    <2>1. account' = [account EXCEPT ![u] = NewAccount("CUSTOMER")]
      BY <1>3 DEF Register
    <2>2. AccountsStay
      BY <1>1, <2>1 DEF TypeOK, AccountsStay, NewAccount
    <2>3. TokensStay /\ UNCHANGED req
      BY <1>3, StayLemma DEF Register
    <2>4. CASE Workers = {}
      BY <2>2, <2>3, <2>4, StayUse DEF RequestsAdmitted, Registered
    <2>5. CASE Workers # {}
      BY <2>2, <2>3, <2>5, AdmittedFinish
    <2> QED
      BY <2>4, <2>5
  <1>4. ASSUME NEW w \in Workers, NEW u \in Users, LoginRead(w, u) \/ ChangeRead(w, u)
        PROVE  RequestsAdmitted'
    <2>1. account[u].password # 0
      BY <1>1, <1>4 DEF LoginRead, ChangeRead, Usable
    <2>2. AccountsStay /\ TokensStay
      BY <1>4, StayLemma DEF LoginRead, ChangeRead
    <2> QED
      BY <1>4, <2>1, <2>2, AdmittedMove DEF LoginRead, ChangeRead, Start
  <1>5. ASSUME NEW w \in Workers, NEW u \in Users, NEW c \in Changes, ManageRead(w, u, c)
        PROVE  RequestsAdmitted'
    <2>1. AccountsStay /\ TokensStay
      BY <1>5, StayLemma DEF ManageRead
    <2> QED
      BY <1>5, <2>1, AdmittedMove DEF ManageRead, Registered
  <1>6. ASSUME NEW w \in Workers, NEW t \in Tokens, LoginCommit(w, t) PROVE RequestsAdmitted'
    <2>1. req[w].user \in Users /\ req[w].proof \in Nat
      BY <1>6, RequestTypes DEF LoginCommit, Doing
    <2>2. (req[w].proof # account[req[w].user].password) \in BOOLEAN
      OBVIOUS
    <2>3. AccountsStay
      BY <1>6, StayLemma DEF LoginCommit
    <2>4. TokensStay
      BY <1>6, <2>1, <2>2, StayLemma DEF LoginCommit
    <2> QED
      BY <1>6, <2>3, <2>4, AdmittedFinish DEF LoginCommit
  <1>7. ASSUME NEW w \in Workers, NEW t \in Tokens, RefreshRead(w, t) PROVE RequestsAdmitted'
    <2>1. token[t].user # None
      BY <1>7 DEF RefreshRead, SessionsHaveRoots, Issued
    <2>2. AccountsStay /\ TokensStay
      BY <1>7, StayLemma DEF RefreshRead
    <2> QED
      BY <1>7, <2>1, <2>2, AdmittedMove DEF RefreshRead, Start
  <1>8. ASSUME NEW w \in Workers, NEW t \in Tokens, Rotate(w, t) PROVE RequestsAdmitted'
    <2>1. TokensStay
      BY <1>8, RotateEffect DEF TokensStay, Issued
    <2>2. AccountsStay
      BY <1>8, StayLemma DEF Rotate
    <2> QED
      BY <1>8, <2>1, <2>2, AdmittedFinish DEF Rotate
  <1>9. ASSUME NEW w \in Workers, RefreshUser(w) PROVE RequestsAdmitted'
    <2>1. req[w].token \in Tokens /\ token[req[w].token].user # None
      BY <1>9, RequestTypes DEF RefreshUser, Doing, RequestsAdmitted, Issued
    <2>2. AccountsStay /\ TokensStay /\ UNCHANGED token
      BY <1>9, StayLemma DEF RefreshUser
    <2> QED
      BY <1>9, <2>1, <2>2, AdmittedMove, AdmittedFinish DEF RefreshUser
  <1>10. ASSUME NEW w \in Workers, RotateReuse(w) PROVE RequestsAdmitted'
    <2>1. AccountsStay /\ TokensStay
      BY <1>10, StayLemma DEF RotateReuse
    <2> QED
      BY <1>10, <2>1, AdmittedMove DEF RotateReuse
  <1>11. ASSUME NEW w \in Workers, RevokeFamily(w) PROVE RequestsAdmitted'
    <2>1. req[w].user \in Users
      BY <1>11, RequestTypes DEF RevokeFamily, Doing
    <2>2. AccountsStay /\ TokensStay
      BY <1>11, <2>1, StayLemma DEF RevokeFamily
    <2> QED
      BY <1>11, <2>2, AdmittedFinish DEF RevokeFamily
  <1>12. ASSUME NEW w \in Workers, ChangeCommit(w) PROVE RequestsAdmitted'
    <2>1. req[w].user \in Users
      BY <1>12, RequestTypes DEF ChangeCommit, Doing
    <2>2. AccountsStay
      BY <1>1, <1>12, <2>1 DEF ChangeCommit, AccountsStay, TypeOK, Accounts
    <2>3. TokensStay
      BY <1>12, <2>1, StayLemma DEF ChangeCommit
    <2> QED
      BY <1>12, <2>2, <2>3, AdmittedFinish DEF ChangeCommit
  <1>13. ASSUME NEW w \in Workers, ManageCommit(w) PROVE RequestsAdmitted'
    <2> DEFINE u == req[w].user
    <2>1. u \in Users /\ account[u].password # 0 /\ req[w].change \in Changes
      BY <1>13, RequestTypes DEF ManageCommit, Doing, RequestsAdmitted, Registered
    <2>2. /\ account'[u].password = account[u].password
          /\ \A v \in Users \ {u} : account'[v] = account[v]
      BY <1>13, <2>1, ChangedType DEF ManageCommit, TypeOK
    <2> HIDE DEF u
    <2>3. AccountsStay
      BY <1>1, <2>1, <2>2 DEF AccountsStay
    <2>4. TokensStay
      BY <1>13, StayLemma DEF ManageCommit
    <2> QED
      BY <1>13, <2>3, <2>4, AdmittedFinish DEF ManageCommit
  <1>14. ASSUME NEW w \in Workers, Abort(w) PROVE RequestsAdmitted'
    <2>1. AccountsStay /\ TokensStay
      BY <1>14, StayLemma DEF Abort
    <2> QED
      BY <1>14, <2>1, AdmittedFinish DEF Abort
  <1>15. ASSUME NEW w \in Workers, NEW u \in Users, Authorize(w, u) PROVE RequestsAdmitted'
    <2>1. AccountsStay /\ TokensStay
      BY <1>15, StayLemma DEF Authorize
    <2> QED
      BY <1>15, <2>1, AdmittedMove DEF Authorize, Start
  <1> QED
    BY <1>2, <1>3, <1>4, <1>5, <1>6, <1>7, <1>8, <1>9, <1>10, <1>11, <1>12, <1>13, <1>14,
       <1>15 DEF Next

\* Every step keeps the part that is about tokens.
LEMMA TokenStep ==
  ASSUME SessionInv, Next
  PROVE  TokenInv'
  <1> USE DEF SessionInv
  <1>1. TokenInv
    BY DEF TokenInv
  <1>2. ASSUME UNCHANGED <<account, token, ended>> PROVE TokenInv'
    BY <1>1, <1>2, TokensIdle
  <1>3. ASSUME NEW u \in Users, Logout(u) PROVE TokenInv'
    BY <1>1, <1>3, TokensEnd DEF Logout, Registered
  <1>4. ASSUME NEW u \in Users, NEW t \in Tokens, Register(u, t) PROVE TokenInv'
    <2>1. account'[u].password = 1 /\ \A v \in Users \ {u} : account'[v] = account[v]
      BY <1>4 DEF Register, NewAccount, TypeOK
    <2>2. \A s \in Tokens : Issued(s) =>
            account'[token[s].user].password = account[token[s].user].password
      BY <1>4, <2>1, TokenUser DEF Register, SessionsHaveRoots
    <2>3. /\ Issue(t, [user |-> u, revoked |-> FALSE, root |-> t, proof |-> 1, late |-> FALSE])
          /\ UNCHANGED ended
      BY <1>4 DEF Register
    <2>4. /\ account'[u].password # 0
          /\ 1 = account'[u].password
          /\ 1 \in Nat
      BY <2>1
    <2> QED
      BY <1>1, <2>2, <2>3, <2>4, TokensBegin
  <1>5. ASSUME NEW w \in Workers, NEW t \in Tokens, LoginCommit(w, t) PROVE TokenInv'
    <2> DEFINE r == req[w]
    <2>1. r.user \in Users /\ r.proof \in Nat /\ Registered(r.user)
      BY <1>5, RequestTypes DEF LoginCommit, Doing, RequestsAdmitted
    <2>2. /\ UNCHANGED <<account, ended>>
          /\ Issue(t, [user |-> r.user, revoked |-> FALSE, root |-> t, proof |-> r.proof,
                       late |-> r.proof # account[r.user].password])
      BY <1>5 DEF LoginCommit
    <2> HIDE DEF r
    <2> QED
      BY <1>1, <2>1, <2>2, TokensBegin DEF Registered
  <1>6. ASSUME NEW w \in Workers, NEW t \in Tokens, Rotate(w, t) PROVE TokenInv'
    BY <1>1, <1>6, TokensRotate
  <1>7. ASSUME NEW w \in Workers, RevokeFamily(w) PROVE TokenInv'
    <2>1. req[w].user \in Users
      BY <1>7, RequestTypes DEF RevokeFamily, Doing
    <2>2. CASE Registered(req[w].user)
      BY <1>1, <1>7, <2>1, <2>2, TokensEnd DEF RevokeFamily, Registered
    \* Without an account there are no tokens to revoke.
    <2>3. CASE ~Registered(req[w].user)
      <3>1. TokensOf(req[w].user) = {}
        BY <2>1, <2>3, SessionsAssumption DEF TokensOf, SessionsHaveRoots, Issued
      <3>2. UNCHANGED <<account, token, ended>>
        BY <1>7, <3>1 DEF RevokeFamily, EndSessions, RevokeAll, TypeOK
      <3> QED
        BY <1>2, <3>2
    <2> QED
      BY <2>2, <2>3
  <1>8. ASSUME NEW w \in Workers, ChangeCommit(w) PROVE TokenInv'
    <2> DEFINE u == req[w].user
    <2>1. u \in Users
      BY <1>8, RequestTypes DEF ChangeCommit, Doing
    <2>2. /\ account'[u].password # 0
          /\ \A v \in Users \ {u} : account'[v].password = account[v].password
      BY <1>8, <2>1 DEF ChangeCommit, TypeOK, Accounts
    <2> QED
      BY <1>1, <1>8, <2>1, <2>2, TokensEnd DEF ChangeCommit
  <1>9. ASSUME NEW w \in Workers, ManageCommit(w) PROVE TokenInv'
    <2>1. req[w].user \in Users /\ req[w].change \in Changes
      BY <1>9, RequestTypes DEF ManageCommit, Doing
    <2>2. \A u \in Users : account'[u].password = account[u].password
      BY <1>9, <2>1, ChangedType DEF ManageCommit, TypeOK
    <2> QED
      BY <1>1, <1>9, <2>2, TokensIdle DEF ManageCommit
  <1> QED
    BY <1>2, <1>3, <1>4, <1>5, <1>6, <1>7, <1>8, <1>9
       DEF Next, LoginRead, ChangeRead, Authorize, ManageRead, RefreshRead, RefreshUser,
           RotateReuse, Abort

\* Every step keeps the accounts of the seed out of danger: only a request that read
\* an account as a customer's lowers it, and these were never customers.
LEMMA AdminStep ==
  ASSUME SessionInv, Next
  PROVE  SeededAdminsStay'
  <1> USE DEF SessionInv
  <1> SUFFICES ASSUME NEW a \in Admins
               PROVE  /\ Usable(a)' /\ IsAdmin(a)'
                      /\ \A x \in Workers :
                           Doing(x, "manage")' /\ req'[x].user = a => ~Lowers(req'[x].change)
    BY DEF SeededAdminsStay
  <1>1. /\ a \in Users
        /\ account[a].active /\ ~account[a].deleted /\ account[a].role = "ADMIN"
        /\ \A x \in Workers :
             req[x].op = "manage" /\ req[x].user = a => ~Lowers(req[x].change)
    BY SessionsAssumption DEF SeededAdminsStay, Usable, IsAdmin, Doing
  <1>2. ASSUME account'[a] = account[a]
        PROVE  Usable(a)' /\ IsAdmin(a)'
    BY <1>1, <1>2 DEF Usable, IsAdmin
  \* A request that changes to anything but a management of a.
  <1>3. ASSUME NEW w \in Workers, NEW r, req' = [req EXCEPT ![w] = r],
               r.op = "manage" /\ r.user = a => ~Lowers(r.change)
        PROVE  \A x \in Workers :
                 Doing(x, "manage")' /\ req'[x].user = a => ~Lowers(req'[x].change)
    <2> SUFFICES ASSUME NEW x \in Workers, req'[x].op = "manage", req'[x].user = a
                 PROVE  ~Lowers(req'[x].change)
      BY DEF Doing
    <2>1. req'[x] \in {r, req[x]}
      BY <1>3 DEF TypeOK
    <2>2. CASE req'[x] = r
      BY <1>3, <2>2
    <2>3. CASE req'[x] = req[x]
      BY <1>1, <2>3
    <2> QED
      BY <2>1, <2>2, <2>3
  <1>4. ASSUME NEW w \in Workers, Finish(w)
        PROVE  \A x \in Workers :
                 Doing(x, "manage")' /\ req'[x].user = a => ~Lowers(req'[x].change)
    <2>1. req' = [req EXCEPT ![w] = Idle] /\ Idle.op # "manage"
      BY <1>4 DEF Finish, Idle
    <2> QED
      BY <2>1, <1>3
  <1>5. ASSUME UNCHANGED req
        PROVE  \A x \in Workers :
                 Doing(x, "manage")' /\ req'[x].user = a => ~Lowers(req'[x].change)
    BY <1>1, <1>5 DEF Doing
  <1>6. CASE \E u \in Users : Logout(u)
    BY <1>2, <1>5, <1>6 DEF Logout
  <1>7. CASE \E u \in Users, t \in Tokens : Register(u, t)
    <2> PICK u \in Users, t \in Tokens : Register(u, t)
      BY <1>7
    <2>1. u # a
      BY <1>1 DEF Register, RequestsAdmitted
    <2>2. account'[a] = account[a] /\ UNCHANGED req
      BY <1>1, <2>1 DEF Register, TypeOK
    <2> QED
      BY <1>2, <1>5, <2>2
  <1>8. CASE \E w \in Workers, u \in Users : LoginRead(w, u) \/ ChangeRead(w, u) \/ Authorize(w, u)
    <2> PICK w \in Workers, u \in Users : LoginRead(w, u) \/ ChangeRead(w, u) \/ Authorize(w, u)
      BY <1>8
    <2>1. UNCHANGED account
      BY DEF LoginRead, ChangeRead, Authorize
    <2>2. \/ req' = [req EXCEPT ![w] = [op |-> "login", user |-> u, proof |-> account[u].password]]
          \/ req' = [req EXCEPT ![w] = [op |-> "change", user |-> u, proof |-> account[u].password]]
          \/ req' = [req EXCEPT ![w] = [op |-> "admin", user |-> u]]
      BY DEF LoginRead, ChangeRead, Authorize, Start
    <2> QED
      BY <1>2, <1>3, <2>1, <2>2
  <1>9. CASE \E w \in Workers, u \in Users, c \in Changes : ManageRead(w, u, c)
    <2> PICK w \in Workers, u \in Users, c \in Changes : ManageRead(w, u, c)
      BY <1>9
    <2>1. u = a => ~Lowers(c)
      BY <1>1 DEF ManageRead, MayManage, IsAdmin
    <2>2. /\ UNCHANGED account
          /\ req' = [req EXCEPT ![w] = [op |-> "manage", user |-> u, change |-> c]]
      BY DEF ManageRead
    <2> QED
      BY <1>2, <1>3, <2>1, <2>2
  <1>10. CASE \E w \in Workers, t \in Tokens : LoginCommit(w, t) \/ Rotate(w, t)
    BY <1>2, <1>4, <1>10 DEF LoginCommit, Rotate
  <1>11. CASE \E w \in Workers, t \in Tokens : RefreshRead(w, t)
    <2> PICK w \in Workers, t \in Tokens : RefreshRead(w, t)
      BY <1>11
    <2>1. UNCHANGED account /\ req' = [req EXCEPT ![w] = [op |-> "refresh", token |-> t]]
      BY DEF RefreshRead, Start
    <2> QED
      BY <1>2, <1>3, <2>1
  <1>12. CASE \E w \in Workers : RefreshUser(w)
    <2> PICK w \in Workers : RefreshUser(w)
      BY <1>12
    <2>1. /\ UNCHANGED account
          /\ \/ req' = [req EXCEPT ![w] = [op |-> "rotate", token |-> req[w].token]]
             \/ Finish(w)
      BY DEF RefreshUser
    <2> QED
      BY <1>2, <1>3, <1>4, <2>1
  <1>13. CASE \E w \in Workers : RotateReuse(w)
    <2> PICK w \in Workers : RotateReuse(w)
      BY <1>13
    <2> DEFINE r == [op |-> "reuse", user |-> token[req[w].token].user]
    <2>1. UNCHANGED account /\ req' = [req EXCEPT ![w] = r] /\ r.op # "manage"
      BY DEF RotateReuse
    <2> HIDE DEF r
    <2> QED
      BY <1>2, <1>3, <2>1
  <1>14. CASE \E w \in Workers : RevokeFamily(w) \/ Abort(w)
    BY <1>2, <1>4, <1>14 DEF RevokeFamily, Abort
  <1>15. CASE \E w \in Workers : ChangeCommit(w)
    <2> PICK w \in Workers : ChangeCommit(w)
      BY <1>15
    <2>1. req[w].user \in Users
      BY RequestTypes DEF ChangeCommit, Doing
    <2>2. /\ account'[a].active = account[a].active /\ account'[a].deleted = account[a].deleted
          /\ account'[a].role = account[a].role
      BY <1>1, <2>1 DEF ChangeCommit, TypeOK, Accounts
    <2>3. Usable(a)' /\ IsAdmin(a)'
      BY <1>1, <2>2 DEF Usable, IsAdmin
    <2> QED
      BY <1>4, <2>3 DEF ChangeCommit
  <1>16. CASE \E w \in Workers : ManageCommit(w)
    <2> PICK w \in Workers : ManageCommit(w)
      BY <1>16
    <2> DEFINE u == req[w].user
               c == req[w].change
    <2>1. u \in Users /\ c \in Changes /\ req[w].op = "manage"
      BY RequestTypes DEF ManageCommit, Doing
    <2>2. account' = [account EXCEPT ![u] = Changed(account[u], c)]
      BY DEF ManageCommit
    <2>3. u = a => ~Lowers(c)
      BY <1>1, <2>1
    <2> HIDE DEF u, c
    <2>4. CASE u # a
      BY <1>1, <1>2, <1>4, <2>1, <2>2, <2>4 DEF ManageCommit, TypeOK
    <2>5. CASE u = a
      <3>1. account'[a] = Changed(account[a], c) /\ account[a] \in Accounts
        BY <1>1, <2>2, <2>5 DEF TypeOK
      <3>2. Changed(account[a], c).role = "ADMIN"
        <4>1. c.role \in {None, "ADMIN"}
          BY <2>1, <2>3, <2>5, ChangeFields DEF Lowers, Roles
        <4> QED
          BY <1>1, <4>1 DEF Changed
      <3>3. c.active # "no"
        BY <2>3, <2>5 DEF Lowers
      <3>4. c # Removal
        BY <3>3 DEF Removal
      <3>5. c.remove = FALSE /\ c.active \in {"yes", None}
        BY <2>1, <3>3, <3>4, ChangeFields
      <3>6. Changed(account[a], c).active /\ ~Changed(account[a], c).deleted
        BY <1>1, <3>5 DEF Changed
      <3>7. Usable(a)' /\ IsAdmin(a)'
        BY <3>1, <3>2, <3>6 DEF Usable, IsAdmin
      <3> QED
        BY <1>4, <3>7 DEF ManageCommit
    <2> QED
      BY <2>4, <2>5
  <1> QED
    BY <1>6, <1>7, <1>8, <1>9, <1>10, <1>11, <1>12, <1>13, <1>14, <1>15, <1>16 DEF Next

\* The inductive invariant: types, the requests in flight, and the three promises
\* about sessions together.
THEOREM SessionsCorrect == Spec => []SessionInv
  <1>1. Init => SessionInv
    <2> SUFFICES ASSUME Init PROVE SessionInv
      OBVIOUS
    <2>1. TypeOK
      BY DEF Init, TypeOK, Accounts, Roles, NoAccount, NewAccount, TokenRows, NoToken,
             Requests, Idle
    <2>2. SessionsHaveRoots /\ SessionIsAChain /\ EndedSessionsStayEnded
      /\ OldSessionsAreLateLogins
      BY DEF Init, NoToken, SessionsHaveRoots, SessionIsAChain, EndedSessionsStayEnded,
             OldSessionsAreLateLogins, Issued, Live
    <2>3. RequestsAdmitted
      <3>1. \A u \in Users : account[u] \in {NoAccount, NewAccount("ADMIN")}
        BY DEF Init
      <3>2. \A u \in Users : account[u].active => account[u].password # 0
        BY <3>1 DEF NoAccount, NewAccount
      <3>3. \A w \in Workers : req[w].op = "idle"
        BY DEF Init, Idle
      <3> QED
        BY <3>2, <3>3 DEF RequestsAdmitted, Registered
    <2>4. SeededAdminsStay
      BY SessionsAssumption
         DEF Init, NewAccount, Idle, SeededAdminsStay, Usable, IsAdmin, Doing
    <2> QED
      BY <2>1, <2>2, <2>3, <2>4 DEF SessionInv
  <1>2. SessionInv /\ [Next]_vars => SessionInv'
    <2> SUFFICES ASSUME SessionInv, [Next]_vars PROVE SessionInv'
      OBVIOUS
    <2>1. CASE Next
      BY <2>1, TypeStep, AdmittedStep, TokenStep, AdminStep DEF SessionInv, TokenInv
    <2>2. CASE UNCHANGED vars
      BY <2>2 DEF SessionInv, TypeOK, SessionsHaveRoots, RequestsAdmitted, SessionIsAChain,
                  EndedSessionsStayEnded, OldSessionsAreLateLogins, SeededAdminsStay,
                  Issued, Live, Registered, Usable, IsAdmin, Doing
    <2> QED
      BY <2>1, <2>2
  <1> QED
    BY <1>1, <1>2, PTL DEF Spec

\* Rows and requests in flight keep their types.
THEOREM SessionTypesCorrect == Spec => []TypeOK
  <1>1. SessionInv => TypeOK
    BY DEF SessionInv
  <1> QED
    BY <1>1, SessionsCorrect, PTL

\* Concurrent refreshes never fork a session: at most one token of it is live.
THEOREM ChainCorrect == Spec => []SessionIsAChain
  <1>1. SessionInv => SessionIsAChain
    BY DEF SessionInv
  <1> QED
    BY <1>1, SessionsCorrect, PTL

\* No request in flight revives a session that was ended.
THEOREM EndedCorrect == Spec => []EndedSessionsStayEnded
  <1>1. SessionInv => EndedSessionsStayEnded
    BY DEF SessionInv
  <1> QED
    BY <1>1, SessionsCorrect, PTL

\* Only a login that was past its password check outlives a change of password.
THEOREM OldSessionsCorrect == Spec => []OldSessionsAreLateLogins
  <1>1. SessionInv => OldSessionsAreLateLogins
    BY DEF SessionInv
  <1> QED
    BY <1>1, SessionsCorrect, PTL

\* Spent is spent: no step gives a revoked token back, changes whose an issued token
\* is or which session it belongs to, or forgets that a session was ended.
THEOREM RevokedForGood ==
  Spec => [][/\ ended \subseteq ended'
             /\ \A t \in Tokens : Issued(t) =>
                  /\ token'[t].user = token[t].user /\ token'[t].root = token[t].root
                  /\ ~Live(t) => ~Live(t)']_vars
  <1> DEFINE Kept == \A t \in Tokens : Issued(t) =>
                       /\ token'[t].user = token[t].user /\ token'[t].root = token[t].root
                       /\ ~Live(t) => ~Live(t)'
  <1>1. ASSUME SessionInv, Next PROVE ended \subseteq ended' /\ Kept
    <2>0. token \in [Tokens -> TokenRows]
      BY <1>1 DEF SessionInv, TypeOK
    <2>1. ASSUME UNCHANGED <<token, ended>> PROVE ended \subseteq ended' /\ Kept
      BY <2>1 DEF Live
    <2>2. ASSUME NEW u \in Users, EndSessions(u) PROVE ended \subseteq ended' /\ Kept
      BY <2>0, <2>2 DEF EndSessions, RevokeAll, Live, TokenRows
    <2>3. ASSUME NEW t \in Tokens, NEW row, Issue(t, row), UNCHANGED ended
          PROVE  ended \subseteq ended' /\ Kept
      BY <2>0, <2>3 DEF Issue, Issued, Live
    <2>4. ASSUME NEW w \in Workers, NEW t \in Tokens, Rotate(w, t)
          PROVE  ended \subseteq ended' /\ Kept
      <3> DEFINE old == req[w].token
      <3>1. /\ old \in Tokens /\ Issued(old) /\ ~Issued(t)
            /\ \A s \in Tokens \ {old, t} : token'[s] = token[s]
            /\ token'[old].revoked = TRUE
            /\ token'[old].user = token[old].user /\ token'[old].root = token[old].root
        BY <1>1, <2>4, RotateEffect DEF SessionInv
      <3>2. ended' = ended
        BY <2>4 DEF Rotate
      <3> HIDE DEF old
      <3> QED
        BY <3>1, <3>2 DEF Live
    <2>5. ASSUME NEW u \in Users, Logout(u) PROVE ended \subseteq ended' /\ Kept
      BY <2>2, <2>5 DEF Logout
    <2>6. ASSUME NEW u \in Users, NEW t \in Tokens, Register(u, t)
          PROVE  ended \subseteq ended' /\ Kept
      BY <2>3, <2>6 DEF Register
    <2>7. ASSUME NEW w \in Workers, NEW t \in Tokens, LoginCommit(w, t)
          PROVE  ended \subseteq ended' /\ Kept
      BY <2>3, <2>7 DEF LoginCommit
    <2>8. ASSUME NEW w \in Workers, RevokeFamily(w) \/ ChangeCommit(w)
          PROVE  ended \subseteq ended' /\ Kept
      <3>1. req[w].user \in Users
        BY <1>1, <2>8, RequestTypes DEF SessionInv, RevokeFamily, ChangeCommit, Doing
      <3> QED
        BY <2>2, <2>8, <3>1 DEF RevokeFamily, ChangeCommit
    <2>9. ASSUME NEW w \in Workers,
                 \/ \E u \in Users : \/ LoginRead(w, u) \/ ChangeRead(w, u) \/ Authorize(w, u)
                                     \/ \E c \in Changes : ManageRead(w, u, c)
                 \/ \E t \in Tokens : RefreshRead(w, t)
                 \/ RefreshUser(w) \/ RotateReuse(w) \/ ManageCommit(w) \/ Abort(w)
          PROVE  UNCHANGED <<token, ended>>
      BY <2>9 DEF LoginRead, ChangeRead, Authorize, ManageRead, RefreshRead, RefreshUser,
                  RotateReuse, ManageCommit, Abort
    <2> HIDE DEF Kept
    <2> QED
      BY <1>1, <2>1, <2>4, <2>5, <2>6, <2>7, <2>8, <2>9 DEF Next
  <1>2. SessionInv /\ [Next]_vars => [ended \subseteq ended' /\ Kept]_vars
    BY <1>1
  <1> QED
    BY <1>2, SessionsCorrect, PTL DEF Spec

\* An admin always remains: nobody, however late, locks out the accounts of the seed.
THEOREM AdminRemains == Spec => []SomebodyIsAdmin
  <1>1. SessionInv => SomebodyIsAdmin
    BY SessionsAssumption DEF SessionInv, SeededAdminsStay, SomebodyIsAdmin
  <1> QED
    BY <1>1, SessionsCorrect, PTL
=============================================================================
