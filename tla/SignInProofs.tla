---------------------------- MODULE SignInProofs ----------------------------
(***************************************************************************)
(* What Accounts and SignIn keep for any sets of tabs, e-mails, passwords  *)
(* and accounts.                                                           *)
(***************************************************************************)
EXTENDS SignIn, TLAPS

Registering == {"r_find", "r_insert", "r_reread", "r_show"}
LoggingIn   == {"l_find", "l_check"}

(* The table: one account to an e-mail, and a column that holds a hash     *)
(* holds that of the password the account was registered with.             *)
TableState ==
    /\ \A u \in UserId : users[u] # None =>
         /\ u \in issued
         /\ users[u].password.hashed => users[u].password.of = chosen[u]
    /\ \A u, v \in UserId :
         users[u] # None /\ users[v] # None /\ users[u].email = users[v].email => u = v

(* What a request has found, by the statement it waits for.                *)
RequestOf(c) ==
    /\ pc[c] = "idle" <=> call[c] = None
    /\ pc[c] \in Registering => call[c].op = "register"
    /\ pc[c] \in LoggingIn => call[c].op = "login"
    /\ pc[c] = "g_find" => call[c].op = "guarded" /\ call[c].token \in UserId
    /\ call[c] # None /\ call[c].op \in {"register", "login"} =>
         call[c].email \in Email /\ call[c].password \in Password
    /\ pc[c] \in {"idle", "r_find", "r_insert", "l_find", "g_find"} => held[c] = None
    /\ pc[c] \in {"r_reread", "r_show", "l_check"} => held[c] # None
    /\ held[c] # None => held[c] \in issued
    /\ pc[c] = "error" /\ call[c].op = "register" /\ cause[c] # "failure" =>
         held[c] = None \/ users[held[c]] = None

(* A login knows the column it read, and decides by it.                    *)
LoginOf(c) ==
    call[c] # None /\ call[c].op = "login" =>
        /\ pc[c] = "ok" => held[c] # None
        /\ held[c] # None =>
             /\ read[c] \in Stored
             /\ read[c].hashed => read[c].of = chosen[held[c]]
             /\ pc[c] = "ok" => call[c].password = chosen[held[c]]
             /\ pc[c] = "error" /\ call[c].password = chosen[held[c]] =>
                  ~read[c].hashed \/ cause[c] = "failure"

AccountsState ==
    AccountsTypeOK /\ TableState /\ \A c \in Client : RequestOf(c) /\ LoginOf(c)

-----------------------------------------------------------------------------
(* Other requests are not disturbed as long as the table only forgets.     *)
LEMMA Undisturbed ==
  ASSUME AccountsState, NEW d \in Client,
         pc'[d] = pc[d], call'[d] = call[d], held'[d] = held[d],
         read'[d] = read[d], cause'[d] = cause[d],
         issued \subseteq issued',
         \A u \in issued : /\ chosen'[u] = chosen[u]
                           /\ users[u] = None => users'[u] = None
  PROVE  RequestOf(d)' /\ LoginOf(d)'
<1>1. RequestOf(d) /\ LoginOf(d)
  BY DEF AccountsState
<1>2. RequestOf(d)'
  BY <1>1 DEF RequestOf, Registering, LoggingIn
<1>3. held[d] # None => held[d] \in issued
  BY <1>1 DEF RequestOf
<1>4. LoginOf(d)'
  BY <1>1, <1>3 DEF LoginOf
<1>5. QED
  BY <1>2, <1>4

(* A request that only moves on, with the error it may throw.              *)
LEMMA Moves ==
  ASSUME AccountsState, NEW c \in Client, NEW label,
         \/ Goto(c, label) /\ UNCHANGED cause
         \/ label = "error" /\ \E kind \in Exception : Throw(c, kind),
         label \in {"idle", "ok", "error"} \cup Active,
         UNCHANGED <<table, call, held, read, chosen>>,
         RequestOf(c)', LoginOf(c)'
  PROVE  AccountsState'
<1> USE DEF Goto, Throw, table
<1>1. AccountsTypeOK'
  BY DEF AccountsState, AccountsTypeOK
<1>2. TableState'
  BY DEF AccountsState, TableState
<1>3. ASSUME NEW d \in Client \ {c} PROVE RequestOf(d)' /\ LoginOf(d)'
  <2>1. pc'[d] = pc[d] /\ cause'[d] = cause[d]
    BY DEF AccountsState, AccountsTypeOK
  <2>2. QED
    BY <2>1, Undisturbed
<1>4. QED
  BY <1>1, <1>2, <1>3 DEF AccountsState

(* A request begins with nothing found.                                    *)
LEMMA Begins ==
  ASSUME AccountsState, NEW c \in Client, NEW op, NEW e, NEW p, NEW token, NEW label,
         NEW kind \in Exception,
         Begin(c, op, e, p, token, label),
         UNCHANGED cause \/ cause' = [cause EXCEPT ![c] = kind],
         \/ op = "register" /\ label = "r_find" /\ e \in Email /\ p \in Password /\ token = None
         \/ op = "login" /\ label = "l_find" /\ e \in Email /\ p \in Password /\ token = None
         \/ op = "guarded" /\ label = "g_find" /\ e = None /\ p = None /\ token \in UserId
         \/ op = "guarded" /\ label = "error" /\ e = None /\ p = None /\ token \in UserId \cup {None}
  PROVE  /\ AccountsState'
         /\ pc[c] = "idle" /\ pc'[c] # "idle" /\ held'[c] = None
         /\ call'[c].op = op /\ call'[c].token = token
         /\ \A d \in Client \ {c} : pc'[d] = pc[d] /\ call'[d] = call[d] /\ held'[d] = held[d]
<1> DEFINE new == [op |-> op, email |-> e, password |-> p, token |-> token]
<1> USE DEF Goto, table, Begin
<1>1. new \in Call /\ new # None
  BY ConstantsAssumption DEF Call
<1>2. /\ pc[c] = "idle" /\ held[c] = None
      /\ pc' = [pc EXCEPT ![c] = label] /\ call' = [call EXCEPT ![c] = new]
      /\ UNCHANGED <<users, issued, held, read, chosen>>
  BY DEF AccountsState, RequestOf
<1> HIDE DEF new
<1>3. AccountsTypeOK'
  BY <1>1, <1>2 DEF AccountsState, AccountsTypeOK, Active
<1>4. TableState'
  BY <1>2 DEF AccountsState, TableState
<1>5. pc'[c] = label /\ call'[c] = new /\ held'[c] = None
  BY <1>2 DEF AccountsState, AccountsTypeOK
<1>6. new.op = op /\ new.email = e /\ new.password = p /\ new.token = token
  BY DEF new
<1>7. RequestOf(c)' /\ LoginOf(c)'
  BY <1>1, <1>5, <1>6 DEF RequestOf, LoginOf, Registering, LoggingIn
<1>8. \A d \in Client \ {c} : /\ pc'[d] = pc[d] /\ call'[d] = call[d] /\ held'[d] = held[d]
                             /\ read'[d] = read[d] /\ cause'[d] = cause[d]
  BY <1>2 DEF AccountsState, AccountsTypeOK
<1>9. \A d \in Client \ {c} : RequestOf(d)' /\ LoginOf(d)'
  BY <1>2, <1>8, Undisturbed
<1>10. QED
  BY <1>2, <1>3, <1>4, <1>5, <1>6, <1>7, <1>8, <1>9 DEF AccountsState, RequestOf

(* An INSERT gives its account a uuid nobody has had.                      *)
LEMMA Inserts ==
  ASSUME AccountsState, NEW c \in Client, NEW u \in UserId,
         pc[c] = "r_insert", With(call[c].email) = {}, Insert(c, u)
  PROVE  AccountsState'
<1> DEFINE row == [email |-> call[c].email, password |-> Hash(call[c].password)]
<1> USE DEF Insert, Goto, Throw
<1>1. /\ call[c] \in Call /\ call[c].op = "register" /\ u \notin issued
      /\ call[c].email \in Email /\ call[c].password \in Password
  BY DEF AccountsState, AccountsTypeOK, RequestOf, Registering
<1>2. row \in Row /\ row # None /\ row.email = call[c].email
      /\ row.password.hashed /\ row.password.of = call[c].password
  <2>1. Hash(call[c].password) \in Stored /\ Hash(call[c].password).of = call[c].password
    BY <1>1 DEF Stored, Hash
  <2>2. Hash(call[c].password).hashed
    BY Zenon DEF Hash
  <2> HIDE DEF Hash
  <2>3. row \in Row /\ row.email = call[c].email /\ row.password = Hash(call[c].password)
    BY <1>1, <2>1 DEF Row
  <2>4. QED
    BY <2>1, <2>2, <2>3, ConstantsAssumption
<1>3. /\ users' = [users EXCEPT ![u] = row]
      /\ issued' = issued \cup {u}
      /\ held' = [held EXCEPT ![c] = u]
      /\ chosen' = [chosen EXCEPT ![u] = call[c].password]
      /\ \/ pc' = [pc EXCEPT ![c] = "r_reread"] /\ UNCHANGED cause
         \/ pc' = [pc EXCEPT ![c] = "error"] /\ cause' = [cause EXCEPT ![c] = "failure"]
      /\ UNCHANGED <<call, read>>
  BY DEF Insert
<1> HIDE DEF row
<1> USE DEF AccountsState
<1>4. AccountsTypeOK'
  BY <1>1, <1>2, <1>3 DEF AccountsTypeOK, Active, Exception
<1>5. users[u] = None /\ \A v \in UserId : users[v] # None => users[v].email # call[c].email
  BY <1>1 DEF TableState, With
<1>6. TableState'
  BY <1>1, <1>2, <1>3, <1>5 DEF TableState, AccountsTypeOK
<1>7. /\ held'[c] = u /\ users'[u] # None
      /\ \/ pc'[c] = "r_reread"
         \/ pc'[c] = "error" /\ cause'[c] = "failure"
  BY <1>2, <1>3 DEF AccountsTypeOK
<1>8. u # None
  BY ConstantsAssumption
<1>9. RequestOf(c)' /\ LoginOf(c)'
  <2>1. call'[c] # None /\ call'[c].op = "register" /\ u \in issued'
    BY <1>1, <1>3, ConstantsAssumption
  <2>2. RequestOf(c)'
    BY <1>1, <1>3, <1>7, <1>8, <2>1 DEF RequestOf, Registering, LoggingIn
  <2>3. QED
    BY <2>1, <2>2 DEF LoginOf
<1>10. \A d \in Client \ {c} : /\ pc'[d] = pc[d] /\ call'[d] = call[d] /\ held'[d] = held[d]
                              /\ read'[d] = read[d] /\ cause'[d] = cause[d]
  BY <1>3 DEF AccountsTypeOK
<1>11. \A v \in issued : chosen'[v] = chosen[v] /\ (users[v] = None => users'[v] = None)
  BY <1>1, <1>3 DEF AccountsTypeOK
<1>12. \A d \in Client \ {c} : RequestOf(d)' /\ LoginOf(d)'
  BY <1>3, <1>10, <1>11, Undisturbed
<1>13. QED
  BY <1>4, <1>6, <1>9, <1>12

(* Every statement of a request (auth.service.ts:46-66, roles.guard.ts).   *)
LEMMA StepKeeps ==
  ASSUME AccountsState, NEW c \in Client, Step(c) \/ Fail(c)
  PROVE  /\ AccountsState' /\ pc[c] # "idle" /\ pc'[c] # "idle" /\ call' = call
         /\ \A d \in Client \ {c} : pc'[d] = pc[d]
<1> USE DEF Goto, Throw
<1>1. pc[c] # "idle" /\ pc'[c] # "idle" /\ call' = call /\ \A d \in Client \ {c} : pc'[d] = pc[d]
  BY DEF Step, Fail, RegisterFind, RegisterInsert, Insert, RegisterReread, RegisterShow,
         LoginFind, LoginCheck, GuardFind, Active, request, AccountsState, AccountsTypeOK
<1>2. RequestOf(c) /\ LoginOf(c)
  BY DEF AccountsState
<1>3. CASE RegisterFind(c)
  <2>1. RequestOf(c)' /\ LoginOf(c)'
    BY <1>2, <1>3 DEF RegisterFind, RequestOf, LoginOf, Registering, LoggingIn, AccountsState, AccountsTypeOK
  <2>2. QED
    BY <1>1, <1>3, <2>1, Moves DEF RegisterFind, Active, Exception
<1>4. CASE RegisterInsert(c)
  <2>1. CASE With(call[c].email) = {}
    BY <1>1, <1>4, <2>1, Inserts DEF RegisterInsert
  <2>2. CASE With(call[c].email) # {}
    <3>1. RequestOf(c)' /\ LoginOf(c)'
      BY <1>2, <1>4, <2>2 DEF RegisterInsert, RequestOf, LoginOf, Registering, LoggingIn, table,
         AccountsState, AccountsTypeOK
    <3>2. QED
      BY <1>1, <1>4, <2>2, <3>1, Moves DEF RegisterInsert, Active, Exception
  <2>3. QED
    BY <2>1, <2>2
<1>5. CASE RegisterReread(c)
  <2>1. RequestOf(c)' /\ LoginOf(c)'
    BY <1>2, <1>5 DEF RegisterReread, RequestOf, LoginOf, Registering, LoggingIn, table,
       AccountsState, AccountsTypeOK
  <2>2. QED
    BY <1>1, <1>5, <2>1, Moves DEF RegisterReread, Active, Exception
<1>6. CASE RegisterShow(c)
  <2>1. RequestOf(c)' /\ LoginOf(c)'
    BY <1>2, <1>6 DEF RegisterShow, RequestOf, LoginOf, Registering, LoggingIn, table, request,
       AccountsState, AccountsTypeOK
  <2>2. QED
    BY <1>1, <1>6, <2>1, Moves DEF RegisterShow, Active, request
<1>7. CASE LoginFind(c)
  <2>1. CASE With(call[c].email) = {}
    <3>1. RequestOf(c)' /\ LoginOf(c)'
      BY <1>2, <1>7, <2>1 DEF LoginFind, RequestOf, LoginOf, Registering, LoggingIn, table,
         AccountsState, AccountsTypeOK
    <3>2. QED
      BY <1>1, <1>7, <2>1, <3>1, Moves DEF LoginFind, Active, Exception
  <2>2. CASE With(call[c].email) # {}
    <3>1. PICK u \in With(call[c].email) :
            /\ held' = [held EXCEPT ![c] = u] /\ read' = [read EXCEPT ![c] = users[u].password]
            /\ pc' = [pc EXCEPT ![c] = "l_check"] /\ UNCHANGED cause
      BY <1>7, <2>2 DEF LoginFind
    <3>2. /\ u \in UserId /\ u # None /\ users[u] \in Row /\ u \in issued
          /\ users[u].password \in Stored
          /\ users[u].password.hashed => users[u].password.of = chosen[u]
      BY ConstantsAssumption DEF AccountsState, AccountsTypeOK, TableState, With, Row
    <3>3. UNCHANGED <<users, issued, call, chosen>> /\ pc[c] = "l_find"
      BY <1>7 DEF LoginFind, table
    <3>4. AccountsTypeOK'
      BY <3>1, <3>2, <3>3 DEF AccountsState, AccountsTypeOK, Active
    <3>5. TableState'
      BY <3>3 DEF AccountsState, TableState
    <3>6. pc'[c] = "l_check" /\ held'[c] = u /\ read'[c] = users[u].password
      BY <3>1 DEF AccountsState, AccountsTypeOK
    <3>7. RequestOf(c)' /\ LoginOf(c)'
      BY <1>2, <3>2, <3>3, <3>6 DEF RequestOf, LoginOf, Registering, LoggingIn
    <3>8. \A d \in Client \ {c} : /\ pc'[d] = pc[d] /\ call'[d] = call[d] /\ held'[d] = held[d]
                                 /\ read'[d] = read[d] /\ cause'[d] = cause[d]
      BY <3>1, <3>3 DEF AccountsState, AccountsTypeOK
    <3>9. \A d \in Client \ {c} : RequestOf(d)' /\ LoginOf(d)'
      BY <3>3, <3>8, Undisturbed
    <3>10. QED
      BY <1>1, <3>4, <3>5, <3>7, <3>9 DEF AccountsState
  <2>3. QED
    BY <2>1, <2>2
<1>8. CASE LoginCheck(c)
  <2>1. RequestOf(c)'
    BY <1>2, <1>8 DEF LoginCheck, RequestOf, Registering, LoggingIn, table,
       AccountsState, AccountsTypeOK
  <2>2. Matches(read[c], call[c].password) <=> read[c].hashed /\ read[c].of = call[c].password
    <3>1. read[c] \in Stored
      BY <1>2, <1>8 DEF LoginCheck, LoginOf, RequestOf, LoggingIn
    <3>2. \A s \in Stored : \A p : s = Hash(p) <=> s.hashed = TRUE /\ s.of = p
      BY DEF Stored, Hash
    <3>3. read[c].hashed \in BOOLEAN
      BY <3>1 DEF Stored
    <3>4. QED
      BY <3>1, <3>2, <3>3 DEF Matches
  <2>3. LoginOf(c)'
    BY <1>2, <1>8, <2>2 DEF LoginCheck, LoginOf, RequestOf, LoggingIn, table,
       AccountsState, AccountsTypeOK
  <2>4. QED
    BY <1>1, <1>8, <2>1, <2>3, Moves DEF LoginCheck, Active, Exception
<1>9. CASE GuardFind(c)
  <2>1. PICK h \in UserId \cup {None} :
          /\ held' = [held EXCEPT ![c] = h]
          /\ h # None => h \in issued
          /\ h # None <=> pc'[c] = "ok"
          /\ pc'[c] \in {"ok", "error"}
    <3>1. call[c].token \in UserId /\ held[c] = None /\ call[c].token # None
      BY <1>2, <1>9, ConstantsAssumption DEF GuardFind, RequestOf
    <3>2. CASE users[call[c].token] # None
      BY <1>9, <3>1, <3>2 DEF GuardFind, AccountsState, AccountsTypeOK, TableState
    <3>3. CASE users[call[c].token] = None
      <4>1. held' = [held EXCEPT ![c] = None]
        BY <1>9, <3>1, <3>3 DEF GuardFind, AccountsState, AccountsTypeOK
      <4>2. QED
        BY <1>9, <3>3, <4>1 DEF GuardFind, AccountsState, AccountsTypeOK
    <3>4. QED
      BY <3>2, <3>3
  <2>2. /\ UNCHANGED <<users, issued, call, read, chosen>> /\ call[c].op = "guarded" /\ call[c] # None
        /\ \/ pc' = [pc EXCEPT ![c] = "ok"] /\ UNCHANGED cause
           \/ pc' = [pc EXCEPT ![c] = "error"] /\ cause' = [cause EXCEPT ![c] = "forbidden"]
    BY <1>2, <1>9 DEF GuardFind, table, RequestOf
  <2>3. AccountsTypeOK'
    BY <2>1, <2>2 DEF AccountsState, AccountsTypeOK, Active, Exception
  <2>4. TableState'
    BY <2>2 DEF AccountsState, TableState
  <2>5. held'[c] = h /\ \A d \in Client \ {c} :
                           /\ pc'[d] = pc[d] /\ call'[d] = call[d] /\ held'[d] = held[d]
                           /\ read'[d] = read[d] /\ cause'[d] = cause[d]
    BY <2>1, <2>2 DEF AccountsState, AccountsTypeOK
  <2>6. RequestOf(c)' /\ LoginOf(c)'
    BY <2>1, <2>2, <2>5 DEF RequestOf, LoginOf, Registering, LoggingIn
  <2>7. \A d \in Client \ {c} : RequestOf(d)' /\ LoginOf(d)'
    BY <2>2, <2>5, Undisturbed
  <2>8. QED
    BY <1>1, <2>3, <2>4, <2>6, <2>7 DEF AccountsState
<1>10. CASE Fail(c)
  <2>1. RequestOf(c)' /\ LoginOf(c)'
    BY <1>2, <1>10 DEF Fail, RequestOf, LoginOf, Registering, LoggingIn, Active, table,
       AccountsState, AccountsTypeOK
  <2>2. QED
    BY <1>1, <1>10, <2>1, Moves DEF Fail, Active, Exception
<1>11. QED
  BY <1>3, <1>4, <1>5, <1>6, <1>7, <1>8, <1>9, <1>10 DEF Step

(* A client takes its answer (auth.service.ts:55,65).                      *)
LEMMA TakeKeeps ==
  ASSUME AccountsState, NEW c \in Client, Take(c)
  PROVE  /\ AccountsState' /\ pc'[c] = "idle"
         /\ \A d \in Client \ {c} : pc'[d] = pc[d] /\ call'[d] = call[d]
<1> USE DEF Take, Goto, table
<1>1. AccountsTypeOK'
  BY DEF AccountsState, AccountsTypeOK
<1>2. TableState'
  BY DEF AccountsState, TableState
<1>3. pc'[c] = "idle" /\ call'[c] = None /\ held'[c] = None
  BY DEF AccountsState, AccountsTypeOK
<1>4. RequestOf(c)' /\ LoginOf(c)'
  BY <1>3 DEF RequestOf, LoginOf, Registering, LoggingIn
<1>5. \A d \in Client \ {c} : /\ pc'[d] = pc[d] /\ call'[d] = call[d] /\ held'[d] = held[d]
                             /\ read'[d] = read[d] /\ cause'[d] = cause[d]
  BY DEF AccountsState, AccountsTypeOK
<1>6. \A d \in Client \ {c} : RequestOf(d)' /\ LoginOf(d)'
  BY <1>5, Undisturbed
<1>7. QED
  BY <1>1, <1>2, <1>3, <1>4, <1>5, <1>6 DEF AccountsState

(* PATCH and DELETE of a user, between any two statements of a request     *)
(* (user.controller.ts).                                                   *)
LEMMA OperatorKeeps ==
  ASSUME AccountsState, NEW u \in UserId, Operator(u)
  PROVE  AccountsState' /\ pc' = pc /\ call' = call
<1>1. UNCHANGED <<issued, pc, call, held, read, cause, chosen>>
  BY DEF Operator, PatchPassword, PatchEmail, RemoveUser, request
<1>2. PICK row \in Row \cup {None} :
        /\ users' = [users EXCEPT ![u] = row]
        /\ users[u] # None
        /\ row # None =>
             /\ row.password.hashed => row.password = users[u].password
             /\ row.email # users[u].email =>
                  \A v \in UserId : users[v] # None => users[v].email # row.email
  <2>1. users[u] # None /\ users[u] \in Row
    BY DEF Operator, PatchPassword, PatchEmail, RemoveUser, AccountsState, AccountsTypeOK
  <2>2. CASE PatchPassword(u)
    <3>1. PICK p \in Password : users' = [users EXCEPT ![u].password = [hashed |-> FALSE, of |-> p]]
      BY <2>2 DEF PatchPassword
    <3> DEFINE new == [users[u] EXCEPT !.password = [hashed |-> FALSE, of |-> p]]
    <3>2. new \in Row /\ new.email = users[u].email /\ new.password.hashed = FALSE
      BY <2>1 DEF Row, Stored
    <3>3. users' = [users EXCEPT ![u] = new]
      BY <3>1
    <3> HIDE DEF new
    <3>4. QED
      BY <2>1, <3>2, <3>3
  <2>3. CASE PatchEmail(u)
    <3>1. PICK e \in Email : With(e) \subseteq {u} /\ users' = [users EXCEPT ![u].email = e]
      BY <2>3 DEF PatchEmail
    <3> DEFINE new == [users[u] EXCEPT !.email = e]
    <3>2. new \in Row /\ new.email = e /\ new.password = users[u].password
      BY <2>1 DEF Row
    <3>3. users' = [users EXCEPT ![u] = new]
      BY <3>1
    <3> HIDE DEF new
    <3>4. \A v \in UserId : users[v] # None /\ users[v].email = e => v = u
      BY <3>1 DEF With
    <3>5. QED
      BY <2>1, <3>2, <3>3, <3>4
  <2>4. CASE RemoveUser(u)
    BY <2>1, <2>4 DEF RemoveUser
  <2>5. QED
    BY <2>2, <2>3, <2>4 DEF Operator
<1>3. AccountsTypeOK'
  BY <1>1, <1>2 DEF AccountsState, AccountsTypeOK
<1>4. TableState'
  <2>1. \A v \in UserId : users'[v] = IF v = u THEN row ELSE users[v]
    BY <1>2 DEF AccountsState, AccountsTypeOK
  <2>2. QED
    BY <1>1, <1>2, <2>1 DEF AccountsState, TableState
<1>5. \A v \in issued : chosen'[v] = chosen[v] /\ (users[v] = None => users'[v] = None)
  BY <1>1, <1>2 DEF AccountsState, AccountsTypeOK
<1>6. \A d \in Client : RequestOf(d)' /\ LoginOf(d)'
  BY <1>1, <1>5, Undisturbed
<1>7. QED
  BY <1>1, <1>3, <1>4, <1>6 DEF AccountsState

-----------------------------------------------------------------------------
(* The tabs.  The refresh token is in the storage only between the two     *)
(* writes of a form; a tab is signed in by its form, and until another     *)
(* form stores a token the storage holds the account it signed in.         *)
TabState ==
    /\ access \in UserId \cup {None} /\ aged \in BOOLEAN
    /\ refresh \in {"none", "token", "empty"}
    /\ auth \in SUBSET Client /\ between \in SUBSET Client /\ overtaken \in SUBSET Client
    /\ form \in [Client -> {"idle", "register", "login", "stored", "call"}]
    /\ who \in [Client -> UserId \cup {None}]
    /\ refresh = "token" => \E t \in Client : form[t] = "stored"
    /\ \A t \in Client :
         /\ form[t] = "stored" => pc[t] = "idle" /\ who[t] # None /\ t \notin auth
         /\ form[t] = "register" => pc[t] # "idle" /\ call[t].op = "register"
         /\ form[t] = "login" => pc[t] # "idle" /\ call[t].op = "login" /\ t \notin auth
         /\ form[t] = "call" => pc[t] # "idle" /\ call[t].op = "guarded"
         /\ t \in auth => who[t] # None \/ t \in between
         /\ t \in auth /\ who[t] # None => access = who[t] \/ t \in overtaken
         /\ form[t] = "call" /\ who[t] # None => call[t].token = who[t] \/ t \in overtaken

State == AccountsState /\ TabState

(* Every action of the tabs and of the accounts below them.                *)
LEMMA StateIsKept == State /\ [Next]_vars => State'
<1> SUFFICES ASSUME AccountsState, TabState, [Next]_vars PROVE State'
  BY DEF State
<1> USE DEF storage, tabs, browser, Await
<1>1. ASSUME NEW t \in Client, Open(t) PROVE State'
  <2>1. AccountsState'
    BY <1>1 DEF Open, accounts, table, request, AccountsState, AccountsTypeOK, TableState, RequestOf, LoginOf
  <2>2. TabState'
    BY <1>1 DEF Open, accounts, request, TabState
  <2>3. QED
    BY <2>1, <2>2 DEF State
<1>2. ASSUME NEW t \in Client, SubmitRegister(t) PROVE State'
  <2>1. PICK e \in Email, p \in Password : StartRegister(t, e, p)
    BY <1>2 DEF SubmitRegister
  <2>2. /\ AccountsState' /\ pc'[t] # "idle" /\ call'[t].op = "register"
        /\ \A d \in Client \ {t} : pc'[d] = pc[d] /\ call'[d] = call[d]
    BY <2>1, Begins DEF StartRegister, Exception
  <2>3. TabState'
    BY <1>2, <2>2 DEF SubmitRegister, TabState
  <2>4. QED
    BY <2>2, <2>3 DEF State
<1>3. ASSUME NEW t \in Client, SubmitLogin(t) PROVE State'
  <2>1. PICK e \in Email, p \in Password : StartLogin(t, e, p)
    BY <1>3 DEF SubmitLogin
  <2>2. /\ AccountsState' /\ pc'[t] # "idle" /\ call'[t].op = "login"
        /\ \A d \in Client \ {t} : pc'[d] = pc[d] /\ call'[d] = call[d]
    BY <2>1, Begins DEF StartLogin, Exception
  <2>3. TabState'
    BY <1>3, <2>2 DEF SubmitLogin, TabState
  <2>4. QED
    BY <2>2, <2>3 DEF State
<1>4. ASSUME NEW t \in Client, SendCall(t) PROVE State'
  <2>1. access \in UserId \cup {None} /\ StartGuarded(t, access, ~aged)
    BY <1>4 DEF SendCall, TabState
  <2>2. /\ AccountsState' /\ pc'[t] # "idle" /\ call'[t].op = "guarded" /\ call'[t].token = access
        /\ \A d \in Client \ {t} : pc'[d] = pc[d] /\ call'[d] = call[d]
    <3>1. CASE access # None /\ ~aged /\ Begin(t, "guarded", None, None, access, "g_find") /\ UNCHANGED cause
      BY <2>1, <3>1, Begins DEF Exception
    <3>2. CASE access # None /\ Begin(t, "guarded", None, None, access, "error")
               /\ cause' = [cause EXCEPT ![t] = "token"]
      <4>1. "token" \in Exception
        BY DEF Exception
      <4>2. QED
        BY <2>1, <3>2, <4>1, Begins
    <3>3. CASE access = None /\ Begin(t, "guarded", None, None, None, "error")
               /\ cause' = [cause EXCEPT ![t] = "forbidden"]
      <4>1. "forbidden" \in Exception
        BY DEF Exception
      <4>2. QED
        BY <2>1, <3>3, <4>1, Begins
    <3>4. QED
      BY <2>1, <3>1, <3>2, <3>3 DEF StartGuarded
  <2>3. TabState'
    BY <1>4, <2>2 DEF SendCall, TabState
  <2>4. QED
    BY <2>2, <2>3 DEF State
<1>5. ASSUME NEW t \in Client, Answer(t) PROVE State'
  <2>1. /\ AccountsState' /\ pc'[t] = "idle"
        /\ \A d \in Client \ {t} : pc'[d] = pc[d] /\ call'[d] = call[d]
    BY <1>5, TakeKeeps DEF Answer
  <2>2. pc[t] \in {"ok", "error"} /\ form[t] # "stored"
    BY <1>5 DEF Answer, Take, TabState
  <2>3. CASE pc[t] = "ok" /\ form[t] = "login"
    <3>1. held[t] \in UserId
      BY <2>3 DEF AccountsState, AccountsTypeOK, RequestOf, LoginOf, TabState
    <3>2. held[t] # None
      BY <3>1, ConstantsAssumption
    <3>3. /\ access' = held[t] /\ aged' = FALSE /\ refresh' = "token"
          /\ form' = [form EXCEPT ![t] = "stored"]
          /\ who' = [who EXCEPT ![t] = held[t]]
          /\ overtaken' = overtaken \cup {s \in auth \ {t} : who[s] # None}
          /\ UNCHANGED <<auth, between>> /\ t \notin auth
      BY <1>5, <2>3 DEF Answer, TabState
    <3>4. TabState'
      BY <2>1, <3>1, <3>2, <3>3 DEF TabState
    <3>5. QED
      BY <2>1, <3>4 DEF State
  <2>4. CASE ~(pc[t] = "ok" /\ form[t] = "login")
    <3>1. form' = [form EXCEPT ![t] = "idle"] /\ UNCHANGED <<access, aged, refresh, auth, who, between, overtaken>>
      BY <1>5, <2>2, <2>4 DEF Answer, Rejected, StatusCode
    <3>2. TabState'
      BY <2>1, <2>2, <3>1 DEF TabState
    <3>3. QED
      BY <2>1, <3>2 DEF State
  <2>5. QED
    BY <2>3, <2>4
<1>6. ASSUME NEW t \in Client, FinishLogin(t) PROVE State'
  <2>1. AccountsState'
    BY <1>6 DEF FinishLogin, accounts, table, request, AccountsState, AccountsTypeOK, TableState, RequestOf, LoginOf
  <2>2. TabState'
    BY <1>6 DEF FinishLogin, accounts, request, TabState
  <2>3. QED
    BY <2>1, <2>2 DEF State
<1>7. ASSUME NEW t \in Client, Step(t) \/ Fail(t), UNCHANGED browser PROVE State'
  <2>1. /\ AccountsState' /\ pc[t] # "idle" /\ pc'[t] # "idle" /\ call' = call
        /\ \A d \in Client \ {t} : pc'[d] = pc[d]
    BY <1>7, StepKeeps
  <2>2. TabState'
    BY <1>7, <2>1 DEF TabState
  <2>3. QED
    BY <2>1, <2>2 DEF State
<1>8. ASSUME NEW u \in UserId, Operator(u), UNCHANGED browser PROVE State'
  <2>1. AccountsState' /\ pc' = pc /\ call' = call
    BY <1>8, OperatorKeeps
  <2>2. TabState'
    BY <1>8, <2>1 DEF TabState
  <2>3. QED
    BY <2>1, <2>2 DEF State
<1>9. CASE Expire \/ UNCHANGED vars
  <2>1. AccountsState'
    BY <1>9 DEF Expire, vars, accounts, table, request, AccountsState, AccountsTypeOK, TableState, RequestOf, LoginOf
  <2>2. TabState'
    BY <1>9 DEF Expire, vars, accounts, request, TabState
  <2>3. QED
    BY <2>1, <2>2 DEF State
<1>10. QED
  BY <1>1, <1>2, <1>3, <1>4, <1>5, <1>6, <1>7, <1>8, <1>9 DEF Next

(* Types, the table, and what every request and every tab has found        *)
(* (auth.service.ts:46-66, AuthContext.tsx:16-34, useLogin.ts:12-13).      *)
THEOREM AccountsAndTabs == Spec => []State
<1>1. Init => State
  BY DEF Init, AccountsInit, State, AccountsState, AccountsTypeOK, TableState, TabState,
         RequestOf, LoginOf, Registering, LoggingIn
<1>2. QED
  BY <1>1, StateIsKept, PTL DEF Spec

(* Types of the table, the requests and the tabs (auth.service.ts:46-66,   *)
(* AuthContext.tsx:16-34).                                                 *)
THEOREM SignInTypes == Spec => []TypeOK
<1>1. State => TypeOK
  BY DEF State, AccountsState, TabState, TypeOK
<1>2. QED
  BY <1>1, AccountsAndTabs, PTL

(* One account to an e-mail, and a refused registration has made none      *)
(* (auth.service.ts:46-55, user.ts:18).                                    *)
THEOREM RegistrationsAgreeAlways == Spec => []RegistrationsAgree
<1>1. State => RegistrationsAgree
  <2> SUFFICES ASSUME State PROVE RegistrationsAgree
    OBVIOUS
  <2>1. ASSUME NEW e \in Email, NEW u \in With(e), NEW v \in With(e) PROVE u = v
    BY <2>1 DEF State, AccountsState, TableState, With
  <2>2. QED
    BY <2>1 DEF State, AccountsState, RequestOf, RegistrationsAgree
<1>2. QED
  BY <1>1, AccountsAndTabs, PTL

(* Who is let in gave the password of the registration                     *)
(* (auth.service.ts:57-66).                                                *)
THEOREM OwnersAreAnswered == Spec => []LoginsAnswerTheOwner
<1>1. State => LoginsAnswerTheOwner
  BY DEF State, AccountsState, LoginOf, LoginsAnswerTheOwner
<1>2. QED
  BY <1>1, AccountsAndTabs, PTL

(* Loading a page signs nobody in, but between the two writes of a form    *)
(* (AuthContext.tsx:16-34, useLogin.ts:12-13).                             *)
THEOREM FormsSignIn == Spec => []OnlyTheFormSignsIn
<1>1. State => OnlyTheFormSignsIn
  BY DEF State, TabState, OnlyTheFormSignsIn
<1>2. QED
  BY <1>1, AccountsAndTabs, PTL

(* A call carries the token of the tab's own form unless another form has  *)
(* stored its own (api/index.ts:12-20).                                    *)
THEOREM CallsRunAsTheForm == Spec => []CallsRunAsSignedIn
<1>1. State => CallsRunAsSignedIn
  BY DEF State, TabState, CallsRunAsSignedIn
<1>2. QED
  BY <1>1, AccountsAndTabs, PTL

=============================================================================
