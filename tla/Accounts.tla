------------------------------ MODULE Accounts ------------------------------
(***************************************************************************)
(* Accounts: AuthService.register and login, RolesGuard, and the update    *)
(* and removal of a user (backend/src/auth, backend/src/user), over the    *)
(* table users with its unique index on email.                             *)
(*                                                                         *)
(* A client has one request at a time; its answer stays until the client   *)
(* has taken it.  An action is one statement with the code up to the next. *)
(* A statement may fail, or commit and lose its answer.  Hashing is exact  *)
(* and one to one: a hashed password is the password with a mark.          *)
(***************************************************************************)
EXTENDS Naturals

CONSTANTS
    Client,     \* who sends requests
    Email,
    Password,
    UserId,     \* uuids of accounts
    None        \* no row, no account, no argument

Stored == [hashed : BOOLEAN, of : Password]

Row == [email : Email, password : Stored]

Call == [op : {"register", "login", "guarded"}, email : Email \cup {None},
         password : Password \cup {None}, token : UserId \cup {None}]

ASSUME ConstantsAssumption ==
    None \notin Row \cup Call \cup UserId \cup Email \cup Password

VARIABLES
    users,      \* UserId -> row of the table users, or None
    issued,     \* uuids the database has given to accounts; never reused
    pc,         \* Client -> the statement its request waits for
    call,       \* Client -> its request, or None
    held,       \* Client -> the account the request has found or made
    read,       \* Client -> the password column as login read it
    cause       \* Client -> the kind of exception an error answers

(* History variable: no action reads it.                                   *)
VARIABLE
    chosen      \* UserId -> the password the account was registered with

table    == <<users, issued>>
request  == <<call, held, read, cause>>
accounts == <<table, pc, request, chosen>>

Active == {"r_find", "r_insert", "r_reread", "r_show", "l_find", "l_check", "g_find"}

Exception == {"assertion", "unique", "token", "forbidden", "failure"}

AccountsTypeOK ==
    /\ users \in [UserId -> Row \cup {None}]
    /\ issued \in SUBSET UserId
    /\ pc \in [Client -> {"idle", "ok", "error"} \cup Active]
    /\ call \in [Client -> Call \cup {None}]
    /\ held \in [Client -> UserId \cup {None}]
    /\ read \in [Client -> Stored \cup {None}]
    /\ cause \in [Client -> Exception \cup {None}]
    /\ chosen \in [UserId -> Password \cup {None}]

AccountsInit ==
    /\ users = [u \in UserId |-> None]
    /\ issued = {}
    /\ pc = [c \in Client |-> "idle"]
    /\ call = [c \in Client |-> None]
    /\ held = [c \in Client |-> None]
    /\ read = [c \in Client |-> None]
    /\ cause = [c \in Client |-> None]
    /\ chosen = [u \in UserId |-> None]

-----------------------------------------------------------------------------
(* A definition whose name ends in _Bug is a plausible mistake in the      *)
(* definition after it; no specification uses it.                          *)

Goto(c, label) == pc' = [pc EXCEPT ![c] = label]

Throw(c, kind) == Goto(c, "error") /\ cause' = [cause EXCEPT ![c] = kind]

With(e) == {u \in UserId : users[u] # None /\ users[u].email = e}

(* crypto.pbkdf2 with the row's secret.                                    *)
Hash(p) == [hashed |-> TRUE, of |-> p]

Begin(c, op, e, p, token, label) ==
    /\ pc[c] = "idle"
    /\ call' = [call EXCEPT ![c] =
          [op |-> op, email |-> e, password |-> p, token |-> token]]
    /\ Goto(c, label)
    /\ UNCHANGED <<table, held, read, chosen>>

StartRegister(c, e, p) == Begin(c, "register", e, p, None, "r_find") /\ UNCHANGED cause

StartLogin(c, e, p) == Begin(c, "login", e, p, None, "l_find") /\ UNCHANGED cause

(* RolesGuard: passport verifies a bearer token before the account is      *)
(* looked up; without a token nothing is looked up.                        *)
StartGuarded(c, token, valid) ==
    \/ /\ token # None /\ valid
       /\ Begin(c, "guarded", None, None, token, "g_find")
       /\ UNCHANGED cause
    \/ /\ token # None /\ ~valid
       /\ Begin(c, "guarded", None, None, token, "error")
       /\ cause' = [cause EXCEPT ![c] = "token"]
    \/ /\ token = None
       /\ Begin(c, "guarded", None, None, None, "error")
       /\ cause' = [cause EXCEPT ![c] = "forbidden"]

(* The client has the answer.                                              *)
Take(c) ==
    /\ pc[c] \in {"ok", "error"}
    /\ Goto(c, "idle")
    /\ call' = [call EXCEPT ![c] = None]
    /\ held' = [held EXCEPT ![c] = None]
    /\ read' = [read EXCEPT ![c] = None]
    /\ cause' = [cause EXCEPT ![c] = None]
    /\ UNCHANGED <<table, chosen>>

-----------------------------------------------------------------------------
(* register: findOne({ email }), assert none, hash, then create.           *)
RegisterFind(c) ==
    /\ pc[c] = "r_find"
    /\ \/ /\ With(call[c].email) # {}
          /\ Throw(c, "assertion")
       \/ /\ With(call[c].email) = {}
          /\ Goto(c, "r_insert")
          /\ UNCHANGED cause
    /\ UNCHANGED <<table, call, held, read, chosen>>

Insert(c, u) ==
    /\ u \notin issued
    /\ users' = [users EXCEPT ![u] =
          [email |-> call[c].email, password |-> Hash(call[c].password)]]
    /\ issued' = issued \cup {u}
    /\ held' = [held EXCEPT ![c] = u]
    /\ chosen' = [chosen EXCEPT ![u] = call[c].password]
    /\ \/ Goto(c, "r_reread") /\ UNCHANGED cause
       \/ Throw(c, "failure")
    /\ UNCHANGED <<call, read>>

(* A table without the unique index.                                       *)
RegisterInsert_Bug(c) ==
    /\ pc[c] = "r_insert"
    /\ \E u \in UserId : Insert(c, u)

(* The INSERT: the unique index refuses an e-mail that is taken by now.    *)
RegisterInsert(c) ==
    /\ pc[c] = "r_insert"
    /\ \/ /\ With(call[c].email) = {}
          /\ \E u \in UserId : Insert(c, u)
       \/ /\ With(call[c].email) # {}
          /\ Throw(c, "unique")
          /\ UNCHANGED <<table, call, held, read, chosen>>

(* The row is looked for by what was asked for, the password in clear.     *)
RegisterReread_Bug(c) ==
    /\ pc[c] = "r_reread"
    /\ \/ /\ users[held[c]] # None /\ users[held[c]].email = call[c].email
          /\ users[held[c]].password = [hashed |-> FALSE, of |-> call[c].password]
          /\ Goto(c, "r_show") /\ UNCHANGED cause
       \/ /\ users[held[c]] = None \/ users[held[c]].password.hashed
          /\ Throw(c, "assertion")
    /\ UNCHANGED <<table, call, held, read, chosen>>

(* The read of CommonService.create.  UserService.create takes res.uuid,   *)
(* which throws when the row is gone.                                      *)
RegisterReread(c) ==
    /\ pc[c] = "r_reread"
    /\ \/ users[held[c]] # None /\ Goto(c, "r_show") /\ UNCHANGED cause
       \/ users[held[c]] = None /\ Throw(c, "assertion")
    /\ UNCHANGED <<table, call, held, read, chosen>>

(* The read of UserService.create, without the password.                   *)
RegisterShow(c) ==
    /\ pc[c] = "r_show"
    /\ Goto(c, "ok")
    /\ UNCHANGED <<table, request, chosen>>

-----------------------------------------------------------------------------
(* login                                                                   *)

LoginFind(c) ==
    /\ pc[c] = "l_find"
    /\ \/ /\ With(call[c].email) = {}
          /\ Throw(c, "assertion")
          /\ UNCHANGED <<held, read>>
       \/ \E u \in With(call[c].email) :
             /\ held' = [held EXCEPT ![c] = u]
             /\ read' = [read EXCEPT ![c] = users[u].password]
             /\ Goto(c, "l_check")
             /\ UNCHANGED cause
    /\ UNCHANGED <<table, call, chosen>>

(* A column that holds no hash is compared as it is.                       *)
Matches_Bug(stored, p) == stored.of = p

(* checkPassword compares the hash of what was given to the column.        *)
Matches(stored, p) == stored = Hash(p)

(* Two tokens over the account's uuid are the answer.                      *)
LoginCheck(c) ==
    /\ pc[c] = "l_check"
    /\ \/ Matches(read[c], call[c].password) /\ Goto(c, "ok") /\ UNCHANGED cause
       \/ ~Matches(read[c], call[c].password) /\ Throw(c, "assertion")
    /\ UNCHANGED <<table, call, held, read, chosen>>

(* RolesGuard.getUser; a guard that answers false is a Forbidden.          *)
GuardFind(c) ==
    /\ pc[c] = "g_find"
    /\ \/ /\ users[call[c].token] # None
          /\ held' = [held EXCEPT ![c] = call[c].token]
          /\ Goto(c, "ok")
          /\ UNCHANGED cause
       \/ /\ users[call[c].token] = None
          /\ Throw(c, "forbidden")
          /\ UNCHANGED held
    /\ UNCHANGED <<table, call, read, chosen>>

-----------------------------------------------------------------------------
(* PATCH /user/:uuid writes the body as it is: the password unhashed, an   *)
(* e-mail as long as the index allows.                                     *)
PatchPassword(u) ==
    /\ users[u] # None
    /\ \E p \in Password :
         users' = [users EXCEPT ![u].password = [hashed |-> FALSE, of |-> p]]
    /\ UNCHANGED <<issued, pc, request, chosen>>

PatchEmail(u) ==
    /\ users[u] # None
    /\ \E e \in Email :
         /\ With(e) \subseteq {u}
         /\ users' = [users EXCEPT ![u].email = e]
    /\ UNCHANGED <<issued, pc, request, chosen>>

(* DELETE /user/:uuid, a DELETE of the row.                                *)
RemoveUser(u) ==
    /\ users[u] # None
    /\ users' = [users EXCEPT ![u] = None]
    /\ UNCHANGED <<issued, pc, request, chosen>>

(* A statement fails without effect.                                       *)
Fail(c) ==
    /\ pc[c] \in Active
    /\ Throw(c, "failure")
    /\ UNCHANGED <<table, call, held, read, chosen>>

Step(c) ==
    \/ RegisterFind(c) \/ RegisterInsert(c) \/ RegisterReread(c) \/ RegisterShow(c)
    \/ LoginFind(c) \/ LoginCheck(c) \/ GuardFind(c)

Operator(u) == PatchPassword(u) \/ PatchEmail(u) \/ RemoveUser(u)

-----------------------------------------------------------------------------
(* An e-mail has one account, whatever registrations and changes overlap;  *)
(* a registration that is refused has made none, or it was removed before  *)
(* it could be shown.                                                      *)
RegistrationsAgree ==
    /\ \A e \in Email : \A u, v \in With(e) : u = v
    /\ \A c \in Client :
         pc[c] = "error" /\ call[c].op = "register" /\ cause[c] # "failure" =>
             held[c] = None \/ users[held[c]] = None

(* Who is let in gave the password the account was registered with, and    *)
(* who gave it is let in, unless a PATCH has overwritten the column: the   *)
(* account then accepts neither the new password nor the old one.          *)
LoginsAnswerTheOwner ==
    \A c \in Client : call[c] # None /\ call[c].op = "login" /\ held[c] # None =>
        /\ pc[c] = "ok" => call[c].password = chosen[held[c]]
        /\ pc[c] = "error" /\ call[c].password = chosen[held[c]] =>
              ~read[c].hashed \/ cause[c] = "failure"

=============================================================================
