------------------------------- MODULE SignIn -------------------------------
(***************************************************************************)
(* SignIn: browser tabs over Accounts.  AuthProvider, LoginForm,           *)
(* RegisterForm, useLogin, useRegister and the two interceptors of         *)
(* api/index.ts (frontend/src), with the localStorage the tabs share and   *)
(* the status AllExceptionsFilter (backend/libs/shared/src/filters) gives  *)
(* to an exception.  A tab is a client of Accounts.                        *)
(*                                                                         *)
(* logout has no caller, the refresh token no reader but AuthProvider.     *)
(***************************************************************************)
EXTENDS Accounts

VARIABLES
    access,     \* the account of the access token in localStorage, or None
    aged,       \* that token has expired
    refresh,    \* the refresh token there: "none", "token" or "empty"
    auth,       \* tabs whose isAuthenticated is set
    form        \* Client -> what the tab waits for

(* History variables: no action reads them.                                *)
VARIABLES
    who,        \* Client -> the account its own form signed in, or None
    between,    \* tabs that opened between the two writes of another's form
    overtaken   \* tabs signed in when another tab's form stored its token

storage == <<access, aged, refresh>>
tabs    == <<auth, form, who, between, overtaken>>
browser == <<storage, tabs>>
vars    == <<accounts, browser>>

TypeOK ==
    /\ AccountsTypeOK
    /\ access \in UserId \cup {None} /\ aged \in BOOLEAN
    /\ refresh \in {"none", "token", "empty"}
    /\ auth \in SUBSET Client
    /\ form \in [Client -> {"idle", "register", "login", "stored", "call"}]
    /\ who \in [Client -> UserId \cup {None}]
    /\ between \in SUBSET Client /\ overtaken \in SUBSET Client

Init ==
    /\ AccountsInit
    /\ access = None /\ aged = FALSE /\ refresh = "none"
    /\ auth = {}
    /\ form = [t \in Client |-> "idle"]
    /\ who = [t \in Client |-> None]
    /\ between = {} /\ overtaken = {}

-----------------------------------------------------------------------------
Await(t, what) == form' = [form EXCEPT ![t] = what]

(* A tab is opened or loaded again: AuthProvider looks for both tokens.    *)
(* An answer under way is lost to it.  The two writes of a form are two    *)
(* microtasks of one tab, which a load of the same tab cannot part.        *)
Open(t) ==
    /\ form[t] # "stored"
    /\ LET in == access # None /\ refresh = "token"
           parted == in /\ \E s \in Client : form[s] = "stored"
       IN /\ auth' = IF in THEN auth \cup {t} ELSE auth \ {t}
          /\ between' = IF parted THEN between \cup {t} ELSE between \ {t}
    /\ Await(t, "idle")
    /\ who' = [who EXCEPT ![t] = None]
    /\ overtaken' = overtaken \ {t}
    /\ UNCHANGED <<accounts, storage>>

(* The forms are shown to tabs that are not signed in.                     *)
SubmitRegister(t) ==
    /\ t \notin auth /\ form[t] = "idle"
    /\ \E e \in Email, p \in Password : StartRegister(t, e, p)
    /\ Await(t, "register")
    /\ UNCHANGED <<storage, auth, who, between, overtaken>>

SubmitLogin(t) ==
    /\ t \notin auth /\ form[t] = "idle"
    /\ \E e \in Email, p \in Password : StartLogin(t, e, p)
    /\ Await(t, "login")
    /\ UNCHANGED <<storage, auth, who, between, overtaken>>

(* A call of the API carries the access token of the storage, whoever      *)
(* put it there.                                                           *)
SendCall(t) ==
    /\ t \in auth /\ form[t] = "idle"
    /\ StartGuarded(t, access, ~aged)
    /\ Await(t, "call")
    /\ UNCHANGED <<storage, auth, who, between, overtaken>>

(* exception.statusCode || 400.  None of these has a statusCode: Nest      *)
(* keeps it in status, passport and assert have none.                      *)
StatusCode(kind) == 400

(* Every error signs the tab out.                                          *)
Rejected_Bug(t, unauthorized) ==
    access' = None /\ aged' = FALSE /\ refresh' = "none" /\ auth' = auth \ {t}

(* What the response interceptor does: on a 401 it drops the tokens and    *)
(* loads the page /login.                                                  *)
Rejected(t, unauthorized) ==
    IF unauthorized
    THEN access' = None /\ aged' = FALSE /\ refresh' = "none" /\ auth' = auth \ {t}
    ELSE UNCHANGED <<storage, auth>>

(* An answer.  useLogin stores both tokens.                                 *)
Answer(t) ==
    /\ Take(t)
    /\ \/ /\ pc[t] = "ok" /\ form[t] = "login"
          /\ access' = held[t] /\ aged' = FALSE /\ refresh' = "token"
          /\ Await(t, "stored")
          /\ who' = [who EXCEPT ![t] = held[t]]
          /\ overtaken' = overtaken \cup {s \in auth \ {t} : who[s] # None}
          /\ UNCHANGED <<auth, between>>
       \/ /\ pc[t] = "ok" /\ form[t] # "login"
          /\ Await(t, "idle")
          /\ UNCHANGED <<storage, auth, who, between, overtaken>>
       \/ /\ pc[t] = "error" /\ Await(t, "idle")
          /\ Rejected(t, form[t] # "idle" /\ StatusCode(cause[t]) = 401)
          /\ UNCHANGED <<who, between, overtaken>>

(* The refresh token is handed on.                                         *)
FinishLogin_Bug(t) ==
    /\ form[t] = "stored"
    /\ access' = who[t] /\ aged' = FALSE /\ refresh' = "token"
    /\ auth' = auth \cup {t}
    /\ Await(t, "idle")
    /\ UNCHANGED <<accounts, who, between, overtaken>>

(* LoginForm goes on with login(access_token, '', '').                     *)
FinishLogin(t) ==
    /\ form[t] = "stored"
    /\ access' = who[t] /\ aged' = FALSE /\ refresh' = "empty"
    /\ auth' = auth \cup {t}
    /\ Await(t, "idle")
    /\ overtaken' = overtaken \cup {s \in auth \ {t} : who[s] # None}
    /\ UNCHANGED <<accounts, who, between>>

(* The access token runs out; nothing asks for another.                    *)
Expire ==
    /\ access # None /\ ~aged
    /\ aged' = TRUE
    /\ UNCHANGED <<accounts, access, refresh, tabs>>

Next ==
    \/ \E t \in Client :
         \/ Open(t) \/ SubmitRegister(t) \/ SubmitLogin(t) \/ SendCall(t)
         \/ Answer(t) \/ FinishLogin(t)
         \/ (Step(t) \/ Fail(t)) /\ UNCHANGED browser
    \/ \E u \in UserId : Operator(u) /\ UNCHANGED browser
    \/ Expire

Spec == Init /\ [][Next]_vars

-----------------------------------------------------------------------------
(* A form's second write clears the refresh token its first one stored:    *)
(* no load of a page finds the tab signed in, unless it fell between the   *)
(* two writes of another tab.                                              *)
OnlyTheFormSignsIn == \A t \in auth : who[t] # None \/ t \in between

(* A tab's calls run as the account its form signed in, unless another     *)
(* form has stored its token since.                                        *)
CallsRunAsSignedIn ==
    \A t \in Client : form[t] = "call" /\ pc[t] # "idle" /\ who[t] # None =>
        call[t].token = who[t] \/ t \in overtaken

=============================================================================
