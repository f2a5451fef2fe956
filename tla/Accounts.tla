------------------------------ MODULE Accounts ------------------------------
(***************************************************************************)
(* Sign-up, login, logout and the session every page is served under:      *)
(* handlers.go and middleware.go of cmd/exchange, models/users.go and the  *)
(* session library.  LoadAndSave gives each request a copy of the session  *)
(* that its cookie names and writes the copy back, under its token, when   *)
(* the request changed it; requests of one browser overlap.  RenewToken    *)
(* deletes the old token in the database at once, the new one is only      *)
(* written with the response.  Any SQL statement may fail, a response may  *)
(* be lost and the process may crash; only the database survives.          *)
(*                                                                         *)
(* A user is known by the e-mail address, tokens are numbered, and of the  *)
(* flash message only its presence is kept: taking it changes the session. *)
(***************************************************************************)
EXTENDS Integers

CONSTANTS Emails,      \* addresses people sign up with
          Browsers,
          Requests,    \* requests that may be in flight at once
          MaxTokens,   \* bound: tokens generated
          MaxFaults    \* bound: statements that fail and restarts of the process

NoUser  == "no user"
NoToken == 0
Tokens  == 1..MaxTokens

ASSUME EmailsAssumption == NoUser \notin Emails
ASSUME TokensAssumption == MaxTokens \in Nat

VARIABLES users,    \* rows of table users
          wallets,  \* users with a row in table wallets
          store,    \* table sessions: token -> authenticatedUserID and flash
          cookie,   \* browser -> the token it sends, or NoToken
          req,      \* request -> its position and its copy of the session
          lastToken, faults,
          \* History variables, read by properties only.
          issued,   \* token -> whose credentials its request had checked
          renewed,  \* tokens that RenewToken deleted
          shared,   \* those of them that another request held at that time
          cut       \* users whose sign-up broke off after Insert

db      == <<users, wallets, store>>
history == <<issued, renewed, shared, cut>>
vars    == <<db, cookie, req, lastToken, faults, history>>

Idle == [pc |-> "idle", token |-> NoToken, user |-> NoUser]

Init ==
    /\ users = {} /\ wallets = {} /\ store = <<>>
    /\ cookie = [b \in Browsers |-> NoToken]
    /\ req = [t \in Requests |-> Idle]
    /\ lastToken = 0 /\ faults = 0
    /\ issued = [k \in Tokens |-> NoUser]
    /\ renewed = {} /\ shared = {} /\ cut = {}

-----------------------------------------------------------------------------
(* LoadAndSave, authenticate and requireAuthentication.                    *)

Become(t, r) == req' = [req EXCEPT ![t] = r]

\* The copy of the session a request of browser b works on.
Load(b) ==
    IF cookie[b] \in DOMAIN store
    THEN [token |-> cookie[b], user |-> store[cookie[b]].user, flash |-> store[cookie[b]].flash]
    ELSE [token |-> NoToken, user |-> NoUser, flash |-> FALSE]

\* who and proved are set once a row was inserted or a password compared; proved
\* is history.
Start(b, kind, pc) ==
    [kind |-> kind, browser |-> b, pc |-> pc, who |-> NoUser, proved |-> NoUser,
     token |-> Load(b).token, user |-> Load(b).user, flash |-> Load(b).flash,
     modified |-> FALSE]

Exists(user) == user \in users

isAuthenticated(b) == Exists(Load(b).user)

\* A page takes the flash message and shows it.
RenderPage(r) == [r EXCEPT !.pc = "commit", !.flash = FALSE, !.modified = @ \/ r.flash]

Put(r, user) == [r EXCEPT !.user = user, !.flash = TRUE, !.modified = TRUE]

Begin(t, b, kind, pc) ==
    /\ req[t].pc = "idle"
    /\ Become(t, Start(b, kind, pc))
    /\ UNCHANGED <<db, cookie, lastToken, faults, history>>

Page(t, b) ==
    /\ req[t].pc = "idle" /\ Load(b).flash
    /\ Become(t, RenderPage(Start(b, "page", "render")))
    /\ UNCHANGED <<db, cookie, lastToken, faults, history>>

\* An order, a cancellation, a deposit or a withdrawal leaves a flash message.
Notice(t, b) ==
    /\ req[t].pc = "idle" /\ isAuthenticated(b)
    /\ Become(t, Put(Start(b, "page", "commit"), Load(b).user))
    /\ UNCHANGED <<db, cookie, lastToken, faults, history>>

userSignup(t, b) == Begin(t, b, "signup", "insert")
userLogin(t, b)  == Begin(t, b, "login", "authenticate")
userLogout(t, b) == isAuthenticated(b) /\ Begin(t, b, "logout", "renew")

\* A session that nobody changed is not written, and sets no cookie.
Commit(t) ==
    LET r == req[t]
        k == IF r.token = NoToken THEN lastToken + 1 ELSE r.token
    IN  /\ r.pc = "commit"
        /\ IF r.modified
           THEN /\ k \in Tokens
                /\ store' = [j \in DOMAIN store \cup {k} |->
                               IF j = k THEN [user |-> r.user, flash |-> r.flash] ELSE store[j]]
                /\ lastToken' = IF k > lastToken THEN k ELSE lastToken
                /\ Become(t, [pc |-> "respond", browser |-> r.browser, token |-> k, user |-> r.user])
           ELSE Become(t, Idle) /\ UNCHANGED <<store, lastToken>>
        /\ UNCHANGED <<users, wallets, cookie, faults, history>>

Respond(t) ==
    /\ req[t].pc = "respond"
    /\ \/ cookie' = [cookie EXCEPT ![req[t].browser] = req[t].token]
       \/ UNCHANGED cookie
    /\ Become(t, Idle)
    /\ UNCHANGED <<db, lastToken, faults, history>>

-----------------------------------------------------------------------------
(* The handlers.                                                           *)

\* The table's unique constraint refuses a second row for an address.
Insert(t) ==
    LET r == req[t] IN
    /\ r.pc = "insert"
    /\ \E e \in Emails :
         IF e \in users
         THEN Become(t, RenderPage(r)) /\ UNCHANGED users
         ELSE /\ users' = users \cup {e}
              /\ Become(t, [Put(r, r.user) EXCEPT !.pc = "renew", !.who = e, !.proved = e])
    /\ UNCHANGED <<wallets, store, cookie, lastToken, faults, history>>

\* Mutant: the result of the password comparison is dropped.
KnownUser(e, matches) == e \in users

Authenticates(e, matches) == e \in users /\ matches

\* The request may try any address with a right or a wrong password.
Authenticate(t) ==
    LET r == req[t] IN
    /\ r.pc = "authenticate"
    /\ \E e \in Emails, matches \in BOOLEAN :
         Become(t, IF Authenticates(e, matches)
                   THEN [r EXCEPT !.pc = "renew", !.who = e,
                                  !.proved = IF matches THEN e ELSE NoUser]
                   ELSE RenderPage(r))
    /\ UNCHANGED <<db, cookie, lastToken, faults, history>>

\* Mutant: the old token stays in the database.
Kept(k) == store

Deleted(k) == [j \in DOMAIN store \ {k} |-> store[j]]

\* Mutant: sign-up ends with the session, as login does.
NoWallet(kind) == "commit"

AfterRenew(kind) == IF kind = "signup" THEN "wallet" ELSE "commit"

\* Put, or Remove on logout, follows in the same copy.
RenewToken(t) ==
    LET r == req[t]
        k == lastToken + 1
    IN  /\ r.pc = "renew" /\ k \in Tokens
        /\ store' = Deleted(r.token)
        /\ lastToken' = k
        /\ Become(t, [Put(r, r.who) EXCEPT !.token = k, !.pc = AfterRenew(r.kind), !.proved = NoUser])
        /\ issued' = [issued EXCEPT ![k] = r.proved]
        /\ renewed' = renewed \cup ({r.token} \ {NoToken})
        /\ shared' = IF \E u \in Requests \ {t} : req[u].token = r.token
                     THEN shared \cup {r.token} ELSE shared
        /\ UNCHANGED <<users, wallets, cookie, faults, cut>>

CreateWallet(t) ==
    /\ req[t].pc = "wallet"
    /\ wallets' = wallets \cup {req[t].who}
    /\ Become(t, [req[t] EXCEPT !.pc = "commit"])
    /\ UNCHANGED <<users, store, cookie, lastToken, faults, history>>

-----------------------------------------------------------------------------
(* Failures.  serverError answers the request, and what its copy of the    *)
(* session holds by then is still written.                                 *)

Statements == {"insert", "authenticate", "renew", "wallet", "commit"}

\* Users whose row is there and whose wallet request t has still to create.
Unfinished(t) ==
    IF req[t].pc = "wallet" \/ (req[t].pc = "renew" /\ req[t].kind = "signup")
    THEN {req[t].who} ELSE {}

StatementFails(t) ==
    /\ req[t].pc \in Statements /\ faults < MaxFaults
    /\ faults' = faults + 1
    /\ Become(t, IF req[t].pc = "commit" THEN Idle ELSE [req[t] EXCEPT !.pc = "commit"])
    /\ cut' = cut \cup Unfinished(t)
    /\ UNCHANGED <<db, cookie, lastToken, issued, renewed, shared>>

Crash ==
    /\ faults < MaxFaults
    /\ faults' = faults + 1
    /\ req' = [t \in Requests |-> Idle]
    /\ cut' = cut \cup UNION {Unfinished(t) : t \in Requests}
    /\ UNCHANGED <<db, cookie, lastToken, issued, renewed, shared>>

Next ==
    \/ \E t \in Requests :
         \/ \E b \in Browsers : \/ Page(t, b) \/ Notice(t, b)
                                \/ userSignup(t, b) \/ userLogin(t, b) \/ userLogout(t, b)
         \/ Insert(t) \/ Authenticate(t) \/ RenewToken(t) \/ CreateWallet(t)
         \/ Commit(t) \/ Respond(t) \/ StatementFails(t)
    \/ Crash

Spec == Init /\ [][Next]_vars

-----------------------------------------------------------------------------
(* Properties.                                                             *)

TypeOK ==
    /\ users \subseteq Emails /\ wallets \subseteq users
    /\ DOMAIN store \subseteq 1..lastToken
    /\ \A k \in DOMAIN store : store[k].user \in Emails \cup {NoUser} /\ store[k].flash \in BOOLEAN
    /\ \A b \in Browsers : cookie[b] \in 0..lastToken
    /\ \A t \in Requests : req[t].token \in 0..lastToken /\ req[t].user \in Emails \cup {NoUser}
    /\ lastToken \in 0..MaxTokens

\* A stored session is somebody's only if the request that drew its token had
\* checked that user's password, or signed the user up: no token from before a
\* login, of another login or of an overlapping request is ever promoted.
SessionIsEarned == \A k \in DOMAIN store : store[k].user \in {NoUser, issued[k]}

\* Login and logout retire the old token for good: it only comes back when an
\* overlapping request held a copy, which LoadAndSave then writes back.
RenewedStaysGone == (renewed \ shared) \cap DOMAIN store = {}

\* Everybody has a wallet, except while the sign-up runs or when a failing
\* statement or a crash broke it off: nothing else creates wallets.
WalletUnlessCut == users \ wallets \subseteq cut \cup UNION {Unfinished(t) : t \in Requests}
=============================================================================
