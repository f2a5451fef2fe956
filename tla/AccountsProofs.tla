--------------------------- MODULE AccountsProofs ---------------------------
(***************************************************************************)
(* What holds of sessions and sign-up for any number of users, browsers    *)
(* and overlapping requests, under any sequence of failures and restarts.  *)
(* Each property follows from what the copies of the session that the      *)
(* requests hold have to do with the tables.                               *)
(***************************************************************************)
EXTENDS Accounts, TLAPS

Users == Emails \cup {NoUser}

Working ==
    [kind : {"page", "signup", "login", "logout"}, browser : Browsers,
     pc : {"insert", "authenticate", "renew", "wallet", "commit"},
     who : Users, proved : Users, token : 0..MaxTokens, user : Users,
     flash : BOOLEAN, modified : BOOLEAN]

Responding == [pc : {"respond"}, browser : Browsers, token : 0..MaxTokens, user : Users]

Types ==
    /\ users \subseteq Emails /\ wallets \subseteq users
    /\ store \in [DOMAIN store -> [user : Users, flash : BOOLEAN]]
    /\ cookie \in [Browsers -> 0..MaxTokens]
    /\ req \in [Requests -> {Idle} \cup Working \cup Responding]
    /\ lastToken \in 0..MaxTokens
    /\ issued \in [Tokens -> Users]

\* Tokens are drawn in order; whoever holds one got it from the counter.
TokensDrawn ==
    /\ DOMAIN store \subseteq 1..lastToken
    /\ renewed \subseteq 1..lastToken
    /\ \A b \in Browsers : cookie[b] \in 0..lastToken
    /\ \A t \in Requests : req[t].token \in 0..lastToken

\* A request's copy is nobody's, or belongs to the one its token was issued to,
\* and who is about to become the user of a new token has proved it.
CopiesEarned ==
    /\ \A k \in DOMAIN store : store[k].user \in {NoUser, issued[k]}
    /\ \A t \in Requests :
         /\ req[t].token = NoToken => req[t].user = NoUser
         /\ req[t].token # NoToken => req[t].user \in {NoUser, issued[req[t].token]}
         /\ req[t].pc = "renew" => req[t].who \in {NoUser, req[t].proved}

\* Copies of a deleted token are in the hands of requests that shared it only.
CopiesShared ==
    /\ renewed \cap DOMAIN store \subseteq shared
    /\ \A t \in Requests : req[t].token \in renewed => req[t].token \in shared

\* Who waits for a wallet has a row.
SignupsUnderWay ==
    /\ \A t \in Requests : Unfinished(t) \subseteq users
    /\ \A t \in Requests : req[t].pc = "insert" => req[t].kind = "signup"
    /\ \A t \in Requests : req[t].pc = "authenticate" => req[t].kind = "login"
    /\ \A e \in users \ wallets : e \in cut \/ \E t \in Requests : e \in Unfinished(t)

IInv == Types /\ TokensDrawn /\ CopiesEarned /\ CopiesShared /\ SignupsUnderWay

-----------------------------------------------------------------------------
(* How the actions move requests.                                          *)

\* What a request works with when it begins: a copy of a stored session or none.
LEMMA LoadCopies ==
    ASSUME IInv, NEW b \in Browsers
    PROVE  /\ Load(b).token \in DOMAIN store \cup {NoToken}
           /\ Load(b).token \in 0..lastToken
           /\ Load(b).user \in Users /\ Load(b).flash \in BOOLEAN
           /\ Load(b).token = NoToken => Load(b).user = NoUser
           /\ Load(b).token # NoToken => Load(b).user \in {NoUser, issued[Load(b).token]}
           /\ Load(b).token \in renewed => Load(b).token \in shared
  <1>1. CASE cookie[b] \in DOMAIN store
    BY <1>1 DEF IInv, Types, TokensDrawn, CopiesEarned, CopiesShared, Load, NoToken
  <1>2. CASE cookie[b] \notin DOMAIN store
    BY <1>2 DEF IInv, Types, TokensDrawn, Load, NoToken, Users
  <1> QED BY <1>1, <1>2

\* A step of one request leaves the others where they are.
LEMMA OneMoves ==
    ASSUME IInv, NEW t \in Requests, NEW r, Become(t, r)
    PROVE  /\ req'[t] = r
           /\ \A u \in Requests \ {t} : req'[u] = req[u] /\ Unfinished(u)' = Unfinished(u)
  BY DEF IInv, Types, Become, Unfinished

\* A handler that begins holds a copy of a stored session, and is nobody yet.
LEMMA StartWorks ==
    ASSUME IInv, NEW t \in Requests, NEW b \in Browsers,
           NEW kind \in {"signup", "login", "logout"},
           NEW pc \in {"insert", "authenticate", "renew"},
           pc = "insert" => kind = "signup", pc = "authenticate" => kind = "login", pc = "renew" => kind = "logout",
           Begin(t, b, kind, pc)
    PROVE  IInv'
  <1> DEFINE r == Start(b, kind, pc)
  <1>1. /\ r \in Working /\ r.pc = pc /\ r.kind = kind /\ r.who = NoUser
        /\ r.token = Load(b).token /\ r.user = Load(b).user
    <2>1. /\ Load(b).token \in 0..MaxTokens /\ Load(b).user \in Users
          /\ Load(b).flash \in BOOLEAN
      BY LoadCopies, TokensAssumption DEF IInv, Types
    <2>2. NoUser \in Users
      BY DEF Users
    <2> QED BY <2>1, <2>2 DEF Start, Working
  <1>2. /\ Become(t, r) /\ req[t].pc = "idle"
        /\ UNCHANGED <<db, cookie, lastToken, faults, history>>
    BY DEF Begin
  <1> HIDE DEF r
  <1>3. /\ req'[t] = r
        /\ \A u \in Requests \ {t} : req'[u] = req[u] /\ Unfinished(u)' = Unfinished(u)
    BY <1>2, OneMoves
  <1>4. Unfinished(t) = {} /\ Unfinished(t)' = {}
    BY <1>1, <1>2, <1>3 DEF Unfinished
  <1>5. Types'
    BY <1>1, <1>2 DEF IInv, Types, db, history, Become
  <1>6. TokensDrawn'
    BY <1>1, <1>2, <1>3, LoadCopies DEF IInv, TokensDrawn, db, history
  <1>7. CopiesEarned'
    BY <1>1, <1>2, <1>3, LoadCopies DEF IInv, CopiesEarned, db, history
  <1>8. CopiesShared'
    BY <1>1, <1>2, <1>3, LoadCopies DEF IInv, CopiesShared, db, history
  <1>9. SignupsUnderWay'
    BY <1>1, <1>2, <1>3, <1>4 DEF IInv, SignupsUnderWay, db, history
  <1> QED BY <1>5, <1>6, <1>7, <1>8, <1>9 DEF IInv

\* The same of a page or a form that has its answer at once.
LEMMA AnswerKeeps ==
    ASSUME IInv, NEW t \in Requests, NEW b \in Browsers, Page(t, b) \/ Notice(t, b)
    PROVE  IInv'
  <1> DEFINE copy == Start(b, "page", IF Page(t, b) THEN "render" ELSE "commit")
             r == IF Page(t, b) THEN RenderPage(copy) ELSE Put(copy, Load(b).user)
  <1>1. /\ r \in Working /\ r.pc = "commit" /\ r.kind = "page"
        /\ r.token = Load(b).token /\ r.user = Load(b).user
    <2>1. /\ Load(b).token \in 0..MaxTokens /\ Load(b).user \in Users
          /\ Load(b).flash \in BOOLEAN
      BY LoadCopies, TokensAssumption DEF IInv, Types
    <2>2. NoUser \in Users
      BY DEF Users
    <2> QED BY <2>1, <2>2 DEF Start, Working, RenderPage, Put
  <1>2. /\ Become(t, r) /\ req[t].pc = "idle"
        /\ UNCHANGED <<db, cookie, lastToken, faults, history>>
    BY DEF Page, Notice
  <1> HIDE DEF r
  <1>3. /\ req'[t] = r
        /\ \A u \in Requests \ {t} : req'[u] = req[u] /\ Unfinished(u)' = Unfinished(u)
    BY <1>2, OneMoves
  <1>4. Unfinished(t) = {} /\ Unfinished(t)' = {}
    BY <1>1, <1>2, <1>3 DEF Unfinished
  <1>5. Types'
    BY <1>1, <1>2 DEF IInv, Types, db, history, Become
  <1>6. TokensDrawn'
    BY <1>1, <1>2, <1>3, LoadCopies DEF IInv, TokensDrawn, db, history
  <1>7. CopiesEarned'
    BY <1>1, <1>2, <1>3, LoadCopies DEF IInv, CopiesEarned, db, history
  <1>8. CopiesShared'
    BY <1>1, <1>2, <1>3, LoadCopies DEF IInv, CopiesShared, db, history
  <1>9. SignupsUnderWay'
    BY <1>1, <1>2, <1>3, <1>4 DEF IInv, SignupsUnderWay, db, history
  <1> QED BY <1>5, <1>6, <1>7, <1>8, <1>9 DEF IInv

-----------------------------------------------------------------------------
(* LoadAndSave.                                                            *)

LEMMA CommitKeeps ==
    ASSUME IInv, NEW t \in Requests, Commit(t)
    PROVE  IInv'
  <1> DEFINE r == req[t]
             k == IF r.token = NoToken THEN lastToken + 1 ELSE r.token
  <1>1. r \in Working /\ r.pc = "commit" /\ Unfinished(t) = {}
    BY DEF Commit, IInv, Types, Idle, Working, Responding, Unfinished
  <1>2. UNCHANGED <<users, wallets, cookie, faults, history>>
    BY DEF Commit
  <1>3. CASE ~ r.modified
    <2>1. Become(t, Idle) /\ UNCHANGED <<store, lastToken>>
      BY <1>3 DEF Commit
    <2>2. /\ req'[t] = Idle
          /\ \A u \in Requests \ {t} : req'[u] = req[u] /\ Unfinished(u)' = Unfinished(u)
      BY <2>1, OneMoves
    <2>3. Unfinished(t)' = {}
      BY <2>2 DEF Unfinished, Idle
    <2>4. Types'
      BY <1>2, <2>1 DEF IInv, Types, Become, history
    <2>5. TokensDrawn'
      BY <1>2, <2>1, <2>2 DEF IInv, Types, TokensDrawn, Idle, NoToken, history
    <2>6. CopiesEarned' /\ CopiesShared'
      BY <1>2, <2>1, <2>2 DEF IInv, TokensDrawn, CopiesEarned, CopiesShared, Idle, NoToken, history
    <2>7. SignupsUnderWay'
      BY <1>1, <1>2, <2>2, <2>3 DEF IInv, SignupsUnderWay, Idle, history
    <2> QED BY <2>4, <2>5, <2>6, <2>7 DEF IInv
  <1>4. CASE r.modified
    <2> DEFINE s == [pc |-> "respond", browser |-> r.browser, token |-> k, user |-> r.user]
               w == [user |-> r.user, flash |-> r.flash]
    <2>1. /\ k \in Tokens
          /\ store' = [j \in DOMAIN store \cup {k} |-> IF j = k THEN w ELSE store[j]]
          /\ lastToken' = IF k > lastToken THEN k ELSE lastToken
          /\ Become(t, s)
      BY <1>4 DEF Commit
    <2>2. /\ req'[t] = s
          /\ \A u \in Requests \ {t} : req'[u] = req[u] /\ Unfinished(u)' = Unfinished(u)
      BY <2>1, OneMoves
    <2>3. Unfinished(t)' = {}
      BY <2>2 DEF Unfinished
    <2>4. /\ k \in 1..lastToken' /\ lastToken' \in lastToken..MaxTokens
          /\ r.token # NoToken => k = r.token
          /\ r.token = NoToken => k = lastToken + 1
      BY <1>1, <2>1, TokensAssumption DEF IInv, Types, TokensDrawn, Working, NoToken, Tokens
    <2>5. s \in Responding /\ w \in [user : Users, flash : BOOLEAN]
      BY <1>1, <2>4, TokensAssumption DEF Working, Responding, IInv, Types
    <2>6. r.user \in {NoUser, issued[k]}
      BY <1>1, <2>4 DEF IInv, CopiesEarned
    <2>7. k \in renewed => k \in shared
      BY <1>1, <2>4 DEF IInv, Types, TokensDrawn, CopiesShared, NoToken
    <2> HIDE DEF s, w, k
    <2>8. Types'
      <3>1. DOMAIN store' = DOMAIN store \cup {k} /\ \A j \in DOMAIN store' : store'[j] \in [user : Users, flash : BOOLEAN]
        BY <2>1, <2>5 DEF IInv, Types
      <3>2. store' \in [DOMAIN store' -> [user : Users, flash : BOOLEAN]]
        BY <2>1, <3>1
      <3>3. req' \in [Requests -> {Idle} \cup Working \cup Responding]
        BY <2>1, <2>5 DEF IInv, Types, Become
      <3> QED BY <1>2, <2>4, <3>2, <3>3, TokensAssumption DEF IInv, Types, history
    <2>9. TokensDrawn'
      BY <1>2, <2>1, <2>2, <2>4, TokensAssumption DEF IInv, Types, TokensDrawn, history, s
    <2>10. CopiesEarned'
      <3>1. \A j \in DOMAIN store' : store'[j].user \in {NoUser, issued[j]}
        BY <2>1, <2>6 DEF IInv, CopiesEarned, w
      <3>2. /\ req'[t].token = k /\ k # NoToken /\ req'[t].user = r.user
            /\ req'[t].pc = "respond"
        BY <2>2, <2>4, TokensAssumption DEF s, NoToken, IInv, Types
      <3> QED BY <1>2, <2>2, <2>6, <3>1, <3>2 DEF IInv, CopiesEarned, history
    <2>11. CopiesShared'
      BY <1>2, <2>1, <2>2, <2>7 DEF IInv, CopiesShared, history, s
    <2>12. SignupsUnderWay'
      BY <1>1, <1>2, <2>2, <2>3 DEF IInv, SignupsUnderWay, history, s
    <2> QED BY <2>8, <2>9, <2>10, <2>11, <2>12 DEF IInv
  <1> QED BY <1>3, <1>4

LEMMA RespondKeeps ==
    ASSUME IInv, NEW t \in Requests, Respond(t)
    PROVE  IInv'
  <1>1. /\ Become(t, Idle) /\ req[t].pc = "respond"
        /\ UNCHANGED <<db, lastToken, faults, history>>
    BY DEF Respond
  <1>2. /\ req'[t] = Idle
        /\ \A u \in Requests \ {t} : req'[u] = req[u] /\ Unfinished(u)' = Unfinished(u)
    BY <1>1, OneMoves
  <1>3. Unfinished(t) = {} /\ Unfinished(t)' = {}
    BY <1>1, <1>2 DEF Unfinished, Idle
  <1>4. cookie' \in [Browsers -> 0..MaxTokens] /\ \A b \in Browsers : cookie'[b] \in 0..lastToken
    BY TokensAssumption DEF Respond, IInv, Types, TokensDrawn
  <1>5. Types'
    BY <1>1, <1>4 DEF IInv, Types, Become, history, db
  <1>6. TokensDrawn'
    BY <1>1, <1>2, <1>4 DEF IInv, Types, TokensDrawn, Idle, NoToken, history, db
  <1>7. CopiesEarned' /\ CopiesShared'
    BY <1>1, <1>2 DEF IInv, TokensDrawn, CopiesEarned, CopiesShared, Idle, NoToken, history, db
  <1>8. SignupsUnderWay'
    BY <1>1, <1>2, <1>3 DEF IInv, SignupsUnderWay, Idle, history, db
  <1> QED BY <1>5, <1>6, <1>7, <1>8 DEF IInv

-----------------------------------------------------------------------------
(* The handlers and failures.                                              *)

\* A request goes on with the copy of the session that it holds.
LEMMA GoesOn ==
    ASSUME IInv, NEW t \in Requests, req[t] \in Working, NEW r \in Working, Become(t, r),
           r.token = req[t].token, r.user = req[t].user,
           r.pc = "renew" => r.who \in {NoUser, r.proved},
           UNCHANGED <<store, cookie, lastToken, issued, renewed, shared>>,
           users' \in SUBSET Emails, wallets' \in SUBSET users'
    PROVE  Types' /\ TokensDrawn' /\ CopiesEarned' /\ CopiesShared'
  <1>1. /\ req'[t] = r
        /\ \A u \in Requests \ {t} : req'[u] = req[u] /\ Unfinished(u)' = Unfinished(u)
    BY OneMoves
  <1>2. Types'
    BY DEF IInv, Types, Become
  <1>3. TokensDrawn'
    BY <1>1 DEF IInv, TokensDrawn
  <1>4. CopiesEarned'
    BY <1>1 DEF IInv, CopiesEarned
  <1>5. CopiesShared'
    BY <1>1 DEF IInv, CopiesShared
  <1> QED BY <1>2, <1>3, <1>4, <1>5

LEMMA InsertKeeps ==
    ASSUME IInv, NEW t \in Requests, Insert(t)
    PROVE  IInv'
  <1>1. /\ req[t] \in Working /\ req[t].pc = "insert" /\ req[t].kind = "signup"
        /\ Unfinished(t) = {}
        /\ UNCHANGED <<wallets, store, cookie, lastToken, faults, history>>
    BY DEF Insert, IInv, Types, SignupsUnderWay, Idle, Responding, Unfinished
  <1>2. PICK e \in Emails :
          IF e \in users
          THEN Become(t, RenderPage(req[t])) /\ UNCHANGED users
          ELSE /\ users' = users \cup {e}
               /\ Become(t, [Put(req[t], req[t].user) EXCEPT !.pc = "renew", !.who = e, !.proved = e])
    BY DEF Insert
  <1>3. CASE e \in users
    <2> DEFINE r == RenderPage(req[t])
    <2>1. /\ r \in Working /\ r.pc = "commit"
          /\ r.token = req[t].token /\ r.user = req[t].user
      BY <1>1 DEF Working, RenderPage
    <2>2. Become(t, r) /\ UNCHANGED users
      BY <1>2, <1>3
    <2> HIDE DEF r
    <2>3. Types' /\ TokensDrawn' /\ CopiesEarned' /\ CopiesShared'
      BY <1>1, <2>1, <2>2, GoesOn DEF history, IInv, Types
    <2>4. /\ req'[t] = r
          /\ \A u \in Requests \ {t} : req'[u] = req[u] /\ Unfinished(u)' = Unfinished(u)
      BY <2>2, OneMoves
    <2>5. Unfinished(t)' = {}
      BY <2>1, <2>4 DEF Unfinished
    <2>6. SignupsUnderWay'
      BY <1>1, <2>1, <2>2, <2>4, <2>5 DEF IInv, SignupsUnderWay, history
    <2> QED BY <2>3, <2>6 DEF IInv
  <1>4. CASE e \notin users
    <2> DEFINE r == [Put(req[t], req[t].user) EXCEPT !.pc = "renew", !.who = e, !.proved = e]
    <2>1. /\ r \in Working /\ r.pc = "renew" /\ r.kind = "signup" /\ r.who = e /\ r.proved = e
          /\ r.token = req[t].token /\ r.user = req[t].user
      BY <1>1 DEF Working, Put, Users
    <2>2. Become(t, r) /\ users' = users \cup {e}
      BY <1>2, <1>4
    <2> HIDE DEF r
    <2>3. Types' /\ TokensDrawn' /\ CopiesEarned' /\ CopiesShared'
      BY <1>1, <2>1, <2>2, GoesOn DEF history, IInv, Types
    <2>4. /\ req'[t] = r
          /\ \A u \in Requests \ {t} : req'[u] = req[u] /\ Unfinished(u)' = Unfinished(u)
      BY <2>2, OneMoves
    <2>5. Unfinished(t)' = {e}
      BY <2>1, <2>4 DEF Unfinished
    <2>6. SignupsUnderWay'
      <3>1. \A d \in users' \ wallets' : d \in cut' \/ \E u \in Requests : d \in Unfinished(u)'
        BY <1>1, <2>2, <2>4, <2>5 DEF IInv, SignupsUnderWay, history
      <3> QED BY <1>1, <2>1, <2>2, <2>4, <2>5, <3>1 DEF IInv, SignupsUnderWay
    <2> QED BY <2>3, <2>6 DEF IInv
  <1> QED BY <1>3, <1>4

LEMMA AuthenticateKeeps ==
    ASSUME IInv, NEW t \in Requests, Authenticate(t)
    PROVE  IInv'
  <1>1. /\ req[t] \in Working /\ req[t].pc = "authenticate" /\ req[t].kind = "login"
        /\ Unfinished(t) = {}
        /\ UNCHANGED <<db, cookie, lastToken, faults, history>>
    BY DEF Authenticate, IInv, Types, SignupsUnderWay, Idle, Responding, Unfinished
  <1>2. PICK e \in Emails, matches \in BOOLEAN :
          Become(t, IF Authenticates(e, matches)
                    THEN [req[t] EXCEPT !.pc = "renew", !.who = e,
                                        !.proved = IF matches THEN e ELSE NoUser]
                    ELSE RenderPage(req[t]))
    BY DEF Authenticate
  <1> DEFINE r == IF Authenticates(e, matches)
                  THEN [req[t] EXCEPT !.pc = "renew", !.who = e,
                                      !.proved = IF matches THEN e ELSE NoUser]
                  ELSE RenderPage(req[t])
  <1>3. /\ r \in Working /\ r.pc \in {"renew", "commit"} /\ r.kind = req[t].kind
        /\ r.token = req[t].token /\ r.user = req[t].user
        /\ r.pc = "renew" => r.who = e /\ r.proved = e
    <2>1. CASE Authenticates(e, matches)
      BY <1>1, <2>1 DEF Working, Users, Authenticates
    <2>2. CASE ~ Authenticates(e, matches)
      BY <1>1, <2>2 DEF Working, RenderPage
    <2> QED BY <2>1, <2>2
  <1> HIDE DEF r
  <1>4. Types' /\ TokensDrawn' /\ CopiesEarned' /\ CopiesShared'
    BY <1>1, <1>2, <1>3, GoesOn DEF history, db, IInv, Types, r
  <1>5. /\ req'[t] = r
        /\ \A u \in Requests \ {t} : req'[u] = req[u] /\ Unfinished(u)' = Unfinished(u)
    BY <1>2, OneMoves DEF r
  <1>6. Unfinished(t)' = {}
    BY <1>1, <1>3, <1>5 DEF Unfinished
  <1>7. SignupsUnderWay'
    BY <1>1, <1>3, <1>5, <1>6 DEF IInv, SignupsUnderWay, history, db
  <1> QED BY <1>4, <1>7 DEF IInv

\* The new token is nobody else's, and the old one leaves the table.
LEMMA RenewKeeps ==
    ASSUME IInv, NEW t \in Requests, RenewToken(t)
    PROVE  IInv'
  <1> DEFINE k == lastToken + 1
             o == req[t].token
             r == [Put(req[t], req[t].who) EXCEPT !.token = k, !.pc = AfterRenew(req[t].kind),
                                                  !.proved = NoUser]
  <1>1. /\ req[t] \in Working /\ req[t].pc = "renew" /\ k \in Tokens
        /\ lastToken' = k /\ Become(t, r)
        /\ store' = [j \in DOMAIN store \ {o} |-> store[j]]
        /\ issued' = [issued EXCEPT ![k] = req[t].proved]
        /\ renewed' = renewed \cup ({o} \ {NoToken})
        /\ shared' = IF \E u \in Requests \ {t} : req[u].token = o
                     THEN shared \cup {o} ELSE shared
        /\ UNCHANGED <<users, wallets, cookie, faults, cut>>
    BY DEF RenewToken, IInv, Types, Idle, Responding, Deleted
  <1>2. /\ lastToken \in Nat /\ k \in 1..MaxTokens /\ o \in 0..lastToken
    BY <1>1, TokensAssumption DEF IInv, Types, TokensDrawn, Tokens
  <1>3. /\ r \in Working /\ r.pc \in {"wallet", "commit"} /\ r.who = req[t].who
        /\ r.pc = "wallet" <=> req[t].kind = "signup"
        /\ r.token = k /\ r.user = req[t].who
    <2>1. /\ AfterRenew(req[t].kind) \in {"wallet", "commit"}
          /\ AfterRenew(req[t].kind) = "wallet" <=> req[t].kind = "signup"
      BY DEF AfterRenew
    <2>2. NoUser \in Users
      BY DEF Users
    <2>3. /\ r \in Working /\ r.pc = AfterRenew(req[t].kind) /\ r.who = req[t].who
          /\ r.token = k /\ r.user = req[t].who
      <3> DEFINE p == Put(req[t], req[t].who)
      <3>1. p \in Working /\ p.who = req[t].who /\ p.user = req[t].who
        BY <1>1 DEF Working, Put
      <3>2. k \in 0..MaxTokens /\ AfterRenew(req[t].kind) \in {"wallet", "commit"}
        BY <1>2, <2>1, TokensAssumption
      <3>3. r = [p EXCEPT !.token = k, !.pc = AfterRenew(req[t].kind), !.proved = NoUser]
        OBVIOUS
      <3> HIDE DEF p, k, r
      <3> QED BY <2>2, <3>1, <3>2, <3>3 DEF Working
    <2> QED BY <2>1, <2>3
  <1> HIDE DEF r
  <1>4. /\ req'[t] = r
        /\ \A u \in Requests \ {t} : req'[u] = req[u] /\ Unfinished(u)' = Unfinished(u)
    BY <1>1, OneMoves
  <1>5. Unfinished(t)' = Unfinished(t)
    BY <1>1, <1>3, <1>4 DEF Unfinished
  <1>6. Types'
    <2>1. store' \in [DOMAIN store' -> [user : Users, flash : BOOLEAN]]
      BY <1>1 DEF IInv, Types
    <2>2. req' \in [Requests -> {Idle} \cup Working \cup Responding]
      BY <1>1, <1>3 DEF IInv, Types, Become
    <2>3. issued' \in [Tokens -> Users]
      BY <1>1 DEF IInv, Types, Working
    <2> QED BY <1>1, <1>2, <2>1, <2>2, <2>3, TokensAssumption DEF IInv, Types
  <1>7. TokensDrawn'
    BY <1>1, <1>2, <1>3, <1>4 DEF IInv, Types, TokensDrawn, NoToken
  <1>8. /\ issued'[k] = req[t].proved /\ \A j \in 1..lastToken : issued'[j] = issued[j]
    BY <1>1, <1>2 DEF IInv, Types, Tokens
  <1>9. CopiesEarned'
    <2>1. \A j \in DOMAIN store' : store'[j].user \in {NoUser, issued'[j]}
      BY <1>1, <1>8 DEF IInv, CopiesEarned, TokensDrawn
    <2>2. \A u \in Requests \ {t} :
            /\ req'[u].token = NoToken => req'[u].user = NoUser
            /\ req'[u].token # NoToken => req'[u].user \in {NoUser, issued'[req'[u].token]}
            /\ req'[u].pc = "renew" => req'[u].who \in {NoUser, req'[u].proved}
      BY <1>2, <1>4, <1>8 DEF IInv, CopiesEarned, TokensDrawn, NoToken
    <2>3. /\ req'[t].token # NoToken /\ req'[t].pc # "renew"
          /\ req'[t].user \in {NoUser, issued'[req'[t].token]}
      BY <1>1, <1>2, <1>3, <1>4, <1>8 DEF IInv, CopiesEarned, NoToken
    <2> QED BY <2>1, <2>2, <2>3 DEF CopiesEarned
  <1>10. CopiesShared'
    <2>1. renewed' \cap DOMAIN store' \subseteq shared'
      BY <1>1 DEF IInv, CopiesShared
    <2>2. \A u \in Requests \ {t} : req'[u].token \in renewed' => req'[u].token \in shared'
      BY <1>1, <1>4 DEF IInv, CopiesShared
    <2>3. req'[t].token \notin renewed'
      BY <1>1, <1>2, <1>3, <1>4 DEF IInv, TokensDrawn
    <2> QED BY <2>1, <2>2, <2>3 DEF CopiesShared
  <1>11. SignupsUnderWay'
    BY <1>1, <1>3, <1>4, <1>5 DEF IInv, SignupsUnderWay
  <1> QED BY <1>6, <1>7, <1>9, <1>10, <1>11 DEF IInv

LEMMA CreateWalletKeeps ==
    ASSUME IInv, NEW t \in Requests, CreateWallet(t)
    PROVE  IInv'
  <1> DEFINE r == [req[t] EXCEPT !.pc = "commit"]
  <1>1. /\ req[t] \in Working /\ req[t].pc = "wallet" /\ Unfinished(t) = {req[t].who}
        /\ wallets' = wallets \cup {req[t].who} /\ Become(t, r)
        /\ UNCHANGED <<users, store, cookie, lastToken, faults, history>>
    BY DEF CreateWallet, IInv, Types, Idle, Responding, Unfinished
  <1>2. /\ r \in Working /\ r.pc = "commit" /\ r.token = req[t].token /\ r.user = req[t].user
    BY <1>1 DEF Working
  <1> HIDE DEF r
  <1>3. /\ users' \in SUBSET Emails /\ wallets' \in SUBSET users'
    BY <1>1 DEF IInv, Types, SignupsUnderWay
  <1>4. Types' /\ TokensDrawn' /\ CopiesEarned' /\ CopiesShared'
    BY <1>1, <1>2, <1>3, GoesOn DEF history
  <1>5. /\ req'[t] = r
        /\ \A u \in Requests \ {t} : req'[u] = req[u] /\ Unfinished(u)' = Unfinished(u)
    BY <1>1, OneMoves
  <1>6. Unfinished(t)' = {}
    BY <1>2, <1>5 DEF Unfinished
  <1>7. SignupsUnderWay'
    BY <1>1, <1>2, <1>5, <1>6 DEF IInv, SignupsUnderWay, history
  <1> QED BY <1>4, <1>7 DEF IInv

LEMMA FailureKeeps ==
    ASSUME IInv, NEW t \in Requests, StatementFails(t)
    PROVE  IInv'
  <1>1. /\ req[t] \in Working /\ req[t].pc \in Statements
        /\ cut' = cut \cup Unfinished(t)
        /\ UNCHANGED <<db, cookie, lastToken, issued, renewed, shared>>
    BY DEF StatementFails, Statements, IInv, Types, Idle, Responding
  <1>2. CASE req[t].pc = "commit"
    <2>1. Become(t, Idle)
      BY <1>2 DEF StatementFails
    <2>2. /\ req'[t] = Idle
          /\ \A u \in Requests \ {t} : req'[u] = req[u] /\ Unfinished(u)' = Unfinished(u)
      BY <2>1, OneMoves
    <2>3. Unfinished(t)' = {}
      BY <2>2 DEF Unfinished, Idle
    <2>4. Types'
      BY <1>1, <2>1 DEF IInv, Types, Become, db
    <2>5. TokensDrawn'
      BY <1>1, <2>2 DEF IInv, Types, TokensDrawn, Idle, NoToken, db
    <2>6. CopiesEarned' /\ CopiesShared'
      BY <1>1, <2>2 DEF IInv, TokensDrawn, CopiesEarned, CopiesShared, Idle, NoToken, db
    <2>7. SignupsUnderWay'
      BY <1>1, <2>2, <2>3 DEF IInv, SignupsUnderWay, Idle, db
    <2> QED BY <2>4, <2>5, <2>6, <2>7 DEF IInv
  <1>3. CASE req[t].pc # "commit"
    <2> DEFINE r == [req[t] EXCEPT !.pc = "commit"]
    <2>1. /\ r \in Working /\ r.pc = "commit" /\ r.token = req[t].token /\ r.user = req[t].user
      BY <1>1 DEF Working
    <2>2. Become(t, r)
      BY <1>3 DEF StatementFails
    <2> HIDE DEF r
    <2>3. Types' /\ TokensDrawn' /\ CopiesEarned' /\ CopiesShared'
      BY <1>1, <2>1, <2>2, GoesOn DEF db, IInv, Types
    <2>4. /\ req'[t] = r
          /\ \A u \in Requests \ {t} : req'[u] = req[u] /\ Unfinished(u)' = Unfinished(u)
      BY <2>2, OneMoves
    <2>5. Unfinished(t)' = {}
      BY <2>1, <2>4 DEF Unfinished
    <2>6. SignupsUnderWay'
      BY <1>1, <2>1, <2>4, <2>5 DEF IInv, SignupsUnderWay, db
    <2> QED BY <2>3, <2>6 DEF IInv
  <1> QED BY <1>2, <1>3

LEMMA CrashKeeps ==
    ASSUME IInv, Crash
    PROVE  IInv'
  <1>1. /\ \A t \in Requests : req'[t] = Idle /\ Unfinished(t)' = {}
        /\ req' \in [Requests -> {Idle} \cup Working \cup Responding]
        /\ \A e : (e \in cut \/ \E t \in Requests : e \in Unfinished(t)) => e \in cut'
        /\ UNCHANGED <<db, cookie, lastToken, issued, renewed, shared>>
    BY DEF Crash, Unfinished, Idle
  <1>2. Types'
    BY <1>1 DEF IInv, Types, db
  <1>3. TokensDrawn'
    BY <1>1 DEF IInv, Types, TokensDrawn, Idle, NoToken, db
  <1>4. CopiesEarned' /\ CopiesShared'
    BY <1>1 DEF IInv, TokensDrawn, CopiesEarned, CopiesShared, Idle, NoToken, db
  <1>5. SignupsUnderWay'
    BY <1>1 DEF IInv, SignupsUnderWay, Idle, db
  <1> QED BY <1>2, <1>3, <1>4, <1>5 DEF IInv

-----------------------------------------------------------------------------
(* The theorems.                                                           *)

LEMMA InitHolds == Init => IInv
  <1> SUFFICES ASSUME Init PROVE IInv
    OBVIOUS
  <1>1. /\ \A t \in Requests : req[t] = Idle /\ Unfinished(t) = {}
        /\ DOMAIN store = {}
    BY DEF Init, Unfinished, Idle
  <1>2. store \in [DOMAIN store -> [user : Users, flash : BOOLEAN]]
    BY DEF Init
  <1>3. Types
    BY <1>2, TokensAssumption DEF Init, Types, Tokens, NoToken, Users
  <1>4. TokensDrawn /\ CopiesEarned /\ CopiesShared /\ SignupsUnderWay
    BY <1>1 DEF Init, TokensDrawn, CopiesEarned, CopiesShared, SignupsUnderWay, Idle, NoToken
  <1> QED BY <1>3, <1>4 DEF IInv

LEMMA NextKeeps == IInv /\ [Next]_vars => IInv'
  <1> SUFFICES ASSUME IInv, [Next]_vars PROVE IInv'
    OBVIOUS
  <1>1. ASSUME NEW t \in Requests, NEW b \in Browsers,
               Page(t, b) \/ Notice(t, b) \/ userSignup(t, b) \/ userLogin(t, b) \/ userLogout(t, b)
        PROVE  IInv'
    BY <1>1, AnswerKeeps, StartWorks DEF userSignup, userLogin, userLogout
  <1>2. ASSUME NEW t \in Requests,
               Insert(t) \/ Authenticate(t) \/ RenewToken(t) \/ CreateWallet(t)
        PROVE  IInv'
    BY <1>2, InsertKeeps, AuthenticateKeeps, RenewKeeps, CreateWalletKeeps
  <1>3. ASSUME NEW t \in Requests, Commit(t) \/ Respond(t) \/ StatementFails(t)
        PROVE  IInv'
    BY <1>3, CommitKeeps, RespondKeeps, FailureKeeps
  <1>4. CASE Crash
    BY <1>4, CrashKeeps
  <1>5. CASE UNCHANGED vars
    <2>1. \A t \in Requests : Unfinished(t)' = Unfinished(t)
      BY <1>5 DEF vars, Unfinished
    <2> QED BY <1>5, <2>1 DEF vars, db, history, IInv, Types, TokensDrawn, CopiesEarned,
                              CopiesShared, SignupsUnderWay
  <1> QED BY <1>1, <1>2, <1>3, <1>4, <1>5 DEF Next

\* The tables, the cookies and the requests stay what the handlers take them for:
\* tokens come from the counter and wallets belong to rows of users.
THEOREM TypesHold == Spec => [](Types /\ TokensDrawn)
  <1>1. IInv => Types /\ TokensDrawn
    BY DEF IInv
  <1> QED BY <1>1, InitHolds, NextKeeps, PTL DEF Spec

\* A stored session is somebody's only if the request that drew its token had
\* checked that user's password or signed the user up.
THEOREM SessionsEarned == Spec => []SessionIsEarned
  <1>1. IInv => SessionIsEarned
    BY DEF IInv, CopiesEarned, SessionIsEarned
  <1> QED BY <1>1, InitHolds, NextKeeps, PTL DEF Spec

\* A token that login or logout retired only comes back by the write of a request
\* that held a copy at that time, however many requests and failures follow.
THEOREM RenewedStays == Spec => []RenewedStaysGone
  <1>1. IInv => RenewedStaysGone
    BY DEF IInv, CopiesShared, RenewedStaysGone
  <1> QED BY <1>1, InitHolds, NextKeeps, PTL DEF Spec

\* Nobody lacks a wallet but those whose sign-up runs or was broken off.
THEOREM EverybodyHasWallet == Spec => []WalletUnlessCut
  <1>1. IInv => WalletUnlessCut
    BY DEF IInv, SignupsUnderWay, WalletUnlessCut
  <1> QED BY <1>1, InitHolds, NextKeeps, PTL DEF Spec
=============================================================================
