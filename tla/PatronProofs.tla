---------------------------- MODULE PatronProofs ----------------------------
(***************************************************************************)
(* Theorems about what is kept of a patron.  About Accounts, for any       *)
(* users, emails and logins: type correctness; that a login links a second *)
(* account to one of archive.org only behind another one's back; and that  *)
(* it gets in with an active account.  About ReadingLog, for any number of *)
(* requests: type correctness; that a book is on two shelves only by a     *)
(* race; and that a request nobody raced with does what it was asked.      *)
(***************************************************************************)
EXTENDS Accounts, ReadingLog, FiniteSetTheorems, TLAPS

----------------------------------------------------------------------------
(* Accounts: the inductive invariant *)

\* Accounts have an email, which no other has, or nothing at all.
AccountsAgree ==
    /\ account \in [Users -> AccountDoc]
    /\ \A u \in Users : account[u].email = Nobody <=> account[u].status = "none"
    /\ \A u \in Users : account[u].status = "none" => account[u].link = Nobody
    /\ \A u, v \in Users : account[u].email = account[v].email /\ u # v
                           => account[u].email = Nobody

Tables ==
    /\ ia \subseteq Emails
    /\ login \in [Logins -> LoginType]
    /\ session \in [Logins -> Users \cup {Nobody}]
    /\ since \in [Logins -> [blocked: SUBSET Users, linked: SUBSET Users]]
    /\ admin \in 0..MaxAdmin

\* An account that a login may enter with, unless it was blocked behind it.
Open(l, u) == \/ account[u].status = "active"
              \/ account[u].status = "blocked" /\ u \in since[l].blocked

\* What a login has found out is still so, but for what was done behind it: it
\* has an account; none other is linked to its account of archive.org while it is
\* going to link one; and the account is open, or will be when it is activated.
Agrees(l) ==
    LET r == login[l] IN
    /\ r.pc # "idle" => r.ia \in Emails
    /\ r.pc \notin {"idle", "find", "register"} =>
           r.user \in Users /\ account[r.user].status # "none"
    /\ r.pc \in {"link", "register", "verify", "link new"} => LinkedTo(r.ia) \subseteq since[l].linked
    /\ r.pc \in {"link", "activate", "check"} => r.status # "none"
    /\ r.pc = "link" /\ r.status = "active" => Open(l, r.user)
    /\ r.pc = "link" /\ r.status = "pending" =>
           account[r.user].status = "pending" \/ Open(l, r.user)
    /\ r.pc \in {"activate", "verify"} => account[r.user].status = "pending" \/ Open(l, r.user)
    /\ r.pc = "check" => r.status = "blocked" \/ Open(l, r.user)
    /\ r.pc \in {"link new", "token"} => Open(l, r.user)

ACInv == AccountsAgree /\ Tables /\ \A l \in Logins : Agrees(l)

----------------------------------------------------------------------------
(* What a step does to accounts, as a login sees it *)

\* No account goes away or is pending again; one that is blocked or linked is
\* noted.
Evolves(l) ==
    /\ \A u \in Users :
          /\ account[u].status # "none" => account'[u].status \in {"active", "blocked"}
                                           \/ account'[u].status = account[u].status
          /\ account'[u].status = "blocked" => account[u].status = "blocked"
                                               \/ u \in since'[l].blocked
          /\ account'[u].link \in {account[u].link, Nobody} \/ u \in since'[l].linked
    /\ since[l].blocked \subseteq since'[l].blocked
    /\ since[l].linked \subseteq since'[l].linked

LEMMA KeepsOpen ==
    ASSUME ACInv, NEW l \in Logins, NEW u \in Users, Evolves(l)
    PROVE  /\ Open(l, u) => Open(l, u)'
           /\ account[u].status = "pending" => account'[u].status = "pending" \/ Open(l, u)'
           /\ account[u].status # "none" => account'[u].status # "none"
BY DEF Evolves, Open, ACInv, AccountsAgree, AccountDoc

LEMMA KeepsLinked ==
    ASSUME ACInv, NEW l \in Logins, NEW e \in Emails, Evolves(l),
           LinkedTo(e) \subseteq since[l].linked
    PROVE  LinkedTo(e)' \subseteq since'[l].linked
BY AccountsAssumption DEF Evolves, LinkedTo

\* A login that does nothing goes on agreeing with the accounts.
LEMMA Bystander ==
    ASSUME ACInv, NEW l \in Logins, Evolves(l), login'[l] = login[l]
    PROVE  Agrees(l)'
<1> PICK r : r = login[l]
  OBVIOUS
<1>1. Agrees(l) /\ login[l] = r /\ login'[l] = r
  BY DEF ACInv
<1>2. r.pc # "idle" => r.ia \in Emails
  BY <1>1 DEF Agrees
<1>3. r.pc \notin {"idle", "find", "register"} =>
          /\ r.user \in Users /\ account'[r.user].status # "none"
          /\ Open(l, r.user) => Open(l, r.user)'
          /\ account[r.user].status = "pending" =>
                 account'[r.user].status = "pending" \/ Open(l, r.user)'
  BY <1>1, KeepsOpen DEF Agrees
<1>4. r.pc \in {"link", "register", "verify", "link new"} =>
          LinkedTo(r.ia)' \subseteq since'[l].linked
  BY <1>1, <1>2, KeepsLinked DEF Agrees
<1>5. /\ r.pc \in {"link", "activate", "check"} => r.status # "none"
      /\ r.pc = "link" /\ r.status = "active" => Open(l, r.user)'
      /\ r.pc = "link" /\ r.status = "pending" =>
             account'[r.user].status = "pending" \/ Open(l, r.user)'
      /\ r.pc \in {"activate", "verify"} =>
             account'[r.user].status = "pending" \/ Open(l, r.user)'
      /\ r.pc = "check" => r.status = "blocked" \/ Open(l, r.user)'
      /\ r.pc \in {"link new", "token"} => Open(l, r.user)'
  BY <1>1, <1>3 DEF Agrees
<1>6. QED
  BY <1>1, <1>2, <1>3, <1>4, <1>5 DEF Agrees

\* A login that has ended knows nothing.
LEMMA Ending ==
    ASSUME NEW l \in Logins, login'[l] = IdleLogin
    PROVE  Agrees(l)'
BY DEF Agrees, IdleLogin

LEMMA Unchanged ==
    ASSUME ACInv, NEW l \in Logins, account' = account, since'[l] = since[l]
    PROVE  Evolves(l)
BY DEF Evolves

\* An account is linked: every login notes it.
LEMMA Linking ==
    ASSUME ACInv, NEW u \in Users, NEW e \in Emails, SetLink(u, e), account[u].status # "none"
    PROVE  /\ AccountsAgree'
           /\ since' \in [Logins -> [blocked: SUBSET Users, linked: SUBSET Users]]
           /\ \A k \in Logins : Evolves(k)
<1>1. /\ account' \in [Users -> AccountDoc]
      /\ \A v \in Users : /\ account'[v].email = account[v].email
                          /\ account'[v].status = account[v].status
                          /\ account'[v].link = IF v = u THEN e ELSE account[v].link
  BY DEF SetLink, ACInv, AccountsAgree, AccountDoc
<1>2. /\ since' \in [Logins -> [blocked: SUBSET Users, linked: SUBSET Users]]
      /\ \A k \in Logins : /\ since'[k].blocked = since[k].blocked
                           /\ since'[k].linked = since[k].linked \cup {u}
  BY DEF SetLink, ACInv, Tables
<1>3. AccountsAgree'
  BY <1>1 DEF ACInv, AccountsAgree
<1>4. ASSUME NEW k \in Logins PROVE Evolves(k)
  BY <1>1, <1>2 DEF Evolves
<1>5. QED
  BY <1>2, <1>3, <1>4

\* An account that is pending is activated.
LEMMA Activating ==
    ASSUME ACInv, NEW u \in Users, since' = since,
           account' = [account EXCEPT ![u].status = IF @ = "pending" THEN "active" ELSE @]
    PROVE  /\ AccountsAgree' /\ account'[u].status # "pending"
           /\ \A k \in Logins : Evolves(k)
<1>1. /\ account' \in [Users -> AccountDoc]
      /\ \A v \in Users :
            /\ account'[v].email = account[v].email /\ account'[v].link = account[v].link
            /\ account'[v].status = IF v = u /\ account[v].status = "pending" THEN "active"
                                    ELSE account[v].status
  BY DEF ACInv, AccountsAgree, AccountDoc
<1>2. AccountsAgree' /\ account'[u].status # "pending"
  BY <1>1 DEF ACInv, AccountsAgree
<1>3. ASSUME NEW k \in Logins PROVE Evolves(k)
  BY <1>1 DEF Evolves
<1>4. QED
  BY <1>2, <1>3

\* A step of one login is a step of the invariant if the others see accounts evolve
\* and it agrees with them itself.
LEMMA OneLogin ==
    ASSUME ACInv, NEW l \in Logins, NEW r \in LoginType, Become(l, r),
           AccountsAgree', ia' \subseteq Emails, admin' \in 0..MaxAdmin,
           session' \in [Logins -> Users \cup {Nobody}],
           since' \in [Logins -> [blocked: SUBSET Users, linked: SUBSET Users]],
           \A k \in Logins \ {l} : Evolves(k), Agrees(l)'
    PROVE  ACInv'
<1>1. login' \in [Logins -> LoginType] /\ \A k \in Logins \ {l} : login'[k] = login[k]
  BY DEF Become, ACInv, Tables
<1>2. Tables'
  BY <1>1 DEF Tables
<1>3. \A k \in Logins \ {l} : Agrees(k)'
  BY <1>1, Bystander
<1>4. QED
  BY <1>2, <1>3 DEF ACInv

----------------------------------------------------------------------------
(* The steps *)

LEMMA LoginSteps ==
    ASSUME ACInv, NEW l \in Logins
    PROVE  /\ IdleLogin \in LoginType
           /\ login[l] \in LoginType /\ account \in [Users -> AccountDoc]
           /\ ia \subseteq Emails /\ admin \in 0..MaxAdmin /\ MaxAdmin \in Nat
           /\ session \in [Logins -> Users \cup {Nobody}]
           /\ since \in [Logins -> [blocked: SUBSET Users, linked: SUBSET Users]]
           /\ Agrees(l) /\ AccountsAgree
           /\ Nobody \notin Users \cup Emails
BY AccountsAssumption DEF ACInv, Tables, AccountsAgree, IdleLogin, LoginType

\* Steps that change no account.
LEMMA Looking ==
    ASSUME ACInv, NEW l \in Logins, NEW r \in LoginType, Become(l, r), Agrees(l)',
           account' = account, ia' \subseteq Emails, admin' \in 0..MaxAdmin,
           session' \in [Logins -> Users \cup {Nobody}],
           since' = since \/ since' = [since EXCEPT ![l] = Nothing]
    PROVE  ACInv'
<1>1. /\ since' \in [Logins -> [blocked: SUBSET Users, linked: SUBSET Users]]
      /\ \A k \in Logins \ {l} : since'[k] = since[k]
  BY DEF ACInv, Tables, Nothing
<1>2. AccountsAgree'
  BY DEF ACInv, AccountsAgree
<1>3. \A k \in Logins \ {l} : Evolves(k)
  BY <1>1, Unchanged
<1>4. QED
  BY <1>1, <1>2, <1>3, OneLogin

LEMMA Quits ==
    ASSUME ACInv, NEW l \in Logins, Quit(l), account' = account, ia' \subseteq Emails,
           admin' \in 0..MaxAdmin, session' \in [Logins -> Users \cup {Nobody}],
           since' = since
    PROVE  ACInv'
<1>1. IdleLogin \in LoginType /\ Become(l, IdleLogin) /\ login'[l] = IdleLogin
  BY LoginSteps DEF Quit, Become, ACInv, Tables
<1>2. Agrees(l)'
  BY <1>1, Ending
<1>3. QED
  BY <1>1, <1>2, Looking

LEMMA Authenticates ==
    ASSUME ACInv, NEW l \in Logins, NEW e \in Emails, Authenticate(l, e)
    PROVE  ACInv'
<1> DEFINE r == [IdleLogin EXCEPT !.pc = "find", !.ia = e]
<1>1. r \in LoginType /\ Become(l, r) /\ login'[l] = r /\ r.pc = "find" /\ r.ia = e
  BY LoginSteps DEF Authenticate, Become, IdleLogin, LoginType, ACInv, Tables
<1>2. Agrees(l)'
  BY <1>1 DEF Agrees
<1>3. session' \in [Logins -> Users \cup {Nobody}]
  BY LoginSteps DEF Authenticate
<1>4. QED
  BY <1>1, <1>2, <1>3, LoginSteps, Looking DEF Authenticate

LEMMA FindsAccount ==
    ASSUME ACInv, NEW l \in Logins, FindAccount(l)
    PROVE  ACInv'
<1> PICK e : e = login[l].ia
  OBVIOUS
<1>1. /\ e \in Emails /\ login[l].pc = "find" /\ login[l].ia = e /\ login[l] \in LoginType
      /\ since'[l] = Nothing /\ login'[l] = login'[l]
  BY LoginSteps DEF FindAccount, AtLogin, Agrees
<1>2. ASSUME NEW u \in Users, NEW pc \in {"link", "activate", "check"}, Found(l, u, pc),
             account[u].status # "none",
             pc = "activate" => account[u].status = "pending",
             pc = "check" => account[u].status # "pending",
             pc = "link" => LinkedTo(e) = {}
      PROVE  ACInv'
  <2> DEFINE r == [login[l] EXCEPT !.pc = pc, !.user = u, !.status = account[u].status]
  <2>1. /\ r \in LoginType /\ Become(l, r) /\ login'[l] = r
        /\ r.pc = pc /\ r.ia = e /\ r.user = u /\ r.status = account[u].status
        /\ account[u].status \in {"pending", "active", "blocked"}
    BY <1>1, <1>2, LoginSteps DEF Found, Become, LoginType, AccountDoc, ACInv, Tables
  <2>2. account' = account
    BY DEF FindAccount
  <2>3. Agrees(l)'
    <3>1. LinkedTo(e)' = LinkedTo(e)
      BY <2>2 DEF LinkedTo
    <3> HIDE DEF r
    <3>2. QED
      BY <1>1, <1>2, <2>1, <2>2, <3>1 DEF Agrees, Open, Nothing, LinkedTo
  <2>4. QED
    BY <2>1, <2>2, <2>3, LoginSteps, Looking DEF FindAccount
<1>3. CASE \E u \in LinkedTo(e) : Found(l, u, AfterLink(account[u].status))
  <2>1. PICK u \in LinkedTo(e) : Found(l, u, AfterLink(account[u].status))
    BY <1>3
  <2>2. u \in Users /\ account[u].link = e /\ account[u].status # "none"
    BY <1>1, LoginSteps DEF LinkedTo, AccountsAgree
  <2>3. QED
    BY <1>2, <2>1, <2>2 DEF AfterLink
<1>4. CASE LinkedTo(e) = {} /\ \E u \in WithEmail(e) :
                   IF account[u].link = Nobody THEN Found(l, u, "link") ELSE Quit(l)
  <2>1. PICK u \in WithEmail(e) :
            IF account[u].link = Nobody THEN Found(l, u, "link") ELSE Quit(l)
    BY <1>4
  <2>2. u \in Users /\ account[u].status # "none"
    BY <1>1, LoginSteps DEF WithEmail, AccountsAgree
  <2>3. CASE Found(l, u, "link")
    BY <1>2, <1>4, <2>2, <2>3
  <2>4. CASE Quit(l)
    <3>1. IdleLogin \in LoginType /\ Become(l, IdleLogin) /\ login'[l] = IdleLogin
      BY <2>4, LoginSteps DEF Quit, Become, ACInv, Tables
    <3>2. QED
      BY <3>1, Ending, LoginSteps, Looking DEF FindAccount
  <2>5. QED
    BY <2>1, <2>3, <2>4
<1>5. CASE LinkedTo(e) = {} /\ GoOn(l, "register")
  <2> DEFINE r == [login[l] EXCEPT !.pc = "register"]
  <2>1. /\ r \in LoginType /\ Become(l, r) /\ login'[l] = r /\ r.pc = "register" /\ r.ia = e
        /\ account' = account
    BY <1>1, <1>5, LoginSteps DEF GoOn, Become, LoginType, FindAccount, ACInv, Tables
  <2>2. LinkedTo(e)' = {}
    BY <1>5, <2>1 DEF LinkedTo
  <2>3. Agrees(l)'
    <3> HIDE DEF r
    <3>1. QED
      BY <1>1, <2>1, <2>2 DEF Agrees, LinkedTo
  <2>4. QED
    BY <2>1, <2>3, LoginSteps, Looking DEF FindAccount
<1>6. QED
  BY <1>3, <1>4, <1>5 DEF FindAccount

LEMMA Links ==
    ASSUME ACInv, NEW l \in Logins, Link(l)
    PROVE  ACInv'
<1> PICK q : q = login[l]
  OBVIOUS
<1>1. /\ q \in LoginType /\ q.pc = "link" /\ q.user \in Users /\ q.ia \in Emails
      /\ q.status \in {"pending", "active", "blocked"} /\ account[q.user].status # "none"
      /\ q.status = "active" => Open(l, q.user)
      /\ q.status = "pending" => account[q.user].status = "pending" \/ Open(l, q.user)
  BY LoginSteps DEF Link, AtLogin, Agrees, LoginType
<1>2. SetLink(q.user, q.ia) /\ GoOn(l, AfterLink(q.status))
  BY DEF Link
<1>3. /\ AccountsAgree'
      /\ since' \in [Logins -> [blocked: SUBSET Users, linked: SUBSET Users]]
      /\ \A k \in Logins : Evolves(k)
  BY <1>1, <1>2, Linking
<1> DEFINE r == [q EXCEPT !.pc = AfterLink(q.status)]
<1>4. /\ r \in LoginType /\ Become(l, r) /\ login'[l] = r
      /\ r.pc = AfterLink(q.status) /\ r.user = q.user /\ r.ia = q.ia /\ r.status = q.status
  BY <1>1, <1>2, LoginSteps DEF GoOn, Become, LoginType, AfterLink, ACInv, Tables
<1>5. /\ Open(l, q.user) => Open(l, q.user)'
      /\ account[q.user].status = "pending" => account'[q.user].status = "pending" \/ Open(l, q.user)'
      /\ account'[q.user].status # "none"
  BY <1>1, <1>3, KeepsOpen
<1>6. Agrees(l)'
  <2> HIDE DEF r
  <2>1. QED
    BY <1>1, <1>4, <1>5 DEF Agrees, AfterLink, Open
<1>7. QED
  BY <1>3, <1>4, <1>6, LoginSteps, OneLogin DEF Link

\* Activate and Verify.
LEMMA Activates ==
    ASSUME ACInv, NEW l \in Logins, Activate(l) \/ Verify(l)
    PROVE  ACInv'
<1> PICK q : q = login[l]
  OBVIOUS
<1> DEFINE pc == IF q.pc = "verify" THEN "link new" ELSE "check"
           r == [q EXCEPT !.pc = pc]
<1>1. /\ q \in LoginType /\ q.pc \in {"activate", "verify"} /\ q.user \in Users /\ q.ia \in Emails
      /\ account[q.user].status # "none"
      /\ account[q.user].status = "pending" \/ Open(l, q.user)
      /\ q.pc = "verify" => LinkedTo(q.ia) \subseteq since[l].linked
  BY LoginSteps DEF Activate, Verify, AtLogin, Agrees
<1>2. /\ account' = [account EXCEPT ![q.user].status = IF @ = "pending" THEN "active" ELSE @]
      /\ GoOn(l, pc) /\ since' = since
      /\ UNCHANGED <<ia, session, admin>>
  BY DEF Activate, Verify, AtLogin
<1>3. AccountsAgree' /\ account'[q.user].status # "pending" /\ \A k \in Logins : Evolves(k)
  BY <1>1, <1>2, Activating
<1>4. /\ r \in LoginType /\ Become(l, r) /\ login'[l] = r
      /\ r.pc = pc /\ r.user = q.user /\ r.ia = q.ia
  BY <1>1, <1>2, LoginSteps DEF GoOn, Become, LoginType, ACInv, Tables
<1>5. /\ Open(l, q.user)' /\ account'[q.user].status # "none"
  BY <1>1, <1>3, KeepsOpen
<1>6. q.pc = "verify" => LinkedTo(q.ia)' \subseteq since'[l].linked
  BY <1>1, <1>3, KeepsLinked
<1>7. q.pc = "activate" => q.status # "none"
  BY LoginSteps DEF Agrees
<1>8. Agrees(l)'
  <2>1. r.status = q.status
    BY <1>1 DEF LoginType
  <2> HIDE DEF r
  <2>2. QED
    BY <1>1, <1>4, <1>5, <1>6, <1>7, <2>1 DEF Agrees, Open, LinkedTo
<1>9. QED
  BY <1>2, <1>3, <1>4, <1>8, LoginSteps, OneLogin

LEMMA ChecksBlocked ==
    ASSUME ACInv, NEW l \in Logins, CheckBlocked(l)
    PROVE  ACInv'
<1> PICK q : q = login[l]
  OBVIOUS
<1>1. /\ q \in LoginType /\ q.pc = "check" /\ q.user \in Users /\ q.ia \in Emails
      /\ account[q.user].status # "none" /\ (q.status = "blocked" \/ Open(l, q.user))
      /\ account' = account /\ since' = since /\ UNCHANGED <<ia, session, admin>>
  BY LoginSteps DEF CheckBlocked, AtLogin, Agrees
<1>2. CASE q.status # "blocked"
  <2> DEFINE r == [q EXCEPT !.pc = "token"]
  <2>1. /\ r \in LoginType /\ Become(l, r) /\ login'[l] = r
        /\ r.pc = "token" /\ r.user = q.user /\ r.ia = q.ia
    BY <1>1, <1>2, LoginSteps DEF CheckBlocked, MayEnter, GoOn, Become, LoginType, ACInv, Tables
  <2>2. Agrees(l)'
    <3> HIDE DEF r
    <3>1. QED
      BY <1>1, <1>2, <2>1 DEF Agrees, Open
  <2>3. QED
    BY <1>1, <2>1, <2>2, LoginSteps, Looking
<1>3. CASE q.status = "blocked"
  BY <1>1, <1>3, LoginSteps, Quits DEF CheckBlocked, MayEnter
<1>4. QED
  BY <1>2, <1>3

LEMMA Registers ==
    ASSUME ACInv, NEW l \in Logins, Register(l)
    PROVE  ACInv'
<1> PICK q : q = login[l]
  OBVIOUS
<1>1. /\ q \in LoginType /\ q.pc = "register" /\ q.ia \in Emails
      /\ LinkedTo(q.ia) \subseteq since[l].linked
      /\ since' = since /\ UNCHANGED <<ia, session, admin>>
  BY LoginSteps DEF Register, AtLogin, Agrees
<1>2. ASSUME NEW u \in Users, WithEmail(q.ia) = {}, account[u].status = "none",
             account' = [account EXCEPT ![u] = [email |-> q.ia, link |-> Nobody,
                                                status |-> "pending"]],
             Become(l, [q EXCEPT !.pc = "verify", !.user = u])
      PROVE  ACInv'
  <2> DEFINE r == [q EXCEPT !.pc = "verify", !.user = u]
  <2>1. /\ account' \in [Users -> AccountDoc]
        /\ account'[u] = [email |-> q.ia, link |-> Nobody, status |-> "pending"]
        /\ \A v \in Users \ {u} : account'[v] = account[v]
    BY <1>1, <1>2, LoginSteps DEF AccountDoc
  <2>2. \A v \in Users : account[v].email # q.ia
    BY <1>2 DEF WithEmail
  <2>3. AccountsAgree'
    BY <1>1, <2>1, <2>2, LoginSteps DEF AccountsAgree
  <2>4. \A k \in Logins : Evolves(k)
    BY <1>1, <1>2, <2>1 DEF Evolves
  <2>5. r \in LoginType /\ login'[l] = r /\ r.pc = "verify" /\ r.user = u /\ r.ia = q.ia
    BY <1>1, <1>2, LoginSteps DEF Become, LoginType, ACInv, Tables
  <2>6. LinkedTo(q.ia)' \subseteq since'[l].linked
    BY <1>1, <2>4, KeepsLinked
  <2>7. Agrees(l)'
    <3> HIDE DEF r
    <3>1. QED
      BY <1>1, <2>1, <2>5, <2>6 DEF Agrees, LinkedTo
  <2>8. QED
    BY <1>1, <1>2, <2>3, <2>4, <2>5, <2>7, LoginSteps, OneLogin
<1>3. CASE Quit(l) /\ account' = account
  BY <1>1, <1>3, LoginSteps, Quits
<1>4. QED
  BY <1>2, <1>3 DEF Register

LEMMA LinksNew ==
    ASSUME ACInv, NEW l \in Logins, LinkNew(l)
    PROVE  ACInv'
<1> PICK q : q = login[l]
  OBVIOUS
<1>1. /\ q \in LoginType /\ q.pc = "link new" /\ q.ia \in Emails
      /\ q.user \in Users /\ account[q.user].status # "none" /\ Open(l, q.user)
      /\ UNCHANGED <<ia, session, admin>>
  BY LoginSteps DEF LinkNew, AtLogin, Agrees
<1>2. ASSUME NEW u \in WithEmail(q.ia), SetLink(u, q.ia), GoOn(l, "token") PROVE ACInv'
  <2> DEFINE r == [q EXCEPT !.pc = "token"]
  <2>1. u \in Users /\ account[u].status # "none"
    BY <1>1, LoginSteps DEF WithEmail, AccountsAgree
  <2>2. /\ AccountsAgree'
        /\ since' \in [Logins -> [blocked: SUBSET Users, linked: SUBSET Users]]
        /\ \A k \in Logins : Evolves(k)
    BY <1>1, <1>2, <2>1, Linking
  <2>3. /\ r \in LoginType /\ Become(l, r) /\ login'[l] = r
        /\ r.pc = "token" /\ r.user = q.user /\ r.ia = q.ia
    BY <1>1, <1>2, LoginSteps DEF GoOn, Become, LoginType, ACInv, Tables
  <2>4. Open(l, q.user)' /\ account'[q.user].status # "none"
    BY <1>1, <2>2, KeepsOpen
  <2>5. Agrees(l)'
    <3> HIDE DEF r
    <3>1. QED
      BY <1>1, <2>3, <2>4 DEF Agrees, Open
  <2>6. QED
    BY <1>1, <2>2, <2>3, <2>5, LoginSteps, OneLogin
<1>3. CASE Quit(l) /\ UNCHANGED <<account, since>>
  BY <1>1, <1>3, LoginSteps, Quits
<1>4. QED
  BY <1>2, <1>3 DEF LinkNew

LEMMA SetsToken ==
    ASSUME ACInv, NEW l \in Logins, SetToken(l)
    PROVE  ACInv'
<1>1. session' \in [Logins -> Users \cup {Nobody}]
  <2>1. ASSUME NEW u \in LinkedTo(login[l].ia), session' = [session EXCEPT ![l] = u]
        PROVE  session' \in [Logins -> Users \cup {Nobody}]
    BY <2>1, LoginSteps DEF LinkedTo
  <2>2. QED
    BY <2>1, LoginSteps DEF SetToken
<1>2. QED
  BY <1>1, LoginSteps, Quits DEF SetToken

LEMMA StartsMigration ==
    ASSUME ACInv, NEW l \in Logins, NEW u \in Users, StartMigration(l, u)
    PROVE  ACInv'
<1> DEFINE r == [IdleLogin EXCEPT !.pc = "migrate", !.user = u, !.ia = account[u].email]
<1>1. account[u].email \in Emails /\ account[u].status # "none" /\ account' = account
  BY LoginSteps DEF StartMigration, AccountsAgree, AccountDoc
<1>2. /\ r \in LoginType /\ Become(l, r) /\ login'[l] = r
      /\ r.pc = "migrate" /\ r.user = u /\ r.ia = account[u].email
  BY <1>1, LoginSteps DEF StartMigration, Become, IdleLogin, LoginType, ACInv, Tables
<1>3. Agrees(l)'
  <2> HIDE DEF r
  <2>1. QED
    BY <1>1, <1>2 DEF Agrees
<1>4. QED
  BY <1>1, <1>2, <1>3, LoginSteps, Looking DEF StartMigration

LEMMA Migrates ==
    ASSUME ACInv, NEW l \in Logins, Migrate(l)
    PROVE  ACInv'
<1> PICK q : q = login[l]
  OBVIOUS
<1>1. /\ q.user \in Users /\ q.ia \in Emails /\ account[q.user].status # "none"
      /\ Quit(l) /\ UNCHANGED <<session, admin>>
  BY LoginSteps DEF Migrate, AtLogin, Agrees
<1>2. CASE SetLink(q.user, q.ia) /\ UNCHANGED ia
  <2>1. /\ AccountsAgree'
        /\ since' \in [Logins -> [blocked: SUBSET Users, linked: SUBSET Users]]
        /\ \A k \in Logins : Evolves(k)
    BY <1>1, <1>2, Linking
  <2>2. IdleLogin \in LoginType /\ Become(l, IdleLogin) /\ login'[l] = IdleLogin
    BY <1>1, LoginSteps DEF Quit, Become, ACInv, Tables
  <2>3. Agrees(l)'
    BY <2>2, Ending
  <2>4. QED
    BY <1>1, <1>2, <2>1, <2>2, <2>3, LoginSteps, OneLogin
<1>3. CASE ia' = ia \cup {q.ia} /\ UNCHANGED <<account, since>>
  BY <1>1, <1>3, LoginSteps, Quits
<1>4. QED
  BY <1>2, <1>3 DEF Migrate

LEMMA Administers ==
    ASSUME ACInv, NEW u \in Users, Administer(u)
    PROVE  ACInv'
<1>1. /\ ia \subseteq Emails /\ MaxAdmin \in Nat /\ admin \in 0..MaxAdmin
      /\ account \in [Users -> AccountDoc] /\ AccountsAgree /\ Nobody \notin Users \cup Emails
      /\ since \in [Logins -> [blocked: SUBSET Users, linked: SUBSET Users]]
  BY AccountsAssumption DEF ACInv, Tables, AccountsAgree
<1>2. account[u].status # "none" /\ admin' \in 0..MaxAdmin /\ UNCHANGED <<ia, login, session>>
  BY <1>1 DEF Administer
<1>3. /\ AccountsAgree'
      /\ since' \in [Logins -> [blocked: SUBSET Users, linked: SUBSET Users]]
      /\ \A k \in Logins : Evolves(k)
  <2>1. CASE /\ account' = [account EXCEPT ![u].status = "blocked"]
             /\ since' = [l \in Logins |-> [since[l] EXCEPT !.blocked = @ \cup {u}]]
    <3>1. /\ account' \in [Users -> AccountDoc]
          /\ \A v \in Users :
                /\ account'[v].email = account[v].email /\ account'[v].link = account[v].link
                /\ account'[v].status = IF v = u THEN "blocked" ELSE account[v].status
      BY <1>1, <2>1 DEF AccountDoc
    <3>2. /\ since' \in [Logins -> [blocked: SUBSET Users, linked: SUBSET Users]]
          /\ \A k \in Logins : /\ since'[k].blocked = since[k].blocked \cup {u}
                               /\ since'[k].linked = since[k].linked
      BY <1>1, <2>1
    <3>3. AccountsAgree'
      BY <1>1, <1>2, <3>1 DEF AccountsAgree
    <3>4. ASSUME NEW k \in Logins PROVE Evolves(k)
      BY <3>1, <3>2 DEF Evolves
    <3>5. QED
      BY <3>2, <3>3, <3>4
  <2>2. CASE account' = [account EXCEPT ![u].status = "active"] /\ UNCHANGED since
    <3>1. /\ account' \in [Users -> AccountDoc]
          /\ \A v \in Users :
                /\ account'[v].email = account[v].email /\ account'[v].link = account[v].link
                /\ account'[v].status = IF v = u THEN "active" ELSE account[v].status
      BY <1>1, <2>2 DEF AccountDoc
    <3>2. AccountsAgree'
      BY <1>1, <1>2, <3>1 DEF AccountsAgree
    <3>3. ASSUME NEW k \in Logins PROVE Evolves(k)
      BY <2>2, <3>1 DEF Evolves
    <3>4. QED
      BY <1>1, <2>2, <3>2, <3>3
  <2>3. ASSUME NEW e \in Emails, WithEmail(e) = {}, UNCHANGED since,
               account' = [account EXCEPT ![u].email = e]
        PROVE  AccountsAgree' /\ \A k \in Logins : Evolves(k)
    <3>1. /\ account' \in [Users -> AccountDoc]
          /\ \A v \in Users :
                /\ account'[v].email = IF v = u THEN e ELSE account[v].email
                /\ account'[v].link = account[v].link /\ account'[v].status = account[v].status
      BY <1>1, <2>3 DEF AccountDoc
    <3>2. \A v \in Users : account[v].email # e
      BY <2>3 DEF WithEmail
    <3>3. AccountsAgree'
      BY <1>1, <1>2, <3>1, <3>2 DEF AccountsAgree
    <3>4. ASSUME NEW k \in Logins PROVE Evolves(k)
      BY <2>3, <3>1 DEF Evolves
    <3>5. QED
      BY <3>3, <3>4
  <2>4. CASE account' = [account EXCEPT ![u].link = Nobody] /\ UNCHANGED since
    <3>1. /\ account' \in [Users -> AccountDoc]
          /\ \A v \in Users :
                /\ account'[v].email = account[v].email
                /\ account'[v].status = account[v].status
                /\ account'[v].link = IF v = u THEN Nobody ELSE account[v].link
      BY <1>1, <2>4 DEF AccountDoc
    <3>2. AccountsAgree'
      BY <1>1, <3>1 DEF AccountsAgree
    <3>3. ASSUME NEW k \in Logins PROVE Evolves(k)
      BY <2>4, <3>1 DEF Evolves
    <3>4. QED
      BY <1>1, <2>4, <3>2, <3>3
  <2>5. QED
    BY <1>1, <2>1, <2>2, <2>3, <2>4 DEF Administer
<1>4. \A l \in Logins : Agrees(l)'
  BY <1>2, <1>3, Bystander
<1>5. Tables'
  BY <1>1, <1>2, <1>3 DEF Tables, ACInv
<1>6. QED
  BY <1>3, <1>4, <1>5 DEF ACInv

LEMMA StopsLogin ==
    ASSUME ACInv, NEW l \in Logins, StopLogin(l)
    PROVE  ACInv'
BY LoginSteps, Quits DEF StopLogin

\* CreateIA, and steps of nobody.
LEMMA NothingChanges ==
    ASSUME ACInv, UNCHANGED <<account, login, session, since, admin>>, ia' \subseteq Emails
    PROVE  ACInv'
<1>1. AccountsAgree' /\ Tables'
  BY DEF ACInv, AccountsAgree, Tables
<1>2. \A l \in Logins : Agrees(l)'
  BY Unchanged, Bystander
<1>3. QED
  BY <1>1, <1>2 DEF ACInv

----------------------------------------------------------------------------
(* Accounts: the theorems *)

LEMMA ACInitInv == ACInit => ACInv
<1> SUFFICES ASSUME ACInit PROVE ACInv
  OBVIOUS
<1>1. /\ account \in [Users -> {NoAccount} \cup
                       [email: Emails, link: {Nobody}, status: {"pending", "active"}]]
      /\ \A u, v \in Users : u # v => account[u].email # account[v].email \/ account[u] = NoAccount
  BY DEF ACInit
<1>2. AccountsAgree
  <2>1. account \in [Users -> AccountDoc]
    BY <1>1 DEF AccountDoc, NoAccount
  <2>2. ASSUME NEW u \in Users
        PROVE  /\ account[u].email = Nobody <=> account[u].status = "none"
               /\ account[u].link = Nobody
    BY <1>1, <2>2, AccountsAssumption DEF NoAccount
  <2>3. QED
    BY <1>1, <2>1, <2>2 DEF AccountsAgree, NoAccount
<1>3. Tables
  BY AccountsAssumption DEF ACInit, Tables, IdleLogin, LoginType, Nothing
<1>4. \A l \in Logins : Agrees(l)
  BY DEF ACInit, Agrees, IdleLogin
<1>5. QED
  BY <1>2, <1>3, <1>4 DEF ACInv

LEMMA ACNextInv == ACInv /\ [ACNext]_acVars => ACInv'
<1> SUFFICES ASSUME ACInv, [ACNext]_acVars PROVE ACInv'
  OBVIOUS
<1>1. ASSUME NEW l \in Logins, Audit(l) PROVE ACInv'
  BY <1>1, FindsAccount, Links, Activates, ChecksBlocked, Registers, LinksNew, SetsToken,
     Migrates DEF Audit
<1>2. ASSUME NEW l \in Logins, StopLogin(l) PROVE ACInv'
  BY <1>2, StopsLogin
<1>3. ASSUME NEW l \in Logins, NEW e \in Emails, Authenticate(l, e) PROVE ACInv'
  BY <1>3, Authenticates
<1>4. ASSUME NEW l \in Logins, NEW u \in Users, StartMigration(l, u) PROVE ACInv'
  BY <1>4, StartsMigration
<1>5. ASSUME NEW e \in Emails, CreateIA(e) PROVE ACInv'
  BY <1>5, NothingChanges DEF CreateIA, ACInv, Tables
<1>6. ASSUME NEW u \in Users, Administer(u) PROVE ACInv'
  BY <1>6, Administers
<1>7. CASE UNCHANGED acVars
  BY <1>7, NothingChanges DEF acVars, ACInv, Tables
<1>8. QED
  BY <1>1, <1>2, <1>3, <1>4, <1>5, <1>6, <1>7 DEF ACNext

THEOREM ACInvariant == ACSpec => []ACInv
<1>1. QED
  BY ACInitInv, ACNextInv, PTL DEF ACSpec

\* Type correctness, and that no two accounts have one email.
THEOREM ACTypeCorrect == ACSpec => []ACTypeOK
<1>1. ACInv => ACTypeOK
  BY DEF ACInv, AccountsAgree, Tables, ACTypeOK
<1>2. QED
  BY <1>1, ACInvariant, PTL

\* However logins, migrations and administrators interleave, a login links a second
\* account to one of archive.org only behind another link.
THEOREM LinkedOnce == ACSpec => LoginsLinkOnce
<1> DEFINE Once(l) == \A u, v \in Users :
                  u # v /\ account'[u].link = login[l].ia /\ account'[v].link = login[l].ia
                  => {u, v} \cap since[l].linked # {}
<1>1. ASSUME ACInv, NEW l \in Logins, Link(l) \/ LinkNew(l) PROVE Once(l)
  <2>1. LinkedTo(login[l].ia) \subseteq since[l].linked
    BY <1>1 DEF ACInv, Agrees, Link, LinkNew, AtLogin
  <2>2. \/ account' = account
        \/ \E w \in Users : account' = [account EXCEPT ![w].link = login[l].ia]
    BY <1>1 DEF ACInv, Agrees, Link, LinkNew, AtLogin, SetLink, WithEmail
  <2>3. PICK w : \A u \in Users : u # w => account'[u] = account[u]
    BY <1>1, <2>2 DEF ACInv, AccountsAgree
  <2>4. ASSUME NEW u \in Users, account'[u].link = login[l].ia, u # w PROVE u \in since[l].linked
    BY <2>1, <2>3, <2>4 DEF LinkedTo
  <2>5. QED
    BY <2>4
<1>2. ACInv /\ [ACNext]_acVars => [\A l \in Logins : Link(l) \/ LinkNew(l) => Once(l)]_acVars
  BY <1>1
<1>3. QED
  BY <1>2, ACInvariant, PTL DEF ACSpec, LoginsLinkOnce

\* Whoever gets in as the account their login found gets in as an active one, unless
\* it was blocked since.
THEOREM ActiveSessions == ACSpec => SessionsAreActive
<1> DEFINE Active(l) == LET u == session'[l] IN
          \/ u = Nobody
          \/ account[u].status = "active"
          \/ account[u].status = "blocked" /\ u \in since[l].blocked
<1>1. ASSUME ACInv, NEW l \in Logins, ACNext, session'[l] # session[l],
             session'[l] = login[l].user
      PROVE  Active(l)
  <2>1. CASE \E e \in Emails, k \in Logins : Authenticate(k, e)
    BY <1>1, <2>1 DEF Authenticate, ACInv, Tables
  <2>2. CASE \E k \in Logins : SetToken(k)
    <3>1. SetToken(l)
      <4>1. PICK k \in Logins : SetToken(k)
        BY <2>2
      <4>2. k # l => session'[l] = session[l]
        BY <1>1, <4>1 DEF SetToken, ACInv, Tables
      <4>3. QED
        BY <1>1, <4>1, <4>2
    <3>2. Open(l, login[l].user)
      BY <1>1, <3>1 DEF ACInv, Agrees, SetToken, AtLogin
    <3>3. QED
      BY <1>1, <3>2 DEF Open
  <2>3. CASE session' = session
    BY <1>1, <2>3
  <2>4. QED
    BY <1>1, <2>1, <2>2, <2>3 DEF ACNext, Audit, FindAccount, Link, Activate, CheckBlocked,
       Register, Verify, LinkNew, Migrate, StopLogin, StartMigration, CreateIA, Administer
<1>2. ACInv /\ [ACNext]_acVars =>
      [\A l \in Logins : session'[l] # session[l] /\ session'[l] = login[l].user => Active(l)]_acVars
  BY <1>1
<1>3. QED
  BY <1>2, ACInvariant, PTL DEF ACSpec, SessionsAreActive

----------------------------------------------------------------------------
(* ReadingLog: the inductive invariant.  What a request nobody has written   *)
(* behind has read is still so: a row with the status it looked at is there, *)
(* a rating goes with a book that was read, and is the one that was read.    *)

ShelfSeen(q) == At(q, "shelve") => request[q].status \in Status

BookIsRead(q) == At(q, "read rating") \/ At(q, "rate") => AlreadyRead \in shelves

RatingSeen(q) == At(q, "rate") => request[q].old = rating

\* What a request wants: a rating, to have the book on the shelf of the read ones.
WantsShelf(q) ==
    /\ ~At(q, "idle") /\ request[q].stars # None => request[q].shelf = AlreadyRead
    /\ At(q, "check") => request[q].shelf # None

Fresh(q) == q \notin stale => ShelfSeen(q) /\ BookIsRead(q) /\ RatingSeen(q)

RLInv == /\ RLTypeOK /\ TwoShelvesHaveACause
         /\ \A q \in Requests : WantsShelf(q) /\ Fresh(q)

----------------------------------------------------------------------------
(* ReadingLog: lemmas *)

LEMMA NumbersOfRows ==
    ASSUME TwoShelvesHaveACause, shelves \subseteq Shelves
    PROVE  /\ IsFiniteSet(shelves) /\ Cardinality(shelves) \in Nat
           /\ \A x : Cardinality({x}) = 1 /\ Cardinality({x : s \in shelves}) <= 1
           /\ Cardinality({}) = 0
<1>1. IsFiniteSet(Shelves)
  <2>1. Shelves = {1} \cup {2} \cup {3}
    BY DEF Shelves, AlreadyRead
  <2>2. QED
    BY <2>1, FS_Singleton, FS_Union
<1>2. IsFiniteSet(shelves) /\ Cardinality(shelves) \in Nat
  BY <1>1, FS_Subset, FS_CardinalityType
<1>3. ASSUME NEW x PROVE Cardinality({x : s \in shelves}) <= 1
  <2>1. {x : s \in shelves} = {} \/ {x : s \in shelves} = {x}
    OBVIOUS
  <2>2. QED
    BY <2>1, FS_Singleton, FS_EmptySet
<1>4. QED
  BY <1>2, <1>3, FS_Singleton, FS_EmptySet

\* The status that is read is one of the rows, or none if there is no row.
LEMMA StatusIs ==
    ASSUME RLTypeOK
    PROVE  /\ Status \subseteq Shelves \cup {None} /\ Status # {}
           /\ None \notin Shelves /\ None \notin Stars
           /\ \A s \in Status : s = None <=> shelves = {}
           /\ \A s \in Status : s # None => s \in shelves
<1>1. None \notin Shelves /\ None \notin Stars
  BY ReadingLogAssumption DEF None, Shelves, AlreadyRead
<1>2. QED
  BY <1>1 DEF RLTypeOK, Status

\* A step of q leaves what the others read to be so, or leaves them behind.
LEMMA OthersStayFresh ==
    ASSUME RLInv, NEW q \in Requests, NEW r, Update(q, r),
           Wrote(q) \/ (UNCHANGED <<shelves, rating>> /\ stale' \in {stale, stale \ {q}})
    PROVE  \A o \in Requests : o # q => WantsShelf(o)' /\ Fresh(o)'
<1> SUFFICES ASSUME NEW o \in Requests, o # q PROVE WantsShelf(o)' /\ Fresh(o)'
  OBVIOUS
<1>1. request'[o] = request[o]
  BY DEF Update, RLInv, RLTypeOK
<1>2. WantsShelf(o)'
  BY <1>1 DEF RLInv, WantsShelf, At
<1>3. CASE Wrote(q)
  BY <1>1, <1>2, <1>3 DEF Fresh, Wrote, ShelfSeen, BookIsRead, RatingSeen, At
<1>4. CASE UNCHANGED <<shelves, rating>> /\ stale' \in {stale, stale \ {q}}
  BY <1>1, <1>2, <1>4 DEF RLInv, Fresh, ShelfSeen, BookIsRead, RatingSeen, At, Status
<1>5. QED
  BY <1>2, <1>3, <1>4

\* So it is enough to look at the rows and at q itself.
LEMMA StepOf ==
    ASSUME RLInv, NEW q \in Requests, NEW r \in RequestType, Update(q, r),
           Wrote(q) \/ (UNCHANGED <<shelves, rating>> /\ stale' \in {stale, stale \ {q}}),
           shelves' \subseteq Shelves, rating' \in Stars \cup {None}, doubled' \in BOOLEAN,
           TwoShelvesHaveACause',
           r.pc \in {"read rating", "rate"} => r.stars # None,
           WantsShelf(q)', Fresh(q)'
    PROVE  RLInv'
<1>1. request' \in [Requests -> RequestType] /\ request'[q] = r
  BY DEF Update, RLInv, RLTypeOK
<1>2. \A o \in Requests : o # q => request'[o] = request[o]
  BY DEF Update, RLInv, RLTypeOK
<1>3. stale' \subseteq Requests
  BY DEF Wrote, RLInv, RLTypeOK
<1>4. \A o \in Requests : request'[o].pc \in {"read rating", "rate"} => request'[o].stars # None
  BY <1>1, <1>2 DEF RLInv, RLTypeOK
<1>5. RLTypeOK'
  BY <1>1, <1>3, <1>4 DEF RLTypeOK
<1>6. QED
  BY <1>5, OthersStayFresh DEF RLInv

LEMMA NewType ==
    ASSUME NEW pc \in {"idle", "check", "shelve", "read rating"}, NEW shelf \in Shelves \cup {None},
           NEW stars \in Stars \cup {None}, NEW status \in Shelves \cup {None}
    PROVE  /\ New(0, pc, shelf, stars, status) \in RequestType
           /\ \A q, how : New(q, pc, shelf, stars, status) = New(0, pc, shelf, stars, status)
BY DEF New, RequestType

----------------------------------------------------------------------------
(* ReadingLog: every step keeps the invariant *)

LEMMA LookAtShelf ==
    ASSUME RLInv, NEW q \in Requests, PostShelf(q) \/ PostRating(q) \/ CheckShelf(q)
    PROVE  RLInv'
<1>1. UNCHANGED <<shelves, rating, doubled>> /\ stale' = stale \ {q}
  BY DEF PostShelf, PostRating, CheckShelf
<1>2. /\ shelves' \subseteq Shelves /\ rating' \in Stars \cup {None} /\ doubled' \in BOOLEAN
      /\ TwoShelvesHaveACause' /\ Status' = Status
  BY <1>1 DEF RLInv, RLTypeOK, TwoShelvesHaveACause, Status
<1>3. request[q] \in RequestType /\ request \in [Requests -> RequestType]
  BY DEF RLInv, RLTypeOK
<1>4. /\ Status \subseteq Shelves \cup {None} /\ None \notin Shelves /\ None \notin Stars
      /\ \A s \in Status : s # None => s \in shelves
  BY StatusIs DEF RLInv
<1>5. AlreadyRead \in Shelves /\ AlreadyRead # None /\ None \in Stars \cup {None}
  BY <1>4 DEF Shelves
<1>6. CASE PostShelf(q)
  <2>1. PICK shelf \in Shelves \cup {None}, s \in Status :
          Update(q, New(q, IF shelf \in {s, None} THEN "shelve" ELSE "check", shelf, None, s))
    BY <1>6 DEF PostShelf
  <2> DEFINE r == New(q, IF shelf \in {s, None} THEN "shelve" ELSE "check", shelf, None, s)
  <2>2. r \in RequestType /\ r.pc \in {"shelve", "check"} /\ r.stars = None /\ r.status = s
        /\ (r.pc = "check" => r.shelf # None)
    BY <1>4 DEF New, RequestType
  <2>3. request'[q] = r
    BY <1>3, <2>1 DEF Update
  <2>4. WantsShelf(q)' /\ Fresh(q)'
    BY <1>2, <2>2, <2>3 DEF WantsShelf, Fresh, ShelfSeen, BookIsRead, RatingSeen, At
  <2>5. QED
    BY <1>1, <1>2, <2>1, <2>2, <2>4, StepOf
<1>7. CASE PostRating(q)
  <2>1. PICK stars \in Stars, s \in Status :
          Update(q, New(q, IF s = AlreadyRead THEN "read rating" ELSE "check",
                        AlreadyRead, stars, s))
    BY <1>7 DEF PostRating
  <2> DEFINE r == New(q, IF s = AlreadyRead THEN "read rating" ELSE "check", AlreadyRead, stars, s)
  <2>2. r \in RequestType /\ r.stars # None /\ r.shelf = AlreadyRead
        /\ (r.pc = "check" \/ (r.pc = "read rating" /\ s = AlreadyRead))
    BY <1>4, <1>5 DEF New, RequestType
  <2>3. request'[q] = r
    BY <1>3, <2>1 DEF Update
  <2>4. s = AlreadyRead => AlreadyRead \in shelves'
    BY <1>1, <1>4, <1>5
  <2>5. WantsShelf(q)' /\ Fresh(q)'
    BY <1>5, <2>2, <2>3, <2>4 DEF WantsShelf, Fresh, ShelfSeen, BookIsRead, RatingSeen, At
  <2>6. QED
    BY <1>1, <1>2, <2>1, <2>2, <2>5, StepOf
<1>8. CASE CheckShelf(q)
  <2>1. PICK s \in Status : Update(q, [request[q] EXCEPT !.pc = "shelve", !.status = s])
    BY <1>8 DEF CheckShelf
  <2> DEFINE r == [request[q] EXCEPT !.pc = "shelve", !.status = s]
  <2>2. r \in RequestType /\ r.pc = "shelve" /\ r.status = s
        /\ r.stars = request[q].stars /\ r.shelf = request[q].shelf
    BY <1>3, <1>4 DEF RequestType
  <2>3. request'[q] = r
    BY <1>3, <2>1 DEF Update
  <2>4. request[q].stars # None => request[q].shelf = AlreadyRead
    BY <1>8 DEF CheckShelf, At, RLInv, WantsShelf
  <2>5. WantsShelf(q)' /\ Fresh(q)'
    BY <1>2, <2>2, <2>3, <2>4 DEF WantsShelf, Fresh, ShelfSeen, BookIsRead, RatingSeen, At
  <2>6. QED
    BY <1>1, <1>2, <2>1, <2>2, <2>5, StepOf
<1>9. QED
  BY <1>6, <1>7, <1>8

LEMMA EndedType ==
    ASSUME NEW q, NEW how \in {"no", "done", "error"}
    PROVE  Ended(q, how) \in RequestType /\ Ended(q, how).pc = "idle" /\ Ended(q, how).ended = how
BY DEF Ended, New, RequestType

\* A request that has ended has read nothing.
LEMMA EndsRequest ==
    ASSUME RLInv, NEW q \in Requests, NEW how \in {"no", "done", "error"}, Update(q, Ended(q, how)),
           Wrote(q) \/ UNCHANGED <<shelves, rating, stale>>,
           shelves' \subseteq Shelves, rating' \in Stars \cup {None}, doubled' \in BOOLEAN,
           TwoShelvesHaveACause'
    PROVE  RLInv'
<1>1. Ended(q, how) \in RequestType /\ Ended(q, how).pc = "idle"
  BY EndedType
<1>2. request'[q].pc = "idle"
  BY <1>1 DEF Update, RLInv, RLTypeOK
<1>3. WantsShelf(q)' /\ Fresh(q)'
  BY <1>2 DEF WantsShelf, Fresh, ShelfSeen, BookIsRead, RatingSeen, At
<1>4. QED
  BY <1>1, <1>3, StepOf

LEMMA ShelvesBook == ASSUME RLInv, NEW q \in Requests, AddBook(q) PROVE RLInv'
<1> DEFINE r == request[q]
<1>1. r \in RequestType /\ request \in [Requests -> RequestType] /\ shelves \subseteq Shelves
      /\ rating' = rating /\ rating \in Stars \cup {None} /\ doubled \in BOOLEAN
  BY DEF RLInv, RLTypeOK, AddBook
<1>2. r.shelf \in Shelves
  BY <1>1 DEF AddBook, RequestType
<1>3. r.stars # None => r.shelf = AlreadyRead
  BY DEF RLInv, WantsShelf, At, AddBook
<1>4. q \notin stale => r.status \in Status
  BY DEF RLInv, Fresh, ShelfSeen, AddBook
<1>5. /\ \A x : Cardinality({x}) = 1 /\ Cardinality({x : s \in shelves}) <= 1
  BY <1>1, NumbersOfRows DEF RLInv
<1>6. CASE /\ Update(q, Shelved(q)) /\ Wrote(q)
           /\ \/ /\ r.status = None /\ shelves' = shelves \cup {r.shelf}
                 /\ doubled' = (doubled \/ (shelves # {} /\ q \in stale))
              \/ /\ r.status # None /\ shelves' = {r.shelf : s \in shelves} /\ doubled' = doubled
  <2>1. \/ /\ r.status = None /\ shelves' = shelves \cup {r.shelf}
           /\ doubled' = (doubled \/ (shelves # {} /\ q \in stale))
        \/ /\ r.status # None /\ shelves' = {r.shelf : s \in shelves} /\ doubled' = doubled
    BY <1>6
  <2>2. shelves' \subseteq Shelves /\ doubled' \in BOOLEAN
    BY <1>1, <1>2, <2>1
  <2>3. q \notin stale => (shelves = {} <=> r.status = None)
    BY <1>4, StatusIs DEF RLInv
  <2>4. TwoShelvesHaveACause'
    <3>1. CASE r.status = None /\ shelves = {}
      <4>1. shelves' = {r.shelf}
        BY <2>1, <3>1
      <4>2. QED
        BY <1>5, <4>1 DEF TwoShelvesHaveACause
    <3>2. CASE r.status = None /\ shelves # {}
      BY <2>1, <2>3, <3>2 DEF TwoShelvesHaveACause
    <3>3. CASE r.status # None
      BY <1>5, <2>1, <3>3 DEF TwoShelvesHaveACause
    <3>4. QED
      BY <3>1, <3>2, <3>3
  <2>5. CASE r.stars = None
    BY <1>1, <1>6, <2>2, <2>4, <2>5, EndsRequest DEF Shelved
  <2>6. CASE r.stars # None
    <3> DEFINE z == [r EXCEPT !.pc = "read rating"]
    <3>1. Shelved(q) = z
      BY <2>6 DEF Shelved
    <3>2. z \in RequestType /\ z.pc = "read rating" /\ z.stars = r.stars /\ z.shelf = r.shelf
      BY <1>1 DEF RequestType
    <3>3. request'[q] = z
      BY <1>1, <1>6, <3>1 DEF Update
    <3>4. q \notin stale => AlreadyRead \in shelves'
      BY <1>3, <2>1, <2>3, <2>6
    <3>5. q \notin stale' => q \notin stale
      BY <1>6 DEF Wrote
    <3>6. WantsShelf(q)' /\ Fresh(q)'
      BY <1>3, <2>6, <3>2, <3>3, <3>4, <3>5 DEF WantsShelf, Fresh, ShelfSeen, BookIsRead,
         RatingSeen, At
    <3> HIDE DEF z
    <3>7. QED
      BY <1>1, <1>6, <2>2, <2>4, <2>6, <3>1, <3>2, <3>6, StepOf
  <2>7. QED
    BY <2>5, <2>6
<1>7. CASE Update(q, Ended(q, "error")) /\ UNCHANGED <<shelves, stale, doubled>>
  <2>1. TwoShelvesHaveACause'
    BY <1>7 DEF RLInv, TwoShelvesHaveACause
  <2>2. QED
    BY <1>1, <1>7, <2>1, EndsRequest
<1>8. QED
  BY <1>6, <1>7 DEF AddBook, Inserts

LEMMA RemovesBook == ASSUME RLInv, NEW q \in Requests, RemoveBook(q) PROVE RLInv'
<1>1. TwoShelvesHaveACause'
  BY FS_EmptySet DEF RemoveBook, TwoShelvesHaveACause
<1>2. QED
  BY <1>1, EndsRequest DEF RemoveBook, RLInv, RLTypeOK

LEMMA RemovesRating == ASSUME RLInv, NEW q \in Requests, RemoveRating(q) PROVE RLInv'
<1>1. TwoShelvesHaveACause'
  BY DEF RemoveRating, TwoShelvesHaveACause, RLInv
<1>2. QED
  BY <1>1, EndsRequest DEF RemoveRating, RLInv, RLTypeOK

LEMMA ReadsRating == ASSUME RLInv, NEW q \in Requests, ReadRating(q) PROVE RLInv'
<1> DEFINE r == request[q]
           z == [r EXCEPT !.pc = "rate", !.old = rating]
<1>1. r \in RequestType /\ request \in [Requests -> RequestType] /\ rating \in Stars \cup {None}
  BY DEF RLInv, RLTypeOK
<1>2. UNCHANGED <<shelves, rating, stale, doubled>> /\ Update(q, z) /\ r.pc = "read rating"
  BY DEF ReadRating, At
<1>3. /\ z \in RequestType /\ z.pc = "rate" /\ z.old = rating /\ z.stars = r.stars
      /\ z.shelf = r.shelf
  BY <1>1 DEF RequestType
<1>4. request'[q] = z
  BY <1>1, <1>2 DEF Update
<1>5. r.stars # None /\ WantsShelf(q) /\ Fresh(q)
  BY <1>2 DEF RLInv, RLTypeOK
<1>6. WantsShelf(q)' /\ Fresh(q)'
  BY <1>2, <1>3, <1>4, <1>5 DEF WantsShelf, Fresh, ShelfSeen, BookIsRead, RatingSeen, At
<1>7. TwoShelvesHaveACause'
  BY <1>2 DEF RLInv, TwoShelvesHaveACause
<1> HIDE DEF z
<1>8. QED
  BY <1>1, <1>2, <1>3, <1>5, <1>6, <1>7, StepOf DEF RLInv, RLTypeOK

LEMMA Rates == ASSUME RLInv, NEW q \in Requests, Rate(q) PROVE RLInv'
<1>1. request[q] \in RequestType /\ request[q].stars \in Stars \cup {None}
  BY DEF RLInv, RLTypeOK, RequestType
<1>2. UNCHANGED <<shelves, doubled>> /\ rating' \in Stars \cup {None}
  BY <1>1 DEF Rate, RLInv, RLTypeOK
<1>3. TwoShelvesHaveACause'
  BY <1>2 DEF RLInv, TwoShelvesHaveACause
<1>4. \E how \in {"done", "error"} :
         Update(q, Ended(q, how)) /\ (Wrote(q) \/ UNCHANGED <<shelves, rating, stale>>)
  BY <1>2 DEF Rate
<1>5. QED
  BY <1>2, <1>3, <1>4, EndsRequest DEF RLInv, RLTypeOK

LEMMA RLInitInv == RLInit => RLInv
<1> SUFFICES ASSUME RLInit PROVE RLInv
  OBVIOUS
<1>1. \A q \in Requests : request[q] \in RequestType /\ request[q].pc = "idle"
  BY DEF RLInit, New, RequestType
<1>2. RLTypeOK
  BY <1>1 DEF RLInit, RLTypeOK, None, Shelves
<1>3. TwoShelvesHaveACause
  BY FS_EmptySet DEF RLInit, TwoShelvesHaveACause
<1>4. QED
  BY <1>1, <1>2, <1>3 DEF RLInv, WantsShelf, Fresh, ShelfSeen, BookIsRead, RatingSeen, At

LEMMA RLNextInv == RLInv /\ [RLNext]_rlVars => RLInv'
<1>1. RLInv /\ RLNext => RLInv'
  BY LookAtShelf, RemovesBook, ShelvesBook, RemovesRating, ReadsRating, Rates DEF RLNext
<1>2. ASSUME RLInv, UNCHANGED rlVars PROVE RLInv'
  <2>1. UNCHANGED <<shelves, rating, request, stale, doubled>>
    BY <1>2 DEF rlVars
  <2>2. RLTypeOK' /\ TwoShelvesHaveACause'
    BY <1>2, <2>1 DEF RLInv, RLTypeOK, TwoShelvesHaveACause
  <2>3. \A q \in Requests : WantsShelf(q)' /\ Fresh(q)'
    BY <1>2, <2>1 DEF RLInv, WantsShelf, Fresh, ShelfSeen, BookIsRead, RatingSeen, At, Status
  <2>4. QED
    BY <2>2, <2>3 DEF RLInv
<1>3. QED
  BY <1>1, <1>2

----------------------------------------------------------------------------
(* ReadingLog: the theorems *)

LEMMA RLInvariant == RLSpec => []RLInv
<1>1. QED
  BY RLInitInv, RLNextInv, PTL DEF RLSpec

\* Rows and requests keep their types, for any number of requests.
THEOREM RLTypeCorrect == RLSpec => []RLTypeOK
<1>1. RLInv => RLTypeOK
  BY DEF RLInv
<1>2. QED
  BY <1>1, RLInvariant, PTL

\* However the requests of a patron interleave, a book gets on two shelves only by
\* a request that inserted behind another one's back.
THEOREM TwoShelvesByRaces == RLSpec => []TwoShelvesHaveACause
<1>1. RLInv => TwoShelvesHaveACause
  BY DEF RLInv
<1>2. QED
  BY <1>1, RLInvariant, PTL

\* What a request is about when it ends.
LEMMA EndsAsAsked ==
    ASSUME RLInv, NEW q \in Requests, RLNext, ~At(q, "idle"), At(q, "idle")', q \notin stale
    PROVE  LET r == request[q] IN
           \/ request'[q].ended = "error" /\ (doubled \/ rating = 0)
           \/ /\ request'[q].ended = "done"
              /\ r.stars = None => shelves' = IF r.shelf \in {r.status, None} THEN {}
                                              ELSE {r.shelf}
              /\ r.stars # None => rating' = r.stars /\ AlreadyRead \in shelves'
<1> DEFINE r == request[q]
<1>1. /\ request \in [Requests -> RequestType] /\ r \in RequestType /\ Fresh(q) /\ WantsShelf(q)
      /\ (r.pc \in {"read rating", "rate"} => r.stars # None) /\ RLTypeOK /\ shelves \subseteq Shelves
      /\ TwoShelvesHaveACause
  BY DEF RLInv, RLTypeOK
<1>2. \A o \in Requests : \A z : Update(o, z) => request'[o] = z /\ (o # q => request'[q] = r)
  BY <1>1 DEF Update
<1>3. RemoveBook(q) \/ AddBook(q) \/ Rate(q)
  <2>1. PICK o \in Requests :
           PostShelf(o) \/ RemoveBook(o) \/ CheckShelf(o) \/ AddBook(o)
           \/ PostRating(o) \/ RemoveRating(o) \/ ReadRating(o) \/ Rate(o)
    BY DEF RLNext
  <2>2. \E z : Update(o, z)
    BY <2>1 DEF PostShelf, RemoveBook, CheckShelf, AddBook, PostRating, RemoveRating,
       ReadRating, Rate
  <2>3. o = q
    BY <1>2, <2>2 DEF At
  <2>4. /\ \A s : [r EXCEPT !.pc = "shelve", !.status = s].pc # "idle"
        /\ [r EXCEPT !.pc = "rate", !.old = rating].pc # "idle"
    BY <1>1 DEF RequestType
  <2>5. ~CheckShelf(q) /\ ~ReadRating(q)
    BY <1>2, <2>4 DEF CheckShelf, ReadRating, At
  <2>6. QED
    BY <2>1, <2>3, <2>5 DEF PostShelf, PostRating, RemoveRating, At
<1>4. \A how \in {"done", "error"} : Update(q, Ended(q, how)) => request'[q].ended = how
  BY <1>2, EndedType
<1>5. CASE RemoveBook(q)
  BY <1>4, <1>5 DEF RemoveBook
<1>6. CASE AddBook(q)
  <2>1. r.status \in Status /\ r.shelf # None /\ (r.stars = None => r.shelf # r.status)
    BY <1>1, <1>6 DEF Fresh, ShelfSeen, AddBook
  <2>2. (r.status = None <=> shelves = {}) /\ Cardinality(shelves) \in Nat
    BY <1>1, <2>1, StatusIs, NumbersOfRows
  <2>3. CASE Update(q, Shelved(q))
    <3>1. r.stars = None
      <4> SUFFICES ASSUME r.stars # None PROVE FALSE
        OBVIOUS
      <4>1. request'[q] = [r EXCEPT !.pc = "read rating"]
        BY <1>2, <2>3 DEF Shelved
      <4>2. request'[q].pc = "read rating"
        BY <1>1, <4>1 DEF RequestType
      <4>3. QED
        BY <4>2 DEF At
    <3>2. request'[q].ended = "done"
      BY <1>4, <2>3, <3>1 DEF Shelved
    <3>3. ~Update(q, Ended(q, "error"))
      BY <1>4, <3>2
    <3>4. \/ Inserts(r) /\ shelves' = shelves \cup {r.shelf}
          \/ ~Inserts(r) /\ shelves' = {r.shelf : s \in shelves}
      BY <1>6, <3>3 DEF AddBook
    <3>5. shelves' = {r.shelf}
      BY <2>2, <3>4 DEF Inserts
    <3>6. QED
      BY <2>1, <3>1, <3>2, <3>5
  <2>4. CASE /\ IF Inserts(r) THEN r.shelf \in shelves ELSE Cardinality(shelves) > 1
             /\ Update(q, Ended(q, "error"))
    <3>1. Cardinality(shelves) > 1
      BY <2>2, <2>4 DEF Inserts
    <3>2. ~(Cardinality(shelves) <= 1)
      BY <2>2, <3>1
    <3>3. doubled
      BY Zenon, <1>1, <3>2 DEF TwoShelvesHaveACause
    <3>4. QED
      BY <1>4, <2>4, <3>3
  <2>5. QED
    BY <1>6, <2>3, <2>4 DEF AddBook
<1>7. CASE Rate(q)
  <2>1. r.old = rating /\ AlreadyRead \in shelves /\ r.stars # None /\ shelves' = shelves
    BY <1>1, <1>7 DEF Fresh, RatingSeen, BookIsRead, Rate, At
  <2>2. CASE Update(q, Ended(q, "done")) /\ rating' = r.stars
    BY <1>4, <2>1, <2>2
  <2>3. CASE Update(q, Ended(q, "error")) /\ Unrated(r.old) /\ rating # None
    BY <1>4, <2>1, <2>3 DEF Unrated
  <2>4. Unrated(r.old) \/ rating # None
    BY <2>1 DEF Unrated
  <2>5. QED
    BY <1>7, <2>2, <2>3, <2>4 DEF Rate
<1>8. QED
  BY <1>3, <1>5, <1>6, <1>7

\* A request that nobody wrote behind does what it was asked for, and fails only for
\* a book on two shelves or a rating of no stars, however many others interleave.
THEOREM LoneRequests == RLSpec => LoneRequestsSucceed
<1> DEFINE AsAsked(q) ==
          LET r == request[q] IN
          \/ request'[q].ended = "error" /\ (doubled \/ rating = 0)
          \/ /\ request'[q].ended = "done"
             /\ r.stars = None => shelves' = IF r.shelf \in {r.status, None} THEN {}
                                             ELSE {r.shelf}
             /\ r.stars # None => rating' = r.stars /\ AlreadyRead \in shelves'
<1>1. RLInv /\ [RLNext]_rlVars =>
      [\A q \in Requests : ~At(q, "idle") /\ At(q, "idle")' /\ q \notin stale => AsAsked(q)]_rlVars
  BY EndsAsAsked
<1>2. QED
  BY <1>1, RLInvariant, PTL DEF RLSpec, LoneRequestsSucceed
=============================================================================
