------------------------------ MODULE Accounts ------------------------------
(***************************************************************************)
(* Accounts of Open Library and their links to accounts of archive.org.    *)
(* A patron logs in with an archive.org account; the login finds the       *)
(* account linked to it, or links the one with the same email, or makes    *)
(* one.  Every read and write is a request of its own, the login may stop  *)
(* between any two, and administrators and other logins change the same    *)
(* accounts.  An archive.org account is named by its email here.           *)
(*                                                                         *)
(* Code: openlibrary/accounts/model.py, the handlers of                    *)
(* openlibrary/plugins/upstream/account.py and of people_view in           *)
(* openlibrary/plugins/admin/code.py.                                      *)
(***************************************************************************)
EXTENDS Naturals, FiniteSets

CONSTANTS
    Users,      \* user names of Open Library
    Emails,
    Logins,     \* logins and migrations under way at one time
    Nobody,     \* of an email, a link or a user
    MaxAdmin    \* bound: how often an administrator acts, or a login stops

ASSUME AccountsAssumption == Nobody \notin Users \cup Emails /\ MaxAdmin \in Nat

VARIABLES
    account,  \* [Users -> account document]
    ia,       \* emails with an account on archive.org
    login,    \* [Logins -> where it is, and what it has read]
    session,  \* [Logins -> the user its token is for]
    (* history *)
    since,    \* [Logins -> users that were blocked or were linked, since it looked]
    admin     \* how often an administrator has acted

acVars == <<account, ia, login, session, since, admin>>

AccountDoc == [email: Emails \cup {Nobody}, link: Emails \cup {Nobody},
               status: {"none", "pending", "active", "blocked"}]

LoginType == [pc: {"idle", "find", "link", "activate", "check", "register", "verify",
                   "link new", "token", "migrate"},
              ia: Emails \cup {Nobody}, user: Users \cup {Nobody},
              status: {"none", "pending", "active", "blocked"}]

\* Documents and logins have their types, and no email has two accounts.
ACTypeOK ==
    /\ account \in [Users -> AccountDoc]
    /\ \A u \in Users : account[u].email = Nobody <=> account[u].status = "none"
    /\ \A u, v \in Users : account[u].email = account[v].email /\ u # v
                           => account[u].email = Nobody
    /\ ia \subseteq Emails
    /\ login \in [Logins -> LoginType]
    /\ session \in [Logins -> Users \cup {Nobody}]
    /\ since \in [Logins -> [blocked: SUBSET Users, linked: SUBSET Users]]
    /\ admin \in 0..MaxAdmin

----------------------------------------------------------------------------
NoAccount == [email |-> Nobody, link |-> Nobody, status |-> "none"]

IdleLogin == [pc |-> "idle", ia |-> Nobody, user |-> Nobody, status |-> "none"]

Nothing == [blocked |-> {}, linked |-> {}]

\* get_by_link, get_by_email.
LinkedTo(e) == {u \in Users : account[u].link = e}

\* Mutant: an account that is not active yet is not found by its email.
WithEmail_Active(e) == {u \in Users : account[u].email = e /\ account[u].status = "active"}

WithEmail(e) == {u \in Users : account[u].email = e}

AtLogin(l, pc) == login[l].pc = pc

Become(l, r) == login' = [login EXCEPT ![l] = r]

GoOn(l, pc) == Become(l, [login[l] EXCEPT !.pc = pc])

Quit(l) == Become(l, IdleLogin)

\* link: the document is read and saved, which fails if it is saved in between.
SetLink(u, e) ==
    /\ account' = [account EXCEPT ![u].link = e]
    /\ since' = [l \in Logins |-> [since[l] EXCEPT !.linked = @ \cup {u}]]

----------------------------------------------------------------------------
(* audit_accounts *)

\* archive.org knows the email and the password.
Authenticate(l, e) ==
    /\ AtLogin(l, "idle") /\ e \in ia
    /\ Become(l, [IdleLogin EXCEPT !.pc = "find", !.ia = e])
    /\ session' = [session EXCEPT ![l] = Nobody]
    /\ since' = [since EXCEPT ![l] = Nothing]
    /\ UNCHANGED <<account, ia, admin>>

\* The next step for an account that is linked.
AfterLink(status) == IF status = "pending" THEN "activate" ELSE "check"

Found(l, u, pc) ==
    Become(l, [login[l] EXCEPT !.pc = pc, !.user = u, !.status = account[u].status])

\* Mutant: the account with the email is taken, whoever is linked.
FindAccount_ByEmail(l) ==
    LET e == login[l].ia IN
    /\ AtLogin(l, "find")
    /\ \/ \E u \in WithEmail(e) : Found(l, u, IF account[u].link = e THEN AfterLink(account[u].status)
                                               ELSE "link")
       \/ WithEmail(e) = {} /\ GoOn(l, "register")
    /\ since' = [since EXCEPT ![l] = Nothing]
    /\ UNCHANGED <<account, ia, session, admin>>

\* The account linked to this account of archive.org, or the one with its email,
\* which must not be linked ("wrong_ia_account"); or none.
FindAccount(l) ==
    LET e == login[l].ia IN
    /\ AtLogin(l, "find")
    /\ \/ \E u \in LinkedTo(e) : Found(l, u, AfterLink(account[u].status))
       \/ /\ LinkedTo(e) = {}
          /\ \/ \E u \in WithEmail(e) :
                   IF account[u].link = Nobody THEN Found(l, u, "link") ELSE Quit(l)
             \/ WithEmail(e) = {} /\ GoOn(l, "register")
    /\ since' = [since EXCEPT ![l] = Nothing]
    /\ UNCHANGED <<account, ia, session, admin>>

Link(l) ==
    /\ AtLogin(l, "link")
    /\ SetLink(login[l].user, login[l].ia)
    /\ GoOn(l, AfterLink(login[l].status))
    /\ UNCHANGED <<ia, session, admin>>

\* Mutant: an account that was found by its link is not activated.
Activate_OnlyNew(l) ==
    /\ AtLogin(l, "activate")
    /\ GoOn(l, "check")
    /\ UNCHANGED <<account, ia, session, since, admin>>

Activate(l) ==
    /\ AtLogin(l, "activate")
    /\ account' = [account EXCEPT ![login[l].user].status =
                     IF @ = "pending" THEN "active" ELSE @]
    /\ GoOn(l, "check")
    /\ UNCHANGED <<ia, session, since, admin>>

\* ol_account.blocked, of the document as it was read.
MayEnter(status) == status # "blocked"

CheckBlocked(l) ==
    /\ AtLogin(l, "check")
    /\ IF MayEnter(login[l].status) THEN GoOn(l, "token") ELSE Quit(l)
    /\ UNCHANGED <<account, ia, session, since, admin>>

\* OpenLibraryAccount.create: an email that is in use is refused; of the user
\* names that are tried, one is free.  With keys there is no password, and the
\* login raises instead.
Register(l) ==
    LET e == login[l].ia IN
    /\ AtLogin(l, "register")
    /\ \/ /\ WithEmail(e) = {}
          /\ \E u \in Users :
                /\ account[u].status = "none"
                /\ account' = [account EXCEPT ![u] = [email |-> e, link |-> Nobody,
                                                      status |-> "pending"]]
                /\ Become(l, [login[l] EXCEPT !.pc = "verify", !.user = u])
       \/ /\ \/ WithEmail(e) # {}
             \/ \A u \in Users : account[u].status # "none"
          /\ Quit(l)
          /\ UNCHANGED account
    /\ UNCHANGED <<ia, session, since, admin>>

\* verified=True: it is activated, and got by its email.
Verify(l) ==
    /\ AtLogin(l, "verify")
    /\ account' = [account EXCEPT ![login[l].user].status =
                     IF @ = "pending" THEN "active" ELSE @]
    /\ GoOn(l, "link new")
    /\ UNCHANGED <<ia, session, since, admin>>

LinkNew(l) ==
    /\ AtLogin(l, "link new")
    /\ \/ \E u \in WithEmail(login[l].ia) :
             /\ SetLink(u, login[l].ia)
             /\ GoOn(l, "token")
       \/ WithEmail(login[l].ia) = {} /\ Quit(l) /\ UNCHANGED <<account, since>>
    /\ UNCHANGED <<ia, session, admin>>

\* require_link: the account is read again by its link, and the token is for it;
\* without one the handler raises.
SetToken(l) ==
    /\ AtLogin(l, "token")
    /\ \/ \E u \in LinkedTo(login[l].ia) : session' = [session EXCEPT ![l] = u]
       \/ LinkedTo(login[l].ia) = {} /\ UNCHANGED session
    /\ Quit(l)
    /\ UNCHANGED <<account, ia, since, admin>>

----------------------------------------------------------------------------
(* The other handlers *)

\* account_create.POST: an account is made on archive.org, and only there.
CreateIA(e) ==
    /\ e \notin ia
    /\ ia' = ia \cup {e}
    /\ UNCHANGED <<account, login, session, since, admin>>

\* account_migration.GET: an account that has no link; archive.org is asked.
StartMigration(l, u) ==
    /\ AtLogin(l, "idle") /\ account[u].status # "none" /\ account[u].link = Nobody
    /\ Become(l, [IdleLogin EXCEPT !.pc = "migrate", !.user = u, !.ia = account[u].email])
    /\ UNCHANGED <<account, ia, session, since, admin>>

\* It is linked to the account with its email, if there is one; one that is
\* created for it stays without a link.
Migrate(l) ==
    /\ AtLogin(l, "migrate")
    /\ IF login[l].ia \in ia
       THEN SetLink(login[l].user, login[l].ia) /\ UNCHANGED ia
       ELSE ia' = ia \cup {login[l].ia} /\ UNCHANGED <<account, since>>
    /\ Quit(l)
    /\ UNCHANGED <<session, admin>>

\* people_view.POST, internal_audit.GET: an account is blocked, unblocked,
\* activated, given an email that no other has, or its link is removed.
Administer(u) ==
    /\ admin < MaxAdmin /\ admin' = admin + 1
    /\ account[u].status # "none"
    /\ \/ /\ account' = [account EXCEPT ![u].status = "blocked"]
          /\ since' = [l \in Logins |-> [since[l] EXCEPT !.blocked = @ \cup {u}]]
       \/ /\ account' = [account EXCEPT ![u].status = "active"]
          /\ UNCHANGED since
       \/ \E e \in Emails :
             /\ WithEmail(e) = {}
             /\ account' = [account EXCEPT ![u].email = e]
             /\ UNCHANGED since
       \/ /\ account' = [account EXCEPT ![u].link = Nobody]
          /\ UNCHANGED since
    /\ UNCHANGED <<ia, login, session>>

\* The login's process dies, or archive.org or the database does not answer.
StopLogin(l) ==
    /\ admin < MaxAdmin /\ admin' = admin + 1
    /\ ~AtLogin(l, "idle")
    /\ Quit(l)
    /\ UNCHANGED <<account, ia, session, since>>

\* Accounts from the time before archive.org are there, without links.
ACInit ==
    /\ account \in [Users -> {NoAccount} \cup
                    [email: Emails, link: {Nobody}, status: {"pending", "active"}]]
    /\ \A u, v \in Users : u # v => account[u].email # account[v].email \/ account[u] = NoAccount
    /\ ia \in SUBSET Emails
    /\ login = [l \in Logins |-> IdleLogin]
    /\ session = [l \in Logins |-> Nobody]
    /\ since = [l \in Logins |-> Nothing]
    /\ admin = 0

Audit(l) == FindAccount(l) \/ Link(l) \/ Activate(l) \/ CheckBlocked(l)
            \/ Register(l) \/ Verify(l) \/ LinkNew(l) \/ SetToken(l) \/ Migrate(l)

ACNext ==
    \/ \E l \in Logins : \/ Audit(l) \/ StopLogin(l)
                         \/ \E e \in Emails : Authenticate(l, e)
                         \/ \E u \in Users : StartMigration(l, u)
    \/ \E e \in Emails : CreateIA(e)
    \/ \E u \in Users : Administer(u)

ACSpec == ACInit /\ [][ACNext]_acVars

----------------------------------------------------------------------------
(* Properties *)

\* audit_accounts: "we have already determined that no OL account is linked to
\* our IA account".  A login links a second account to one of archive.org only
\* if the first was linked since the login looked.
LoginsLinkOnce ==
    [][\A l \in Logins :
          Link(l) \/ LinkNew(l) =>
              \A u, v \in Users :
                  u # v /\ account'[u].link = login[l].ia /\ account'[v].link = login[l].ia
                  => {u, v} \cap since[l].linked # {}]_acVars

\* audit_accounts: wherever an earlier login stopped - after an account was
\* made, activated or linked - the next one that gets in as the account it found
\* gets in as an active one, unless that was blocked since it looked.
SessionsAreActive ==
    [][\A l \in Logins : session'[l] # session[l] /\ session'[l] = login[l].user =>
          LET u == session'[l] IN
          \/ u = Nobody
          \/ account[u].status = "active"
          \/ account[u].status = "blocked" /\ u \in since[l].blocked]_acVars

=============================================================================
