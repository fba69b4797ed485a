------------------------------- MODULE Lending -------------------------------
(***************************************************************************)
(* Controlled lending, the part of Open Library that runs on both sides of *)
(* an API: the loans live at archive.org, and Open Library keeps two       *)
(* copies of what it knows of them, the ebook document of each book in its *)
(* store and the row of each loan in its statistics table.                 *)
(*                                                                         *)
(* A web request is a worker.  Between two of its actions it has made one  *)
(* call to archive.org, to the store or to the database, so that requests  *)
(* of several patrons, notifications and changes made at archive.org       *)
(* interleave the way concurrent web processes do.                         *)
(*                                                                         *)
(* Code: openlibrary/core/lending.py, core/statsdb.py,                     *)
(* plugins/upstream/borrow.py, plugins/upstream/models.py (User),          *)
(* plugins/openlibrary/libraries.py (statistics of loans).                 *)
(***************************************************************************)
EXTENDS Naturals, FiniteSets, Sequences

CONSTANTS
    Books,       \* ocaids of lendable books
    Patrons,     \* patrons with an account on both sides
    Outsider,    \* any archive.org patron Open Library has no account for
    Workers,     \* web requests that may be in progress at a time
    MaxLoans,    \* user_max_loans
    Reborrows,   \* bound: how often one patron may get the same book
    Direct,      \* those who also borrow on archive.org's own pages
    Waiters,     \* patrons who join and leave waiting lists
    Operations,  \* the requests that are made
    Failures,    \* may calls time out and notifications get lost?
    NoLoan       \* None

Borrowers == Patrons \cup {Outsider}

AllOperations == {"borrow", "return", "sync", "admin"}

ASSUME LendingAssumption ==
    /\ Books # {}
    /\ Patrons # {}
    /\ Outsider \notin Patrons
    /\ MaxLoans \in Nat \ {0}
    /\ Reborrows \in Nat \ {0}
    /\ Direct \subseteq Borrowers
    /\ Waiters \subseteq Patrons
    /\ Operations \subseteq AllOperations
    /\ Failures \in BOOLEAN

\* The books of the catalogue and the requests of the servers are finitely many.
ASSUME FiniteAssumption == IsFiniteSet(Books) /\ IsFiniteSet(Workers)

\* A loan is identified by the book, the borrower and a serial number: that
\* is all the code reads from the record behind a loan's uuid.
LoanId == [book: Books, user: Borrowers, n: 1..Reborrows]

ASSUME NoLoanAssumption == NoLoan \notin LoanId

VARIABLES
    (* archive.org *)
    status,   \* [LoanId -> {"unissued", "live", "ended"}]
    queue,    \* [Books -> Seq(Patrons)], the waiting lists
    notices,  \* books of which a change has not been notified yet
    (* Open Library *)
    ebook,    \* [Books -> EBook], the documents "ebooks/<ocaid>"
    stats,    \* [LoanId -> row of the table stats]
    (* requests in progress *)
    pc,       \* [Workers -> point of control]
    req,      \* [Workers -> Request]
    sync,     \* [Workers -> local variables of sync_loan]
    todo,     \* [Workers -> SUBSET Books], loop of update_loan_status
    event,    \* [Workers -> local variables of a loan-completed handler]
    fresh     \* workers whose copy of the ebook has the current _rev

ia == <<status, queue, notices>>
ol == <<ebook, stats>>
local == <<pc, req, sync, todo, event, fresh>>
vars == <<ia, ol, local>>

----------------------------------------------------------------------------
(* Types *)

Availability == [borrowed: BOOLEAN, waiting: Nat]

\* An ebook document, and the fields of it sync_loan writes: loan, borrowed,
\* wl_size.
EBook == [exists: BOOLEAN, loan: LoanId \cup {NoLoan}, avail: Availability]

\* What a reader of a missing document sees.
NoAvailability == [borrowed |-> FALSE, waiting |-> 0]
NoEBook == [exists |-> FALSE, loan |-> NoLoan, avail |-> NoAvailability]

AnyBook == CHOOSE b \in Books : TRUE
AnyPatron == CHOOSE u \in Patrons : TRUE

Request == [op: AllOperations \cup {"none", "read"}, user: Patrons, book: Books,
            target: LoanId \cup {NoLoan}]
NoRequest == [op |-> "none", user |-> AnyPatron, book |-> AnyBook,
              target |-> NoLoan]

\* Where sync_loan returns to.
Return == {"refresh", "completing", "adminget", "idle"}

Sync == [item: Books, known: LoanId \cup {NoLoan}, avail: Availability,
         doc: EBook, ret: Return]
NoSync == [item |-> AnyBook, known |-> NoLoan, avail |-> NoAvailability,
           doc |-> NoEBook, ret |-> "idle"]

Event == [loan: LoanId \cup {NoLoan}, found: BOOLEAN]
NoEvent == [loan |-> NoLoan, found |-> FALSE]

SyncPoints == {"getloan", "response", "find", "update"}
EventPoints == {"select", "write"}
Points == {"idle", "held", "limit", "availability", "turn", "create",
           "addselect", "addinsert", "list", "refresh", "pick", "delete",
           "completing", "adminget"} \cup SyncPoints \cup EventPoints

IaType ==
    /\ status \in [LoanId -> {"unissued", "live", "ended"}]
    /\ queue \in [Books -> Seq(Patrons)]
    /\ notices \subseteq Books

OlType ==
    /\ ebook \in [Books -> EBook]
    /\ stats \in [LoanId -> {"none", "active", "completed"}]

LocalType ==
    /\ pc \in [Workers -> Points]
    /\ req \in [Workers -> Request]
    /\ sync \in [Workers -> Sync]
    /\ todo \in [Workers -> SUBSET Books]
    /\ event \in [Workers -> Event]
    /\ fresh \subseteq Workers

\* The variables of archive.org, of Open Library and of the requests in
\* progress have the types listed with their declarations.
TypeOK == IaType /\ OlType /\ LocalType

----------------------------------------------------------------------------
(* What archive.org answers *)

LoansOfBook(b) == {l \in LoanId : l.book = b /\ status[l] = "live"}
LoansOfUser(u) == {l \in LoanId : l.user = u /\ status[l] = "live"}

\* Mutant: the query does not name the book.
KnownLoans_AnyBook(b) == {l \in LoanId : status[l] = "live" /\ l.user \in Patrons}

\* A loan of somebody without an account here makes from_ia_loan raise, and
\* get_loan answers None.
KnownLoans(b) == {l \in LoansOfBook(b) : l.user \in Patrons}

\* loans__status of the item.  A book somebody waits for is not available,
\* and its first waiting loan is "available" once the copy is back.
Answer(b) == [borrowed |-> LoansOfBook(b) # {} \/ queue[b] # <<>>,
              waiting |-> Len(queue[b])]
Offered(u, b) == LoansOfBook(b) = {} /\ queue[b] # <<>> /\ Head(queue[b]) = u

\* The waiting list q once u has left it.
Without(q, u) ==
    IF \E i \in 1..Len(q) : q[i] = u
    THEN LET i == CHOOSE i \in 1..Len(q) : q[i] = u
         IN  SubSeq(q, 1, i - 1) \o SubSeq(q, i + 1, Len(q))
    ELSE q

\* u gets b: the loan is issued and u no longer waits.
Grant(u, b) ==
    /\ LoansOfBook(b) = {}
    /\ \E l \in LoanId :
          /\ l.book = b /\ l.user = u /\ status[l] = "unissued"
          /\ \A k \in LoanId : k.book = b /\ k.user = u /\ k.n < l.n
                                 => status[k] # "unissued"
          /\ status' = [status EXCEPT ![l] = "live"]
    /\ queue' = [queue EXCEPT ![b] = Without(@, u)]
    /\ notices' = notices \cup {b}

\* Mutant: the loan is deleted under the patron's other userid only.
Release_OtherUserid(u, b) == UNCHANGED ia

\* loan.delete names the item and the user, not the loan.
Release(u, b) ==
    /\ status' = [l \in LoanId |->
                    IF l.book = b /\ l.user = u /\ status[l] = "live"
                    THEN "ended" ELSE status[l]]
    /\ notices' = IF \E l \in LoansOfBook(b) : l.user = u
                  THEN notices \cup {b} ELSE notices
    /\ UNCHANGED queue

----------------------------------------------------------------------------
(* Control of a request *)

Goto(w, p) ==
    /\ pc' = [pc EXCEPT ![w] = p]
    /\ UNCHANGED <<req, sync, todo, event, fresh>>

\* The request is answered, or an exception ends it.
Stop(w) ==
    /\ pc' = [pc EXCEPT ![w] = "idle"]
    /\ req' = [req EXCEPT ![w] = NoRequest]
    /\ sync' = [sync EXCEPT ![w] = NoSync]
    /\ todo' = [todo EXCEPT ![w] = {}]
    /\ event' = [event EXCEPT ![w] = NoEvent]
    /\ fresh' = fresh \ {w}

\* sync_loan(b) is called and continues at r when it returns.
CallSync(w, b, r) ==
    /\ pc' = [pc EXCEPT ![w] = "getloan"]
    /\ sync' = [sync EXCEPT ![w] = [NoSync EXCEPT !.item = b, !.ret = r]]

\* "loan-completed" is sent for loan l: the handlers run at once.
SendCompleted(w, l) ==
    /\ pc' = [pc EXCEPT ![w] = "select"]
    /\ event' = [event EXCEPT ![w] = [loan |-> l, found |-> FALSE]]

\* sync_loan, or the event it fired, is over.
Resume(w) ==
    IF sync[w].ret = "idle"
    THEN Stop(w)
    ELSE /\ pc' = [pc EXCEPT ![w] = sync[w].ret]
         /\ sync' = [sync EXCEPT ![w] = NoSync]
         /\ event' = [event EXCEPT ![w] = NoEvent]
         /\ fresh' = fresh \ {w}
         /\ UNCHANGED <<req, todo>>

Start(w, op, u, b) ==
    /\ pc[w] = "idle"
    /\ op \in Operations
    /\ req' = [req EXCEPT ![w] = [op |-> op, user |-> u, book |-> b,
                                  target |-> NoLoan]]
    /\ UNCHANGED <<ol, todo, event, fresh>>

----------------------------------------------------------------------------
(* borrow.POST, action "borrow" *)

StartBorrow(w) == \E u \in Patrons, b \in Books :
    /\ Start(w, "borrow", u, b)
    /\ pc' = [pc EXCEPT ![w] = "held"]
    /\ UNCHANGED <<ia, sync>>

\* user.has_borrowed(edition): then "borrow" becomes "read".
CheckHeld(w) ==
    /\ pc[w] = "held"
    /\ IF LoansOfUser(req[w].user) \cap LoansOfBook(req[w].book) # {}
       THEN /\ pc' = [pc EXCEPT ![w] = "list"]
            /\ req' = [req EXCEPT ![w].op = "read"]
            /\ UNCHANGED <<ia, ol, sync, todo, event, fresh>>
       ELSE /\ Goto(w, "limit")
            /\ UNCHANGED <<ia, ol>>

\* Mutant: off by one.
LimitReached_OffByOne(u) == Cardinality(LoansOfUser(u)) > MaxLoans

\* user.get_loan_count() >= user_max_loans
LimitReached(u) == Cardinality(LoansOfUser(u)) >= MaxLoans

CheckLimit(w) ==
    /\ pc[w] = "limit"
    /\ IF LimitReached(req[w].user)
       THEN Stop(w)
       ELSE Goto(w, "availability")
    /\ UNCHANGED <<ia, ol>>

\* Without a waiting list the book has to be available, with one it has to
\* be the patron's turn.
CheckAvailability(w) ==
    LET a == Answer(req[w].book)
    IN  /\ pc[w] = "availability"
        /\ \/ a.waiting > 0 /\ Goto(w, "turn")
           \/ a.waiting = 0 /\ a.borrowed /\ Stop(w)
           \/ a.waiting = 0 /\ ~a.borrowed /\ Goto(w, "create")
        /\ UNCHANGED <<ia, ol>>

CheckTurn(w) ==
    /\ pc[w] = "turn"
    /\ IF Offered(req[w].user, req[w].book) THEN Goto(w, "create") ELSE Stop(w)
    /\ UNCHANGED <<ia, ol>>

\* create_loan: archive.org may grant the loan, grant it although the answer
\* is lost on the way, or refuse it.
CreateLoan(w) ==
    LET u == req[w].user
        b == req[w].book
    IN  /\ pc[w] = "create"
        /\ UNCHANGED ol
        /\ \/ /\ Grant(u, b)
              /\ pc' = [pc EXCEPT ![w] = "addselect"]
              /\ \E l \in LoanId : /\ status[l] # status'[l]
                                   /\ req' = [req EXCEPT ![w].target = l]
              /\ UNCHANGED <<sync, todo, event, fresh>>
           \/ /\ Failures
              /\ Grant(u, b)
              /\ Stop(w)
           \/ /\ Stop(w)
              /\ UNCHANGED ia

\* Mutant: the key of the table is not unique, nor looked for.
EntryAbsent_Always(l) == TRUE

EntryAbsent(l) == stats[l] = "none"

\* "loan-created" is handled: on_loan_created_statsdb adds an entry unless
\* there is one.
AddSelect(w) ==
    /\ pc[w] = "addselect"
    /\ IF EntryAbsent(req[w].target)
       THEN Goto(w, "addinsert")
       ELSE /\ CallSync(w, req[w].book, "idle")
            /\ UNCHANGED <<req, todo, event, fresh>>
    /\ UNCHANGED <<ia, ol>>

\* The insertion fails when another request has inserted the key meanwhile.
AddInsert(w) ==
    LET l == req[w].target
    IN  /\ pc[w] = "addinsert"
        /\ IF EntryAbsent(l)
           THEN /\ stats' = [stats EXCEPT ![l] = "active"]
                /\ CallSync(w, req[w].book, "idle")
                /\ UNCHANGED <<req, todo, event, fresh>>
           ELSE /\ Stop(w)
                /\ UNCHANGED stats
        /\ UNCHANGED <<ia, ebook>>

----------------------------------------------------------------------------
(* borrow.POST, actions "return" and "read" *)

StartReturn(w) == \E u \in Patrons, b \in Books :
    /\ Start(w, "return", u, b)
    /\ pc' = [pc EXCEPT ![w] = "list"]
    /\ UNCHANGED <<ia, sync>>

\* user.update_loan_status() syncs every book the user has borrowed ...
ListLoans(w) ==
    /\ pc[w] = "list"
    /\ pc' = [pc EXCEPT ![w] = "refresh"]
    /\ todo' = [todo EXCEPT ![w] = {l.book : l \in LoansOfUser(req[w].user)}]
    /\ UNCHANGED <<ia, ol, req, sync, event, fresh>>

\* Mutant: the loop does not advance.
Others_Same(w, b) == todo[w]

Others(w, b) == todo[w] \ {b}

\* ... one after the other.
Refresh(w) ==
    /\ pc[w] = "refresh"
    /\ IF todo[w] = {}
       THEN Goto(w, "pick")
       ELSE /\ \E b \in todo[w] :
                  /\ todo' = [todo EXCEPT ![w] = Others(w, b)]
                  /\ CallSync(w, b, "refresh")
            /\ UNCHANGED <<req, event, fresh>>
    /\ UNCHANGED <<ia, ol>>

\* get_loans(user): the loan of this book is read or returned.
PickLoan(w) ==
    LET held == LoansOfUser(req[w].user) \cap LoansOfBook(req[w].book)
    IN  /\ pc[w] = "pick"
        /\ IF req[w].op = "read" \/ held = {}
           THEN Stop(w)
           ELSE /\ pc' = [pc EXCEPT ![w] = "delete"]
                /\ \E l \in held : req' = [req EXCEPT ![w].target = l]
                /\ UNCHANGED <<sync, todo, event, fresh>>
        /\ UNCHANGED <<ia, ol>>

\* Loan.delete: archive.org deletes the loan, then the book is synced and
\* "loan-completed" sent.  The answer may be lost.
DeleteLoan(w) ==
    LET l == req[w].target
    IN  /\ pc[w] = "delete"
        /\ \/ /\ Release(l.user, l.book)
              /\ CallSync(w, l.book, "completing")
              /\ UNCHANGED <<req, todo, event, fresh>>
           \/ /\ Failures
              /\ Release(l.user, l.book)
              /\ Stop(w)
        /\ UNCHANGED ol

\* Mutant: no event after the book is synced.
CompleteLoan_Silent(w) ==
    /\ pc[w] = "completing"
    /\ Stop(w)
    /\ UNCHANGED <<ia, ol>>

CompleteLoan(w) ==
    /\ pc[w] = "completing"
    /\ SendCompleted(w, req[w].target)
    /\ UNCHANGED <<ia, ol, req, sync, todo, fresh>>

----------------------------------------------------------------------------
(* Requests that only sync a book, and the deletion by an administrator *)

\* ia_borrow_notify.POST
StartNotify(w) == \E b \in notices :
    /\ Start(w, "sync", AnyPatron, b)
    /\ notices' = notices \ {b}
    /\ CallSync(w, b, "idle")
    /\ UNCHANGED <<status, queue>>

\* borrow_status.GET and borrow_admin.GET
StartPage(w) == \E b \in Books :
    /\ Start(w, "sync", AnyPatron, b)
    /\ CallSync(w, b, "idle")
    /\ UNCHANGED ia

\* borrow_admin.POST, action "delete"
StartAdmin(w) == \E b \in Books :
    /\ Start(w, "admin", AnyPatron, b)
    /\ CallSync(w, b, "adminget")
    /\ UNCHANGED ia

AdminGetLoan(w) ==
    LET known == KnownLoans(req[w].book)
    IN  /\ pc[w] = "adminget"
        /\ IF known = {}
           THEN Stop(w)
           ELSE /\ pc' = [pc EXCEPT ![w] = "delete"]
                /\ \E l \in known : req' = [req EXCEPT ![w].target = l]
                /\ UNCHANGED <<sync, todo, event, fresh>>
        /\ UNCHANGED <<ia, ol>>

----------------------------------------------------------------------------
(* sync_loan *)

\* get_loan: an exception of the API is swallowed and reads as no loan.
GetLoan(w) ==
    LET known == KnownLoans(sync[w].item)
    IN  /\ pc[w] = "getloan"
        /\ pc' = [pc EXCEPT ![w] = "response"]
        /\ \/ \E l \in known : sync' = [sync EXCEPT ![w].known = l]
           \/ /\ known = {} \/ Failures
              /\ sync' = [sync EXCEPT ![w].known = NoLoan]
        /\ UNCHANGED <<ia, ol, req, todo, event, fresh>>

\* get_availability_of_ocaid
GetAvailability(w) ==
    /\ pc[w] = "response"
    /\ pc' = [pc EXCEPT ![w] = "find"]
    /\ sync' = [sync EXCEPT ![w].avail = Answer(sync[w].item)]
    /\ UNCHANGED <<ia, ol, req, todo, event, fresh>>

\* EBookRecord.find
FindEBook(w) ==
    /\ pc[w] = "find"
    /\ pc' = [pc EXCEPT ![w] = "update"]
    /\ sync' = [sync EXCEPT ![w].doc = ebook[sync[w].item]]
    /\ fresh' = fresh \cup {w}
    /\ UNCHANGED <<ia, ol, req, todo, event>>

\* Mutant: only the loan is compared.
SameDocument_LoanOnly(new, doc) == new.loan = doc.loan

SameDocument(new, doc) == new = doc

\* ebook.update, and the event for a loan that is gone.  The event names the
\* loan the document holds after the update.  A document somebody else has
\* written since it was read is not updated: the conflict is only logged.
UpdateEBook(w) ==
    LET s == sync[w]
        new == [exists |-> TRUE, loan |-> s.known, avail |-> s.avail]
        completed == s.doc.loan # NoLoan /\ s.doc.loan # s.known
    IN  /\ pc[w] = "update"
        /\ IF ~SameDocument(new, s.doc) /\ w \in fresh
           THEN /\ ebook' = [ebook EXCEPT ![s.item] = new]
                /\ fresh' = fresh \ {v \in Workers : sync[v].item = s.item}
           ELSE /\ UNCHANGED ebook
                /\ fresh' = fresh \ {w}
        /\ IF completed /\ s.known # NoLoan
           THEN /\ SendCompleted(w, s.known)
                /\ sync' = [sync EXCEPT ![w] = [NoSync EXCEPT !.ret = s.ret]]
                /\ UNCHANGED <<req, todo>>
           ELSE /\ pc' = [pc EXCEPT ![w] = s.ret]
                /\ sync' = [sync EXCEPT ![w] = NoSync]
                /\ req' = [req EXCEPT ![w] = IF s.ret = "idle"
                                             THEN NoRequest ELSE @]
                /\ UNCHANGED <<todo, event>>
        /\ UNCHANGED <<ia, stats>>

----------------------------------------------------------------------------
(* on_loan_completed_statsdb: statsdb.update_entry *)

SelectEntry(w) ==
    /\ pc[w] = "select"
    /\ pc' = [pc EXCEPT ![w] = "write"]
    /\ event' = [event EXCEPT ![w].found = ~EntryAbsent(event[w].loan)]
    /\ UNCHANGED <<ia, ol, req, sync, todo, fresh>>

\* An entry that was not found is inserted, which fails if it exists by now.
WriteEntry(w) ==
    LET l == event[w].loan
    IN  /\ pc[w] = "write"
        /\ IF ~event[w].found /\ ~EntryAbsent(l)
           THEN /\ Stop(w)
                /\ UNCHANGED stats
           ELSE /\ stats' = [stats EXCEPT ![l] = "completed"]
                /\ Resume(w)
        /\ UNCHANGED <<ia, ebook>>

----------------------------------------------------------------------------
(* A timeout, an exception or a restart of the server ends a request *)

Fail(w) ==
    /\ Failures
    /\ pc[w] # "idle"
    /\ Stop(w)
    /\ UNCHANGED <<ia, ol>>

----------------------------------------------------------------------------
(* archive.org *)

\* A patron borrows on archive.org's own pages.
BorrowDirectly == \E u \in Direct, b \in Books :
    /\ Grant(u, b)
    /\ UNCHANGED <<ol, local>>

\* A loan expires or is returned on archive.org's own pages.
EndLoan == \E l \in LoanId :
    /\ status[l] = "live"
    /\ status' = [status EXCEPT ![l] = "ended"]
    /\ notices' = notices \cup {l.book}
    /\ UNCHANGED <<queue, ol, local>>

JoinQueue == \E u \in Waiters, b \in Books :
    /\ \A i \in 1..Len(queue[b]) : queue[b][i] # u
    /\ queue' = [queue EXCEPT ![b] = Append(@, u)]
    /\ notices' = notices \cup {b}
    /\ UNCHANGED <<status, ol, local>>

LeaveQueue == \E u \in Waiters, b \in Books :
    /\ \E i \in 1..Len(queue[b]) : queue[b][i] = u
    /\ queue' = [queue EXCEPT ![b] = Without(@, u)]
    /\ notices' = notices \cup {b}
    /\ UNCHANGED <<status, ol, local>>

LoseNotice == \E b \in notices :
    /\ Failures
    /\ notices' = notices \ {b}
    /\ UNCHANGED <<status, queue, ol, local>>

----------------------------------------------------------------------------
Init ==
    /\ status = [l \in LoanId |-> "unissued"]
    /\ queue = [b \in Books |-> <<>>]
    /\ notices = {}
    /\ ebook = [b \in Books |-> NoEBook]
    /\ stats = [l \in LoanId |-> "none"]
    /\ pc = [w \in Workers |-> "idle"]
    /\ req = [w \in Workers |-> NoRequest]
    /\ sync = [w \in Workers |-> NoSync]
    /\ todo = [w \in Workers |-> {}]
    /\ event = [w \in Workers |-> NoEvent]
    /\ fresh = {}

Begin(w) == StartBorrow(w) \/ StartReturn(w) \/ StartNotify(w) \/ StartPage(w)
            \/ StartAdmin(w)

Borrow(w) == CheckHeld(w) \/ CheckLimit(w) \/ CheckAvailability(w)
             \/ CheckTurn(w) \/ CreateLoan(w) \/ AddSelect(w) \/ AddInsert(w)

GiveBack(w) == ListLoans(w) \/ Refresh(w) \/ PickLoan(w) \/ AdminGetLoan(w)
               \/ DeleteLoan(w) \/ CompleteLoan(w)

SyncLoan(w) == GetLoan(w) \/ GetAvailability(w) \/ FindEBook(w) \/ UpdateEBook(w)

HandleCompleted(w) == SelectEntry(w) \/ WriteEntry(w)

\* What a request does once it has begun.
Step(w) == Borrow(w) \/ GiveBack(w) \/ SyncLoan(w) \/ HandleCompleted(w)

ArchiveOrg == BorrowDirectly \/ EndLoan \/ JoinQueue \/ LeaveQueue \/ LoseNotice

Next ==
    \/ \E w \in Workers : Begin(w) \/ Step(w) \/ Fail(w)
    \/ ArchiveOrg

Spec == Init /\ [][Next]_vars

\* Every request is run by a thread of its own, and every call it makes has a
\* timeout: a request that has begun goes on.
FairSpec == Spec /\ \A w \in Workers : WF_vars(Step(w))

----------------------------------------------------------------------------
(* Properties *)

Issued(l) == status[l] # "unissued"

\* Whatever Open Library has written about a loan, in the ebook document of
\* a book or in the table of statistics, is about a loan archive.org really
\* granted, and an ebook document names a loan of its own book, although one
\* request syncs several books and events are fired for loans of others.
RecordsAreOfGrantedLoans ==
    /\ \A b \in Books : LET l == ebook[b].loan
                        IN  l # NoLoan => Issued(l) /\ l.book = b
                                          /\ l.user \in Patrons
    /\ \A l \in LoanId : stats[l] # "none" => Issued(l)

\* The entry of a completed loan stays: a late "loan-created" or a second
\* request that handles the same loan does not reopen it
\* (statsdb.add_entry, update_entry).
CompletedIsFinal ==
    [][\A l \in LoanId : stats[l] = "completed" => stats'[l] = "completed"]_vars

\* A patron who borrows here only is checked for user_max_loans before every
\* loan, but other requests of the same patron may be between this check and
\* the loan: each of them can exceed the limit by one, and no more.
OverborrowIsBounded ==
    \A u \in Patrons \ Direct :
        Cardinality(LoansOfUser(u)) <= MaxLoans - 1 + Cardinality(Workers)

\* The loan a patron returned, or an administrator deleted, is over at
\* archive.org by the time "loan-completed" is sent for it and while the book
\* is synced (Loan.delete), also when the patron gets the book again meanwhile.
ReturnEndsTheLoan ==
    \A w \in Workers :
        LET l == req[w].target
        IN  /\ sync[w].ret = "completing" \/ pc[w] = "completing"
                   => l # NoLoan /\ status[l] = "ended"
            /\ pc[w] \in EventPoints /\ req[w].op \in {"return", "admin"}
               /\ event[w].loan = l => status[l] = "ended"

\* Every request is answered (or fails).
RequestsEnd == \A w \in Workers : pc[w] # "idle" ~> pc[w] = "idle"

----------------------------------------------------------------------------
(* Properties of requests that run one at a time *)

Quiet == notices = {} /\ \A w \in Workers : pc[w] = "idle"

\* When every change of a book has been notified and every request is over,
\* the ebook documents tell what archive.org would answer (sync_loan).
EBooksAgreeWhenQuiet ==
    Quiet => \A b \in Books :
        /\ ebook[b].loan = NoLoan <=> KnownLoans(b) = {}
        /\ ebook[b].loan # NoLoan => ebook[b].loan \in KnownLoans(b)
        /\ ebook[b].avail = Answer(b)

\* A loan returned here becomes a completed entry of the statistics.
ReturnIsRecorded ==
    \A l \in LoanId :
        (\E w \in Workers : sync[w].ret = "completing" /\ req[w].target = l)
            ~> stats[l] = "completed"

----------------------------------------------------------------------------
(* What comments and docstrings of the code say *)

\* libraries.py, on_loan_completed_statsdb: "Marks the loan as completed in
\* the stats database."  A loan whose entry is completed is over.
CompletedLoansHaveEnded ==
    \A l \in LoanId : stats[l] = "completed" => status[l] # "live"

=============================================================================
