---------------------------- MODULE LendingProofs ----------------------------
(***************************************************************************)
(* Theorems about Lending, for any books, patrons, requests in progress    *)
(* and limits: type correctness, what the records kept here may say of a   *)
(* loan, by how much a patron can exceed the limit of loans, and that the  *)
(* ebook documents agree with archive.org when requests run one at a time. *)
(***************************************************************************)
EXTENDS Lending, FiniteSetTheorems, TLAPS

----------------------------------------------------------------------------
(* Constants and helpers *)

\* The registers of an idle request have their types.
LEMMA Registers ==
    /\ AnyBook \in Books
    /\ AnyPatron \in Patrons
    /\ NoRequest \in Request
    /\ NoEBook \in EBook
    /\ NoSync \in Sync
    /\ NoEvent \in Event
<1>1. AnyBook \in Books /\ AnyPatron \in Patrons
  BY LendingAssumption DEF AnyBook, AnyPatron
<1>2. NoEBook \in EBook
  BY DEF NoEBook, EBook, NoAvailability, Availability
<1>3. QED
  BY <1>1, <1>2 DEF NoRequest, Request, NoSync, Sync, NoEvent, Event, Return,
     NoAvailability, Availability, NoEBook

\* Whoever leaves a waiting list leaves a waiting list behind.
LEMMA WithoutType ==
    ASSUME NEW q \in Seq(Patrons), NEW u
    PROVE  Without(q, u) \in Seq(Patrons)
<1>1. ASSUME NEW i \in 1..Len(q)
      PROVE  SubSeq(q, 1, i - 1) \o SubSeq(q, i + 1, Len(q)) \in Seq(Patrons)
  <2>1. SubSeq(q, 1, i - 1) \in Seq(Patrons)
    OBVIOUS
  <2>2. SubSeq(q, i + 1, Len(q)) \in Seq(Patrons)
    OBVIOUS
  <2>3. QED
    BY <2>1, <2>2
<1>2. CASE \E i \in 1..Len(q) : q[i] = u
  BY <1>1, <1>2 DEF Without
<1>3. CASE ~ \E i \in 1..Len(q) : q[i] = u
  BY <1>3 DEF Without
<1>4. QED
  BY <1>2, <1>3

\* What archive.org answers has its type.
LEMMA AnswerType ==
    ASSUME TypeOK, NEW b \in Books
    PROVE  Answer(b) \in Availability
BY DEF TypeOK, IaType, Answer, Availability

----------------------------------------------------------------------------
(* The inductive invariant *)

\* The loan a request is about, the loan sync_loan was told of and the loan
\* of an event are loans archive.org has granted.
RegistersAreOfGrantedLoans(w) ==
    /\ req[w].target # NoLoan => Issued(req[w].target)
    /\ sync[w].known # NoLoan => /\ Issued(sync[w].known)
                                 /\ sync[w].known.book = sync[w].item
                                 /\ sync[w].known.user \in Patrons
    /\ event[w].loan # NoLoan => Issued(event[w].loan)

\* Where a loan is used there is one, and what sync_loan returns to fits.
RegistersAreSet(w) ==
    /\ pc[w] \in {"addselect", "addinsert", "delete", "completing"}
           => req[w].target # NoLoan
    /\ pc[w] \in EventPoints => event[w].loan # NoLoan
    /\ pc[w] \in {"held", "list", "refresh", "pick", "adminget"}
           => req[w].target = NoLoan
    /\ pc[w] \in {"held", "limit", "availability", "turn", "create", "addselect",
                  "addinsert"} => req[w].op = "borrow"
    /\ sync[w].ret \in {"refresh", "adminget"} => req[w].target = NoLoan
    /\ sync[w].ret = "completing" => req[w].target # NoLoan
    /\ pc[w] \in SyncPoints /\ sync[w].ret = "idle" => req[w].op \in {"borrow", "sync"}
    /\ pc[w] \in Points \ (SyncPoints \cup EventPoints) => sync[w] = NoSync

\* The conjunct of ReturnEndsTheLoan for one request.
EndsTheLoan(w) ==
    LET l == req[w].target
    IN  /\ sync[w].ret = "completing" \/ pc[w] = "completing"
               => l # NoLoan /\ status[l] = "ended"
        /\ pc[w] \in EventPoints /\ req[w].op \in {"return", "admin"}
           /\ event[w].loan = l => status[l] = "ended"

RequestInv(w) == RegistersAreOfGrantedLoans(w) /\ RegistersAreSet(w) /\ EndsTheLoan(w)

LendingInv ==
    /\ TypeOK
    /\ RecordsAreOfGrantedLoans
    /\ \A w \in Workers : RequestInv(w)

----------------------------------------------------------------------------
(* Type correctness, operator by operator *)

\* The points of control are distinct strings of one set.
LEMMA StopType ==
    ASSUME LocalType, NEW w \in Workers, Stop(w)
    PROVE  LocalType'
BY Registers DEF LocalType, Stop, Points

LEMMA GotoType ==
    ASSUME LocalType, NEW w \in Workers, NEW p \in Points, Goto(w, p)
    PROVE  LocalType'
BY DEF LocalType, Goto

LEMMA CallSyncType ==
    ASSUME LocalType, NEW w \in Workers, NEW b \in Books, NEW r \in Return,
           CallSync(w, b, r)
    PROVE  pc' \in [Workers -> Points] /\ sync' \in [Workers -> Sync]
<1>1. [NoSync EXCEPT !.item = b, !.ret = r] \in Sync
  BY Registers DEF Sync
<1>2. QED
  BY <1>1 DEF LocalType, CallSync, Points, SyncPoints

LEMMA SendCompletedType ==
    ASSUME LocalType, NEW w \in Workers, NEW l \in LoanId, SendCompleted(w, l)
    PROVE  pc' \in [Workers -> Points] /\ event' \in [Workers -> Event]
BY DEF LocalType, SendCompleted, Points, EventPoints, Event

LEMMA ResumeType ==
    ASSUME LocalType, NEW w \in Workers, Resume(w)
    PROVE  LocalType'
<1>1. CASE sync[w].ret = "idle"
  BY <1>1, StopType DEF Resume
<1>2. CASE sync[w].ret # "idle"
  <2>1. sync[w].ret \in Points
    BY DEF LocalType, Sync, Return, Points
  <2>2. QED
    BY <1>2, <2>1, Registers DEF Resume, LocalType
<1>3. QED
  BY <1>1, <1>2

LEMMA GrantType ==
    ASSUME IaType, NEW u \in Borrowers, NEW b \in Books, Grant(u, b)
    PROVE  IaType'
<1>1. status' \in [LoanId -> {"unissued", "live", "ended"}]
  BY DEF Grant, IaType
<1>2. Without(queue[b], u) \in Seq(Patrons)
  BY WithoutType DEF IaType
<1>3. queue' \in [Books -> Seq(Patrons)]
  BY <1>2 DEF Grant, IaType
<1>4. QED
  BY <1>1, <1>3 DEF Grant, IaType

LEMMA ReleaseType ==
    ASSUME IaType, NEW u, NEW b \in Books, Release(u, b)
    PROVE  IaType'
BY DEF IaType, Release

----------------------------------------------------------------------------
(* Type correctness, action by action *)

\* A request that begins.
LEMMA BeginType ==
    ASSUME TypeOK, NEW w \in Workers, Begin(w)
    PROVE  TypeOK'
<1> USE DEF TypeOK
<1>1. ASSUME NEW op, NEW u \in Patrons, NEW b \in Books, Start(w, op, u, b)
      PROVE  /\ req' \in [Workers -> Request]
             /\ OlType'
             /\ todo' = todo /\ event' = event /\ fresh' = fresh
  <2>1. op \in AllOperations
    BY <1>1, LendingAssumption DEF Start
  <2>2. [op |-> op, user |-> u, book |-> b, target |-> NoLoan] \in Request
    BY <2>1 DEF Request
  <2>3. QED
    BY <1>1, <2>2 DEF Start, OlType, ol, LocalType
<1>2. ASSUME NEW b \in Books, NEW r \in Return, CallSync(w, b, r)
      PROVE  pc' \in [Workers -> Points] /\ sync' \in [Workers -> Sync]
  BY <1>2, CallSyncType
<1>3. CASE StartBorrow(w)
  BY <1>1, <1>3 DEF StartBorrow, Points, LocalType, IaType, ia
<1>4. CASE StartReturn(w)
  BY <1>1, <1>4 DEF StartReturn, Points, LocalType, IaType, ia
<1>5. CASE StartNotify(w)
  <2>1. PICK b \in notices : Start(w, "sync", AnyPatron, b) /\ CallSync(w, b, "idle")
                             /\ notices' = notices \ {b}
                             /\ UNCHANGED <<status, queue>>
    BY <1>5 DEF StartNotify
  <2>2. b \in Books
    BY DEF IaType
  <2>3. QED
    BY <1>1, <1>2, <2>1, <2>2, Registers DEF Return, LocalType, IaType
<1>6. CASE StartPage(w)
  BY <1>1, <1>2, <1>6, Registers DEF StartPage, Return, LocalType, IaType, ia
<1>7. CASE StartAdmin(w)
  BY <1>1, <1>2, <1>7, Registers DEF StartAdmin, Return, LocalType, IaType, ia
<1>8. QED
  BY <1>3, <1>4, <1>5, <1>6, <1>7 DEF Begin

\* The check of a borrow request, the loan and its statistics.
LEMMA BorrowType ==
    ASSUME TypeOK, NEW w \in Workers, Borrow(w)
    PROVE  TypeOK'
<1> USE DEF TypeOK
<1>1. IaType /\ UNCHANGED ia => IaType'
  BY DEF IaType, ia
<1>2. OlType /\ UNCHANGED ol => OlType'
  BY DEF OlType, ol
<1>3. req[w] \in Request
  BY DEF LocalType
<1>4. CASE CheckHeld(w)
  <2>1. CASE Goto(w, "limit")
    BY <1>1, <1>2, <1>4, <2>1, GotoType DEF CheckHeld, Points
  <2>2. CASE ~ Goto(w, "limit")
    BY <1>1, <1>2, <1>3, <1>4, <2>2
       DEF CheckHeld, Points, LocalType, Request
  <2>3. QED
    BY <2>1, <2>2
<1>5. CASE CheckLimit(w)
  BY <1>1, <1>2, <1>5, GotoType, StopType DEF CheckLimit, Points
<1>6. CASE CheckAvailability(w)
  BY <1>1, <1>2, <1>6, GotoType, StopType DEF CheckAvailability, Points
<1>7. CASE CheckTurn(w)
  BY <1>1, <1>2, <1>7, GotoType, StopType DEF CheckTurn, Points
<1>8. CASE CreateLoan(w)
  <2>1. req[w].user \in Borrowers /\ req[w].book \in Books
    BY <1>3 DEF Request, Borrowers
  <2>2. IaType'
    BY <1>1, <1>8, <2>1, GrantType DEF CreateLoan
  <2>3. LocalType'
    <3>1. CASE Stop(w)
      BY <3>1, StopType
    <3>2. CASE ~ Stop(w)
      BY <1>3, <1>8, <3>2 DEF CreateLoan, LocalType, Points, Request
    <3>3. QED
      BY <3>1, <3>2
  <2>4. QED
    BY <1>2, <1>8, <2>2, <2>3 DEF CreateLoan
<1>9. CASE AddSelect(w)
  <2>1. CASE Goto(w, "addinsert")
    BY <1>1, <1>2, <1>9, <2>1, GotoType DEF AddSelect, Points
  <2>2. CASE ~ Goto(w, "addinsert")
    BY <1>1, <1>2, <1>3, <1>9, <2>2, CallSyncType
       DEF AddSelect, Return, Request, LocalType
  <2>3. QED
    BY <2>1, <2>2
<1>10. CASE AddInsert(w)
  <2>1. IaType' /\ OlType'
    BY <1>1, <1>3, <1>10 DEF AddInsert, OlType
  <2>2. LocalType'
    <3>1. CASE Stop(w)
      BY <3>1, StopType
    <3>2. CASE ~ Stop(w)
      BY <1>3, <1>10, <3>2, CallSyncType DEF AddInsert, Return, Request, LocalType
    <3>3. QED
      BY <3>1, <3>2
  <2>3. QED
    BY <2>1, <2>2
<1>11. QED
  BY <1>4, <1>5, <1>6, <1>7, <1>8, <1>9, <1>10 DEF Borrow

\* Returning, and the deletion by an administrator.
LEMMA GiveBackType ==
    ASSUME TypeOK, NEW w \in Workers, RegistersAreSet(w), GiveBack(w)
    PROVE  TypeOK'
<1> USE DEF TypeOK
<1>1. IaType /\ UNCHANGED ia => IaType'
  BY DEF IaType, ia
<1>2. OlType /\ UNCHANGED ol => OlType'
  BY DEF OlType, ol
<1>3. req[w] \in Request
  BY DEF LocalType
<1>4. ASSUME NEW l \in LoanId, pc' = [pc EXCEPT ![w] = "delete"],
             req' = [req EXCEPT ![w].target = l],
             UNCHANGED <<sync, todo, event, fresh>>
      PROVE  LocalType'
  BY <1>3, <1>4 DEF LocalType, Points, Request
<1>5. CASE ListLoans(w)
  BY <1>1, <1>2, <1>5 DEF ListLoans, LocalType, Points, LoansOfUser, LoanId
<1>6. CASE Refresh(w)
  <2>1. CASE todo[w] = {}
    BY <1>1, <1>2, <1>6, <2>1, GotoType DEF Refresh, Points
  <2>2. CASE todo[w] # {}
    <3>1. PICK b \in todo[w] : /\ todo' = [todo EXCEPT ![w] = Others(w, b)]
                               /\ CallSync(w, b, "refresh")
                               /\ UNCHANGED <<req, event, fresh>>
      BY <1>6, <2>2 DEF Refresh
    <3>2. b \in Books /\ Others(w, b) \subseteq Books
      BY <3>1 DEF LocalType, Others
    <3>3. QED
      BY <1>1, <1>2, <1>6, <3>1, <3>2, CallSyncType DEF Refresh, LocalType, Return
  <2>3. QED
    BY <2>1, <2>2
<1>7. CASE PickLoan(w)
  BY <1>1, <1>2, <1>4, <1>7, StopType DEF PickLoan, LoansOfUser
<1>8. CASE AdminGetLoan(w)
  BY <1>1, <1>2, <1>4, <1>8, StopType DEF AdminGetLoan, KnownLoans, LoansOfBook
<1>9. CASE DeleteLoan(w)
  <2>1. req[w].target \in LoanId
    BY <1>3, <1>9 DEF RegistersAreSet, DeleteLoan, Request
  <2>2. req[w].target.book \in Books
    BY <2>1 DEF LoanId
  <2>3. IaType'
    BY <1>9, <2>2, ReleaseType DEF DeleteLoan
  <2>4. LocalType'
    <3>1. CASE Stop(w)
      BY <3>1, StopType
    <3>2. CASE ~ Stop(w)
      BY <1>9, <2>2, <3>2, CallSyncType DEF DeleteLoan, Return, LocalType
    <3>3. QED
      BY <3>1, <3>2
  <2>5. QED
    BY <1>2, <1>9, <2>3, <2>4 DEF DeleteLoan
<1>10. CASE CompleteLoan(w)
  <2>1. req[w].target \in LoanId
    BY <1>3, <1>10 DEF RegistersAreSet, CompleteLoan, Request
  <2>2. QED
    BY <1>1, <1>2, <1>10, <2>1, SendCompletedType DEF CompleteLoan, LocalType
<1>11. QED
  BY <1>5, <1>6, <1>7, <1>8, <1>9, <1>10 DEF GiveBack

\* sync_loan.
LEMMA SyncLoanType ==
    ASSUME TypeOK, NEW w \in Workers, SyncLoan(w)
    PROVE  TypeOK'
<1> USE DEF TypeOK
<1>1. IaType /\ UNCHANGED ia => IaType'
  BY DEF IaType, ia
<1>2. OlType /\ UNCHANGED ol => OlType'
  BY DEF OlType, ol
<1>3. sync[w] \in Sync /\ req[w] \in Request
  BY DEF LocalType
<1>4. CASE GetLoan(w)
  <2>1. KnownLoans(sync[w].item) \subseteq LoanId
    BY DEF KnownLoans, LoansOfBook
  <2>2. PICK l \in LoanId \cup {NoLoan} : sync' = [sync EXCEPT ![w].known = l]
    BY <1>4, <2>1 DEF GetLoan
  <2>3. sync' \in [Workers -> Sync]
    BY <1>3, <2>2 DEF LocalType, Sync
  <2>4. pc' \in [Workers -> Points]
    BY <1>4 DEF GetLoan, LocalType, Points, SyncPoints
  <2>5. QED
    BY <1>1, <1>2, <1>4, <2>3, <2>4 DEF GetLoan, LocalType
<1>5. CASE GetAvailability(w)
  <2>1. Answer(sync[w].item) \in Availability
    BY <1>3, AnswerType DEF Sync
  <2>2. sync' \in [Workers -> Sync]
    BY <1>3, <1>5, <2>1 DEF GetAvailability, LocalType, Sync
  <2>3. pc' \in [Workers -> Points]
    BY <1>5 DEF GetAvailability, LocalType, Points, SyncPoints
  <2>4. QED
    BY <1>1, <1>2, <1>5, <2>2, <2>3 DEF GetAvailability, LocalType
<1>6. CASE FindEBook(w)
  <2>1. ebook[sync[w].item] \in EBook
    BY <1>3 DEF OlType, Sync
  <2>2. sync' \in [Workers -> Sync]
    BY <1>3, <1>6, <2>1 DEF FindEBook, LocalType, Sync
  <2>3. pc' \in [Workers -> Points]
    BY <1>6 DEF FindEBook, LocalType, Points, SyncPoints
  <2>4. QED
    BY <1>1, <1>2, <1>6, <2>2, <2>3 DEF FindEBook, LocalType
<1>7. CASE UpdateEBook(w)
  <2> DEFINE new == [exists |-> TRUE, loan |-> sync[w].known, avail |-> sync[w].avail]
  <2>1. new \in EBook
    BY <1>3 DEF Sync, EBook
  <2>2. ebook' = ebook \/ ebook' = [ebook EXCEPT ![sync[w].item] = new]
    BY <1>7 DEF UpdateEBook
  <2>3. OlType'
    BY <1>7, <2>1, <2>2 DEF UpdateEBook, OlType
  <2>4. fresh' \subseteq Workers
    BY <1>7 DEF UpdateEBook, LocalType
  <2>5. [NoSync EXCEPT !.ret = sync[w].ret] \in Sync
    BY <1>3, Registers DEF Sync
  <2>6. CASE SendCompleted(w, sync[w].known) /\ sync[w].known # NoLoan
             /\ sync' = [sync EXCEPT ![w] = [NoSync EXCEPT !.ret = sync[w].ret]]
             /\ UNCHANGED <<req, todo>>
    <3>1. sync[w].known \in LoanId
      BY <1>3, <2>6 DEF Sync
    <3>2. LocalType'
      BY <2>4, <2>5, <2>6, <3>1, SendCompletedType DEF LocalType
    <3>3. QED
      BY <1>1, <1>7, <2>3, <3>2 DEF UpdateEBook
  <2>7. CASE /\ pc' = [pc EXCEPT ![w] = sync[w].ret]
             /\ sync' = [sync EXCEPT ![w] = NoSync]
             /\ req' = [req EXCEPT ![w] = IF sync[w].ret = "idle"
                                          THEN NoRequest ELSE @]
             /\ UNCHANGED <<todo, event>>
    <3>1. sync[w].ret \in Points
      BY <1>3 DEF Sync, Return, Points
    <3>2. LocalType'
      BY <1>3, <2>4, <2>7, <3>1, Registers DEF LocalType
    <3>3. QED
      BY <1>1, <1>7, <2>3, <3>2 DEF UpdateEBook
  <2>8. QED
    BY <1>7, <2>6, <2>7 DEF UpdateEBook
<1>8. QED
  BY <1>4, <1>5, <1>6, <1>7 DEF SyncLoan

\* A completed loan and its statistics.
LEMMA HandleCompletedType ==
    ASSUME TypeOK, NEW w \in Workers, RegistersAreSet(w), HandleCompleted(w)
    PROVE  TypeOK'
<1> USE DEF TypeOK
<1>1. IaType /\ UNCHANGED ia => IaType'
  BY DEF IaType, ia
<1>2. OlType /\ UNCHANGED ol => OlType'
  BY DEF OlType, ol
<1>3. event[w] \in Event
  BY DEF LocalType
<1>4. CASE SelectEntry(w)
  BY <1>1, <1>2, <1>3, <1>4
     DEF SelectEntry, LocalType, Points, EventPoints, Event, EntryAbsent
<1>5. CASE WriteEntry(w)
  <2>1. event[w].loan \in LoanId
    BY <1>3, <1>5 DEF WriteEntry, RegistersAreSet, EventPoints, Event
  <2>2. OlType'
    BY <1>5, <2>1 DEF WriteEntry, OlType
  <2>3. LocalType'
    BY <1>5, StopType, ResumeType DEF WriteEntry
  <2>4. QED
    BY <1>1, <1>5, <2>2, <2>3 DEF WriteEntry
<1>6. QED
  BY <1>4, <1>5 DEF HandleCompleted

\* Changes archive.org makes by itself.
LEMMA ArchiveOrgType ==
    ASSUME TypeOK, ArchiveOrg
    PROVE  TypeOK'
<1> USE DEF TypeOK
<1>1. OlType /\ UNCHANGED ol => OlType'
  BY DEF OlType, ol
<1>2. LocalType /\ UNCHANGED local => LocalType'
  BY DEF LocalType, local
<1>3. CASE BorrowDirectly
  BY <1>1, <1>2, <1>3, GrantType, LendingAssumption DEF BorrowDirectly
<1>4. CASE EndLoan
  BY <1>1, <1>2, <1>4 DEF EndLoan, IaType, LoanId
<1>5. CASE JoinQueue
  <2>1. PICK u \in Patrons, b \in Books : queue' = [queue EXCEPT ![b] = Append(@, u)]
    BY <1>5, LendingAssumption DEF JoinQueue
  <2>2. Append(queue[b], u) \in Seq(Patrons)
    BY DEF IaType
  <2>3. QED
    BY <1>1, <1>2, <1>5, <2>1, <2>2 DEF JoinQueue, IaType
<1>6. CASE LeaveQueue
  <2>1. PICK u \in Patrons, b \in Books : queue' = [queue EXCEPT ![b] = Without(@, u)]
    BY <1>6, LendingAssumption DEF LeaveQueue
  <2>2. Without(queue[b], u) \in Seq(Patrons)
    BY WithoutType DEF IaType
  <2>3. QED
    BY <1>1, <1>2, <1>6, <2>1, <2>2 DEF LeaveQueue, IaType
<1>7. CASE LoseNotice
  BY <1>1, <1>2, <1>7 DEF LoseNotice, IaType
<1>8. QED
  BY <1>3, <1>4, <1>5, <1>6, <1>7 DEF ArchiveOrg

----------------------------------------------------------------------------
(* Frames: what a step leaves alone *)

\* Nothing un-grants a loan or brings one back that has ended.
StatusGrows ==
    \A l \in LoanId : /\ Issued(l) => status'[l] # "unissued"
                      /\ status[l] = "ended" => status'[l] = "ended"

LEMMA GrantGrows ==
    ASSUME IaType, NEW u, NEW b, Grant(u, b)
    PROVE  StatusGrows
BY DEF StatusGrows, Issued, IaType, Grant

\* Release ends every loan of this book and this borrower that was granted
\* (a loan of theirs that is granted is live or has ended already).
LEMMA ReleaseGrows ==
    ASSUME IaType, NEW u, NEW b, Release(u, b)
    PROVE  /\ StatusGrows
           /\ \A l \in LoanId : l.book = b /\ l.user = u /\ Issued(l)
                                   => status'[l] = "ended"
BY DEF StatusGrows, Issued, IaType, Release

LEMMA NextGrows ==
    ASSUME TypeOK, [Next]_vars
    PROVE  StatusGrows
<1> USE DEF TypeOK
<1>1. CASE UNCHANGED status
  BY <1>1 DEF StatusGrows, Issued
<1>2. ASSUME NEW w \in Workers, Begin(w)
      PROVE  UNCHANGED status
  BY <1>2 DEF Begin, StartBorrow, StartReturn, StartNotify, StartPage, StartAdmin, ia
<1>3. ASSUME NEW w \in Workers, Borrow(w)
      PROVE  StatusGrows
  <2>1. CASE CreateLoan(w)
    BY <1>1, <2>1, GrantGrows DEF CreateLoan, ia
  <2>2. CASE ~ CreateLoan(w)
    BY <1>1, <1>3, <2>2 DEF Borrow, CheckHeld, CheckLimit, CheckAvailability,
       CheckTurn, AddSelect, AddInsert, ia
  <2>3. QED
    BY <2>1, <2>2
<1>4. ASSUME NEW w \in Workers, GiveBack(w)
      PROVE  StatusGrows
  <2>1. CASE DeleteLoan(w)
    BY <1>1, <2>1, ReleaseGrows DEF DeleteLoan
  <2>2. CASE ~ DeleteLoan(w)
    BY <1>1, <1>4, <2>2 DEF GiveBack, ListLoans, Refresh, PickLoan, AdminGetLoan,
       CompleteLoan, ia
  <2>3. QED
    BY <2>1, <2>2
<1>5. ASSUME NEW w \in Workers, SyncLoan(w) \/ HandleCompleted(w) \/ Fail(w)
      PROVE  UNCHANGED status
  BY <1>5 DEF SyncLoan, GetLoan, GetAvailability, FindEBook, UpdateEBook,
     HandleCompleted, SelectEntry, WriteEntry, Fail, ia
<1>6. CASE ArchiveOrg
  <2>1. CASE EndLoan
    BY <2>1 DEF EndLoan, StatusGrows, Issued, IaType
  <2>2. CASE ~ EndLoan
    BY <1>1, <1>6, <2>2, GrantGrows
       DEF ArchiveOrg, BorrowDirectly, JoinQueue, LeaveQueue, LoseNotice
  <2>3. QED
    BY <2>1, <2>2
<1>7. QED
  BY <1>1, <1>2, <1>3, <1>4, <1>5, <1>6 DEF Next, Step, vars, ia

\* The registers of request v that the invariant speaks of.
SameRegisters(v) ==
    /\ pc'[v] = pc[v]
    /\ req'[v] = req[v]
    /\ sync'[v] = sync[v]
    /\ event'[v] = event[v]

\* A request does not touch the registers of another.
LEMMA OwnRegisters ==
    ASSUME LocalType, NEW w \in Workers, Begin(w) \/ Step(w) \/ Fail(w),
           NEW v \in Workers, v # w
    PROVE  SameRegisters(v)
<1> USE DEF LocalType, SameRegisters
<1>1. ASSUME Stop(w)
      PROVE  SameRegisters(v)
  BY <1>1 DEF Stop
<1>2. ASSUME NEW p, Goto(w, p)
      PROVE  SameRegisters(v)
  BY <1>2 DEF Goto
<1>3. ASSUME NEW b, NEW r, CallSync(w, b, r)
      PROVE  pc'[v] = pc[v] /\ sync'[v] = sync[v]
  BY <1>3 DEF CallSync
<1>4. ASSUME NEW l, SendCompleted(w, l)
      PROVE  pc'[v] = pc[v] /\ event'[v] = event[v]
  BY <1>4 DEF SendCompleted
<1>5. ASSUME NEW op, NEW u, NEW b, Start(w, op, u, b)
      PROVE  req'[v] = req[v] /\ event' = event
  BY <1>5 DEF Start
<1>6. CASE Begin(w)
  BY <1>3, <1>5, <1>6
     DEF Begin, StartBorrow, StartReturn, StartNotify, StartPage, StartAdmin
<1>7. CASE Borrow(w)
  BY <1>1, <1>2, <1>3, <1>7 DEF Borrow, CheckHeld, CheckLimit, CheckAvailability,
     CheckTurn, CreateLoan, AddSelect, AddInsert
<1>8. CASE GiveBack(w)
  BY <1>1, <1>2, <1>3, <1>4, <1>8 DEF GiveBack, ListLoans, Refresh, PickLoan,
     AdminGetLoan, DeleteLoan, CompleteLoan
<1>9. CASE SyncLoan(w)
  BY <1>4, <1>9 DEF SyncLoan, GetLoan, GetAvailability, FindEBook, UpdateEBook
<1>10. CASE HandleCompleted(w)
  BY <1>1, <1>10 DEF HandleCompleted, SelectEntry, WriteEntry, Resume
<1>11. CASE Fail(w)
  BY <1>1, <1>11 DEF Fail
<1>12. QED
  BY <1>6, <1>7, <1>8, <1>9, <1>10, <1>11 DEF Step

\* Nor does what happens meanwhile break what holds of a request.
LEMMA Undisturbed ==
    ASSUME LocalType, NEW v \in Workers, RequestInv(v), SameRegisters(v), StatusGrows
    PROVE  RequestInv(v)'
<1>1. req[v].target \in LoanId \cup {NoLoan} /\ sync[v].known \in LoanId \cup {NoLoan}
      /\ event[v].loan \in LoanId \cup {NoLoan}
  BY DEF LocalType, Request, Sync, Event
<1>2. RegistersAreOfGrantedLoans(v)'
  BY <1>1 DEF RequestInv, RegistersAreOfGrantedLoans, SameRegisters, StatusGrows, Issued
<1>3. RegistersAreSet(v)'
  BY DEF RequestInv, RegistersAreSet, SameRegisters
<1>4. EndsTheLoan(v)'
  BY <1>1 DEF RequestInv, RegistersAreSet, EndsTheLoan, SameRegisters, StatusGrows
<1>5. QED
  BY <1>2, <1>3, <1>4 DEF RequestInv

----------------------------------------------------------------------------
(* The invariant of the request that makes the step *)

LEMMA StopInv ==
    ASSUME LocalType, NEW w \in Workers, Stop(w)
    PROVE  RequestInv(w)'
<1>1. /\ pc'[w] = "idle"
      /\ req'[w] = NoRequest
      /\ sync'[w] = NoSync
      /\ event'[w] = NoEvent
  BY DEF LocalType, Stop
<1>2. RegistersAreOfGrantedLoans(w)'
  BY <1>1 DEF RegistersAreOfGrantedLoans, NoRequest, NoSync, NoEvent
<1>3. RegistersAreSet(w)'
  BY <1>1 DEF RegistersAreSet, NoRequest, NoSync, NoEvent, EventPoints, SyncPoints
<1>4. EndsTheLoan(w)'
  BY <1>1 DEF EndsTheLoan, NoRequest, NoSync, EventPoints
<1>5. QED
  BY <1>2, <1>3, <1>4 DEF RequestInv

\* sync_loan begins, for a request about no loan or about one that is over.
LEMMA CallSyncInv ==
    ASSUME LocalType, NEW w \in Workers, NEW b \in Books, NEW r \in Return,
           CallSync(w, b, r), event'[w] = event[w],
           RegistersAreOfGrantedLoans(w), StatusGrows,
           req'[w] \in Request,
           req'[w].target # NoLoan => status'[req'[w].target] # "unissued",
           r \in {"refresh", "adminget"} => req'[w].target = NoLoan,
           r = "completing" => /\ req'[w].target # NoLoan
                               /\ status'[req'[w].target] = "ended",
           r = "idle" => req'[w].op \in {"borrow", "sync"}
    PROVE  RequestInv(w)'
<1>1. /\ pc'[w] = "getloan"
      /\ sync'[w] = [NoSync EXCEPT !.item = b, !.ret = r]
  BY DEF LocalType, CallSync
<1>2. sync'[w].known = NoLoan /\ sync'[w].ret = r
  BY <1>1 DEF NoSync
<1>3. RegistersAreOfGrantedLoans(w)'
  BY <1>2 DEF RegistersAreOfGrantedLoans, Issued, StatusGrows, LocalType, Event
<1>4. RegistersAreSet(w)'
  BY <1>1, <1>2 DEF RegistersAreSet, EventPoints, SyncPoints, Points
<1>5. EndsTheLoan(w)'
  BY <1>1, <1>2 DEF EndsTheLoan, EventPoints
<1>6. QED
  BY <1>3, <1>4, <1>5 DEF RequestInv

LEMMA BeginInv ==
    ASSUME TypeOK, NEW w \in Workers, RequestInv(w), StatusGrows, Begin(w)
    PROVE  RequestInv(w)'
<1> USE DEF TypeOK
<1>1. ASSUME NEW op, NEW u \in Patrons, NEW b \in Books, Start(w, op, u, b)
      PROVE  /\ req'[w] = [op |-> op, user |-> u, book |-> b, target |-> NoLoan]
             /\ req'[w].target = NoLoan /\ req'[w].op = op
             /\ req'[w] \in Request
             /\ pc[w] = "idle"
             /\ event'[w] = event[w]
  <2>1. op \in AllOperations
    BY <1>1, LendingAssumption DEF Start
  <2>2. req'[w] = [op |-> op, user |-> u, book |-> b, target |-> NoLoan]
    BY <1>1 DEF Start, LocalType
  <2>3. QED
    BY <1>1, <2>1, <2>2 DEF Start, Request
<1>2. ASSUME NEW op, NEW u \in Patrons, NEW b \in Books, Start(w, op, u, b),
             UNCHANGED sync, NEW p, pc' = [pc EXCEPT ![w] = p],
             \/ p = "held" /\ op = "borrow"
             \/ p = "list"
      PROVE  RequestInv(w)'
  <2>1. sync'[w] = NoSync
    BY <1>1, <1>2 DEF RequestInv, RegistersAreSet, Points, SyncPoints, EventPoints
  <2>2. pc'[w] = p
    BY <1>2 DEF LocalType
  <2>3. req'[w].target = NoLoan /\ req'[w].op = op /\ event'[w] = event[w]
    BY <1>1, <1>2
  <2>4. RegistersAreOfGrantedLoans(w)'
    BY <2>1, <2>3 DEF RequestInv, RegistersAreOfGrantedLoans, NoSync, Issued,
       StatusGrows, LocalType, Event
  <2>5. RegistersAreSet(w)'
    BY <1>2, <2>1, <2>2, <2>3 DEF RegistersAreSet, NoSync, SyncPoints, EventPoints
  <2>6. EndsTheLoan(w)'
    BY <1>2, <2>1, <2>2 DEF EndsTheLoan, NoSync, EventPoints
  <2>7. QED
    BY <2>4, <2>5, <2>6 DEF RequestInv
<1>3. CASE StartBorrow(w) \/ StartReturn(w)
  BY <1>2, <1>3 DEF StartBorrow, StartReturn
<1>4. ASSUME NEW op, NEW u \in Patrons, NEW b \in Books, Start(w, op, u, b),
             NEW r \in Return, CallSync(w, b, r),
             \/ r = "idle" /\ op = "sync"
             \/ r = "adminget"
      PROVE  RequestInv(w)'
  <2>1. req'[w].target = NoLoan /\ req'[w].op = op /\ event'[w] = event[w]
    BY <1>1, <1>4
  <2>2. req'[w] \in Request
    BY <1>1, <1>4
  <2>3. RegistersAreOfGrantedLoans(w)
    BY DEF RequestInv
  <2>4. QED
    BY <1>4, <2>1, <2>2, <2>3, CallSyncInv
<1>5. CASE StartNotify(w)
  BY <1>4, <1>5, Registers DEF StartNotify, Return, IaType
<1>6. CASE StartPage(w) \/ StartAdmin(w)
  BY <1>4, <1>6, Registers DEF StartPage, StartAdmin, Return
<1>7. QED
  BY <1>3, <1>5, <1>6 DEF Begin

LEMMA GotoInv ==
    ASSUME LocalType, NEW w \in Workers, RequestInv(w), StatusGrows,
           NEW p, Goto(w, p),
           \/ /\ p \in {"limit", "availability", "turn", "create", "addinsert"}
              /\ req[w].op = "borrow"
              /\ p = "addinsert" => req[w].target # NoLoan
           \/ /\ p = "pick"
              /\ req[w].target = NoLoan,
           sync[w] = NoSync
    PROVE  RequestInv(w)'
<1>1. pc'[w] = p /\ req'[w] = req[w] /\ sync'[w] = sync[w] /\ event'[w] = event[w]
  BY DEF LocalType, Goto
<1>2. RegistersAreOfGrantedLoans(w)'
  BY <1>1 DEF RequestInv, RegistersAreOfGrantedLoans, NoSync, Issued, StatusGrows,
     LocalType, Event, Request
<1>3. RegistersAreSet(w)'
  BY <1>1 DEF RegistersAreSet, NoSync, SyncPoints, EventPoints
<1>4. EndsTheLoan(w)'
  BY <1>1 DEF EndsTheLoan, NoSync, EventPoints
<1>5. QED
  BY <1>2, <1>3, <1>4 DEF RequestInv

LEMMA BorrowInv ==
    ASSUME TypeOK, NEW w \in Workers, RequestInv(w), StatusGrows, Borrow(w)
    PROVE  RequestInv(w)'
<1> USE DEF TypeOK
<1>1. /\ req[w] \in Request
      /\ RegistersAreOfGrantedLoans(w)
      /\ RegistersAreSet(w)
  BY DEF LocalType, RequestInv
<1>2. pc[w] \in {"held", "limit", "availability", "turn", "create", "addselect",
                 "addinsert"}
  BY DEF Borrow, CheckHeld, CheckLimit, CheckAvailability, CheckTurn, CreateLoan,
     AddSelect, AddInsert
<1>3. sync[w] = NoSync /\ req[w].op = "borrow"
  BY <1>1, <1>2 DEF RegistersAreSet, Points, SyncPoints, EventPoints
<1>4. CASE CheckHeld(w)
  <2>1. CASE Goto(w, "limit")
    BY <1>3, <2>1, GotoInv
  <2>2. CASE ~ Goto(w, "limit")
    <3>1. /\ pc'[w] = "list" /\ req'[w].target = req[w].target
          /\ sync'[w] = NoSync /\ event'[w] = event[w]
      BY <1>1, <1>3, <1>4, <2>2 DEF CheckHeld, LocalType, Request
    <3>2. req[w].target = NoLoan
      BY <1>1, <1>4 DEF CheckHeld, RegistersAreSet
    <3>3. RegistersAreOfGrantedLoans(w)'
      BY <1>1, <3>1, <3>2 DEF RegistersAreOfGrantedLoans, NoSync, Issued, StatusGrows,
         LocalType, Event
    <3>4. RegistersAreSet(w)' /\ EndsTheLoan(w)'
      BY <3>1, <3>2 DEF RegistersAreSet, EndsTheLoan, NoSync, SyncPoints, EventPoints
    <3>5. QED
      BY <3>3, <3>4 DEF RequestInv
  <2>3. QED
    BY <2>1, <2>2
<1>5. CASE CheckLimit(w)
  BY <1>3, <1>5, GotoInv, StopInv DEF CheckLimit
<1>6. CASE CheckAvailability(w)
  BY <1>3, <1>6, GotoInv, StopInv DEF CheckAvailability
<1>7. CASE CheckTurn(w)
  BY <1>3, <1>7, GotoInv, StopInv DEF CheckTurn
<1>8. CASE CreateLoan(w)
  <2>1. CASE Stop(w)
    BY <2>1, StopInv
  <2>2. CASE ~ Stop(w)
    <3>1. PICK l \in LoanId : /\ status[l] # status'[l]
                              /\ req' = [req EXCEPT ![w].target = l]
      BY <1>8, <2>2 DEF CreateLoan
    <3>2. status'[l] # "unissued"
      BY <1>8, <2>2, <3>1 DEF CreateLoan, Grant, IaType
    <3>3. /\ pc'[w] = "addselect" /\ req'[w].target = l /\ req'[w].op = "borrow"
          /\ sync'[w] = NoSync /\ event'[w] = event[w]
      BY <1>1, <1>3, <1>8, <2>2, <3>1 DEF CreateLoan, LocalType, Request
    <3>4. RegistersAreOfGrantedLoans(w)'
      BY <1>1, <3>2, <3>3 DEF RegistersAreOfGrantedLoans, NoSync, Issued, StatusGrows,
         LocalType, Event
    <3>5. RegistersAreSet(w)'
      BY <3>1, <3>3, NoLoanAssumption DEF RegistersAreSet, NoSync, SyncPoints, EventPoints
    <3>6. EndsTheLoan(w)'
      BY <3>3 DEF EndsTheLoan, NoSync, EventPoints
    <3>7. QED
      BY <3>4, <3>5, <3>6 DEF RequestInv
  <2>3. QED
    BY <2>1, <2>2
<1>9. CASE AddSelect(w) \/ AddInsert(w)
  <2>1. req[w].target # NoLoan /\ Issued(req[w].target) /\ req[w].target \in LoanId
    BY <1>1, <1>9 DEF AddSelect, AddInsert, RegistersAreSet,
       RegistersAreOfGrantedLoans, Request
  <2>2. CASE CallSync(w, req[w].book, "idle") /\ UNCHANGED <<req, event>>
    <3>1. status'[req'[w].target] # "unissued" /\ req'[w] \in Request
      BY <1>1, <2>1, <2>2 DEF StatusGrows
    <3>2. req[w].book \in Books /\ event'[w] = event[w] /\ req'[w].op = "borrow"
      BY <1>1, <1>3, <2>2 DEF Request
    <3>3. "idle" \in Return
      BY DEF Return
    <3>4. QED
      BY <1>1, <2>2, <3>1, <3>2, <3>3, CallSyncInv
  <2>3. CASE Goto(w, "addinsert") \/ Stop(w)
    BY <1>3, <2>1, <2>3, GotoInv, StopInv
  <2>4. QED
    BY <1>9, <2>2, <2>3 DEF AddSelect, AddInsert
<1>10. QED
  BY <1>4, <1>5, <1>6, <1>7, <1>8, <1>9 DEF Borrow

LEMMA GiveBackInv ==
    ASSUME TypeOK, NEW w \in Workers, RequestInv(w), StatusGrows, GiveBack(w)
    PROVE  RequestInv(w)'
<1> USE DEF TypeOK
<1>1. /\ req[w] \in Request
      /\ RegistersAreOfGrantedLoans(w)
      /\ RegistersAreSet(w)
      /\ EndsTheLoan(w)
  BY DEF LocalType, RequestInv
<1>2. sync[w] = NoSync
  BY <1>1 DEF GiveBack, ListLoans, Refresh, PickLoan, AdminGetLoan, DeleteLoan,
     CompleteLoan, RegistersAreSet, Points, SyncPoints, EventPoints
<1>3. CASE ListLoans(w)
  <2>1. /\ pc'[w] = "refresh" /\ req'[w] = req[w] /\ sync'[w] = NoSync
        /\ event'[w] = event[w] /\ req[w].target = NoLoan
    BY <1>1, <1>2, <1>3 DEF ListLoans, LocalType, RegistersAreSet
  <2>2. RegistersAreOfGrantedLoans(w)'
    BY <1>1, <2>1 DEF RegistersAreOfGrantedLoans, NoSync, Issued, StatusGrows,
       LocalType, Event
  <2>3. RegistersAreSet(w)' /\ EndsTheLoan(w)'
    BY <2>1 DEF RegistersAreSet, EndsTheLoan, NoSync, SyncPoints, EventPoints
  <2>4. QED
    BY <2>2, <2>3 DEF RequestInv
<1>4. CASE Refresh(w)
  <2>1. req[w].target = NoLoan
    BY <1>1, <1>4 DEF Refresh, RegistersAreSet
  <2>2. CASE Goto(w, "pick")
    BY <1>2, <2>1, <2>2, GotoInv
  <2>3. CASE ~ Goto(w, "pick")
    <3>1. PICK b \in todo[w] : CallSync(w, b, "refresh") /\ UNCHANGED <<req, event>>
      BY <1>4, <2>3 DEF Refresh
    <3>2. b \in Books /\ req'[w] \in Request /\ req'[w].target = NoLoan
          /\ event'[w] = event[w] /\ "refresh" \in Return
      BY <1>1, <2>1, <3>1 DEF LocalType, Return
    <3>3. QED
      BY <1>1, <3>1, <3>2, CallSyncInv
  <2>4. QED
    BY <2>2, <2>3
<1>5. ASSUME NEW l \in LoanId, Issued(l), pc' = [pc EXCEPT ![w] = "delete"],
             req' = [req EXCEPT ![w].target = l], UNCHANGED <<sync, event>>
      PROVE  RequestInv(w)'
  <2>1. /\ pc'[w] = "delete" /\ req'[w].target = l
        /\ sync'[w] = NoSync /\ event'[w] = event[w]
    BY <1>1, <1>2, <1>5 DEF LocalType, Request
  <2>2. RegistersAreOfGrantedLoans(w)'
    BY <1>1, <1>5, <2>1 DEF RegistersAreOfGrantedLoans, NoSync, Issued, StatusGrows,
       LocalType, Event
  <2>3. RegistersAreSet(w)' /\ EndsTheLoan(w)'
    BY <1>5, <2>1, NoLoanAssumption
       DEF RegistersAreSet, EndsTheLoan, NoSync, SyncPoints, EventPoints
  <2>4. QED
    BY <2>2, <2>3 DEF RequestInv
<1>6. CASE PickLoan(w)
  BY <1>5, <1>6, StopInv DEF PickLoan, LoansOfUser, Issued
<1>7. CASE AdminGetLoan(w)
  BY <1>5, <1>7, StopInv DEF AdminGetLoan, KnownLoans, LoansOfBook, Issued
<1>8. CASE DeleteLoan(w)
  <2>1. CASE Stop(w)
    BY <2>1, StopInv
  <2>2. CASE ~ Stop(w)
    <3>1. req[w].target \in LoanId /\ Issued(req[w].target) /\ req[w].target # NoLoan
      BY <1>1, <1>8 DEF DeleteLoan, RegistersAreSet, RegistersAreOfGrantedLoans, Request
    <3>2. /\ Release(req[w].target.user, req[w].target.book)
          /\ CallSync(w, req[w].target.book, "completing")
          /\ UNCHANGED <<req, event>>
      BY <1>8, <2>2 DEF DeleteLoan
    <3>3. status'[req[w].target] = "ended"
      BY <3>1, <3>2, ReleaseGrows
    <3>4. /\ req[w].target.book \in Books /\ req'[w] \in Request
          /\ req'[w] = req[w] /\ event'[w] = event[w] /\ "completing" \in Return
      BY <1>1, <3>1, <3>2 DEF LoanId, Return
    <3>5. QED
      BY <1>1, <3>1, <3>2, <3>3, <3>4, CallSyncInv
  <2>3. QED
    BY <2>1, <2>2
<1>9. CASE CompleteLoan(w)
  <2>1. /\ req[w].target \in LoanId /\ Issued(req[w].target)
        /\ status[req[w].target] = "ended"
    BY <1>1, <1>9 DEF CompleteLoan, EndsTheLoan, RegistersAreSet,
       RegistersAreOfGrantedLoans, Request
  <2>2. /\ pc'[w] = "select" /\ req'[w] = req[w] /\ sync'[w] = NoSync
        /\ event'[w].loan = req[w].target
    BY <1>2, <1>9 DEF CompleteLoan, SendCompleted, LocalType
  <2>3. RegistersAreOfGrantedLoans(w)'
    BY <2>1, <2>2 DEF RegistersAreOfGrantedLoans, NoSync, Issued, StatusGrows
  <2>4. RegistersAreSet(w)' /\ EndsTheLoan(w)'
    BY <2>1, <2>2, NoLoanAssumption DEF RegistersAreSet, EndsTheLoan, NoSync, SyncPoints,
       EventPoints, StatusGrows
  <2>5. QED
    BY <2>3, <2>4 DEF RequestInv
<1>10. QED
  BY <1>3, <1>4, <1>6, <1>7, <1>8, <1>9 DEF GiveBack

LEMMA SyncLoanInv ==
    ASSUME TypeOK, NEW w \in Workers, RequestInv(w), StatusGrows, SyncLoan(w)
    PROVE  RequestInv(w)'
<1> USE DEF TypeOK
<1>1. /\ req[w] \in Request /\ sync[w] \in Sync /\ event[w] \in Event
      /\ RegistersAreOfGrantedLoans(w)
      /\ RegistersAreSet(w)
      /\ EndsTheLoan(w)
  BY DEF LocalType, RequestInv
<1>2. ASSUME pc[w] \in SyncPoints, pc'[w] \in SyncPoints,
             req' = req, event' = event, sync'[w].ret = sync[w].ret,
             sync'[w].known # NoLoan => /\ status'[sync'[w].known] # "unissued"
                                        /\ sync'[w].known.book = sync'[w].item
                                        /\ sync'[w].known.user \in Patrons
      PROVE  RequestInv(w)'
  <2>1. RegistersAreOfGrantedLoans(w)'
    BY <1>1, <1>2 DEF RegistersAreOfGrantedLoans, Issued, StatusGrows, Request, Event
  <2>2. RegistersAreSet(w)'
    BY <1>1, <1>2 DEF RegistersAreSet, SyncPoints, EventPoints
  <2>3. EndsTheLoan(w)'
    BY <1>1, <1>2 DEF EndsTheLoan, RegistersAreSet, SyncPoints, EventPoints, StatusGrows,
       Request
  <2>4. QED
    BY <2>1, <2>2, <2>3 DEF RequestInv
<1>3. CASE GetLoan(w)
  <2>1. /\ pc[w] \in SyncPoints /\ pc'[w] \in SyncPoints
        /\ req' = req /\ event' = event
    BY <1>3 DEF GetLoan, LocalType, SyncPoints
  <2>2. CASE \E l \in KnownLoans(sync[w].item) : sync' = [sync EXCEPT ![w].known = l]
    <3>1. PICK l \in KnownLoans(sync[w].item) : sync' = [sync EXCEPT ![w].known = l]
      BY <2>2
    <3>2. /\ l \in LoanId /\ status'[l] # "unissued"
          /\ l.book = sync[w].item /\ l.user \in Patrons
      BY <3>1 DEF KnownLoans, LoansOfBook, Issued, StatusGrows
    <3>3. /\ sync'[w].known = l /\ sync'[w].item = sync[w].item
          /\ sync'[w].ret = sync[w].ret
      BY <1>1, <3>1 DEF LocalType, Sync
    <3>4. QED
      BY <1>2, <2>1, <3>2, <3>3
  <2>3. CASE sync' = [sync EXCEPT ![w].known = NoLoan]
    <3>1. sync'[w].known = NoLoan /\ sync'[w].ret = sync[w].ret
      BY <1>1, <2>3 DEF LocalType, Sync
    <3>2. QED
      BY <1>2, <2>1, <3>1
  <2>4. QED
    BY <1>3, <2>2, <2>3 DEF GetLoan
<1>4. CASE GetAvailability(w) \/ FindEBook(w)
  <2>1. /\ pc[w] \in SyncPoints /\ pc'[w] \in SyncPoints
        /\ req' = req /\ event' = event
    BY <1>4 DEF GetAvailability, FindEBook, LocalType, SyncPoints
  <2>2. /\ sync'[w].known = sync[w].known /\ sync'[w].item = sync[w].item
        /\ sync'[w].ret = sync[w].ret
    BY <1>1, <1>4 DEF GetAvailability, FindEBook, LocalType, Sync
  <2>3. sync[w].known # NoLoan => sync[w].known \in LoanId
    BY <1>1 DEF Sync
  <2>4. QED
    BY <1>1, <1>2, <2>1, <2>2, <2>3 DEF RegistersAreOfGrantedLoans, StatusGrows
<1>5. CASE UpdateEBook(w)
  <2>1. pc[w] \in SyncPoints
    BY <1>5 DEF UpdateEBook, SyncPoints
  <2>2. CASE /\ SendCompleted(w, sync[w].known) /\ sync[w].known # NoLoan
             /\ sync' = [sync EXCEPT ![w] = [NoSync EXCEPT !.ret = sync[w].ret]]
             /\ req' = req
    <3>1. /\ pc'[w] = "select" /\ event'[w].loan = sync[w].known
          /\ sync'[w].known = NoLoan /\ sync'[w].ret = sync[w].ret
      BY <2>2 DEF SendCompleted, LocalType, NoSync
    <3>2. sync[w].known \in LoanId /\ status'[sync[w].known] # "unissued"
      BY <1>1, <2>2 DEF Sync, RegistersAreOfGrantedLoans, StatusGrows
    <3>3. RegistersAreOfGrantedLoans(w)'
      BY <1>1, <2>2, <3>1, <3>2
         DEF RegistersAreOfGrantedLoans, Issued, StatusGrows, Request
    <3>4. RegistersAreSet(w)'
      BY <1>1, <2>2, <3>1 DEF RegistersAreSet, SyncPoints, EventPoints, Points
    <3>5. sync[w].ret \in {"refresh", "adminget", "idle", "completing"}
      BY <1>1 DEF Sync, Return
    <3>6. EndsTheLoan(w)'
      BY <1>1, <2>1, <2>2, <3>1, <3>5 DEF EndsTheLoan, RegistersAreSet, Request, StatusGrows
    <3>7. QED
      BY <3>3, <3>4, <3>6 DEF RequestInv
  <2>3. CASE /\ pc' = [pc EXCEPT ![w] = sync[w].ret]
             /\ sync' = [sync EXCEPT ![w] = NoSync]
             /\ req' = [req EXCEPT ![w] = IF sync[w].ret = "idle"
                                          THEN NoRequest ELSE @]
             /\ UNCHANGED event
    <3>1. /\ pc'[w] = sync[w].ret /\ sync'[w] = NoSync /\ event'[w] = event[w]
          /\ sync[w].ret # "idle" => req'[w] = req[w]
          /\ sync[w].ret = "idle" => req'[w] = NoRequest
      BY <2>3 DEF LocalType
    <3>2. sync[w].ret \in {"refresh", "adminget", "idle", "completing"}
      BY <1>1 DEF Sync, Return
    <3>3. RegistersAreOfGrantedLoans(w)'
      BY <1>1, <3>1 DEF RegistersAreOfGrantedLoans, Issued, StatusGrows, Request, Event,
         NoSync, NoRequest
    <3>4. RegistersAreSet(w)'
      BY <1>1, <3>1, <3>2 DEF RegistersAreSet, SyncPoints, EventPoints, NoSync, NoRequest
    <3>5. EndsTheLoan(w)'
      BY <1>1, <3>1, <3>2 DEF EndsTheLoan, EventPoints, NoSync, NoRequest, StatusGrows,
         Request
    <3>6. QED
      BY <3>3, <3>4, <3>5 DEF RequestInv
  <2>4. QED
    BY <1>5, <2>2, <2>3 DEF UpdateEBook
<1>6. QED
  BY <1>3, <1>4, <1>5 DEF SyncLoan

LEMMA HandleCompletedInv ==
    ASSUME TypeOK, NEW w \in Workers, RequestInv(w), StatusGrows, HandleCompleted(w)
    PROVE  RequestInv(w)'
<1> USE DEF TypeOK
<1>1. /\ req[w] \in Request /\ sync[w] \in Sync /\ event[w] \in Event
      /\ RegistersAreOfGrantedLoans(w)
      /\ RegistersAreSet(w)
      /\ EndsTheLoan(w)
  BY DEF LocalType, RequestInv
<1>2. CASE SelectEntry(w)
  <2>1. /\ pc[w] = "select" /\ pc'[w] = "write" /\ req'[w] = req[w]
        /\ sync'[w] = sync[w] /\ event'[w].loan = event[w].loan
    BY <1>1, <1>2 DEF SelectEntry, LocalType, Event
  <2>2. RegistersAreOfGrantedLoans(w)'
    BY <1>1, <2>1 DEF RegistersAreOfGrantedLoans, Issued, StatusGrows, Request, Event,
       Sync
  <2>3. RegistersAreSet(w)'
    BY <1>1, <2>1 DEF RegistersAreSet, SyncPoints, EventPoints
  <2>4. EndsTheLoan(w)'
    BY <1>1, <2>1 DEF EndsTheLoan, RegistersAreSet, EventPoints, StatusGrows, Request,
       Event
  <2>5. QED
    BY <2>2, <2>3, <2>4 DEF RequestInv
<1>3. CASE WriteEntry(w)
  <2>1. CASE Stop(w)
    BY <2>1, StopInv
  <2>2. CASE ~ Stop(w)
    <3>1. /\ pc'[w] = sync[w].ret /\ sync[w].ret # "idle" /\ req'[w] = req[w]
          /\ sync'[w] = NoSync /\ event'[w] = NoEvent
      BY <1>3, <2>2 DEF WriteEntry, Resume, LocalType
    <3>2. sync[w].ret \in {"refresh", "adminget", "completing"}
      BY <1>1, <3>1 DEF Sync, Return
    <3>3. RegistersAreOfGrantedLoans(w)'
      BY <1>1, <3>1 DEF RegistersAreOfGrantedLoans, Issued, StatusGrows, Request,
         NoSync, NoEvent
    <3>4. RegistersAreSet(w)'
      BY <1>1, <3>1, <3>2 DEF RegistersAreSet, SyncPoints, EventPoints, NoSync
    <3>5. EndsTheLoan(w)'
      BY <1>1, <3>1, <3>2 DEF EndsTheLoan, EventPoints, NoSync, StatusGrows, Request
    <3>6. QED
      BY <3>3, <3>4, <3>5 DEF RequestInv
  <2>3. QED
    BY <2>1, <2>2
<1>4. QED
  BY <1>2, <1>3 DEF HandleCompleted

----------------------------------------------------------------------------
(* The records *)

\* Only three actions write a record.
LEMMA RecordsUnchanged ==
    ASSUME [Next]_vars,
           \A w \in Workers : ~ AddInsert(w) /\ ~ UpdateEBook(w) /\ ~ WriteEntry(w)
    PROVE  UNCHANGED ol
<1>1. ASSUME NEW w \in Workers, Begin(w) \/ Fail(w)
      PROVE  UNCHANGED ol
  BY <1>1 DEF Begin, Start, StartBorrow, StartReturn, StartNotify, StartPage,
     StartAdmin, Fail
<1>2. ASSUME NEW w \in Workers, Borrow(w)
      PROVE  UNCHANGED ol
  BY <1>2 DEF Borrow, CheckHeld, CheckLimit, CheckAvailability, CheckTurn,
     CreateLoan, AddSelect
<1>3. ASSUME NEW w \in Workers, GiveBack(w)
      PROVE  UNCHANGED ol
  BY <1>3 DEF GiveBack, ListLoans, Refresh, PickLoan, AdminGetLoan, DeleteLoan,
     CompleteLoan
<1>4. ASSUME NEW w \in Workers, SyncLoan(w) \/ HandleCompleted(w)
      PROVE  UNCHANGED ol
  BY <1>4 DEF SyncLoan, GetLoan, GetAvailability, FindEBook, HandleCompleted,
     SelectEntry
<1>5. CASE ArchiveOrg
  BY <1>5 DEF ArchiveOrg, BorrowDirectly, EndLoan, JoinQueue, LeaveQueue, LoseNotice
<1>6. QED
  BY <1>1, <1>2, <1>3, <1>4, <1>5 DEF Next, Step, vars

LEMMA RecordsInv ==
    ASSUME LendingInv, [Next]_vars, StatusGrows
    PROVE  RecordsAreOfGrantedLoans'
<1> USE DEF LendingInv, TypeOK
<1>1. \A b \in Books : ebook[b].loan \in LoanId \cup {NoLoan}
  BY DEF OlType, EBook
<1>2. ASSUME NEW w \in Workers
      PROVE  /\ RegistersAreOfGrantedLoans(w) /\ RegistersAreSet(w)
             /\ req[w] \in Request /\ sync[w] \in Sync /\ event[w] \in Event
  BY <1>2 DEF RequestInv, LocalType
<1>3. CASE UNCHANGED ol
  BY <1>1, <1>3 DEF RecordsAreOfGrantedLoans, ol, StatusGrows, Issued
<1>4. ASSUME NEW w \in Workers, AddInsert(w)
      PROVE  RecordsAreOfGrantedLoans'
  <2>1. req[w].target \in LoanId /\ Issued(req[w].target)
    BY <1>2, <1>4 DEF AddInsert, RegistersAreSet, RegistersAreOfGrantedLoans, Request
  <2>2. /\ ebook' = ebook
        /\ \A l \in LoanId : l = req[w].target \/ stats'[l] = stats[l]
    BY <1>4 DEF AddInsert, OlType
  <2>3. QED
    BY <1>1, <2>1, <2>2 DEF RecordsAreOfGrantedLoans, StatusGrows, Issued
<1>5. ASSUME NEW w \in Workers, WriteEntry(w)
      PROVE  RecordsAreOfGrantedLoans'
  <2>1. event[w].loan \in LoanId /\ Issued(event[w].loan)
    BY <1>2, <1>5 DEF WriteEntry, RegistersAreSet, RegistersAreOfGrantedLoans, Event,
       EventPoints
  <2>2. /\ ebook' = ebook
        /\ \A l \in LoanId : l = event[w].loan \/ stats'[l] = stats[l]
    BY <1>5 DEF WriteEntry, OlType
  <2>3. QED
    BY <1>1, <2>1, <2>2 DEF RecordsAreOfGrantedLoans, StatusGrows, Issued
<1>6. ASSUME NEW w \in Workers, UpdateEBook(w)
      PROVE  RecordsAreOfGrantedLoans'
  <2> DEFINE l == sync[w].known
             i == sync[w].item
  <2>1. l # NoLoan => /\ l \in LoanId /\ Issued(l)
                      /\ l.book = i /\ l.user \in Patrons
    BY <1>2 DEF RegistersAreOfGrantedLoans, Sync
  <2>2. \A b \in Books : \/ ebook'[b].loan = ebook[b].loan
                         \/ b = i /\ ebook'[b].loan = l
    BY <1>6 DEF UpdateEBook, OlType
  <2>3. stats' = stats
    BY <1>6 DEF UpdateEBook
  <2> HIDE DEF l, i
  <2>4. QED
    BY <1>1, <2>1, <2>2, <2>3 DEF RecordsAreOfGrantedLoans, StatusGrows, Issued
<1>7. QED
  BY <1>3, <1>4, <1>5, <1>6, RecordsUnchanged

----------------------------------------------------------------------------
(* The invariant is inductive *)

LEMMA InitInv == Init => LendingInv
<1> SUFFICES ASSUME Init
             PROVE  LendingInv
  OBVIOUS
<1> USE DEF Init
<1>1. IaType
  BY DEF IaType
<1>2. OlType
  BY Registers DEF OlType
<1>3. LocalType
  BY Registers DEF LocalType, Points
<1>4. RecordsAreOfGrantedLoans
  BY DEF RecordsAreOfGrantedLoans, NoEBook
<1>5. ASSUME NEW w \in Workers
      PROVE  RequestInv(w)
  BY <1>5 DEF RequestInv, RegistersAreOfGrantedLoans, RegistersAreSet, EndsTheLoan,
     NoRequest, NoSync, NoEvent, SyncPoints, EventPoints
<1>6. QED
  BY <1>1, <1>2, <1>3, <1>4, <1>5 DEF LendingInv, TypeOK

LEMMA NextInv == LendingInv /\ [Next]_vars => LendingInv'
<1> SUFFICES ASSUME LendingInv, [Next]_vars
             PROVE  LendingInv'
  OBVIOUS
<1>1. TypeOK /\ LocalType
  BY DEF LendingInv, TypeOK
<1>2. StatusGrows
  BY <1>1, NextGrows
<1>3. \A w \in Workers : RequestInv(w) /\ RegistersAreSet(w)
  BY DEF LendingInv, RequestInv
<1>4. RecordsAreOfGrantedLoans'
  BY <1>2, RecordsInv
<1>5. ASSUME NEW w \in Workers, Begin(w) \/ Step(w) \/ Fail(w)
      PROVE  TypeOK' /\ \A v \in Workers : RequestInv(v)'
  <2>1. \A v \in Workers \ {w} : SameRegisters(v)
    BY <1>1, <1>5, OwnRegisters
  <2>2. \A v \in Workers \ {w} : RequestInv(v)'
    BY <1>1, <1>2, <1>3, <2>1, Undisturbed
  <2>3. CASE Fail(w)
    <3>1. TypeOK'
      BY <1>1, <2>3, StopType DEF Fail, TypeOK, IaType, OlType, ia, ol
    <3>2. RequestInv(w)'
      BY <1>1, <2>3, StopInv DEF Fail
    <3>3. QED
      BY <2>2, <3>1, <3>2
  <2>4. CASE Begin(w)
    BY <1>1, <1>2, <1>3, <2>2, <2>4, BeginType, BeginInv
  <2>5. CASE Borrow(w)
    BY <1>1, <1>2, <1>3, <2>2, <2>5, BorrowType, BorrowInv
  <2>6. CASE GiveBack(w)
    BY <1>1, <1>2, <1>3, <2>2, <2>6, GiveBackType, GiveBackInv
  <2>7. CASE SyncLoan(w)
    BY <1>1, <1>2, <1>3, <2>2, <2>7, SyncLoanType, SyncLoanInv
  <2>8. CASE HandleCompleted(w)
    BY <1>1, <1>2, <1>3, <2>2, <2>8, HandleCompletedType, HandleCompletedInv
  <2>9. QED
    BY <1>5, <2>3, <2>4, <2>5, <2>6, <2>7, <2>8 DEF Step
<1>6. CASE ArchiveOrg
  <2>1. TypeOK'
    BY <1>1, <1>6, ArchiveOrgType
  <2>2. \A v \in Workers : SameRegisters(v)
    BY <1>6 DEF ArchiveOrg, BorrowDirectly, EndLoan, JoinQueue, LeaveQueue, LoseNotice,
       local, SameRegisters
  <2>3. QED
    BY <1>1, <1>2, <1>3, <1>4, <2>1, <2>2, Undisturbed DEF LendingInv
<1>7. CASE UNCHANGED vars
  <2>1. TypeOK'
    BY <1>1, <1>7 DEF TypeOK, IaType, OlType, LocalType, vars, ia, ol, local
  <2>2. \A v \in Workers : SameRegisters(v)
    BY <1>7 DEF vars, local, SameRegisters
  <2>3. QED
    BY <1>1, <1>2, <1>3, <1>4, <2>1, <2>2, Undisturbed DEF LendingInv
<1>8. QED
  BY <1>4, <1>5, <1>6, <1>7 DEF Next, LendingInv

LEMMA Invariance == Spec => []LendingInv
<1>1. QED
  BY InitInv, NextInv, PTL DEF Spec

----------------------------------------------------------------------------
(* Theorems *)

\* Every variable keeps its type: archive.org's loans and waiting lists, the
\* ebook documents and statistics kept here, and every request in progress,
\* which uses a loan only where it has one (no None is dereferenced in
\* Loan.delete or in the handlers of the loan events).
THEOREM TypeCorrect == Spec => []TypeOK
<1>1. LendingInv => TypeOK
  BY DEF LendingInv
<1>2. QED
  BY <1>1, Invariance, PTL

\* However requests, notifications, failures and archive.org interleave, no
\* ebook document and no entry of the statistics is about a loan that was
\* never granted, and no document names a loan of another book.
THEOREM RecordsCorrect == Spec => []RecordsAreOfGrantedLoans
<1>1. LendingInv => RecordsAreOfGrantedLoans
  BY DEF LendingInv
<1>2. QED
  BY <1>1, Invariance, PTL

\* Loan.delete: by the time "loan-completed" is sent for the loan a patron
\* returned, or an administrator deleted, archive.org has ended that loan.
THEOREM ReturnCorrect == Spec => []ReturnEndsTheLoan
<1>1. LendingInv => ReturnEndsTheLoan
  BY DEF LendingInv, RequestInv, EndsTheLoan, ReturnEndsTheLoan
<1>2. QED
  BY <1>1, Invariance, PTL

\* statsdb.add_entry and update_entry: no request reopens the entry of a
\* completed loan, whatever it had read before.
THEOREM CompletedStays == Spec => CompletedIsFinal
<1>1. ASSUME LendingInv, [Next]_vars, NEW l \in LoanId, stats[l] = "completed"
      PROVE  stats'[l] = "completed"
  <2>1. stats \in [LoanId -> {"none", "active", "completed"}]
    BY <1>1 DEF LendingInv, TypeOK, OlType
  <2>2. CASE UNCHANGED ol
    BY <1>1, <2>2 DEF ol
  <2>3. ASSUME NEW w \in Workers, AddInsert(w)
        PROVE  stats'[l] = "completed"
    BY <1>1, <2>1, <2>3 DEF AddInsert, EntryAbsent
  <2>4. ASSUME NEW w \in Workers, UpdateEBook(w) \/ WriteEntry(w)
        PROVE  stats'[l] = "completed"
    BY <1>1, <2>1, <2>4 DEF UpdateEBook, WriteEntry
  <2>5. QED
    BY <1>1, <2>2, <2>3, <2>4, RecordsUnchanged
<1>2. LendingInv /\ [Next]_vars
      => [\A l \in LoanId : stats[l] = "completed" => stats'[l] = "completed"]_vars
  BY <1>1
<1>3. QED
  BY <1>2, Invariance, PTL DEF Spec, CompletedIsFinal

----------------------------------------------------------------------------
(* The limit of loans *)

CheckedPoints == {"availability", "turn", "create"}

\* Requests of a patron that have passed the check of the limit, and have no loan yet.
Checked(u) == {w \in Workers : pc[w] \in CheckedPoints /\ req[w].user = u}

\* Whoever passed the check did so when one more loan was allowed: the bound counts
\* the loans a patron has together with those that are about to be made.
LimitInv ==
    \A u \in Patrons \ Direct :
        Cardinality(LoansOfUser(u)) + Cardinality(Checked(u))
            <= MaxLoans - 1 + Cardinality(Workers)

\* A patron has finitely many loans: each is of a book and has a serial number.
LEMMA LoansFinite ==
    ASSUME NEW u, NEW L \in SUBSET {l \in LoanId : l.user = u}
    PROVE  IsFiniteSet(L) /\ Cardinality(L) \in Nat
<1> DEFINE S == Books \X (1..Reborrows)
           f == [x \in S |-> [book |-> x[1], user |-> u, n |-> x[2]]]
           T == {f[x] : x \in S}
<1>1. IsFiniteSet(S)
  <2>1. IsFiniteSet(1..Reborrows)
    BY LendingAssumption, FS_Interval
  <2>2. QED
    BY <2>1, FiniteAssumption, FS_Product
<1>2. f \in Surjection(S, T)
  BY DEF Surjection
<1>3. IsFiniteSet(T)
  <2> HIDE DEF f, S, T
  <2>1. QED
    BY <1>1, <1>2, FS_Surjection
<1>4. L \subseteq T
  <2>1. ASSUME NEW l \in L PROVE l \in T
    <3>1. /\ l.book \in Books /\ l.n \in 1..Reborrows
          /\ l = [book |-> l.book, user |-> u, n |-> l.n]
      BY <2>1 DEF LoanId
    <3>2. <<l.book, l.n>> \in S /\ f[<<l.book, l.n>>] = l
      BY <3>1
    <3>3. QED
      BY <3>2
  <2>2. QED
    BY <2>1
<1>5. QED
  <2> HIDE DEF T
  <2>1. QED
    BY <1>3, <1>4, FS_Subset, FS_CardinalityType

LEMMA CheckedFinite ==
    ASSUME NEW u
    PROVE  /\ IsFiniteSet(Checked(u)) /\ Cardinality(Checked(u)) \in Nat
           /\ Cardinality(Checked(u)) <= Cardinality(Workers)
           /\ Cardinality(Workers) \in Nat
<1>1. Checked(u) \in SUBSET Workers
  BY DEF Checked
<1>2. QED
  BY <1>1, FiniteAssumption, FS_Subset, FS_CardinalityType

\* A grant gives one loan more to one patron.
LEMMA GrantAdds ==
    ASSUME IaType, NEW u \in Borrowers, NEW b \in Books, Grant(u, b)
    PROVE  \E l \in LoanId :
              /\ LoansOfUser(u)' = LoansOfUser(u) \cup {l}
              /\ \A v : v # u => LoansOfUser(v)' = LoansOfUser(v)
<1>1. PICK l \in LoanId : /\ l.book = b /\ l.user = u
                          /\ status' = [status EXCEPT ![l] = "live"]
  BY DEF Grant
<1>2. status'[l] = "live" /\ \A k \in LoanId : k # l => status'[k] = status[k]
  BY <1>1 DEF IaType
<1>3. LoansOfUser(u)' = LoansOfUser(u) \cup {l}
  BY <1>1, <1>2 DEF LoansOfUser
<1>4. \A v : v # u => LoansOfUser(v)' = LoansOfUser(v)
  BY <1>1, <1>2 DEF LoansOfUser
<1>5. QED
  BY <1>3, <1>4

\* Nobody else gets a loan by a step.
LEMMA LoansShrink ==
    ASSUME TypeOK, [Next]_vars, NEW u \in Patrons \ Direct,
           \A w \in Workers : CreateLoan(w) => req[w].user # u
    PROVE  LoansOfUser(u)' \subseteq LoansOfUser(u)
<1> USE DEF TypeOK
<1>1. CASE UNCHANGED status
  BY <1>1 DEF LoansOfUser
<1>2. ASSUME NEW w \in Workers, Begin(w)
      PROVE  UNCHANGED status
  BY <1>2 DEF Begin, StartBorrow, StartReturn, StartNotify, StartPage, StartAdmin, ia
<1>3. ASSUME NEW w \in Workers, Borrow(w)
      PROVE  LoansOfUser(u)' \subseteq LoansOfUser(u)
  <2>1. CASE CreateLoan(w)
    <3>1. req[w].user \in Borrowers /\ req[w].book \in Books /\ req[w].user # u
      BY <2>1 DEF LocalType, Request, Borrowers
    <3>2. CASE Grant(req[w].user, req[w].book)
      BY <3>1, <3>2, GrantAdds
    <3>3. QED
      BY <1>1, <2>1, <3>2 DEF CreateLoan, ia
  <2>2. CASE ~ CreateLoan(w)
    BY <1>1, <1>3, <2>2 DEF Borrow, CheckHeld, CheckLimit, CheckAvailability,
       CheckTurn, AddSelect, AddInsert, ia
  <2>3. QED
    BY <2>1, <2>2
<1>4. ASSUME NEW w \in Workers, GiveBack(w)
      PROVE  LoansOfUser(u)' \subseteq LoansOfUser(u)
  <2>1. CASE DeleteLoan(w)
    <3>1. PICK v, b : Release(v, b)
      BY <2>1 DEF DeleteLoan
    <3>2. \A l \in LoanId : status'[l] = "live" => status[l] = "live"
      BY <3>1 DEF Release
    <3>3. QED
      BY <3>2 DEF LoansOfUser
  <2>2. CASE ~ DeleteLoan(w)
    BY <1>1, <1>4, <2>2 DEF GiveBack, ListLoans, Refresh, PickLoan, AdminGetLoan,
       CompleteLoan, ia
  <2>3. QED
    BY <2>1, <2>2
<1>5. ASSUME NEW w \in Workers, SyncLoan(w) \/ HandleCompleted(w) \/ Fail(w)
      PROVE  UNCHANGED status
  BY <1>5 DEF SyncLoan, GetLoan, GetAvailability, FindEBook, UpdateEBook,
     HandleCompleted, SelectEntry, WriteEntry, Fail, ia
<1>6. CASE ArchiveOrg
  <2>1. CASE EndLoan
    BY <2>1 DEF EndLoan, LoansOfUser, IaType
  <2>2. CASE BorrowDirectly
    <3>1. PICK v \in Direct, b \in Books : Grant(v, b)
      BY <2>2 DEF BorrowDirectly
    <3>2. v \in Borrowers /\ v # u
      BY LendingAssumption
    <3>3. QED
      BY <3>1, <3>2, GrantAdds
  <2>3. CASE JoinQueue \/ LeaveQueue \/ LoseNotice
    BY <1>1, <2>3 DEF JoinQueue, LeaveQueue, LoseNotice
  <2>4. QED
    BY <1>6, <2>1, <2>2, <2>3 DEF ArchiveOrg
<1>7. QED
  BY <1>1, <1>2, <1>3, <1>4, <1>5, <1>6 DEF Next, Step, vars, ia

\* Only by the check of the limit does a request get past it.
LEMMA OwnCheck ==
    ASSUME LocalType, NEW w \in Workers, Begin(w) \/ Step(w) \/ Fail(w), ~CheckLimit(w),
           pc'[w] \in CheckedPoints
    PROVE  pc[w] \in CheckedPoints /\ req'[w] = req[w]
<1> USE DEF CheckedPoints, LocalType
<1>1. CASE Begin(w)
  BY <1>1 DEF Begin, StartBorrow, StartReturn, StartNotify, StartPage, StartAdmin, CallSync
<1>2. CASE CheckAvailability(w) \/ CheckTurn(w)
  BY <1>2 DEF CheckAvailability, CheckTurn, Goto, Stop
<1>3. CASE CheckHeld(w) \/ CreateLoan(w) \/ AddSelect(w) \/ AddInsert(w)
  BY <1>3 DEF CheckHeld, CreateLoan, AddSelect, AddInsert, Goto, Stop, CallSync
<1>4. CASE GiveBack(w)
  BY <1>4 DEF GiveBack, ListLoans, Refresh, PickLoan, AdminGetLoan, DeleteLoan,
     CompleteLoan, Goto, Stop, CallSync, SendCompleted
<1>5. CASE SyncLoan(w) \/ HandleCompleted(w)
  <2>1. sync[w].ret \in Return
    BY DEF Sync
  <2>2. CASE GetLoan(w) \/ GetAvailability(w) \/ FindEBook(w) \/ SelectEntry(w)
    BY <2>2 DEF GetLoan, GetAvailability, FindEBook, SelectEntry
  <2>3. CASE UpdateEBook(w)
    BY <2>1, <2>3 DEF UpdateEBook, SendCompleted, Return
  <2>4. CASE WriteEntry(w)
    BY <2>1, <2>4 DEF WriteEntry, Stop, Resume, Return
  <2>5. QED
    BY <1>5, <2>2, <2>3, <2>4 DEF SyncLoan, HandleCompleted
<1>6. CASE Fail(w)
  BY <1>6 DEF Fail, Stop
<1>7. QED
  BY <1>1, <1>2, <1>3, <1>4, <1>5, <1>6 DEF Step, Borrow

LEMMA LimitNext ==
    ASSUME TypeOK, LimitInv, [Next]_vars
    PROVE  LimitInv'
<1> SUFFICES ASSUME NEW u \in Patrons \ Direct
             PROVE  Cardinality(LoansOfUser(u)') + Cardinality(Checked(u)')
                        <= MaxLoans - 1 + Cardinality(Workers)
  BY DEF LimitInv
<1> DEFINE L == LoansOfUser(u)
           K == Checked(u)
<1>1. /\ IsFiniteSet(L) /\ IsFiniteSet(L') /\ Cardinality(L) \in Nat /\ Cardinality(L') \in Nat
      /\ IsFiniteSet(K) /\ Cardinality(K) \in Nat /\ Cardinality(Workers) \in Nat
  <2>1. L \in SUBSET {l \in LoanId : l.user = u} /\ L' \in SUBSET {l \in LoanId : l.user = u}
    BY DEF LoansOfUser
  <2>2. QED
    BY <2>1, LoansFinite, CheckedFinite
<1>2. IsFiniteSet(K') /\ Cardinality(K') \in Nat /\ Cardinality(K') <= Cardinality(Workers)
  <2>1. K' \in SUBSET Workers
    BY DEF Checked
  <2>2. QED
    BY <2>1, FiniteAssumption, FS_Subset, FS_CardinalityType
<1>3. MaxLoans \in Nat /\ Cardinality(L) + Cardinality(K) <= MaxLoans - 1 + Cardinality(Workers)
  BY LendingAssumption DEF LimitInv
<1>4. ASSUME L' \subseteq L, K' \subseteq K
      PROVE  Cardinality(L') + Cardinality(K') <= MaxLoans - 1 + Cardinality(Workers)
  <2>1. Cardinality(L') <= Cardinality(L) /\ Cardinality(K') <= Cardinality(K)
    <3> HIDE DEF L, K
    <3>1. L' \in SUBSET L /\ K' \in SUBSET K
      BY <1>4
    <3>2. QED
      BY <1>1, <3>1, FS_Subset
  <2>2. QED
    BY <1>1, <1>2, <1>3, <2>1
<1>5. ASSUME NEW w \in Workers, Begin(w) \/ Step(w) \/ Fail(w)
      PROVE  Cardinality(L') + Cardinality(K') <= MaxLoans - 1 + Cardinality(Workers)
  <2>1. \A v \in Workers \ {w} : pc'[v] = pc[v] /\ req'[v] = req[v]
    BY <1>5, OwnRegisters DEF TypeOK, SameRegisters
  <2>2. CASE CheckLimit(w) /\ req[w].user = u
    <3>1. L' = L
      BY <2>2 DEF CheckLimit, ia, LoansOfUser
    <3>2. CASE LimitReached(u)
      <4>1. pc'[w] = "idle"
        BY <2>2, <3>2 DEF CheckLimit, Stop, TypeOK, LocalType
      <4>2. K' \subseteq K
        BY <2>1, <4>1 DEF Checked, CheckedPoints
      <4>3. QED
        BY <1>4, <3>1, <4>2
    <3>3. CASE ~LimitReached(u)
      <4>1. Cardinality(L) < MaxLoans
        BY <1>1, <1>3, <3>3 DEF LimitReached
      <4>2. QED
        BY <1>1, <1>2, <1>3, <3>1, <4>1
    <3>4. QED
      BY <3>2, <3>3
  <2>3. CASE CheckLimit(w) /\ req[w].user # u
    <3>1. req'[w].user = req[w].user \/ pc'[w] = "idle"
      BY <2>3 DEF CheckLimit, Stop, Goto, TypeOK, LocalType
    <3>2. K' \subseteq K
      BY <2>1, <2>3, <3>1 DEF Checked, CheckedPoints
    <3>3. L' = L
      BY <2>3 DEF CheckLimit, ia, LoansOfUser
    <3>4. QED
      BY <1>4, <3>2, <3>3
  <2>4. CASE CreateLoan(w) /\ req[w].user = u
    <3>1. w \in K
      BY <2>4 DEF CreateLoan, Checked, CheckedPoints
    <3>2. pc'[w] \notin CheckedPoints
      BY <2>4 DEF CreateLoan, Stop, CheckedPoints, TypeOK, LocalType
    <3>3. K' \subseteq K \ {w}
      BY <2>1, <3>2 DEF Checked
    <3>4. Cardinality(K') <= Cardinality(K) - 1
      <4> HIDE DEF L, K
      <4>1. K' \in SUBSET (K \ {w}) /\ IsFiniteSet(K \ {w})
            /\ Cardinality(K \ {w}) = Cardinality(K) - 1
        BY <1>1, <3>1, <3>3, FS_RemoveElement
      <4>2. Cardinality(K') <= Cardinality(K \ {w})
        BY <4>1, FS_Subset
      <4>3. QED
        BY <4>1, <4>2
    <3>5. Cardinality(L') <= Cardinality(L) + 1
      <4>1. CASE Grant(u, req[w].book)
        <5>1. req[w].book \in Books /\ u \in Borrowers
          BY DEF TypeOK, LocalType, Request, Borrowers
        <5>2. PICK l : L' = L \cup {l}
          BY <4>1, <5>1, GrantAdds DEF TypeOK
        <5>3. QED
          <6> HIDE DEF L, K
          <6>1. QED
            BY <1>1, <5>2, FS_AddElement
      <4>2. CASE UNCHANGED status
        <5>1. L' = L
          BY <4>2 DEF LoansOfUser
        <5>2. QED
          BY <1>1, <5>1
      <4>3. QED
        BY <2>4, <4>1, <4>2 DEF CreateLoan, ia
    <3>6. QED
      BY <1>1, <1>2, <1>3, <3>4, <3>5
  <2>5. CASE ~CheckLimit(w) /\ ~(CreateLoan(w) /\ req[w].user = u)
    <3>1. \A v \in Workers \ {w} : ~CreateLoan(v) \/ req[v].user # u
      <4>1. ASSUME NEW v \in Workers \ {w}, CreateLoan(v) PROVE FALSE
        <5>1. pc'[v] # pc[v]
          BY <4>1 DEF CreateLoan, Stop, TypeOK, LocalType
        <5>2. QED
          BY <2>1, <5>1
      <4>2. QED
        BY <4>1
    <3>2. [Next]_vars
      OBVIOUS
    <3>3. L' \subseteq L
      BY <2>5, <3>1, LoansShrink
    <3>4. pc'[w] \in CheckedPoints => pc[w] \in CheckedPoints /\ req'[w] = req[w]
      BY <1>5, <2>5, OwnCheck DEF TypeOK
    <3>5. K' \subseteq K
      BY <2>1, <3>4 DEF Checked
    <3>6. QED
      BY <1>4, <3>3, <3>5
  <2>6. QED
    BY <2>2, <2>3, <2>4, <2>5
<1>6. CASE ArchiveOrg \/ UNCHANGED vars
  <2>1. UNCHANGED <<pc, req>>
    BY <1>6 DEF ArchiveOrg, BorrowDirectly, EndLoan, JoinQueue, LeaveQueue, LoseNotice,
       local, vars
  <2>2. \A w \in Workers : ~CreateLoan(w)
    BY <2>1 DEF CreateLoan, Stop, TypeOK, LocalType
  <2>3. L' \subseteq L
    BY <2>2, LoansShrink
  <2>4. K' = K
    BY <2>1 DEF Checked
  <2>5. QED
    BY <1>4, <2>3, <2>4
<1>7. QED
  BY <1>5, <1>6 DEF Next

\* borrow.POST: however many requests of a patron are between the check of
\* user_max_loans and their loan, each of them exceeds the limit by one at most.
THEOREM OverborrowBounded == Spec => []OverborrowIsBounded
<1>1. Init => LimitInv
  <2> SUFFICES ASSUME Init, NEW u \in Patrons \ Direct
               PROVE  Cardinality(LoansOfUser(u)) + Cardinality(Checked(u))
                          <= MaxLoans - 1 + Cardinality(Workers)
    BY DEF LimitInv
  <2>1. LoansOfUser(u) = {} /\ Checked(u) = {}
    BY DEF Init, LoansOfUser, Checked, CheckedPoints
  <2>2. QED
    BY <2>1, CheckedFinite, FS_EmptySet, LendingAssumption
<1>2. LimitInv => OverborrowIsBounded
  <2> SUFFICES ASSUME LimitInv, NEW u \in Patrons \ Direct
               PROVE  Cardinality(LoansOfUser(u)) <= MaxLoans - 1 + Cardinality(Workers)
    BY DEF OverborrowIsBounded
  <2>1. LoansOfUser(u) \in SUBSET {l \in LoanId : l.user = u}
    BY DEF LoansOfUser
  <2>2. Cardinality(LoansOfUser(u)) \in Nat /\ Cardinality(Checked(u)) \in Nat
        /\ Cardinality(Workers) \in Nat /\ MaxLoans \in Nat
    BY <2>1, LoansFinite, CheckedFinite, LendingAssumption
  <2>3. Cardinality(LoansOfUser(u)) + Cardinality(Checked(u))
            <= MaxLoans - 1 + Cardinality(Workers)
    BY DEF LimitInv
  <2>4. QED
    BY <2>2, <2>3
<1>3. TypeOK /\ LimitInv /\ [Next]_vars => LimitInv'
  BY LimitNext
<1>4. QED
  BY <1>1, <1>2, <1>3, TypeCorrect, PTL DEF Spec
----------------------------------------------------------------------------
(* One request at a time *)

\* What sync_loan would be told of the loan of b now.
LoanAgrees(b, l) == IF KnownLoans(b) = {} THEN l = NoLoan ELSE l \in KnownLoans(b)

EBookAgrees(b) == LoanAgrees(b, ebook[b].loan) /\ ebook[b].avail = Answer(b)

\* A request is in sync_loan(b), and what it has been told of b still holds.
Syncs(w, b) ==
    /\ pc[w] \in SyncPoints /\ sync[w].item = b
    /\ pc[w] # "getloan" => LoanAgrees(b, sync[w].known)
    /\ pc[w] \in {"find", "update"} => sync[w].avail = Answer(b)

\* Of a book whose changes have all been notified the document tells what
\* archive.org would answer, or a request is about to write that.
EBookInv ==
    /\ \A w \in Workers :
          pc[w] = "update" => w \in fresh /\ sync[w].doc = ebook[sync[w].item]
    /\ \A b \in Books \ notices :
          /\ EBookAgrees(b) \/ \E w \in Workers : Syncs(w, b)
          /\ \A w \in Workers :
                pc[w] \in SyncPoints /\ sync[w].item = b => Syncs(w, b)

\* archive.org has not changed anything about b.
Kept(b) ==
    /\ \A l \in LoanId : l.book = b => (status'[l] = "live" <=> status[l] = "live")
    /\ queue'[b] = queue[b]

LEMMA KeptAnswers ==
    ASSUME NEW b, Kept(b)
    PROVE  KnownLoans(b)' = KnownLoans(b) /\ Answer(b)' = Answer(b)
<1>1. LoansOfBook(b)' = LoansOfBook(b)
  BY DEF Kept, LoansOfBook
<1>2. QED
  BY <1>1 DEF Kept, KnownLoans, Answer

LEMMA GrantKeeps ==
    ASSUME IaType, NEW u, NEW b \in Books, Grant(u, b)
    PROVE  notices \subseteq notices' /\ \A x \in Books \ notices' : Kept(x)
<1>1. PICK l \in LoanId : l.book = b /\ status' = [status EXCEPT ![l] = "live"]
  BY DEF Grant
<1>2. notices' = notices \cup {b} /\ \A x \in Books : x # b => queue'[x] = queue[x]
  BY DEF Grant, IaType
<1>3. \A k \in LoanId : k # l => status'[k] = status[k]
  BY <1>1 DEF IaType
<1>4. QED
  BY <1>1, <1>2, <1>3 DEF Kept

LEMMA ReleaseKeeps ==
    ASSUME IaType, NEW u, NEW b \in Books, Release(u, b)
    PROVE  notices \subseteq notices' /\ \A x \in Books \ notices' : Kept(x)
<1>1. /\ \A l \in LoanId : status'[l] = IF l.book = b /\ l.user = u /\ status[l] = "live"
                                        THEN "ended" ELSE status[l]
      /\ notices' = IF \E l \in LoansOfBook(b) : l.user = u
                    THEN notices \cup {b} ELSE notices
      /\ queue' = queue
  BY DEF Release
<1>2. ASSUME NEW x \in Books \ notices', NEW l \in LoanId, l.book = x
      PROVE  status'[l] = status[l]
  BY <1>1, <1>2 DEF LoansOfBook
<1>3. QED
  BY <1>1, <1>2 DEF Kept

\* Whatever archive.org changes it has to notify; only a request that begins takes
\* a notice away, and syncs the book.
LEMMA NextKeeps ==
    ASSUME LendingInv, [Next]_vars, ~Failures
    PROVE  /\ \A b \in Books \ notices' : Kept(b)
           /\ \A b \in notices \ notices' :
                 \E w \in Workers : pc'[w] = "getloan" /\ sync'[w].item = b
<1> USE DEF TypeOK
<1>0. TypeOK /\ \A w \in Workers : RegistersAreSet(w)
  BY DEF LendingInv, RequestInv
<1>1. UNCHANGED <<status, queue>> => \A b : Kept(b)
  BY DEF Kept
<1>2. ASSUME NEW w \in Workers, Begin(w)
      PROVE  /\ UNCHANGED <<status, queue>>
             /\ \A b \in notices \ notices' : pc'[w] = "getloan" /\ sync'[w].item = b
  <2>1. CASE StartNotify(w)
    <3>1. PICK b \in notices : /\ notices' = notices \ {b} /\ CallSync(w, b, "idle")
                               /\ UNCHANGED <<status, queue>>
      BY <2>1 DEF StartNotify
    <3>2. pc'[w] = "getloan" /\ sync'[w].item = b
      BY <1>0, <3>1 DEF CallSync, LocalType, NoSync
    <3>3. QED
      BY <3>1, <3>2
  <2>2. CASE StartBorrow(w) \/ StartReturn(w) \/ StartPage(w) \/ StartAdmin(w)
    BY <2>2 DEF StartBorrow, StartReturn, StartPage, StartAdmin, ia
  <2>3. QED
    BY <1>2, <2>1, <2>2 DEF Begin
<1>3. ASSUME NEW w \in Workers, Borrow(w)
      PROVE  notices \subseteq notices' /\ \A b \in Books \ notices' : Kept(b)
  <2>1. CASE CreateLoan(w)
    <3>1. req[w].book \in Books
      BY <1>0 DEF LocalType, Request
    <3>2. CASE Grant(req[w].user, req[w].book)
      BY <1>0, <3>1, <3>2, GrantKeeps
    <3>3. QED
      BY <1>1, <2>1, <3>2 DEF CreateLoan, ia
  <2>2. CASE ~ CreateLoan(w)
    BY <1>1, <1>3, <2>2 DEF Borrow, CheckHeld, CheckLimit, CheckAvailability,
       CheckTurn, AddSelect, AddInsert, ia
  <2>3. QED
    BY <2>1, <2>2
<1>4. ASSUME NEW w \in Workers, GiveBack(w)
      PROVE  notices \subseteq notices' /\ \A b \in Books \ notices' : Kept(b)
  <2>1. CASE DeleteLoan(w)
    <3>1. req[w].target \in LoanId
      BY <1>0, <1>4, <2>1 DEF RegistersAreSet, DeleteLoan, LocalType, Request
    <3>2. req[w].target.book \in Books
      BY <3>1 DEF LoanId
    <3>3. QED
      BY <1>0, <2>1, <3>2, ReleaseKeeps DEF DeleteLoan
  <2>2. CASE ~ DeleteLoan(w)
    BY <1>1, <1>4, <2>2 DEF GiveBack, ListLoans, Refresh, PickLoan, AdminGetLoan,
       CompleteLoan, ia
  <2>3. QED
    BY <2>1, <2>2
<1>5. ASSUME NEW w \in Workers, SyncLoan(w) \/ HandleCompleted(w) \/ Fail(w)
      PROVE  UNCHANGED <<status, queue, notices>>
  BY <1>5 DEF SyncLoan, GetLoan, GetAvailability, FindEBook, UpdateEBook,
     HandleCompleted, SelectEntry, WriteEntry, Fail, ia
<1>6. CASE ArchiveOrg
  <2>1. CASE BorrowDirectly
    BY <1>0, <2>1, GrantKeeps DEF BorrowDirectly
  <2>2. CASE EndLoan
    BY <1>0, <2>2 DEF EndLoan, Kept, IaType
  <2>3. CASE JoinQueue \/ LeaveQueue
    BY <1>0, <2>3 DEF JoinQueue, LeaveQueue, Kept, IaType
  <2>4. CASE LoseNotice
    BY <2>4 DEF LoseNotice
  <2>5. QED
    BY <1>6, <2>1, <2>2, <2>3, <2>4 DEF ArchiveOrg
<1>7. QED
  BY <1>1, <1>2, <1>3, <1>4, <1>5, <1>6 DEF Next, Step, vars, ia

\* A step outside of sync_loan may only enter it, and writes no document.
LEMMA OutsideSync ==
    ASSUME LocalType, NEW w \in Workers,
           Begin(w) \/ Borrow(w) \/ GiveBack(w) \/ HandleCompleted(w)
    PROVE  /\ pc[w] \notin SyncPoints /\ ebook' = ebook
           /\ pc'[w] \in SyncPoints => pc'[w] = "getloan"
<1> USE DEF SyncPoints, LocalType, ol
<1>1. CASE Begin(w)
  BY <1>1 DEF Begin, StartBorrow, StartReturn, StartNotify, StartPage, StartAdmin, Start,
     CallSync
<1>2. CASE CheckHeld(w) \/ CheckLimit(w) \/ CheckAvailability(w) \/ CheckTurn(w)
  BY <1>2 DEF CheckHeld, CheckLimit, CheckAvailability, CheckTurn, Goto, Stop
<1>3. CASE CreateLoan(w) \/ AddSelect(w) \/ AddInsert(w)
  BY <1>3 DEF CreateLoan, AddSelect, AddInsert, Goto, Stop, CallSync
<1>4. CASE GiveBack(w)
  BY <1>4 DEF GiveBack, ListLoans, Refresh, PickLoan, AdminGetLoan, DeleteLoan,
     CompleteLoan, Goto, Stop, CallSync, SendCompleted
<1>5. CASE SelectEntry(w)
  BY <1>5 DEF SelectEntry
<1>6. CASE WriteEntry(w)
  <2>1. sync[w].ret \in Return
    BY DEF Sync
  <2>2. QED
    BY <1>6, <2>1 DEF WriteEntry, Stop, Resume, Return
<1>7. QED
  BY <1>1, <1>2, <1>3, <1>4, <1>5, <1>6 DEF Borrow, HandleCompleted

\* The steps of sync_loan: what a request is told holds, and what it writes agrees.
LEMMA SyncAgrees ==
    ASSUME TypeOK, NEW w \in Workers, SyncLoan(w), ~Failures, EBookInv,
           NEW i \in Books, i = sync[w].item
    PROVE  /\ UNCHANGED <<status, queue, notices>>
           /\ pc'[w] = "update" => w \in fresh' /\ sync'[w].doc = ebook'[sync'[w].item]
           /\ \A b \in Books : b # i => ebook'[b] = ebook[b]
           /\ pc[w] \in SyncPoints
           /\ pc'[w] \in SyncPoints => sync'[w].item = i
           /\ i \notin notices => \/ Syncs(w, i)'
                                 \/ (pc'[w] \notin SyncPoints /\ EBookAgrees(i)')
<1>1. /\ sync \in [Workers -> Sync] /\ pc \in [Workers -> Points] /\ sync[w] \in Sync
      /\ ebook \in [Books -> EBook] /\ i \in Books
  BY DEF TypeOK, LocalType, OlType, Sync
<1>2. UNCHANGED <<status, queue, notices>>
  BY DEF SyncLoan, GetLoan, GetAvailability, FindEBook, UpdateEBook, ia
<1>3. \A b : KnownLoans(b)' = KnownLoans(b) /\ Answer(b)' = Answer(b)
  BY <1>2, KeptAnswers DEF Kept
<1>4. i \notin notices /\ pc[w] \in SyncPoints => Syncs(w, i)
  BY <1>1 DEF EBookInv
<1>5. CASE GetLoan(w)
  <2>1. PICK k : /\ sync' = [sync EXCEPT ![w].known = k] /\ LoanAgrees(i, k)
                 /\ pc' = [pc EXCEPT ![w] = "response"] /\ ebook' = ebook
                 /\ pc[w] = "getloan"
    BY <1>5 DEF GetLoan, LoanAgrees, ol
  <2>2. pc'[w] = "response" /\ sync'[w].item = i /\ sync'[w].known = k
    BY <1>1, <2>1 DEF Sync
  <2>3. LoanAgrees(i, k)'
    BY <1>3, <2>1 DEF LoanAgrees
  <2>4. QED
    BY <1>2, <2>1, <2>2, <2>3 DEF Syncs, SyncPoints
<1>6. CASE GetAvailability(w)
  <2>1. /\ sync' = [sync EXCEPT ![w].avail = Answer(i)] /\ ebook' = ebook
        /\ pc' = [pc EXCEPT ![w] = "find"] /\ pc[w] = "response"
    BY <1>6 DEF GetAvailability, ol
  <2>2. /\ pc'[w] = "find" /\ sync'[w].item = i /\ sync'[w].known = sync[w].known
        /\ sync'[w].avail = Answer(i)
    BY <1>1, <2>1 DEF Sync
  <2>3. i \notin notices => LoanAgrees(i, sync[w].known)
    BY <1>4, <2>1 DEF Syncs, SyncPoints
  <2>4. i \notin notices => Syncs(w, i)'
    BY <1>3, <2>2, <2>3 DEF Syncs, SyncPoints, LoanAgrees
  <2>5. QED
    BY <1>2, <2>1, <2>2, <2>4 DEF SyncPoints
<1>7. CASE FindEBook(w)
  <2>1. /\ sync' = [sync EXCEPT ![w].doc = ebook[i]] /\ ebook' = ebook
        /\ pc' = [pc EXCEPT ![w] = "update"] /\ pc[w] = "find" /\ fresh' = fresh \cup {w}
    BY <1>7 DEF FindEBook, ol
  <2>2. /\ pc'[w] = "update" /\ sync'[w].item = i /\ sync'[w].known = sync[w].known
        /\ sync'[w].avail = sync[w].avail /\ sync'[w].doc = ebook[i]
    BY <1>1, <2>1 DEF Sync
  <2>3. i \notin notices => LoanAgrees(i, sync[w].known) /\ sync[w].avail = Answer(i)
    BY <1>4, <2>1 DEF Syncs, SyncPoints
  <2>4. i \notin notices => Syncs(w, i)'
    BY <1>3, <2>2, <2>3 DEF Syncs, SyncPoints, LoanAgrees
  <2>5. QED
    BY <1>2, <2>1, <2>2, <2>4 DEF SyncPoints
<1>8. CASE UpdateEBook(w)
  <2> DEFINE new == [exists |-> TRUE, loan |-> sync[w].known, avail |-> sync[w].avail]
  <2>1. /\ pc[w] = "update" /\ w \in fresh /\ sync[w].doc = ebook[i]
    BY <1>8 DEF UpdateEBook, EBookInv
  <2>2. IF new # ebook[i] THEN ebook' = [ebook EXCEPT ![i] = new] ELSE ebook' = ebook
    BY <1>8, <2>1 DEF UpdateEBook, SameDocument
  <2>3. ebook'[i] = new /\ \A b \in Books : b # i => ebook'[b] = ebook[b]
    BY <1>1, <2>2
  <2>4. pc'[w] \notin SyncPoints
    <3>1. sync[w].ret \in Return
      BY <1>1 DEF Sync
    <3>2. pc'[w] = "select" \/ pc'[w] = sync[w].ret
      BY <1>1, <1>8 DEF UpdateEBook, SendCompleted
    <3>3. QED
      BY <3>1, <3>2 DEF Return, SyncPoints
  <2>5. i \notin notices => LoanAgrees(i, sync[w].known) /\ sync[w].avail = Answer(i)
    BY <1>4, <2>1 DEF Syncs, SyncPoints
  <2>6. ebook'[i].loan = sync[w].known /\ ebook'[i].avail = sync[w].avail
    BY <2>3
  <2>7. i \notin notices => EBookAgrees(i)'
    BY <1>3, <2>5, <2>6 DEF EBookAgrees, LoanAgrees
  <2>8. QED
    BY <1>2, <2>1, <2>3, <2>4, <2>7 DEF SyncPoints
<1>9. QED
  BY <1>5, <1>6, <1>7, <1>8 DEF SyncLoan

LEMMA EBookNext ==
    ASSUME LendingInv, EBookInv, [Next]_vars, ~Failures, \A w, v \in Workers : w = v
    PROVE  EBookInv'
<1>1. TypeOK /\ LocalType
  BY DEF LendingInv, TypeOK
<1>2. /\ \A b \in Books \ notices' : Kept(b)
      /\ \A b \in notices \ notices' :
            \E w \in Workers : pc'[w] = "getloan" /\ sync'[w].item = b
  BY NextKeeps
<1>3. \A b \in Books \ notices' : KnownLoans(b)' = KnownLoans(b) /\ Answer(b)' = Answer(b)
  BY <1>2, KeptAnswers
<1>4. ASSUME NEW w \in Workers, NEW b, pc'[w] = "getloan", sync'[w].item = b
      PROVE  Syncs(w, b)'
  BY <1>4 DEF Syncs, SyncPoints
<1>5. ASSUME NEW w \in Workers,
             Begin(w) \/ Borrow(w) \/ GiveBack(w) \/ HandleCompleted(w)
      PROVE  EBookInv'
  <2>1. /\ pc[w] \notin SyncPoints /\ ebook' = ebook
        /\ pc'[w] \in SyncPoints => pc'[w] = "getloan"
    BY <1>1, <1>5, OutsideSync
  <2>2. \A v \in Workers : v = w
    OBVIOUS
  <2>3. \A v \in Workers : pc'[v] # "update"
    BY <2>1, <2>2 DEF SyncPoints
  <2>4. ASSUME NEW b \in Books \ notices', b \notin notices PROVE EBookAgrees(b)'
    <3>1. EBookAgrees(b)
      BY <2>1, <2>2, <2>4 DEF EBookInv, Syncs
    <3>2. QED
      BY <1>3, <2>1, <3>1 DEF EBookAgrees, LoanAgrees
  <2>5. ASSUME NEW b \in Books \ notices'
        PROVE  EBookAgrees(b)' \/ \E v \in Workers : Syncs(v, b)'
    BY <1>2, <1>4, <2>4
  <2>6. ASSUME NEW b \in Books \ notices', NEW v \in Workers,
               pc'[v] \in SyncPoints, sync'[v].item = b
        PROVE  Syncs(v, b)'
    BY <1>4, <2>1, <2>2, <2>6
  <2>7. QED
    BY <2>3, <2>5, <2>6 DEF EBookInv
<1>6. ASSUME NEW w \in Workers, SyncLoan(w)
      PROVE  EBookInv'
  <2> PICK i \in Books : i = sync[w].item
    BY <1>1 DEF LocalType, Sync
  <2>1. /\ UNCHANGED <<status, queue, notices>>
        /\ pc'[w] = "update" => w \in fresh' /\ sync'[w].doc = ebook'[sync'[w].item]
        /\ \A b \in Books : b # i => ebook'[b] = ebook[b]
        /\ pc[w] \in SyncPoints
        /\ pc'[w] \in SyncPoints => sync'[w].item = i
        /\ i \notin notices => \/ Syncs(w, i)'
                              \/ (pc'[w] \notin SyncPoints /\ EBookAgrees(i)')
    BY <1>1, <1>6, SyncAgrees
  <2>2. \A v \in Workers : v = w
    OBVIOUS
  <2>3. ASSUME NEW b \in Books \ notices'
        PROVE  EBookAgrees(b)' \/ \E v \in Workers : Syncs(v, b)'
    <3>1. CASE b = i
      BY <2>1, <3>1
    <3>2. CASE b # i
      <4>1. EBookAgrees(b)
        BY <2>1, <2>2, <3>2 DEF EBookInv, Syncs
      <4>2. QED
        BY <1>3, <2>1, <3>2, <4>1 DEF EBookAgrees, LoanAgrees
    <3>3. QED
      BY <3>1, <3>2
  <2>4. ASSUME NEW b \in Books \ notices', NEW v \in Workers,
               pc'[v] \in SyncPoints, sync'[v].item = b
        PROVE  Syncs(v, b)'
    BY <2>1, <2>2, <2>4
  <2>5. QED
    BY <2>1, <2>2, <2>3, <2>4 DEF EBookInv
<1>7. CASE ArchiveOrg \/ UNCHANGED vars
  <2>1. UNCHANGED <<ebook, pc, sync, fresh>>
    BY <1>7 DEF ArchiveOrg, BorrowDirectly, EndLoan, JoinQueue, LeaveQueue, LoseNotice,
       ol, local, vars
  <2>2. notices \subseteq notices'
    <3>1. CASE ArchiveOrg
      BY <3>1 DEF ArchiveOrg, BorrowDirectly, EndLoan, JoinQueue, LeaveQueue, LoseNotice,
         Grant
    <3>2. QED
      BY <1>7, <3>1 DEF vars, ia
  <2>3. ASSUME NEW b \in Books \ notices', NEW w \in Workers, Syncs(w, b)
        PROVE  Syncs(w, b)'
    BY <1>3, <2>1, <2>3 DEF Syncs, LoanAgrees
  <2>4. ASSUME NEW b \in Books \ notices', EBookAgrees(b) PROVE EBookAgrees(b)'
    BY <1>3, <2>1, <2>4 DEF EBookAgrees, LoanAgrees
  <2>5. QED
    BY <2>1, <2>2, <2>3, <2>4 DEF EBookInv
<1>8. QED
  BY <1>5, <1>6, <1>7 DEF Next, Step, Fail

\* sync_loan, ia_borrow_notify.POST: when requests run one at a time and no call
\* fails, the ebook documents tell what archive.org would answer as soon as every
\* change has been notified, for any books, patrons and waiting lists.
THEOREM EBooksAgree ==
    ASSUME ~Failures, \A w, v \in Workers : w = v
    PROVE  Spec => []EBooksAgreeWhenQuiet
<1>1. Init => EBookInv
  <2> SUFFICES ASSUME Init PROVE EBookInv
    OBVIOUS
  <2>1. \A w \in Workers : pc[w] = "idle"
    BY DEF Init
  <2>2. \A b \in Books : LoansOfBook(b) = {} /\ queue[b] = <<>> /\ ebook[b] = NoEBook
    BY DEF Init, LoansOfBook
  <2>3. \A b \in Books : KnownLoans(b) = {} /\ Answer(b) = NoAvailability
    <3> SUFFICES ASSUME NEW b \in Books
                 PROVE  KnownLoans(b) = {} /\ Answer(b) = NoAvailability
      OBVIOUS
    <3>1. KnownLoans(b) = {}
      BY <2>2 DEF KnownLoans
    <3>2. (LoansOfBook(b) # {} \/ queue[b] # <<>>) = FALSE
      BY <2>2
    <3>3. Len(queue[b]) = 0
      BY <2>2
    <3>4. QED
      BY <3>1, <3>2, <3>3, Zenon DEF Answer, NoAvailability
  <2>4. \A b \in Books : EBookAgrees(b)
    BY <2>2, <2>3 DEF EBookAgrees, LoanAgrees, NoEBook
  <2>5. QED
    BY <2>1, <2>4 DEF EBookInv, SyncPoints
<1>2. LendingInv /\ EBookInv /\ [Next]_vars => EBookInv'
  BY EBookNext
<1>3. EBookInv => EBooksAgreeWhenQuiet
  <2> SUFFICES ASSUME EBookInv, Quiet, NEW b \in Books
               PROVE  /\ ebook[b].loan = NoLoan <=> KnownLoans(b) = {}
                      /\ ebook[b].loan # NoLoan => ebook[b].loan \in KnownLoans(b)
                      /\ ebook[b].avail = Answer(b)
    BY DEF EBooksAgreeWhenQuiet
  <2>1. EBookAgrees(b)
    BY DEF Quiet, EBookInv, Syncs, SyncPoints
  <2>2. NoLoan \notin KnownLoans(b)
    BY NoLoanAssumption DEF KnownLoans, LoansOfBook
  <2>3. QED
    BY <2>1, <2>2 DEF EBookAgrees, LoanAgrees
<1>4. QED
  BY <1>1, <1>2, <1>3, Invariance, PTL DEF Spec
=============================================================================
