----------------------------- MODULE WaitingList -----------------------------
(***************************************************************************)
(* The waiting lists of lendable books.  The lists are kept by             *)
(* archive.org; Open Library joins and leaves them for its patrons, asks   *)
(* for the copy to be offered to the first in line, and sends the mail     *)
(* that tells this patron so.  Mails are sent by every request that        *)
(* happens to look at the list (borrow, return, join, leave, notification) *)
(* and by a cron job, all of them at the same time.                        *)
(*                                                                         *)
(* Code: openlibrary/core/waitinglist.py, plugins/upstream/borrow.py       *)
(* (join, leave, ia_borrow_notify), scripts/update-loans.py.               *)
(***************************************************************************)
EXTENDS Naturals, FiniteSets, Sequences

CONSTANTS
    Books,       \* ocaids of lendable books
    Patrons,     \* waiters with an account here
    Outsiders,   \* waiters without one
    Workers,     \* requests that may be in progress at a time
    Crons,       \* the workers that run scripts/update-loans.py
    Rejoins,     \* bound: how often somebody may wait for the same book
    Operations,  \* the requests that are made
    Elsewhere,   \* waiters who also join and leave on archive.org's pages
    Failures,    \* may calls raise?
    MaxMails,    \* bound: mails are counted up to this number
    NoWait       \* None

Waiters == Patrons \cup Outsiders

AllOperations == {"join", "leave", "notify", "event", "cron"}

ASSUME WaitingListAssumption ==
    /\ Patrons \cap Outsiders = {}
    /\ Books # {} /\ Waiters # {}
    /\ IsFiniteSet(Workers) /\ Crons \subseteq Workers
    /\ Rejoins \in Nat \ {0}
    /\ MaxMails \in Nat \ {0}
    /\ Operations \subseteq AllOperations
    /\ Elsewhere \subseteq Waiters
    /\ Failures \in BOOLEAN

\* One stay of somebody on the list of a book.  archive.org addresses it by
\* book and user; n tells a stay from an earlier one of the same user.
Wait == [book: Books, user: Waiters, n: 1..Rejoins]

ASSUME NoWaitAssumption == NoWait \notin Wait

VARIABLES
    (* archive.org *)
    line,     \* [Books -> Seq(Wait)], first in line first
    used,     \* every stay there has been
    offered,  \* stays whose status is "available"
    flagged,  \* stays with available_email_sent
    loaned,   \* [Books -> BOOLEAN]
    notices,  \* books of which a change has not been notified yet
    (* Open Library *)
    size,     \* [Books -> Nat], wl_size of the ebook documents
    mails,    \* [Wait -> 0..MaxMails], mails sent (a history variable)
    lost,     \* [Wait -> 0..MaxMails], marks never made (a history variable)
    (* requests in progress *)
    pc,       \* [Workers -> point of control]
    req,      \* [Workers -> Request]
    todo      \* [Workers -> SUBSET Books], loop of update_all_waitinglists

ia == <<line, used, offered, flagged, loaned, notices>>
ol == <<size, mails, lost>>
local == <<pc, req, todo>>
vars == <<ia, ol, local>>

----------------------------------------------------------------------------
AnyBook == CHOOSE b \in Books : TRUE
AnyWaiter == CHOOSE u \in Waiters : TRUE

Request == [op: AllOperations \cup {"none"}, book: Books, user: Waiters,
            record: Wait \cup {NoWait}]
NoRequest == [op |-> "none", book |-> AnyBook, user |-> AnyWaiter,
              record |-> NoWait]

Points == {"idle", "join", "find", "leave", "ebook", "next", "sync", "query",
           "loaned", "head", "send", "flag"}

\* The variables have the types listed with their declarations; only stays there
\* have been are offered a copy or marked.
TypeOK ==
    /\ line \in [Books -> Seq(Wait)]
    /\ used \subseteq Wait
    /\ offered \subseteq used
    /\ flagged \subseteq used
    /\ loaned \in [Books -> BOOLEAN]
    /\ notices \subseteq Books
    /\ size \in [Books -> Nat]
    /\ mails \in [Wait -> 0..MaxMails]
    /\ lost \in [Wait -> 0..MaxMails]
    /\ pc \in [Workers -> Points]
    /\ req \in [Workers -> Request]
    /\ todo \in [Workers -> SUBSET Books]

----------------------------------------------------------------------------
(* archive.org's side of the API *)

InLine(b) == {line[b][i] : i \in 1..Len(line[b])}
StaysOf(u, b) == {r \in InLine(b) : r.user = u}

\* waitinglist.join: a second entry of the same user is not made.
Enter(u, b) ==
    IF StaysOf(u, b) # {} \/ \A n \in 1..Rejoins :
                                [book |-> b, user |-> u, n |-> n] \in used
    THEN UNCHANGED ia
    ELSE LET n == CHOOSE n \in 1..Rejoins :
                     /\ [book |-> b, user |-> u, n |-> n] \notin used
                     /\ \A m \in 1..(n - 1) :
                           [book |-> b, user |-> u, n |-> m] \in used
             r == [book |-> b, user |-> u, n |-> n]
         IN  /\ line' = [line EXCEPT ![b] = Append(@, r)]
             /\ used' = used \cup {r}
             /\ notices' = notices \cup {b}
             /\ UNCHANGED <<offered, flagged, loaned>>

\* waitinglist.leave
Depart(u, b) ==
    IF StaysOf(u, b) = {}
    THEN UNCHANGED ia
    ELSE LET i == CHOOSE i \in 1..Len(line[b]) : line[b][i].user = u
         IN  /\ line' = [line EXCEPT ![b] = SubSeq(@, 1, i - 1)
                                            \o SubSeq(@, i + 1, Len(@))]
             /\ notices' = notices \cup {b}
             /\ UNCHANGED <<used, offered, flagged, loaned>>

\* loan.sync: a copy that is back is offered to the first in line.
Promoted(b) == IF line[b] # <<>> /\ ~loaned[b]
               THEN offered \cup {Head(line[b])} ELSE offered

----------------------------------------------------------------------------
(* Control of a request *)

Goto(w, p) ==
    /\ pc' = [pc EXCEPT ![w] = p]
    /\ UNCHANGED <<req, todo>>

Stop(w) ==
    /\ pc' = [pc EXCEPT ![w] = "idle"]
    /\ req' = [req EXCEPT ![w] = NoRequest]
    /\ todo' = [todo EXCEPT ![w] = {}]

NextBook(w) ==
    /\ pc' = [pc EXCEPT ![w] = "next"]
    /\ req' = [req EXCEPT ![w] = [NoRequest EXCEPT !.op = "cron"]]
    /\ UNCHANGED todo

\* on_waitinglist_update returns: the cron job goes on to its next book.
Finish(w) == IF req[w].op = "cron" THEN NextBook(w) ELSE Stop(w)

\* Mutant: the cron job dies of the first exception.
Raise_Everywhere(w) == Stop(w)

\* An exception ends a request; update_all_waitinglists logs it and goes on.
Raise(w) == Finish(w)

Start(w, op, u, b, p) ==
    /\ pc[w] = "idle"
    /\ op \in Operations
    /\ pc' = [pc EXCEPT ![w] = p]
    /\ req' = [req EXCEPT ![w] = [op |-> op, book |-> b, user |-> u,
                                  record |-> NoWait]]

----------------------------------------------------------------------------
(* join_waitinglist and leave_waitinglist *)

StartJoin(w) == \E u \in Patrons, b \in Books :
    /\ Start(w, "join", u, b, "join")
    /\ UNCHANGED <<ia, ol, todo>>

Join(w) ==
    /\ pc[w] = "join"
    /\ Enter(req[w].user, req[w].book)
    /\ Goto(w, "sync")
    /\ UNCHANGED ol

StartLeave(w) == \E u \in Patrons, b \in Books :
    /\ Start(w, "leave", u, b, "find")
    /\ UNCHANGED <<ia, ol, todo>>

\* WaitingLoan.find
FindWait(w) ==
    /\ pc[w] = "find"
    /\ IF StaysOf(req[w].user, req[w].book) = {} THEN Stop(w) ELSE Goto(w, "leave")
    /\ UNCHANGED <<ia, ol>>

Leave(w) ==
    /\ pc[w] = "leave"
    /\ Depart(req[w].user, req[w].book)
    /\ Goto(w, "sync")
    /\ UNCHANGED ol

----------------------------------------------------------------------------
(* The other callers *)

\* ia_borrow_notify.POST: sync_loan (module Lending), here for wl_size only,
\* then on_waitinglist_update.
StartNotify(w) == \E b \in notices :
    /\ Start(w, "notify", AnyWaiter, b, "ebook")
    /\ notices' = notices \ {b}
    /\ UNCHANGED <<line, used, offered, flagged, loaned, ol, todo>>

\* Mutant: the size is the position of the last in line, counted from zero.
SyncEBook_OffByOne(w) ==
    /\ pc[w] = "ebook"
    /\ size' = [size EXCEPT ![req[w].book] = Len(line[req[w].book]) - 1]
    /\ Goto(w, "query")
    /\ UNCHANGED <<ia, mails, lost>>

SyncEBook(w) ==
    /\ pc[w] = "ebook"
    /\ size' = [size EXCEPT ![req[w].book] = Len(line[req[w].book])]
    /\ Goto(w, "query")
    /\ UNCHANGED <<ia, mails, lost>>

\* on_loan_update, on_loan_delete, and borrow_admin.POST: update_waitinglist
\* of a book that may be any.
StartEvent(w) == \E b \in Books :
    /\ Start(w, "event", AnyWaiter, b, "sync")
    /\ UNCHANGED <<ia, ol, todo>>

\* scripts/update-loans.py update-waitinglists: prune_expired_waitingloans
\* returns at once, then update_all_waitinglists lists the books.
StartCron(w) ==
    /\ w \in Crons
    /\ Start(w, "cron", AnyWaiter, AnyBook, "next")
    /\ todo' = [todo EXCEPT ![w] = {b \in Books : line[b] # <<>>}]
    /\ UNCHANGED <<ia, ol>>

CronNext(w) ==
    /\ pc[w] = "next"
    /\ IF todo[w] = {}
       THEN Stop(w)
       ELSE \E b \in todo[w] :
              /\ todo' = [todo EXCEPT ![w] = @ \ {b}]
              /\ req' = [req EXCEPT ![w].book = b]
              /\ pc' = [pc EXCEPT ![w] = "sync"]
    /\ UNCHANGED <<ia, ol>>

----------------------------------------------------------------------------
(* update_waitinglist and on_waitinglist_update *)

\* loan.sync
RequestSync(w) ==
    /\ pc[w] = "sync"
    /\ offered' = Promoted(req[w].book)
    /\ Goto(w, "query")
    /\ UNCHANGED <<line, used, flagged, loaned, notices, ol>>

QueryList(w) ==
    /\ pc[w] = "query"
    /\ IF line[req[w].book] = <<>> THEN Finish(w) ELSE Goto(w, "loaned")
    /\ UNCHANGED <<ia, ol>>

\* lending.is_loaned_out
CheckLoaned(w) ==
    /\ pc[w] = "loaned"
    /\ IF loaned[req[w].book] THEN Finish(w) ELSE Goto(w, "head")
    /\ UNCHANGED <<ia, ol>>

\* Mutants: the flag is not looked at, or the status is not.
ToBeMailed_Again(r) == r \in offered
ToBeMailed_Anyhow(r) == r \notin flagged

ToBeMailed(r) == r \in offered /\ r \notin flagged

\* sendmail_book_available reads the list again.  A first in line without an
\* account makes record.get_user raise.
ReadHead(w) ==
    LET q == line[req[w].book]
    IN  /\ pc[w] = "head"
        /\ IF q = <<>> \/ ~ToBeMailed(Head(q))
           THEN Finish(w)
           ELSE IF Head(q).user \in Patrons
                THEN /\ pc' = [pc EXCEPT ![w] = "send"]
                     /\ req' = [req EXCEPT ![w].record = Head(q)]
                     /\ UNCHANGED todo
                ELSE Raise(w)
        /\ UNCHANGED <<ia, ol>>

\* Counters stop at MaxMails.
OneMore(n) == IF n < MaxMails THEN n + 1 ELSE n

\* Mutant: a mail that cannot be sent is passed over.
SendMail_Quietly(w) ==
    LET r == req[w].record
    IN  /\ pc[w] = "send"
        /\ mails' \in {mails, [mails EXCEPT ![r] = OneMore(@)]}
        /\ Goto(w, "flag")
        /\ UNCHANGED <<ia, size, lost>>

SendMail(w) ==
    LET r == req[w].record
    IN  /\ pc[w] = "send"
        /\ mails' = [mails EXCEPT ![r] = OneMore(@)]
        /\ Goto(w, "flag")
        /\ UNCHANGED <<ia, size, lost>>

\* waitinglist.update names the book and the user.
Marked(r) == StaysOf(r.user, r.book)

\* record.update(available_email_sent=True)
MarkMailed(w) ==
    /\ pc[w] = "flag"
    /\ flagged' = flagged \cup Marked(req[w].record)
    /\ Finish(w)
    /\ UNCHANGED <<line, used, offered, loaned, notices, ol>>

\* A call raises, or the process ends.
Fail(w) ==
    /\ Failures
    /\ pc[w] # "idle"
    /\ lost' = IF pc[w] = "flag" THEN [lost EXCEPT ![req[w].record] = OneMore(@)]
                                 ELSE lost
    /\ Raise(w) \/ Stop(w)
    /\ UNCHANGED <<ia, size, mails>>

----------------------------------------------------------------------------
(* archive.org by itself *)

Promote == \E b \in Books :
    /\ offered' = Promoted(b)
    /\ offered' # offered
    /\ UNCHANGED <<line, used, flagged, loaned, notices, ol, local>>

\* The first in line, and nobody else, gets an offered copy, or lets the
\* offer expire.
TakeOffer == \E b \in Books :
    /\ line[b] # <<>>
    /\ Head(line[b]) \in offered
    /\ line' = [line EXCEPT ![b] = Tail(@)]
    /\ loaned' = [loaned EXCEPT ![b] = TRUE]
    /\ notices' = notices \cup {b}
    /\ UNCHANGED <<used, offered, flagged, ol, local>>

ExpireOffer == \E b \in Books :
    /\ line[b] # <<>>
    /\ Head(line[b]) \in offered
    /\ line' = [line EXCEPT ![b] = Tail(@)]
    /\ notices' = notices \cup {b}
    /\ UNCHANGED <<used, offered, flagged, loaned, ol, local>>

Lend == \E b \in Books :
    /\ line[b] = <<>> /\ ~loaned[b]
    /\ loaned' = [loaned EXCEPT ![b] = TRUE]
    /\ notices' = notices \cup {b}
    /\ UNCHANGED <<line, used, offered, flagged, ol, local>>

GiveBack == \E b \in Books :
    /\ loaned[b]
    /\ loaned' = [loaned EXCEPT ![b] = FALSE]
    /\ notices' = notices \cup {b}
    /\ UNCHANGED <<line, used, offered, flagged, ol, local>>

JoinElsewhere == \E u \in Elsewhere, b \in Books :
    /\ Enter(u, b)
    /\ line' # line
    /\ UNCHANGED <<ol, local>>

LeaveElsewhere == \E u \in Elsewhere, b \in Books :
    /\ Depart(u, b)
    /\ line' # line
    /\ UNCHANGED <<ol, local>>

LoseNotice == \E b \in notices :
    /\ Failures
    /\ notices' = notices \ {b}
    /\ UNCHANGED <<line, used, offered, flagged, loaned, ol, local>>

----------------------------------------------------------------------------
Init ==
    /\ line = [b \in Books |-> <<>>]
    /\ used = {} /\ offered = {} /\ flagged = {}
    /\ loaned = [b \in Books |-> FALSE]
    /\ notices = {}
    /\ size = [b \in Books |-> 0]
    /\ mails = [r \in Wait |-> 0]
    /\ lost = [r \in Wait |-> 0]
    /\ pc = [w \in Workers |-> "idle"]
    /\ req = [w \in Workers |-> NoRequest]
    /\ todo = [w \in Workers |-> {}]

Begin(w) == StartJoin(w) \/ StartLeave(w) \/ StartNotify(w) \/ StartEvent(w)

\* What a request does once it has begun.
Step(w) == Join(w) \/ FindWait(w) \/ Leave(w) \/ SyncEBook(w) \/ CronNext(w)
           \/ RequestSync(w) \/ QueryList(w) \/ CheckLoaned(w) \/ ReadHead(w)
           \/ SendMail(w) \/ MarkMailed(w)

ArchiveOrg == Promote \/ TakeOffer \/ ExpireOffer \/ Lend \/ GiveBack
              \/ JoinElsewhere \/ LeaveElsewhere \/ LoseNotice

Next ==
    \/ \E w \in Workers : Begin(w) \/ StartCron(w) \/ Step(w) \/ Fail(w)
    \/ ArchiveOrg

Spec == Init /\ [][Next]_vars

\* Requests go on once begun, and cron starts its job again and again.
FairSpec == /\ Spec
            /\ \A w \in Workers : WF_vars(Step(w))
            /\ \A w \in Crons : WF_vars(StartCron(w))

----------------------------------------------------------------------------
(* Properties *)

\* on_waitinglist_update: requests that look at the list at the same time may
\* all mail the first in line, but no more mails are sent than there are such
\* requests: the mark made after the first mail stops all later ones, and only
\* a request that dies before it made its mark lets one more mail through.
MailsAreBounded ==
    \A r \in Wait : mails[r] <= Cardinality(Workers) + lost[r]

\* sendmail_book_available: nobody is told that a book is available before it
\* was offered to them, however stale the list that was read.
MailedWereOffered == \A r \in Wait : mails[r] > 0 => r \in offered

\* Only those who were mailed about a book are marked as mailed on its list,
\* even when the mark is made late and reaches a later stay of the patron
\* (record.update names the book and the user, not the stay).
MarkedPatronsWereMailed ==
    \A r \in flagged : \E n \in 1..r.n : mails[[r EXCEPT !.n = n]] > 0

\* sendmail_book_available and update_all_waitinglists: a patron who is
\* first in line for a copy that is back is marked as mailed,
\* unless the stay ends: cron gets to every book, although the list of
\* another book may raise.
FirstInLineIsMarked ==
    \A r \in Wait :
        (r.user \in Patrons /\ r \in offered /\ r \in InLine(r.book))
            ~> (r \in flagged \/ r \notin InLine(r.book))

=============================================================================
