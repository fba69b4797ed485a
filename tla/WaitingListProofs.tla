------------------------- MODULE WaitingListProofs -------------------------
(***************************************************************************)
(* Theorems about WaitingList, for any books, waiters, workers and bounds: *)
(* type correctness; that only stays that were offered a copy are mailed   *)
(* and only the mailed are marked; and how many mails a stay may get from  *)
(* requests that look at the list at the same time.                        *)
(***************************************************************************)
EXTENDS WaitingList, FiniteSetTheorems, WellFoundedInduction, TLAPS

----------------------------------------------------------------------------
(* The inductive invariant: archive.org's side *)

\* The stays of a user at a book are numbered without gaps, and the one in line
\* is the newest: a late mark that names the user reaches no earlier stay.
Ledger ==
    /\ line \in [Books -> Seq(Wait)]
    /\ used \subseteq Wait /\ offered \subseteq used
    /\ loaned \in [Books -> BOOLEAN] /\ notices \subseteq Books
    /\ \A r \in used : \A m \in 1..r.n : [book |-> r.book, user |-> r.user, n |-> m] \in used
    /\ \A b \in Books : \A r \in InLine(b) :
          /\ r.book = b /\ r \in used
          /\ \A s \in used : s.book = r.book /\ s.user = r.user => s.n <= r.n

\* What no step undoes: a stay that is over does not begin again.
Onward ==
    /\ used \subseteq used' /\ offered \subseteq offered'
    /\ \A b \in Books : InLine(b)' \subseteq InLine(b) \cup (Wait \ used)

----------------------------------------------------------------------------
(* Sequences and numbers *)

LEMMA LeastNumber ==
    ASSUME NEW S, S \subseteq Nat, S # {} PROVE \E x \in S : \A y \in S : x <= y
<1>1. PICK x \in S : \A y \in S : ~(<<y, x>> \in OpToRel(<, Nat))
  BY NatLessThanWellFounded, WFMin
<1>2. ASSUME NEW y \in S PROVE x <= y
  <2>1. <<y, x>> \in Nat \X Nat /\ <<y, x>>[1] = y /\ <<y, x>>[2] = x
    OBVIOUS
  <2>2. y < x => <<y, x>> \in OpToRel(<, Nat)
    BY <2>1 DEF OpToRel
  <2>3. ~(y < x)
    BY <1>1, <2>2
  <2>4. x \in Nat /\ y \in Nat
    OBVIOUS
  <2>5. QED
    BY <2>3, <2>4
<1>3. QED
  BY <1>2

\* An entry that is taken out of the middle leaves the others in line.
LEMMA CutOut ==
    ASSUME NEW S, NEW q \in Seq(S), NEW i \in 1..Len(q)
    PROVE  LET p == SubSeq(q, 1, i - 1) \o SubSeq(q, i + 1, Len(q))
           IN  p \in Seq(S) /\ \A j \in 1..Len(p) : \E k \in 1..Len(q) : p[j] = q[k]
<1> DEFINE a == SubSeq(q, 1, i - 1)
           z == SubSeq(q, i + 1, Len(q))
<1>1. /\ a \in Seq(S) /\ Len(a) = i - 1
      /\ \A j \in 1..(i - 1) : a[j] = q[j]
  OBVIOUS
<1>2. /\ z \in Seq(S) /\ Len(z) = Len(q) - i
      /\ \A j \in 1..(Len(q) - i) : z[j] = q[i + j]
  <2>1. Len(q) \in Nat /\ i \in Nat /\ i + 1 \in Nat
    OBVIOUS
  <2>2. \A k \in (i + 1)..Len(q) : q[k] \in S
    OBVIOUS
  <2>3. z \in Seq(S) /\ Len(z) = Len(q) - i
    BY <2>1, <2>2
  <2>4. \A j \in 1..(Len(q) - i) : z[j] = q[i + j]
    BY <2>1, <2>3
  <2>5. QED
    BY <2>3, <2>4
<1> HIDE DEF a, z
<1>3. a \o z \in Seq(S) /\ Len(a \o z) = Len(q) - 1
  <2>1. a \in Seq(S) /\ z \in Seq(S) /\ Len(a) + Len(z) = Len(q) - 1
    BY <1>1, <1>2
  <2>2. a \o z \in Seq(S) /\ Len(a \o z) = Len(a) + Len(z)
    BY <2>1
  <2>3. QED
    BY <2>1, <2>2
<1>4. ASSUME NEW j \in 1..Len(a \o z) PROVE \E k \in 1..Len(q) : (a \o z)[j] = q[k]
  <2>1. CASE j <= i - 1
    <3>1. (a \o z)[j] = a[j] /\ a[j] = q[j] /\ j \in 1..Len(q)
      BY <1>1, <1>2, <1>3, <2>1
    <3>2. QED
      BY <3>1
  <2>2. CASE ~(j <= i - 1)
    <3>1. (a \o z)[j] = z[j - (i - 1)]
      BY <1>1, <1>2, <1>3, <2>2
    <3>2. z[j - (i - 1)] = q[j + 1] /\ j + 1 \in 1..Len(q)
      BY <1>2, <1>3, <2>2
    <3>3. QED
      BY <3>1, <3>2
  <2>3. QED
    BY <2>1, <2>2
<1>5. QED
  BY <1>3, <1>4 DEF a, z

----------------------------------------------------------------------------
(* archive.org's operations *)

\* Who leaves, or gets or misses a copy, is no longer in line.
LEMMA ShorterLine ==
    ASSUME Ledger, NEW b \in Books, NEW q \in Seq(Wait), line' = [line EXCEPT ![b] = q],
           \A j \in 1..Len(q) : \E k \in 1..Len(line[b]) : q[j] = line[b][k],
           UNCHANGED <<used, offered>>, notices' \subseteq Books, loaned' \in [Books -> BOOLEAN]
    PROVE  Ledger' /\ Onward
<1>1. line \in [Books -> Seq(Wait)] /\ line' \in [Books -> Seq(Wait)]
      /\ line'[b] = q /\ \A c \in Books \ {b} : line'[c] = line[c]
  BY DEF Ledger
<1>2. \A c \in Books : InLine(c)' \subseteq InLine(c)
  BY <1>1 DEF InLine
<1>3. QED
  BY <1>1, <1>2 DEF Ledger, Onward

\* A new stay gets a number above those there have been.
LEMMA EnterLedger ==
    ASSUME Ledger, NEW u \in Waiters, NEW b \in Books, Enter(u, b) PROVE Ledger' /\ Onward
<1> DEFINE stay(n) == [book |-> b, user |-> u, n |-> n]
           new == {n \in 1..Rejoins : stay(n) \notin used}
<1>1. CASE UNCHANGED ia
  BY <1>1 DEF Ledger, Onward, InLine, ia
<1>2. CASE StaysOf(u, b) = {} /\ new # {}
  <2> DEFINE Least(n) == stay(n) \notin used /\ \A m \in 1..(n - 1) : stay(m) \in used
  <2>1. \E n \in 1..Rejoins : Least(n)
    <3>1. PICK n \in new : \A m \in new : n <= m
      <4>1. new \subseteq Nat
        BY WaitingListAssumption
      <4>2. QED
        BY <1>2, <4>1, LeastNumber
    <3>2. \A m \in 1..(n - 1) : m \in 1..Rejoins /\ ~(n <= m)
      BY WaitingListAssumption
    <3>3. \A m \in 1..(n - 1) : stay(m) \in used
      BY <3>1, <3>2
    <3>4. QED
      BY <3>3
  <2>2. PICK n : n \in 1..Rejoins /\ Least(n) /\ used' = used \cup {stay(n)}
                 /\ line' = [line EXCEPT ![b] = Append(@, stay(n))]
    <3> DEFINE n == CHOOSE n \in 1..Rejoins : Least(n)
    <3>1. n \in 1..Rejoins /\ Least(n)
      BY <2>1
    <3>2. used' = used \cup {stay(n)} /\ line' = [line EXCEPT ![b] = Append(@, stay(n))]
      BY <1>2 DEF Enter
    <3>3. QED
      BY <3>1, <3>2
  <2>3. UNCHANGED <<offered, loaned>> /\ notices' = notices \cup {b}
    BY <1>2 DEF Enter
  <2>4. stay(n) \in Wait /\ stay(n) \notin used /\ n \in Nat
    BY <2>2, WaitingListAssumption DEF Wait
  <2>5. /\ line' \in [Books -> Seq(Wait)]
        /\ InLine(b)' = InLine(b) \cup {stay(n)}
        /\ \A c \in Books \ {b} : InLine(c)' = InLine(c)
    <3>1. line \in [Books -> Seq(Wait)] /\ line[b] \in Seq(Wait)
      BY DEF Ledger
    <3>2. Append(line[b], stay(n)) \in Seq(Wait)
          /\ Len(Append(line[b], stay(n))) = Len(line[b]) + 1
          /\ Append(line[b], stay(n))[Len(line[b]) + 1] = stay(n)
          /\ \A i \in 1..Len(line[b]) : Append(line[b], stay(n))[i] = line[b][i]
      BY <3>1, <2>4
    <3>3. line'[b] = Append(line[b], stay(n)) /\ \A c \in Books \ {b} : line'[c] = line[c]
      BY <3>1, <2>2
    <3>4. Len(line[b]) \in Nat
      BY <3>1
    <3>5. QED
      BY <2>2, <3>1, <3>2, <3>3, <3>4 DEF InLine
  <2>6. \A s \in used : s.book = b /\ s.user = u => s.n < n
    <3>1. ASSUME NEW s \in used, s.book = b, s.user = u, n <= s.n PROVE FALSE
      <4>1. s.n \in Nat /\ n \in 1..s.n
        BY <2>2, <3>1, WaitingListAssumption DEF Ledger, Wait
      <4>2. stay(n) \in used
        BY <3>1, <4>1 DEF Ledger
      <4>3. QED
        BY <2>4, <4>2
    <3>2. \A s \in used : s.n \in Nat
      BY WaitingListAssumption DEF Ledger, Wait
    <3>3. QED
      BY <2>4, <3>1, <3>2
  <2>7. \A r \in used' : \A m \in 1..r.n : [book |-> r.book, user |-> r.user, n |-> m] \in used'
    <3>1. \A m \in 1..n : m = n \/ m \in 1..(n - 1)
      BY <2>4
    <3>2. stay(n).n = n /\ stay(n).book = b /\ stay(n).user = u
      OBVIOUS
    <3>3. \A m \in 1..n : stay(m) \in used'
      BY <2>2, <3>1
    <3>4. QED
      BY <2>2, <3>2, <3>3 DEF Ledger
  <2>8. \A c \in Books : \A r \in InLine(c)' :
           /\ r.book = c /\ r \in used'
           /\ \A s \in used' : s.book = r.book /\ s.user = r.user => s.n <= r.n
    <3>1. ASSUME NEW c \in Books, NEW r \in InLine(c)
          PROVE  /\ r.book = c /\ r \in used'
                 /\ \A s \in used' : s.book = r.book /\ s.user = r.user => s.n <= r.n
      <4>1. r.book = c /\ r \in used /\ \A s \in used : s.book = r.book /\ s.user = r.user => s.n <= r.n
        BY DEF Ledger
      <4>2. ~(r.book = b /\ r.user = u)
        BY <1>2, <4>1 DEF StaysOf
      <4>3. stay(n).book = b /\ stay(n).user = u
        OBVIOUS
      <4>4. QED
        BY <2>2, <4>1, <4>2, <4>3
    <3>2. /\ stay(n).book = b /\ stay(n) \in used'
          /\ \A s \in used' : s.book = stay(n).book /\ s.user = stay(n).user => s.n <= stay(n).n
      <4>1. stay(n).book = b /\ stay(n).user = u /\ stay(n).n = n
        OBVIOUS
      <4>2. \A s \in used : s.n \in Nat
        BY WaitingListAssumption DEF Ledger, Wait
      <4>3. QED
        BY <2>2, <2>4, <2>6, <4>1, <4>2
    <3>3. QED
      BY <2>5, <3>1, <3>2
  <2>9. QED
    BY <2>2, <2>3, <2>4, <2>5, <2>7, <2>8 DEF Ledger, Onward
<1>3. QED
  BY <1>1, <1>2 DEF Enter

LEMMA DepartLedger ==
    ASSUME Ledger, NEW u \in Waiters, NEW b \in Books, Depart(u, b) PROVE Ledger' /\ Onward
<1>1. CASE UNCHANGED ia
  BY <1>1 DEF Ledger, Onward, InLine, ia
<1>2. CASE StaysOf(u, b) # {}
  <2> DEFINE i == CHOOSE i \in 1..Len(line[b]) : line[b][i].user = u
             q == SubSeq(line[b], 1, i - 1) \o SubSeq(line[b], i + 1, Len(line[b]))
  <2>1. \E k \in 1..Len(line[b]) : line[b][k].user = u
    BY <1>2 DEF StaysOf, InLine
  <2>2. i \in 1..Len(line[b])
    BY <2>1
  <2>3. line[b] \in Seq(Wait)
    BY DEF Ledger
  <2>4. line' = [line EXCEPT ![b] = q] /\ notices' = notices \cup {b}
        /\ UNCHANGED <<used, offered, loaned>>
    BY <1>2 DEF Depart
  <2> HIDE DEF i
  <2>5. q \in Seq(Wait) /\ \A j \in 1..Len(q) : \E k \in 1..Len(line[b]) : q[j] = line[b][k]
    BY <2>2, <2>3, CutOut
  <2> HIDE DEF q
  <2>6. notices' \subseteq Books /\ loaned' \in [Books -> BOOLEAN]
    BY <2>4 DEF Ledger
  <2>7. QED
    BY <2>4, <2>5, <2>6, ShorterLine
<1>3. QED
  BY <1>1, <1>2 DEF Depart

\* A copy is offered to the first in line only.
LEMMA PromotedLedger ==
    ASSUME Ledger, NEW b \in Books, offered' = Promoted(b), UNCHANGED <<line, used, loaned, notices>>
    PROVE  Ledger' /\ Onward
<1>1. offered \subseteq offered' /\ offered' \subseteq used
  <2>1. line[b] # <<>> => Head(line[b]) \in InLine(b)
    <3>1. line[b] \in Seq(Wait)
      BY DEF Ledger
    <3>2. line[b] # <<>> => Head(line[b]) = line[b][1] /\ 1 \in 1..Len(line[b])
      BY <3>1
    <3>3. QED
      BY <3>2 DEF InLine
  <2>2. QED
    BY <2>1 DEF Ledger, Promoted
<1>2. QED
  BY <1>1 DEF Ledger, Onward, InLine

\* The first in line gets the copy, or misses it.
LEMMA TailLedger ==
    ASSUME Ledger, NEW b \in Books, line[b] # <<>>, line' = [line EXCEPT ![b] = Tail(@)],
           UNCHANGED <<used, offered>>, notices' = notices \cup {b},
           loaned' \in {loaned, [loaned EXCEPT ![b] = TRUE]}
    PROVE  Ledger' /\ Onward
<1>1. line[b] \in Seq(Wait)
  BY DEF Ledger
<1>2. /\ Tail(line[b]) \in Seq(Wait) /\ Len(Tail(line[b])) = Len(line[b]) - 1
      /\ \A j \in 1..Len(Tail(line[b])) : j + 1 \in 1..Len(line[b]) /\ Tail(line[b])[j] = line[b][j + 1]
  BY <1>1
<1>3. notices' \subseteq Books /\ loaned' \in [Books -> BOOLEAN]
  BY DEF Ledger
<1>4. \A j \in 1..Len(Tail(line[b])) : \E k \in 1..Len(line[b]) : Tail(line[b])[j] = line[b][k]
  BY <1>2
<1>5. QED
  BY <1>2, <1>3, <1>4, ShorterLine

\* Everything else leaves the lines alone.
LEMMA SameLines ==
    ASSUME Ledger, UNCHANGED <<line, used, offered>>,
           notices' \subseteq Books, loaned' \in [Books -> BOOLEAN]
    PROVE  Ledger' /\ Onward
BY DEF Ledger, Onward, InLine

LEMMA ArchiveOrgLedger == ASSUME Ledger, ArchiveOrg PROVE Ledger' /\ Onward
<1>1. CASE Promote
  BY <1>1, PromotedLedger DEF Promote
<1>2. CASE TakeOffer
  BY <1>2, TailLedger DEF TakeOffer
<1>3. CASE ExpireOffer
  BY <1>3, TailLedger DEF ExpireOffer
<1>4. CASE Lend \/ GiveBack
  <2>1. UNCHANGED <<line, used, offered>> /\ notices' \subseteq Books /\ loaned' \in [Books -> BOOLEAN]
    BY <1>4 DEF Lend, GiveBack, Ledger
  <2>2. QED
    BY <2>1, SameLines
<1>5. CASE LoseNotice
  <2>1. UNCHANGED <<line, used, offered, loaned>> /\ notices' \subseteq Books
    BY <1>5 DEF LoseNotice, Ledger
  <2>2. QED
    BY <2>1, SameLines DEF Ledger
<1>6. CASE JoinElsewhere
  BY <1>6, EnterLedger, WaitingListAssumption DEF JoinElsewhere
<1>7. CASE LeaveElsewhere
  BY <1>7, DepartLedger, WaitingListAssumption DEF LeaveElsewhere
<1>8. QED
  BY <1>1, <1>2, <1>3, <1>4, <1>5, <1>6, <1>7 DEF ArchiveOrg

----------------------------------------------------------------------------
(* The inductive invariant: requests and mails *)

\* A mail is under way only to somebody who was offered a copy, and a mark only
\* when the mail has been sent.
RequestsAgree ==
    \A w \in Workers :
        /\ pc[w] \in {"send", "flag"} => req[w].record \in offered
        /\ pc[w] = "flag" => mails[req[w].record] > 0

Mailing(r) == {w \in Workers : pc[w] = "send" /\ req[w].record = r}
Marking(r) == {w \in Workers : pc[w] = "flag" /\ req[w].record = r}

\* No more request will find this stay to be mailed.
Settled(r) == r \in used /\ (r \in flagged \/ r \notin InLine(r.book))

\* Until a stay is settled, each mail has a mark under way or lost; from then on
\* only requests that had read the list before can mail.
MailsAreAccounted ==
    \A r \in Wait :
        \/ mails[r] <= lost[r] + Cardinality(Marking(r))
        \/ Settled(r) /\ mails[r] + Cardinality(Mailing(r)) <= Cardinality(Workers) + lost[r]

WLInv ==
    /\ TypeOK /\ Ledger /\ RequestsAgree
    /\ MailedWereOffered /\ MarkedPatronsWereMailed /\ MailsAreAccounted

----------------------------------------------------------------------------
(* Counting requests *)

LEMMA CountTypes ==
    ASSUME NEW r
    PROVE  /\ IsFiniteSet(Mailing(r)) /\ IsFiniteSet(Marking(r))
           /\ Cardinality(Mailing(r)) \in Nat /\ Cardinality(Marking(r)) \in Nat
           /\ Cardinality(Workers) \in Nat
           /\ Cardinality(Mailing(r)) + Cardinality(Marking(r)) <= Cardinality(Workers)
<1>1. IsFiniteSet(Workers)
  BY WaitingListAssumption
<1>2. IsFiniteSet(Mailing(r)) /\ IsFiniteSet(Marking(r))
  BY <1>1, FS_Subset DEF Mailing, Marking
<1>3. Mailing(r) \cap Marking(r) = {} /\ Mailing(r) \cup Marking(r) \subseteq Workers
  BY DEF Mailing, Marking
<1>4. /\ Cardinality(Mailing(r)) \in Nat /\ Cardinality(Marking(r)) \in Nat
      /\ Cardinality(Workers) \in Nat
  BY <1>1, <1>2, FS_CardinalityType
<1>5. Cardinality(Mailing(r) \cup Marking(r)) = Cardinality(Mailing(r)) + Cardinality(Marking(r))
  <2>1. Cardinality(Mailing(r) \cap Marking(r)) = 0
    BY <1>3, FS_EmptySet
  <2>2. Cardinality(Mailing(r) \cup Marking(r))
            = Cardinality(Mailing(r)) + Cardinality(Marking(r)) - Cardinality(Mailing(r) \cap Marking(r))
    BY <1>2, FS_Union
  <2>3. QED
    BY <1>4, <2>1, <2>2
<1>6. Cardinality(Mailing(r) \cup Marking(r)) <= Cardinality(Workers)
  BY <1>1, <1>3, FS_Subset
<1>7. QED
  BY <1>2, <1>4, <1>5, <1>6

----------------------------------------------------------------------------
(* Control of a request *)

Controlled ==
    /\ pc \in [Workers -> Points] /\ req \in [Workers -> Request]
    /\ todo \in [Workers -> SUBSET Books]

\* A step of w leaves the other requests alone.
OnlyOf(w) == \A v \in Workers \ {w} : pc'[v] = pc[v] /\ req'[v] = req[v]

\* w is neither about to mail nor about to mark.
Elsewise(w) == pc[w] \notin {"send", "flag"}

LEMMA RequestTypes ==
    /\ NoRequest \in Request /\ [NoRequest EXCEPT !.op = "cron"] \in Request
    /\ AnyBook \in Books /\ AnyWaiter \in Waiters
<1>1. AnyBook \in Books /\ AnyWaiter \in Waiters
  BY WaitingListAssumption DEF AnyBook, AnyWaiter
<1>2. QED
  BY <1>1 DEF NoRequest, Request, AllOperations

LEMMA GotoControl ==
    ASSUME Controlled, NEW w \in Workers, NEW p \in Points, Goto(w, p)
    PROVE  Controlled' /\ OnlyOf(w) /\ pc'[w] = p /\ req' = req
BY DEF Controlled, Goto, OnlyOf

LEMMA StopControl ==
    ASSUME Controlled, NEW w \in Workers, Stop(w)
    PROVE  Controlled' /\ OnlyOf(w) /\ Elsewise(w)'
BY RequestTypes DEF Controlled, Stop, OnlyOf, Points, Elsewise

LEMMA FinishControl ==
    ASSUME Controlled, NEW w \in Workers, Finish(w)
    PROVE  Controlled' /\ OnlyOf(w) /\ Elsewise(w)'
<1>1. CASE NextBook(w)
  BY <1>1, RequestTypes DEF Controlled, NextBook, OnlyOf, Points, Elsewise
<1>2. QED
  BY <1>1, StopControl DEF Finish

LEMMA StartControl ==
    ASSUME Controlled, NEW w \in Workers, NEW op, NEW u \in Waiters, NEW b \in Books,
           NEW p \in Points, p \notin {"send", "flag"}, Start(w, op, u, b, p),
           todo' \in [Workers -> SUBSET Books]
    PROVE  Controlled' /\ OnlyOf(w) /\ Elsewise(w) /\ Elsewise(w)'
<1>1. [op |-> op, book |-> b, user |-> u, record |-> NoWait] \in Request
  BY WaitingListAssumption DEF Start, Request
<1>2. QED
  BY <1>1 DEF Controlled, Start, OnlyOf, Elsewise

LEMMA RequestUsers ==
    ASSUME Controlled, NEW w \in Workers
    PROVE  req[w].user \in Waiters /\ req[w].book \in Books /\ req[w].record \in Wait \cup {NoWait}
BY DEF Controlled, Request

----------------------------------------------------------------------------
(* Steps that neither mail nor mark *)

Quiet(w) ==
    /\ Controlled' /\ OnlyOf(w) /\ Elsewise(w) /\ Elsewise(w)'
    /\ UNCHANGED <<mails, lost, flagged>> /\ size' \in [Books -> Nat]
    /\ Ledger' /\ Onward

LEMMA BeginQuiet == ASSUME WLInv, NEW w \in Workers, Begin(w) \/ StartCron(w) PROVE Quiet(w)
<1>1. Controlled /\ Ledger /\ size \in [Books -> Nat] /\ todo \in [Workers -> SUBSET Books]
  BY DEF WLInv, TypeOK, Controlled
<1>2. {"join", "find", "ebook", "sync", "next"} \subseteq Points
  BY DEF Points
<1>3. CASE StartJoin(w) \/ StartLeave(w) \/ StartEvent(w)
  <2>1. UNCHANGED <<ia, ol, todo>>
    BY <1>3 DEF StartJoin, StartLeave, StartEvent
  <2>2. PICK op \in AllOperations, u \in Waiters, b \in Books, p \in {"join", "find", "sync"} : Start(w, op, u, b, p)
    BY <1>3, RequestTypes DEF StartJoin, StartLeave, StartEvent, Waiters, AllOperations
  <2>3. Controlled' /\ OnlyOf(w) /\ Elsewise(w) /\ Elsewise(w)'
    <3>1. p \in Points /\ p \notin {"send", "flag"}
      BY <1>2
    <3>2. todo' \in [Workers -> SUBSET Books]
      BY <1>1, <2>1
    <3>3. QED
      BY <1>1, <2>2, <3>1, <3>2, StartControl
  <2>4. Ledger' /\ Onward
    BY <1>1, <2>1, SameLines DEF Ledger, ia
  <2>5. QED
    BY <1>1, <2>1, <2>3, <2>4 DEF Quiet, ia, ol
<1>4. CASE StartNotify(w)
  <2>1. PICK b \in notices : Start(w, "notify", AnyWaiter, b, "ebook")
                             /\ notices' = notices \ {b}
                             /\ UNCHANGED <<line, used, offered, flagged, loaned, ol, todo>>
    BY <1>4 DEF StartNotify
  <2>2. b \in Books
    BY <1>1 DEF Ledger
  <2>3. Controlled' /\ OnlyOf(w) /\ Elsewise(w) /\ Elsewise(w)'
    BY <1>1, <1>2, <2>1, <2>2, RequestTypes, StartControl
  <2>4. Ledger' /\ Onward
    <3>1. notices' \subseteq Books /\ loaned' \in [Books -> BOOLEAN]
      BY <1>1, <2>1 DEF Ledger
    <3>2. QED
      BY <1>1, <2>1, <3>1, SameLines
  <2>5. QED
    BY <1>1, <2>1, <2>3, <2>4 DEF Quiet, ol
<1>5. CASE StartCron(w)
  <2>1. /\ Start(w, "cron", AnyWaiter, AnyBook, "next") /\ UNCHANGED <<ia, ol>>
        /\ todo' = [todo EXCEPT ![w] = {b \in Books : line[b] # <<>>}]
    BY <1>5 DEF StartCron
  <2>2. todo' \in [Workers -> SUBSET Books]
    BY <1>1, <2>1
  <2>3. Controlled' /\ OnlyOf(w) /\ Elsewise(w) /\ Elsewise(w)'
    BY <1>1, <1>2, <2>1, <2>2, RequestTypes, StartControl
  <2>4. Ledger' /\ Onward
    BY <1>1, <2>1, SameLines DEF Ledger, ia
  <2>5. QED
    BY <1>1, <2>1, <2>3, <2>4 DEF Quiet, ia, ol
<1>6. QED
  BY <1>3, <1>4, <1>5 DEF Begin

\* archive.org has joined, left or synced; here only the control changes.
LEMMA CallQuiet == ASSUME WLInv, NEW w \in Workers, Join(w) \/ Leave(w) \/ RequestSync(w) PROVE Quiet(w)
<1>1. Controlled /\ Ledger /\ size \in [Books -> Nat] /\ req[w].user \in Waiters /\ req[w].book \in Books
  BY RequestUsers DEF WLInv, TypeOK, Controlled
<1>2. "sync" \in Points /\ "query" \in Points
  BY DEF Points
<1>3. PICK p \in {"sync", "query"} : Goto(w, p) /\ Elsewise(w) /\ UNCHANGED ol
  BY DEF Join, Leave, RequestSync, Elsewise
<1>4. Controlled' /\ OnlyOf(w) /\ pc'[w] = p
  BY <1>1, <1>2, <1>3, GotoControl
<1>5. Ledger' /\ Onward /\ flagged' = flagged
  <2>1. CASE Join(w)
    BY <1>1, <2>1, EnterLedger DEF Join, Enter, ia
  <2>2. CASE Leave(w)
    BY <1>1, <2>2, DepartLedger DEF Leave, Depart, ia
  <2>3. CASE RequestSync(w)
    BY <1>1, <2>3, PromotedLedger DEF RequestSync
  <2>4. QED
    BY <2>1, <2>2, <2>3
<1>6. QED
  BY <1>1, <1>3, <1>4, <1>5 DEF Quiet, Elsewise, ol

LEMMA LookQuiet ==
    ASSUME WLInv, NEW w \in Workers,
           FindWait(w) \/ QueryList(w) \/ CheckLoaned(w) \/ SyncEBook(w) \/ CronNext(w)
    PROVE  Quiet(w)
<1>1. Controlled /\ Ledger /\ size \in [Books -> Nat] /\ req[w].book \in Books
  BY RequestUsers DEF WLInv, TypeOK, Controlled
<1>2. UNCHANGED <<ia, mails, lost>> /\ Elsewise(w)
  BY DEF FindWait, QueryList, CheckLoaned, SyncEBook, CronNext, Elsewise, ol
<1>3. Ledger' /\ Onward
  BY <1>1, <1>2, SameLines DEF Ledger, ia
<1>4. size' \in [Books -> Nat]
  <2>1. Len(line[req[w].book]) \in Nat
    BY <1>1 DEF Ledger
  <2>2. QED
    BY <1>1, <2>1 DEF FindWait, QueryList, CheckLoaned, SyncEBook, CronNext, ol
<1>5. Controlled' /\ OnlyOf(w) /\ Elsewise(w)'
  <2>1. CASE Stop(w) \/ Finish(w)
    BY <1>1, <2>1, StopControl, FinishControl
  <2>2. ASSUME NEW p \in {"leave", "loaned", "head", "query"}, Goto(w, p)
        PROVE  Controlled' /\ OnlyOf(w) /\ Elsewise(w)'
    <3>1. p \in Points /\ p \notin {"send", "flag"}
      BY DEF Points
    <3>2. QED
      BY <1>1, <2>2, <3>1, GotoControl DEF Elsewise
  <2>3. ASSUME NEW b \in todo[w], todo' = [todo EXCEPT ![w] = @ \ {b}],
               req' = [req EXCEPT ![w].book = b], pc' = [pc EXCEPT ![w] = "sync"]
        PROVE  Controlled' /\ OnlyOf(w) /\ Elsewise(w)'
    <3>1. b \in Books /\ "sync" \in Points
      BY <1>1 DEF Controlled, Points
    <3>2. QED
      BY <1>1, <2>3, <3>1 DEF Controlled, OnlyOf, Elsewise, Request
  <2>4. QED
    BY <2>1, <2>2, <2>3 DEF FindWait, QueryList, CheckLoaned, SyncEBook, CronNext
<1>6. QED
  BY <1>2, <1>3, <1>4, <1>5 DEF Quiet, ia

----------------------------------------------------------------------------
(* Mails and marks *)

\* Who has left the line or is marked stays so.
LEMMA SettledStays ==
    ASSUME Ledger, Onward, flagged \subseteq flagged', NEW r \in Wait, Settled(r) PROVE Settled(r)'
<1>1. r.book \in Books
  BY DEF Wait
<1>2. QED
  BY <1>1 DEF Settled, Onward

\* A request that is elsewhere before and after is in neither set.
LEMMA SameSets ==
    ASSUME NEW w \in Workers, OnlyOf(w), Elsewise(w), Elsewise(w)', NEW r
    PROVE  Mailing(r)' = Mailing(r) /\ Marking(r)' = Marking(r)
BY DEF OnlyOf, Elsewise, Mailing, Marking

\* One that ends takes no other with it.
LEMMA SmallerSets ==
    ASSUME NEW w \in Workers, OnlyOf(w), Elsewise(w)', NEW r
    PROVE  /\ Mailing(r)' = Mailing(r) \ {w} /\ Marking(r)' = Marking(r) \ {w}
           /\ Cardinality(Mailing(r))' <= Cardinality(Mailing(r))
           /\ w \notin Marking(r) => Marking(r)' = Marking(r)
           /\ w \in Marking(r) => Cardinality(Marking(r))' = Cardinality(Marking(r)) - 1
<1>1. Mailing(r)' = Mailing(r) \ {w} /\ Marking(r)' = Marking(r) \ {w}
  BY DEF OnlyOf, Elsewise, Mailing, Marking
<1>2. Cardinality(Mailing(r) \ {w}) <= Cardinality(Mailing(r))
  BY CountTypes, FS_Subset
<1>3. w \in Marking(r) => Cardinality(Marking(r) \ {w}) = Cardinality(Marking(r)) - 1
  BY CountTypes, FS_RemoveElement
<1>4. QED
  BY <1>1, <1>2, <1>3

LEMMA SettledKnown ==
    ASSUME WLInv, NEW w \in Workers, pc[w] \in {"send", "flag"}
    PROVE  req[w].record \in Wait /\ req[w].record \in used /\ req[w].record \in offered
BY DEF WLInv, RequestsAgree, Ledger

LEMMA QuietInv == ASSUME WLInv, NEW w \in Workers, Quiet(w) PROVE WLInv'
<1> USE DEF Quiet
<1>1. TypeOK'
  <2>1. used' \subseteq Wait /\ flagged \subseteq used /\ flagged \subseteq used'
    BY DEF WLInv, TypeOK, Ledger, Onward
  <2>2. QED
    BY <2>1 DEF WLInv, TypeOK, Controlled, Ledger
<1>2. RequestsAgree'
  BY DEF WLInv, RequestsAgree, OnlyOf, Elsewise, Onward
<1>3. MailedWereOffered' /\ MarkedPatronsWereMailed'
  BY DEF WLInv, MailedWereOffered, MarkedPatronsWereMailed, Onward
<1>4. MailsAreAccounted'
  <2>1. \A r \in Wait : Settled(r) => Settled(r)'
    BY SettledStays DEF WLInv
  <2>2. \A r \in Wait : Mailing(r)' = Mailing(r) /\ Marking(r)' = Marking(r)
    BY SameSets
  <2>3. QED
    BY <2>1, <2>2 DEF WLInv, MailsAreAccounted
<1>5. QED
  BY <1>1, <1>2, <1>3, <1>4 DEF WLInv

\* archive.org by itself.
LEMMA ArchiveOrgInv == ASSUME WLInv, ArchiveOrg PROVE WLInv'
<1>1. Ledger' /\ Onward
  BY ArchiveOrgLedger DEF WLInv
<1>2. UNCHANGED <<size, mails, lost, pc, req, todo, flagged>>
  BY DEF ArchiveOrg, Promote, TakeOffer, ExpireOffer, Lend, GiveBack, JoinElsewhere, LeaveElsewhere,
         LoseNotice, ol, local, Enter, Depart, ia
<1>3. TypeOK'
  <2>1. flagged \subseteq used'
    BY <1>1 DEF WLInv, TypeOK, Onward
  <2>2. QED
    BY <1>1, <1>2, <2>1 DEF WLInv, TypeOK, Ledger
<1>4. RequestsAgree' /\ MailedWereOffered' /\ MarkedPatronsWereMailed'
  BY <1>1, <1>2 DEF WLInv, RequestsAgree, MailedWereOffered, MarkedPatronsWereMailed, Onward
<1>5. MailsAreAccounted'
  <2>1. \A r \in Wait : Settled(r) => Settled(r)'
    BY <1>1, <1>2, SettledStays DEF WLInv
  <2>2. \A r \in Wait : Mailing(r)' = Mailing(r) /\ Marking(r)' = Marking(r)
    BY <1>2 DEF Mailing, Marking
  <2>3. QED
    BY <1>2, <2>1, <2>2 DEF WLInv, MailsAreAccounted
<1>6. QED
  BY <1>1, <1>3, <1>4, <1>5 DEF WLInv

\* Types after a step that leaves archive.org's side alone.
LEMMA TypesKept ==
    ASSUME WLInv, Controlled', UNCHANGED <<line, used, offered, loaned, notices, size>>,
           flagged' \subseteq used,
           mails' \in [Wait -> 0..MaxMails], lost' \in [Wait -> 0..MaxMails]
    PROVE  TypeOK' /\ Ledger' /\ Onward
<1>1. Ledger' /\ Onward
  BY SameLines DEF WLInv, Ledger
<1>2. QED
  BY <1>1 DEF WLInv, TypeOK, Controlled

\* The first in line is found to be mailed: until now the stay was not settled.
LEMMA ReadHeadInv == ASSUME WLInv, NEW w \in Workers, ReadHead(w) PROVE WLInv'
<1> DEFINE q == line[req[w].book]
<1>1. Controlled /\ Ledger /\ size \in [Books -> Nat] /\ req[w].book \in Books
  BY RequestUsers DEF WLInv, TypeOK, Controlled
<1>2. UNCHANGED <<ia, ol>> /\ Elsewise(w) /\ pc[w] = "head"
  BY DEF ReadHead, Elsewise
<1>3. Ledger' /\ Onward
  BY <1>1, <1>2, SameLines DEF Ledger, ia
<1>4. CASE Finish(w)
  <2>1. Quiet(w)
    BY <1>1, <1>2, <1>3, <1>4, FinishControl DEF Quiet, ia, ol
  <2>2. QED
    BY <2>1, QuietInv
<1>5. CASE /\ q # <<>> /\ ToBeMailed(Head(q)) /\ pc' = [pc EXCEPT ![w] = "send"]
           /\ req' = [req EXCEPT ![w].record = Head(q)] /\ UNCHANGED todo
  <2>1. q \in Seq(Wait) /\ Head(q) \in Wait /\ Head(q) \in InLine(req[w].book)
    <3>1. q \in Seq(Wait)
      BY <1>1 DEF Ledger
    <3>2. Head(q) = q[1] /\ 1 \in 1..Len(q) /\ Head(q) \in Wait
      BY <1>5, <3>1
    <3>3. QED
      BY <3>1, <3>2 DEF InLine
  <2> DEFINE r == Head(q)
  <2> HIDE DEF q
  <2>2. r \in offered /\ r \notin flagged /\ r.book = req[w].book /\ ~Settled(r)
    BY <1>1, <1>5, <2>1 DEF ToBeMailed, Ledger, Settled
  <2>3. Controlled' /\ OnlyOf(w) /\ pc'[w] = "send" /\ req'[w].record = r
    <3>1. "send" \in Points
      BY DEF Points
    <3>2. [req[w] EXCEPT !.record = r] \in Request
      BY <1>1, <2>1 DEF Controlled, Request
    <3>3. req' = [req EXCEPT ![w] = [req[w] EXCEPT !.record = r]]
      BY <1>5
    <3>4. QED
      BY <1>1, <1>5, <3>1, <3>2, <3>3 DEF Controlled, OnlyOf, Request
  <2>4. TypeOK'
    BY <1>2, <2>3, TypesKept DEF WLInv, TypeOK, ia, ol
  <2>5. RequestsAgree'
    BY <1>2, <2>2, <2>3 DEF WLInv, RequestsAgree, OnlyOf, ia, ol
  <2>6. MailedWereOffered' /\ MarkedPatronsWereMailed'
    BY <1>2 DEF WLInv, MailedWereOffered, MarkedPatronsWereMailed, ia, ol
  <2>7. MailsAreAccounted'
    <3>1. \A s \in Wait : Marking(s)' = Marking(s)
      BY <1>2, <2>3 DEF Marking, OnlyOf
    <3>2. \A s \in Wait \ {r} : Mailing(s)' = Mailing(s)
      BY <1>2, <2>3 DEF Mailing, OnlyOf
    <3>3. \A s \in Wait : Settled(s) => Settled(s)'
      BY <1>2, <1>3, SettledStays DEF WLInv, ia
    <3>4. QED
      BY <1>2, <2>2, <3>1, <3>2, <3>3 DEF WLInv, MailsAreAccounted, ol
  <2>8. QED
    BY <1>3, <2>4, <2>5, <2>6, <2>7 DEF WLInv
<1>6. QED
  BY <1>4, <1>5 DEF ReadHead, Raise

\* The mail has a mark that is under way, or it was due before the stay settled.
LEMMA SendMailInv == ASSUME WLInv, NEW w \in Workers, SendMail(w) PROVE WLInv'
<1>0. PICK r : r = req[w].record
  OBVIOUS
<1>1. Controlled /\ Ledger /\ mails \in [Wait -> 0..MaxMails] /\ lost \in [Wait -> 0..MaxMails]
  BY DEF WLInv, TypeOK, Controlled
<1>2. /\ pc[w] = "send" /\ mails' = [mails EXCEPT ![r] = OneMore(mails[r])]
      /\ Goto(w, "flag") /\ UNCHANGED <<ia, size, lost>>
  BY <1>0 DEF SendMail
<1>3. r \in Wait /\ r \in used /\ r \in offered
  BY <1>0, <1>2, SettledKnown
<1>4. Controlled' /\ OnlyOf(w) /\ pc'[w] = "flag" /\ req' = req
  BY <1>1, <1>2, GotoControl DEF Points
<1>5. /\ mails[r] \in Nat /\ OneMore(mails[r]) \in 0..MaxMails /\ OneMore(mails[r]) > 0
      /\ OneMore(mails[r]) <= mails[r] + 1
  BY <1>1, <1>3, WaitingListAssumption DEF OneMore
<1>6. /\ mails' \in [Wait -> 0..MaxMails] /\ mails'[r] = OneMore(mails[r])
      /\ \A s \in Wait \ {r} : mails'[s] = mails[s]
  BY <1>1, <1>2, <1>3, <1>5
<1>7. TypeOK' /\ Ledger' /\ Onward
  BY <1>1, <1>2, <1>4, <1>6, TypesKept DEF WLInv, TypeOK, ia
<1>8. RequestsAgree'
  <2>1. ASSUME NEW v \in Workers, v # w
        PROVE  /\ pc'[v] \in {"send", "flag"} => req'[v].record \in offered'
               /\ pc'[v] = "flag" => mails'[req'[v].record] > 0
    <3>1. pc[v] = "flag" => req[v].record \in Wait
      BY SettledKnown
    <3>2. pc[v] = "flag" => mails'[req[v].record] > 0
      BY <1>5, <1>6, <3>1 DEF WLInv, RequestsAgree
    <3>3. QED
      BY <1>2, <1>4, <2>1, <3>2 DEF WLInv, RequestsAgree, OnlyOf, ia
  <2>2. req'[w].record \in offered' /\ mails'[req'[w].record] > 0
    BY <1>0, <1>2, <1>3, <1>4, <1>5, <1>6 DEF ia
  <2>3. QED
    BY <2>1, <2>2 DEF RequestsAgree
<1>9. MailedWereOffered'
  BY <1>2, <1>3, <1>6 DEF WLInv, MailedWereOffered, ia
<1>10. MarkedPatronsWereMailed'
  <2>1. ASSUME NEW s \in flagged PROVE \E n \in 1..s.n : mails'[[s EXCEPT !.n = n]] > 0
    <3>1. PICK n \in 1..s.n : mails[[s EXCEPT !.n = n]] > 0
      BY DEF WLInv, MarkedPatronsWereMailed
    <3>2. [s EXCEPT !.n = n] \in Wait
      <4>1. s \in Wait
        BY DEF WLInv, TypeOK
      <4>2. s.n \in 1..Rejoins /\ n \in 1..Rejoins
        BY <4>1, WaitingListAssumption DEF Wait
      <4>3. QED
        BY <4>1, <4>2 DEF Wait
    <3>3. QED
      BY <1>5, <1>6, <3>1, <3>2
  <2>2. QED
    BY <1>2, <2>1 DEF MarkedPatronsWereMailed, ia
<1>11. MailsAreAccounted'
  <2>1. \A s \in Wait : Settled(s) => Settled(s)'
    BY <1>2, <1>7, SettledStays DEF WLInv, ia
  <2>2. ASSUME NEW s \in Wait, s # r
        PROVE  Mailing(s)' = Mailing(s) /\ Marking(s)' = Marking(s)
    BY <1>0, <1>2, <1>4, <2>2 DEF Mailing, Marking, OnlyOf
  <2>3. /\ Mailing(r)' = Mailing(r) \ {w} /\ w \in Mailing(r)
        /\ Marking(r)' = Marking(r) \cup {w} /\ w \notin Marking(r)
    BY <1>0, <1>2, <1>4 DEF Mailing, Marking, OnlyOf
  <2>4. /\ Cardinality(Mailing(r))' = Cardinality(Mailing(r)) - 1
        /\ Cardinality(Marking(r))' = Cardinality(Marking(r)) + 1
    <3>1. /\ Cardinality(Mailing(r) \ {w}) = Cardinality(Mailing(r)) - 1
          /\ Cardinality(Marking(r) \cup {w}) = Cardinality(Marking(r)) + 1
      BY <2>3, CountTypes, FS_AddElement, FS_RemoveElement
    <3>2. QED
      BY <2>3, <3>1
  <2>5. \/ mails'[r] <= lost'[r] + Cardinality(Marking(r))'
        \/ Settled(r)' /\ mails'[r] + Cardinality(Mailing(r))' <= Cardinality(Workers) + lost'[r]
    <3>1. /\ Cardinality(Mailing(r)) \in Nat /\ Cardinality(Marking(r)) \in Nat
          /\ Cardinality(Workers) \in Nat
      BY CountTypes
    <3>2. mails'[r] \in Nat /\ mails'[r] <= mails[r] + 1 /\ lost'[r] = lost[r] /\ lost[r] \in Nat
      BY <1>1, <1>2, <1>3, <1>5, <1>6
    <3>3. CASE mails[r] <= lost[r] + Cardinality(Marking(r))
      BY <1>5, <2>4, <3>1, <3>2, <3>3
    <3>4. CASE Settled(r) /\ mails[r] + Cardinality(Mailing(r)) <= Cardinality(Workers) + lost[r]
      <4>1. Settled(r)'
        BY <1>3, <2>1, <3>4
      <4>2. mails'[r] + Cardinality(Mailing(r))' <= Cardinality(Workers) + lost'[r]
        BY <1>5, <2>4, <3>1, <3>2, <3>4
      <4>3. QED
        BY <4>1, <4>2
    <3>5. QED
      BY <1>3, <3>3, <3>4 DEF WLInv, MailsAreAccounted
  <2>6. ASSUME NEW s \in Wait, s # r
        PROVE  \/ mails'[s] <= lost'[s] + Cardinality(Marking(s))'
               \/ Settled(s)' /\ mails'[s] + Cardinality(Mailing(s))' <= Cardinality(Workers) + lost'[s]
    <3>1. mails'[s] = mails[s] /\ lost' = lost
      BY <1>2, <1>6, <2>6
    <3>2. Mailing(s)' = Mailing(s) /\ Marking(s)' = Marking(s) /\ (Settled(s) => Settled(s)')
      BY <2>1, <2>2, <2>6
    <3>3. \/ mails[s] <= lost[s] + Cardinality(Marking(s))
          \/ Settled(s) /\ mails[s] + Cardinality(Mailing(s)) <= Cardinality(Workers) + lost[s]
      BY DEF WLInv, MailsAreAccounted
    <3>4. QED
      BY <3>1, <3>2, <3>3
  <2>7. QED
    BY <2>5, <2>6 DEF MailsAreAccounted
<1>12. QED
  BY <1>7, <1>8, <1>9, <1>10, <1>11 DEF WLInv

\* A mark settles the stay, whether it is still in line or not.
LEMMA MarkMailedInv == ASSUME WLInv, NEW w \in Workers, MarkMailed(w) PROVE WLInv'
<1>0. PICK r : r = req[w].record
  OBVIOUS
<1>1. Controlled /\ Ledger /\ mails \in [Wait -> 0..MaxMails] /\ lost \in [Wait -> 0..MaxMails]
  BY DEF WLInv, TypeOK, Controlled
<1>2. /\ pc[w] = "flag" /\ flagged' = flagged \cup Marked(r) /\ Finish(w)
      /\ UNCHANGED <<line, used, offered, loaned, notices, size, mails, lost>>
  BY <1>0 DEF MarkMailed, ol
<1>3. r \in Wait /\ r \in used /\ r \in offered /\ mails[r] > 0
  BY <1>0, <1>2, SettledKnown DEF WLInv, RequestsAgree
<1>4. Controlled' /\ OnlyOf(w) /\ Elsewise(w)'
  BY <1>1, <1>2, FinishControl
<1>5. /\ r.book \in Books /\ r.user \in Waiters
      /\ \A s \in Marked(r) : s \in InLine(r.book) /\ s.user = r.user
  BY <1>3 DEF Wait, Marked, StaysOf
<1>6. \A s \in Marked(r) : s \in used /\ s.book = r.book /\ r.n <= s.n
  BY <1>1, <1>3, <1>5 DEF Ledger
<1>7. TypeOK' /\ Ledger' /\ Onward
  <2>1. flagged' \subseteq used
    BY <1>2, <1>6 DEF WLInv, TypeOK
  <2>2. QED
    BY <1>1, <1>2, <1>4, <2>1, TypesKept
<1>8. RequestsAgree' /\ MailedWereOffered'
  BY <1>2, <1>4 DEF WLInv, RequestsAgree, MailedWereOffered, OnlyOf, Elsewise
<1>9. MarkedPatronsWereMailed'
  <2>1. ASSUME NEW s \in Marked(r) PROVE \E n \in 1..s.n : mails[[s EXCEPT !.n = n]] > 0
    <3>1. s \in Wait /\ s.book = r.book /\ s.user = r.user /\ r.n <= s.n
      BY <1>1, <1>5, <1>6 DEF Ledger
    <3>2. r.n \in 1..s.n
      BY <1>3, <3>1, WaitingListAssumption DEF Wait
    <3>3. [s EXCEPT !.n = r.n] = r
      BY <1>3, <3>1 DEF Wait
    <3>4. QED
      BY <1>3, <3>2, <3>3
  <2>2. QED
    BY <1>2, <2>1 DEF WLInv, MarkedPatronsWereMailed
<1>10. MailsAreAccounted'
  <2>1. \A s \in Wait : Settled(s) => Settled(s)'
    BY <1>2, <1>7, SettledStays DEF WLInv
  <2>2. Settled(r)'
    <3>1. r \notin InLine(r.book) \/ r \in Marked(r)
      BY <1>5 DEF Marked, StaysOf
    <3>2. r \in used' /\ InLine(r.book)' = InLine(r.book)
      BY <1>2, <1>3 DEF InLine
    <3>3. QED
      BY <1>2, <3>1, <3>2 DEF Settled
  <2>3. ASSUME NEW s \in Wait
        PROVE  \/ mails'[s] <= lost'[s] + Cardinality(Marking(s))'
               \/ Settled(s)' /\ mails'[s] + Cardinality(Mailing(s))' <= Cardinality(Workers) + lost'[s]
    <3>1. mails' = mails /\ lost' = lost /\ mails[s] \in Nat /\ lost[s] \in Nat
      BY <1>1, <1>2, WaitingListAssumption
    <3>2. \/ mails[s] <= lost[s] + Cardinality(Marking(s))
          \/ Settled(s) /\ mails[s] + Cardinality(Mailing(s)) <= Cardinality(Workers) + lost[s]
      BY DEF WLInv, MailsAreAccounted
    <3>3. /\ Cardinality(Mailing(s)) \in Nat /\ Cardinality(Mailing(s))' \in Nat
          /\ Cardinality(Marking(s)) \in Nat /\ Cardinality(Workers) \in Nat
          /\ Cardinality(Mailing(s)) + Cardinality(Marking(s)) <= Cardinality(Workers)
      <4>1. IsFiniteSet(Mailing(s)) /\ Mailing(s)' = Mailing(s) \ {w}
        BY <1>4, SmallerSets, CountTypes
      <4>2. Cardinality(Mailing(s) \ {w}) \in Nat
        BY <4>1, FS_Subset, FS_CardinalityType
      <4>3. QED
        BY <4>1, <4>2, CountTypes
    <3>4. Cardinality(Mailing(s))' <= Cardinality(Mailing(s))
      BY <1>4, SmallerSets
    <3>5. CASE s = r
      <4>1. mails[s] + Cardinality(Mailing(s))' <= Cardinality(Workers) + lost[s]
        BY <3>1, <3>2, <3>3, <3>4
      <4>2. QED
        BY <2>2, <3>1, <3>5, <4>1
    <3>6. CASE s # r
      <4>1. w \notin Marking(s)
        BY <1>0, <3>6 DEF Marking
      <4>2. Marking(s)' = Marking(s)
        BY <1>4, <4>1, SmallerSets
      <4>3. CASE mails[s] <= lost[s] + Cardinality(Marking(s))
        BY <3>1, <4>2, <4>3
      <4>4. CASE Settled(s) /\ mails[s] + Cardinality(Mailing(s)) <= Cardinality(Workers) + lost[s]
        <5>1. Settled(s)'
          BY <2>1, <4>4
        <5>2. mails[s] + Cardinality(Mailing(s))' <= Cardinality(Workers) + lost[s]
          BY <3>1, <3>3, <3>4, <4>4
        <5>3. QED
          BY <3>1, <5>1, <5>2
      <4>5. QED
        BY <3>2, <4>3, <4>4
    <3>7. QED
      BY <3>5, <3>6
  <2>4. QED
    BY <2>3 DEF MailsAreAccounted
<1>11. QED
  BY <1>7, <1>8, <1>9, <1>10 DEF WLInv

\* A request that dies loses the mark it was about to make.
LEMMA FailInv == ASSUME WLInv, NEW w \in Workers, Fail(w) PROVE WLInv'
<1>0. PICK r : r = req[w].record
  OBVIOUS
<1>1. Controlled /\ Ledger /\ mails \in [Wait -> 0..MaxMails] /\ lost \in [Wait -> 0..MaxMails]
  BY DEF WLInv, TypeOK, Controlled
<1>2. /\ lost' = IF pc[w] = "flag" THEN [lost EXCEPT ![r] = OneMore(lost[r])] ELSE lost
      /\ UNCHANGED <<line, used, offered, flagged, loaned, notices, size, mails>>
      /\ Finish(w) \/ Stop(w)
  BY <1>0 DEF Fail, Raise, ia
<1>3. Controlled' /\ OnlyOf(w) /\ Elsewise(w)'
  BY <1>1, <1>2, FinishControl, StopControl
<1>4. pc[w] = "flag" => r \in Wait
  BY <1>0, SettledKnown
<1>5. /\ lost' \in [Wait -> 0..MaxMails]
      /\ \A s \in Wait : lost[s] <= lost'[s]
      /\ pc[w] = "flag" => lost'[r] = lost[r] + 1 \/ lost'[r] = MaxMails
  BY <1>1, <1>2, <1>4, WaitingListAssumption DEF OneMore
<1>6. TypeOK' /\ Ledger' /\ Onward
  <2>1. flagged' \subseteq used
    BY <1>2 DEF WLInv, TypeOK
  <2>2. QED
    BY <1>1, <1>2, <1>3, <1>5, <2>1, TypesKept
<1>7. RequestsAgree' /\ MailedWereOffered' /\ MarkedPatronsWereMailed'
  BY <1>2, <1>3 DEF WLInv, RequestsAgree, MailedWereOffered, MarkedPatronsWereMailed, OnlyOf, Elsewise
<1>8. MailsAreAccounted'
  <2>1. \A s \in Wait : Settled(s) => Settled(s)'
    BY <1>2, <1>6, SettledStays DEF WLInv
  <2>2. ASSUME NEW s \in Wait
        PROVE  \/ mails'[s] <= lost'[s] + Cardinality(Marking(s))'
               \/ Settled(s)' /\ mails'[s] + Cardinality(Mailing(s))' <= Cardinality(Workers) + lost'[s]
    <3>1. /\ mails' = mails /\ mails[s] \in Nat /\ mails[s] <= MaxMails
          /\ lost[s] \in Nat /\ lost'[s] \in Nat /\ lost[s] <= lost'[s]
      BY <1>1, <1>2, <1>5, WaitingListAssumption
    <3>2. /\ Cardinality(Mailing(s)) \in Nat /\ Cardinality(Marking(s)) \in Nat
          /\ Cardinality(Workers) \in Nat
      BY CountTypes
    <3>3. /\ Cardinality(Mailing(s))' \in Nat /\ Cardinality(Marking(s))' \in Nat
          /\ Cardinality(Mailing(s))' <= Cardinality(Mailing(s))
      <4>1. Mailing(s)' = Mailing(s) \ {w} /\ Marking(s)' = Marking(s) \ {w}
        BY <1>3, SmallerSets
      <4>2. Cardinality(Mailing(s) \ {w}) \in Nat /\ Cardinality(Marking(s) \ {w}) \in Nat
        BY CountTypes, FS_Subset, FS_CardinalityType
      <4>3. QED
        BY <1>3, <4>1, <4>2, SmallerSets
    <3>4. CASE mails[s] <= lost[s] + Cardinality(Marking(s))
      <4>1. CASE w \notin Marking(s)
        <5>1. Marking(s)' = Marking(s)
          BY <1>3, <4>1, SmallerSets
        <5>2. QED
          BY <3>1, <3>2, <3>4, <5>1
      <4>2. CASE w \in Marking(s)
        <5>1. pc[w] = "flag" /\ s = r
          BY <1>0, <4>2 DEF Marking
        <5>2. Cardinality(Marking(s))' = Cardinality(Marking(s)) - 1
          BY <1>3, <4>2, SmallerSets
        <5>3. lost'[s] = lost[s] + 1 \/ lost'[s] = MaxMails
          BY <1>5, <5>1
        <5>4. QED
          BY <3>1, <3>2, <3>3, <3>4, <5>2, <5>3
      <4>3. QED
        BY <4>1, <4>2
    <3>5. CASE Settled(s) /\ mails[s] + Cardinality(Mailing(s)) <= Cardinality(Workers) + lost[s]
      <4>1. Settled(s)'
        BY <2>1, <3>5
      <4>2. mails[s] + Cardinality(Mailing(s))' <= Cardinality(Workers) + lost'[s]
        BY <3>1, <3>2, <3>3, <3>5
      <4>3. QED
        BY <3>1, <4>1, <4>2
    <3>6. QED
      BY <3>4, <3>5 DEF WLInv, MailsAreAccounted
  <2>3. QED
    BY <2>2 DEF MailsAreAccounted
<1>9. QED
  BY <1>6, <1>7, <1>8 DEF WLInv

----------------------------------------------------------------------------
LEMMA WLInitInv == Init => WLInv
<1> SUFFICES ASSUME Init PROVE WLInv
  OBVIOUS
<1>1. /\ line \in [Books -> Seq(Wait)] /\ loaned \in [Books -> BOOLEAN] /\ size \in [Books -> Nat]
      /\ mails \in [Wait -> 0..MaxMails] /\ lost \in [Wait -> 0..MaxMails]
      /\ used = {} /\ offered = {} /\ flagged = {} /\ notices = {}
  BY WaitingListAssumption DEF Init
<1>2. Controlled
  BY RequestTypes DEF Init, Controlled, Points
<1>3. TypeOK
  BY <1>1, <1>2 DEF TypeOK, Controlled
<1>4. Ledger
  <2>1. \A b \in Books : Len(line[b]) = 0
    BY DEF Init
  <2>2. \A b \in Books : InLine(b) = {}
    BY <2>1 DEF InLine
  <2>3. QED
    BY <1>1, <2>2 DEF Ledger
<1>5. RequestsAgree /\ MailedWereOffered /\ MarkedPatronsWereMailed
  BY DEF Init, RequestsAgree, MailedWereOffered, MarkedPatronsWereMailed
<1>6. MailsAreAccounted
  <2>1. \A r \in Wait : mails[r] = 0 /\ lost[r] = 0
    BY DEF Init
  <2>2. QED
    BY <2>1, CountTypes DEF MailsAreAccounted
<1>7. QED
  BY <1>3, <1>4, <1>5, <1>6 DEF WLInv

LEMMA WLNextInv == WLInv /\ [Next]_vars => WLInv'
<1> SUFFICES ASSUME WLInv, [Next]_vars PROVE WLInv'
  OBVIOUS
<1>1. CASE UNCHANGED vars
  <2>1. UNCHANGED <<line, used, offered, flagged, loaned, notices, size, mails, lost, pc, req, todo>>
    BY <1>1 DEF vars, ia, ol, local
  <2>2. TypeOK' /\ Ledger' /\ RequestsAgree' /\ MailedWereOffered' /\ MarkedPatronsWereMailed'
    BY <2>1 DEF WLInv, TypeOK, Ledger, RequestsAgree, MailedWereOffered, MarkedPatronsWereMailed, InLine
  <2>3. MailsAreAccounted'
    BY <2>1 DEF WLInv, MailsAreAccounted, Settled, Mailing, Marking, InLine
  <2>4. QED
    BY <2>2, <2>3 DEF WLInv
<1>2. ASSUME NEW w \in Workers, Begin(w) \/ StartCron(w) \/ Step(w) \/ Fail(w) PROVE WLInv'
  BY <1>2, BeginQuiet, CallQuiet, LookQuiet, QuietInv, ReadHeadInv, SendMailInv, MarkMailedInv,
     FailInv DEF Step
<1>3. QED
  BY <1>1, <1>2, ArchiveOrgInv DEF Next

LEMMA WLInvariant == Spec => []WLInv
<1>1. QED
  BY WLInitInv, WLNextInv, PTL DEF Spec

\* archive.org's lists and the requests keep their types (waitinglist.py).
THEOREM TypeCorrect == Spec => []TypeOK
<1>1. WLInv => TypeOK
  BY DEF WLInv
<1>2. QED
  BY <1>1, WLInvariant, PTL

\* However many requests look at the lists, nobody is mailed who was not offered a
\* copy (sendmail_book_available of waitinglist.py).
THEOREM MailedOffered == Spec => []MailedWereOffered
<1>1. WLInv => MailedWereOffered
  BY DEF WLInv
<1>2. QED
  BY <1>1, WLInvariant, PTL

\* A mark that is made late never reaches a patron who was not mailed about the
\* book (record.update in sendmail_book_available).
THEOREM MarkedMailed == Spec => []MarkedPatronsWereMailed
<1>1. WLInv => MarkedPatronsWereMailed
  BY DEF WLInv
<1>2. QED
  BY <1>1, WLInvariant, PTL

\* For any number of requests at one time, a stay gets no more mails than there
\* are requests and marks that were lost (on_waitinglist_update).
THEOREM MailsBounded == Spec => []MailsAreBounded
<1>1. ASSUME WLInv PROVE MailsAreBounded
  <2>1. ASSUME NEW r \in Wait PROVE mails[r] <= Cardinality(Workers) + lost[r]
    <3>1. mails[r] \in Nat /\ lost[r] \in Nat
      BY <1>1, WaitingListAssumption DEF WLInv, TypeOK
    <3>2. \/ mails[r] <= lost[r] + Cardinality(Marking(r))
          \/ mails[r] + Cardinality(Mailing(r)) <= Cardinality(Workers) + lost[r]
      BY <1>1 DEF WLInv, MailsAreAccounted
    <3>3. QED
      BY <3>1, <3>2, CountTypes
  <2>2. QED
    BY <2>1 DEF MailsAreBounded
<1>2. QED
  BY <1>1, WLInvariant, PTL

=============================================================================
