----------------------------- MODULE ReadingLog -----------------------------
(***************************************************************************)
(* One patron's shelf and rating of one work, in the database tables       *)
(* bookshelves_books and ratings.  Every request reads a table, then reads *)
(* it again, then inserts or updates, each time in a transaction of its    *)
(* own; a primary key makes some of the writes raise.                      *)
(*                                                                         *)
(* Code: openlibrary/core/bookshelves.py, openlibrary/core/ratings.py, the *)
(* POSTs of openlibrary/plugins/openlibrary/api.py, core/schema.sql.       *)
(***************************************************************************)
EXTENDS Integers, FiniteSets

CONSTANTS
    Requests, \* requests of the patron under way at one time
    Stars     \* VALID_STAR_RATINGS

ASSUME ReadingLogAssumption == Stars \subseteq Nat

VARIABLES
    shelves,  \* the bookshelf_ids of the rows of the work
    rating,   \* the rating in the row of the work, None if there is no row
    request,  \* [Requests -> what it wants, where it is, what it has read]
    (* history *)
    stale,    \* requests that another one has written behind
    doubled   \* did a stale request insert a second row?

rlVars == <<shelves, rating, request, stale, doubled>>

None == -1
AlreadyRead == 3
Shelves == {1, 2, AlreadyRead}

\* A shelf to be on or a rating to have; what has been read of it; how it ended.
RequestType ==
    [pc: {"idle", "check", "shelve", "read rating", "rate"},
     shelf: Shelves \cup {None}, stars: Stars \cup {None},
     status: Shelves \cup {None}, old: Stars \cup {None},
     ended: {"no", "done", "error"}]

\* Rows and requests have their types, and only a rating request goes on to
\* rate.
RLTypeOK ==
    /\ shelves \subseteq Shelves
    /\ rating \in Stars \cup {None}
    /\ request \in [Requests -> RequestType]
    /\ \A q \in Requests : request[q].pc \in {"read rating", "rate"} => request[q].stars # None
    /\ stale \subseteq Requests /\ doubled \in BOOLEAN

----------------------------------------------------------------------------
\* get_users_read_status_of_work: the first of the rows, in no order.
Status == IF shelves = {} THEN {None} ELSE shelves

At(q, pc) == request[q].pc = pc

Update(q, r) == request' = [request EXCEPT ![q] = r]

\* A write of q: the others have not seen it.
Wrote(q) == stale' = stale \cup {o \in Requests \ {q} : request[o].pc # "idle"}

New(q, pc, shelf, stars, status) ==
    [pc |-> pc, shelf |-> shelf, stars |-> stars, status |-> status, old |-> None, ended |-> "no"]

Ended(q, how) == [New(q, "idle", None, None, None) EXCEPT !.ended = how]

----------------------------------------------------------------------------
(* work_bookshelves.POST *)

\* It reads the status, and removes the book from its shelf (which is asked for
\* with -1, or by the same shelf again) or adds it to another.
PostShelf(q) ==
    /\ At(q, "idle")
    /\ \E shelf \in Shelves \cup {None}, s \in Status :
          Update(q, New(q, IF shelf \in {s, None} THEN "shelve" ELSE "check", shelf, None, s))
    /\ stale' = stale \ {q}
    /\ UNCHANGED <<shelves, rating, doubled>>

\* Bookshelves.remove, which ignores its bookshelf_id.
RemoveBook(q) ==
    /\ At(q, "shelve") /\ request[q].shelf \in {request[q].status, None}
    /\ request[q].stars = None
    /\ shelves' = {}
    /\ doubled' = FALSE
    /\ Update(q, Ended(q, "done")) /\ Wrote(q)
    /\ UNCHANGED rating

\* Bookshelves.add reads the status again.
CheckShelf(q) ==
    /\ At(q, "check")
    /\ \E s \in Status :
          Update(q, [request[q] EXCEPT !.pc = "shelve", !.status = s])
    /\ stale' = stale \ {q}
    /\ UNCHANGED <<shelves, rating, doubled>>

\* After a write to the shelves.
Shelved(q) == IF request[q].stars = None THEN Ended(q, "done")
              ELSE [request[q] EXCEPT !.pc = "read rating"]

\* Mutant: a rating inserts a row for the book it implies was read.
Inserts_Rated(r) == r.status = None \/ r.stars # None

Inserts(r) == r.status = None

\* Bookshelves.add: without a status a row is inserted, with one all rows are
\* updated.  The primary key has the shelf in it: both raise for a shelf with a
\* row, and the update also for two rows, which would become the same.
AddBook(q) ==
    LET r == request[q]
        insert == Inserts(r)
    IN
    /\ At(q, "shelve") /\ (r.shelf # r.status \/ r.stars # None)
    /\ r.shelf # None
    /\ \/ /\ insert /\ r.shelf \notin shelves
          /\ shelves' = shelves \cup {r.shelf}
          /\ doubled' = (doubled \/ (shelves # {} /\ q \in stale))
          /\ Update(q, Shelved(q)) /\ Wrote(q)
       \/ /\ ~insert /\ Cardinality(shelves) <= 1
          /\ shelves' = {r.shelf : s \in shelves}
          /\ Update(q, Shelved(q)) /\ Wrote(q)
          /\ UNCHANGED doubled
       \/ /\ IF insert THEN r.shelf \in shelves ELSE Cardinality(shelves) > 1
          /\ Update(q, Ended(q, "error"))
          /\ UNCHANGED <<shelves, stale, doubled>>
    /\ UNCHANGED rating

----------------------------------------------------------------------------
(* ratings.POST *)

\* "Vote implies user read book".
PostRating(q) ==
    /\ At(q, "idle")
    /\ \E stars \in Stars, s \in Status :
          Update(q, New(q, IF s = AlreadyRead THEN "read rating" ELSE "check",
                        AlreadyRead, stars, s))
    /\ stale' = stale \ {q}
    /\ UNCHANGED <<shelves, rating, doubled>>

\* Ratings.remove.
RemoveRating(q) ==
    /\ At(q, "idle")
    /\ rating' = None
    /\ Update(q, Ended(q, "done")) /\ Wrote(q)
    /\ UNCHANGED <<shelves, doubled>>

ReadRating(q) ==
    /\ At(q, "read rating")
    /\ Update(q, [request[q] EXCEPT !.pc = "rate", !.old = rating])
    /\ UNCHANGED <<shelves, rating, stale, doubled>>

\* Mutant: the rating that was read is not looked at.
Unrated_Any(old) == TRUE

\* if not users_rating_for_work: a rating of no stars looks like none.
Unrated(old) == old \in {None, 0}

\* The row is inserted, which raises if there is one, or updated, if there is one.
Rate(q) ==
    LET r == request[q] IN
    /\ At(q, "rate")
    /\ IF Unrated(r.old)
       THEN \/ /\ rating = None
               /\ rating' = r.stars
               /\ Update(q, Ended(q, "done")) /\ Wrote(q)
            \/ /\ rating # None
               /\ Update(q, Ended(q, "error"))
               /\ UNCHANGED <<rating, stale>>
       ELSE /\ rating' = IF rating = None THEN None ELSE r.stars
            /\ Update(q, Ended(q, "done")) /\ Wrote(q)
    /\ UNCHANGED <<shelves, doubled>>

RLInit ==
    /\ shelves = {} /\ rating = None
    /\ request = [q \in Requests |-> New(q, "idle", None, None, None)]
    /\ stale = {} /\ doubled = FALSE

RLNext == \E q \in Requests :
    PostShelf(q) \/ RemoveBook(q) \/ CheckShelf(q) \/ AddBook(q)
    \/ PostRating(q) \/ RemoveRating(q) \/ ReadRating(q) \/ Rate(q)

RLSpec == RLInit /\ [][RLNext]_rlVars

----------------------------------------------------------------------------
(* Properties *)

\* get_users_read_status_of_work: "Each of these states is mutually exclusive" -
\* but for a book that a request inserted although another request had inserted
\* it after the first one's last look, and that nobody has removed since.
TwoShelvesHaveACause == Cardinality(shelves) <= 1 \/ doubled

\* work_bookshelves.POST, ratings.POST: a request that no other one wrote
\* behind does what it was asked for - of the shelf and of the rating - and
\* fails only for a book on two shelves, or to change a rating of no stars.
LoneRequestsSucceed ==
    [][\A q \in Requests :
          ~At(q, "idle") /\ At(q, "idle")' /\ q \notin stale =>
              LET r == request[q] IN
              \/ request'[q].ended = "error" /\ (doubled \/ rating = 0)
              \/ /\ request'[q].ended = "done"
                 /\ r.stars = None => shelves' = IF r.shelf \in {r.status, None} THEN {}
                                                 ELSE {r.shelf}
                 /\ r.stars # None => rating' = r.stars /\ AlreadyRead \in shelves']_rlVars

=============================================================================
