---------------------------- MODULE ImportQueue ----------------------------
(***************************************************************************)
(* The queue of scanned books to import.  Batches of identifiers are added *)
(* to a table; bots take the pending rows and ask the server to import     *)
(* each, again when it does not answer; a request whose bot has given it   *)
(* up goes on in the server all the same.                                  *)
(*                                                                         *)
(* Code: openlibrary/core/imports.py, scripts/manage-imports.py, and, as   *)
(* far as a book is found or made, load of openlibrary/catalog/add_book.   *)
(***************************************************************************)
EXTENDS Naturals, SequencesExt, FiniteSets

CONSTANTS
    Items,       \* archive.org identifiers
    Batches,
    Bots,
    NoBot,       \* of a request that its bot has given up
    Retries,     \* attempts of ol_import_request
    MaxFailures  \* bound: how often a connection is lost or a bot is killed

ASSUME ImportQueueAssumption ==
    /\ IsFiniteSet(Items)
    /\ Retries \in Nat \ {0} /\ MaxFailures \in Nat /\ NoBot \notin Bots

VARIABLES
    import_item, \* rows, in the order of their ids
    adding,      \* [Batches -> items add_items is about to insert]
    bot,         \* [Bots -> where it is, the rows it has to do, its attempts]
    server,      \* requests under way, or whose answer is not read yet
    editions,    \* [Items -> how many editions were made of it]
    (* history *)
    failures,
    overlapped,  \* items that two requests were importing at one time
    raced        \* items that two batches were adding at one time

iqVars == <<import_item, adding, bot, server, editions, failures, overlapped, raced>>

Row == [batch: Batches, ia_id: Items,
        status: {"pending", "created", "matched", "failed"}]

\* A request looks for an edition, makes one, or has ended with an answer; a bot
\* waits for it or has given it up.
ServerRequest == [ia_id: Items, bot: Bots \cup {NoBot},
                  pc: {"find", "make", "created", "matched", "error"}]

\* Rows, bots and requests have their types; a bot waits for one request.
IQTypeOK ==
    /\ import_item \in Seq(Row)
    /\ adding \in [Batches -> SUBSET Items]
    /\ \A b \in Bots :
          /\ bot[b].todo \in Seq(1..Len(import_item))
          /\ bot[b].tries \in 0..Retries
          /\ bot[b].waits => bot[b].todo # <<>>
          /\ bot[b].waits <=> \E n \in 1..Len(server) : server[n].bot = b
    /\ server \in Seq(ServerRequest)
    /\ editions \in [Items -> Nat]
    /\ failures \in 0..MaxFailures
    /\ overlapped \subseteq Items /\ raced \subseteq Items

Rows == 1..Len(import_item)

Pending(n) == n \in Rows /\ import_item[n].status = "pending"

----------------------------------------------------------------------------
(* Batch.add_items *)

\* Mutant: what other batches have is not looked for.
AlreadyPresent_OfBatch(b, items) ==
    {i \in items : \E n \in Rows : import_item[n].ia_id = i /\ import_item[n].batch = b}

AlreadyPresent(b, items) == {i \in items : \E n \in Rows : import_item[n].ia_id = i}

SelectPresent(b) ==
    /\ adding[b] = {}
    /\ \E items \in (SUBSET Items) \ {{}} :
          adding' = [adding EXCEPT ![b] = items \ AlreadyPresent(b, items)]
    /\ raced' = raced \cup {i \in adding'[b] : \E c \in Batches \ {b} : i \in adding[c]}
    /\ UNCHANGED <<import_item, bot, server, editions, failures, overlapped>>

\* One INSERT of all rows.
InsertItems(b) ==
    /\ adding[b] # {}
    /\ \E rows \in SetToSeqs(adding[b]) :
          import_item' = import_item \o
                [n \in DOMAIN rows |-> [batch |-> b, ia_id |-> rows[n], status |-> "pending"]]
    /\ adding' = [adding EXCEPT ![b] = {}]
    /\ UNCHANGED <<bot, server, editions, failures, overlapped, raced>>

----------------------------------------------------------------------------
(* import_all, import_batch *)

IdleBot == [todo |-> <<>>, tries |-> 0, waits |-> FALSE]

\* find_pending, or get_items of a batch: the rows that are pending now, by their ids.
TakePending(b) ==
    /\ bot[b].todo = <<>>
    /\ \E batches \in {Batches} \cup {{c} : c \in Batches} :
       \E todo \in SetToSeqs({n \in Rows : Pending(n) /\ import_item[n].batch \in batches}) :
          /\ todo # <<>>
          /\ \A i, j \in DOMAIN todo : i < j => todo[i] < todo[j]
          /\ bot' = [bot EXCEPT ![b].todo = todo]
    /\ UNCHANGED <<import_item, adding, server, editions, failures, overlapped, raced>>

\* Its answer is only for the bot to read.
Ended(n) == server[n].pc \in {"created", "matched", "error"}

\* A request goes on; it is over when it has ended and its bot does not wait.
Proceed(n, pc) ==
    server' = IF server[n].bot = NoBot /\ pc # "make" THEN RemoveAt(server, n)
              ELSE [server EXCEPT ![n].pc = pc]

\* Nobody waits for it any more, and unless it has ended it goes on.
Abandon(n) == server' = IF Ended(n) THEN RemoveAt(server, n)
                        ELSE [server EXCEPT ![n].bot = NoBot]

\* Requests in the server that may still make an edition of an item.
Importing(i) == {n \in 1..Len(server) : server[n].ia_id = i /\ server[n].pc \in {"find", "make"}}

\* ol_import_request: the next attempt.
Ask(b) ==
    /\ bot[b].todo # <<>> /\ ~bot[b].waits /\ bot[b].tries < Retries
    /\ LET i == import_item[Head(bot[b].todo)].ia_id IN
       /\ server' = Append(server, [ia_id |-> i, bot |-> b, pc |-> "find"])
       /\ overlapped' = IF Importing(i) = {} THEN overlapped ELSE overlapped \cup {i}
    /\ bot' = [bot EXCEPT ![b].waits = TRUE]
    /\ UNCHANGED <<import_item, adding, editions, failures, raced>>

\* Mutant: the bot goes on to wait for the answer it has got.
SetStatus_Waits(b, status) ==
    /\ import_item' = [import_item EXCEPT ![Head(bot[b].todo)].status = status]
    /\ bot' = [bot EXCEPT ![b].todo = Tail(@), ![b].tries = 0]

\* set_status, of the row as it was read, whatever it has become; the next row.
SetStatus(b, status) ==
    /\ import_item' = [import_item EXCEPT ![Head(bot[b].todo)].status = status]
    /\ bot' = [bot EXCEPT ![b] = [IdleBot EXCEPT !.todo = Tail(bot[b].todo)]]

\* do_import with the answer of the server.
Answered(b) ==
    \E n \in 1..Len(server) :
        /\ server[n].bot = b
        /\ server[n].pc \in {"created", "matched"}
        /\ SetStatus(b, server[n].pc)
        /\ server' = RemoveAt(server, n)
        /\ UNCHANGED <<adding, editions, failures, overlapped, raced>>

\* IOError, OLError: the attempt failed, as the connection is lost whatever the
\* server goes on to do, or because the server answered with any error at all.
AttemptFails(b) ==
    \E n \in 1..Len(server) :
        /\ server[n].bot = b
        /\ \/ server[n].pc = "error" /\ UNCHANGED failures
           \/ server[n].pc # "error" /\ failures < MaxFailures /\ failures' = failures + 1
        /\ Abandon(n)
        /\ bot' = [bot EXCEPT ![b].waits = FALSE, ![b].tries = @ + 1]
        /\ UNCHANGED <<import_item, adding, editions, overlapped, raced>>

\* A bot is killed, and import_all is started again.
KillBot(b) ==
    /\ bot[b].todo # <<>> /\ failures < MaxFailures
    /\ failures' = failures + 1
    /\ bot' = [bot EXCEPT ![b] = IdleBot]
    /\ IF bot[b].waits
       THEN \E n \in 1..Len(server) : server[n].bot = b /\ Abandon(n)
       ELSE UNCHANGED server
    /\ UNCHANGED <<import_item, adding, editions, overlapped, raced>>

\* Mutant: the last attempt is not the last one.
GiveUp_Late(b) ==
    /\ bot[b].todo # <<>> /\ ~bot[b].waits /\ bot[b].tries > Retries
    /\ SetStatus(b, "failed")
    /\ UNCHANGED <<adding, server, editions, failures, overlapped, raced>>

\* None is returned, and the row fails with "internal-error".
GiveUp(b) ==
    /\ bot[b].todo # <<>> /\ ~bot[b].waits /\ bot[b].tries = Retries
    /\ SetStatus(b, "failed")
    /\ UNCHANGED <<adding, server, editions, failures, overlapped, raced>>

----------------------------------------------------------------------------
(* The server *)

\* Mutant: the edition of an earlier import is not looked for.
FindMatch_None(n) ==
    /\ server[n].pc = "find"
    /\ Proceed(n, "make")
    /\ UNCHANGED <<import_item, adding, bot, editions, failures, overlapped, raced>>

\* An edition with this ocaid is found, or there is none; or the item is refused.
FindMatch(n) ==
    /\ server[n].pc = "find"
    /\ \/ Proceed(n, IF editions[server[n].ia_id] > 0 THEN "matched" ELSE "make")
       \/ Proceed(n, "error")
    /\ UNCHANGED <<import_item, adding, bot, editions, failures, overlapped, raced>>

\* save_many of the new edition, which checks nothing.
MakeEdition(n) ==
    /\ server[n].pc = "make"
    /\ Proceed(n, "created")
    /\ editions' = [editions EXCEPT ![server[n].ia_id] = @ + 1]
    /\ UNCHANGED <<import_item, adding, bot, failures, overlapped, raced>>

IQInit ==
    /\ import_item = <<>>
    /\ adding = [b \in Batches |-> {}]
    /\ bot = [b \in Bots |-> IdleBot]
    /\ server = <<>>
    /\ editions = [i \in Items |-> 0]
    /\ failures = 0 /\ overlapped = {} /\ raced = {}

Work(b) == TakePending(b) \/ Ask(b) \/ Answered(b) \/ AttemptFails(b) \/ GiveUp(b)

Serve(n) == FindMatch(n) \/ MakeEdition(n)

IQNext ==
    \/ \E b \in Batches : SelectPresent(b) \/ InsertItems(b)
    \/ \E b \in Bots : Work(b) \/ KillBot(b)
    \/ \E n \in 1..Len(server) : Serve(n)

IQSpec == IQInit /\ [][IQNext]_iqVars

\* Bots go on with their rows, and the server with its requests.
IQFairSpec == /\ IQSpec
              /\ \A b \in Bots : WF_iqVars(Work(b))
              /\ WF_iqVars(\E n \in 1..Len(server) : Serve(n))

----------------------------------------------------------------------------
(* Properties *)

\* add_items: "ignore already present".  One identifier is in the queue twice
\* only if two batches were adding it at one time.
ItemsAreQueuedOnce ==
    \A m, n \in Rows : m # n /\ import_item[m].ia_id = import_item[n].ia_id
                       => import_item[m].ia_id \in raced

\* load: an item gets a second edition only when a request to import it came
\* while another one, which its bot may have given up, was under way.
ItemsAreMadeOnce ==
    \A i \in Items : editions[i] > 1 => i \in overlapped

\* import_all: whatever fails and however often, every pending row gets a status,
\* those that are added meanwhile too (an item is added once by a batch at most).
PendingRowsAreDecided ==
    (\E n \in Rows : Pending(n)) ~> (\A n \in Rows : ~Pending(n))

=============================================================================
