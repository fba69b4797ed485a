------------------------------ MODULE PageData ------------------------------
(***************************************************************************)
(* What is kept in memcache of the page of a work: one entry, with the     *)
(* number of its editions and other values as its parts.  A function fills *)
(* its part by getting the entry, changing it and setting it; infobase     *)
(* deletes the entry after a save that concerns the page.  Nothing in it   *)
(* expires, and an administrator's deletion of an edition goes by it.      *)
(*                                                                         *)
(* Code: memoize and method_memoize of openlibrary/core/cache.py, used by  *)
(* edition_count in core/models.py; olbase/events.py; the deletion in      *)
(* SaveBookHelper.save of plugins/upstream/addbook.py.                     *)
(***************************************************************************)
EXTENDS Naturals, FiniteSets

CONSTANTS
    Books,     \* editions of the work, now or later
    Processes,
    Unknown,   \* of a part: not in the entry
    MaxSaves   \* bound: how often an edition is added or the work edited

ASSUME PageDataAssumption ==
    IsFiniteSet(Books) /\ Unknown \notin Nat \cup Books /\ MaxSaves \in Nat

VARIABLES
    books,     \* editions in infobase that name the work
    revision,  \* of the work, the value of the other part
    deleted,   \* has the work been deleted?
    entry,     \* the entry "d" + key in memcache
    process,   \* [Processes -> what it does, and what it has got]
    (* history *)
    saves,
    outdated,  \* parts that were out of date when they were set
    raced      \* processes that looked at the count before an edition was added, or
               \* before the event of a save, or when it had been set out of date

pdVars == <<books, revision, deleted, entry, process, saves, outdated, raced>>

Parts == {"count", "history"}

Value == Nat \cup {Unknown}

NoEntry == [part \in Parts |-> Unknown]

\* The entry and the processes have their types, and a part is set or decided by
\* only when its value is known.
PDTypeOK ==
    /\ books \subseteq Books /\ revision \in 0..MaxSaves /\ deleted \in BOOLEAN
    /\ entry \in [Parts -> Value]
    /\ \A p \in Processes :
          /\ process[p].pc \in {"idle", "get", "compute", "get again", "set", "delete",
                                "invalidate", "decide"}
          /\ process[p].job \in {"none", "view", "check", "delete", "last"}
          /\ process[p].part \in Parts
          /\ process[p].value \in Value /\ process[p].local \in Value
          /\ process[p].pc \in {"get again", "set", "decide"} => process[p].value # Unknown
          /\ process[p].copy \in [Parts -> Value] /\ process[p].book \in Books \cup {Unknown}
          /\ process[p].pc \in {"delete", "decide"} => process[p].book # Unknown
    /\ saves \in 0..MaxSaves /\ outdated \subseteq Parts /\ raced \subseteq Processes

----------------------------------------------------------------------------
IdleProcess == [pc |-> "idle", job |-> "none", part |-> "count", value |-> Unknown,
         local |-> Unknown, copy |-> NoEntry, book |-> Unknown]

Proceed(p, r) == process' = [process EXCEPT ![p] = r]

Truth(part) == IF part = "count" THEN Cardinality(books) ELSE revision

\* The memoized function returns a value: to a page that is viewed, to the
\* property of the work object that keeps it, or to the deletion.
Returned(p, value) ==
    LET r == process[p] IN
    CASE r.job = "view" -> IdleProcess
      [] r.job = "check" -> [r EXCEPT !.pc = "delete", !.job = "delete", !.local = value,
                                           !.value = Unknown, !.copy = NoEntry]
      [] r.job = "delete" -> [r EXCEPT !.pc = "decide", !.value = value, !.copy = NoEntry]

----------------------------------------------------------------------------
(* memoize *)

View(p) ==
    /\ process[p].pc = "idle"
    /\ \E part \in Parts : Proceed(p, [IdleProcess EXCEPT !.pc = "get", !.job = "view", !.part = part])
    /\ UNCHANGED <<books, revision, deleted, entry, saves, outdated, raced>>

\* cache_get.
GetPart(p) ==
    LET r == process[p] IN
    /\ r.pc = "get"
    /\ Proceed(p, IF entry[r.part] # Unknown THEN Returned(p, entry[r.part])
                 ELSE [r EXCEPT !.pc = "compute"])
    /\ raced' = IF "count" \in outdated \/ \E q \in Processes : process[q].pc = "invalidate"
                THEN raced \cup {p} ELSE raced \ {p}
    /\ UNCHANGED <<books, revision, deleted, entry, saves, outdated>>

\* f, a request to infobase: count_editions_by_work.
Compute(p) ==
    /\ process[p].pc = "compute"
    /\ Proceed(p, [process[p] EXCEPT !.pc = "get again", !.value = Truth(process[p].part)])
    /\ raced' = raced \ {p}
    /\ UNCHANGED <<books, revision, deleted, entry, saves, outdated>>

\* cache_set gets the entry, puts the part in it, and sets it.
GetEntry(p) ==
    LET r == process[p] IN
    /\ r.pc = "get again"
    /\ Proceed(p, [r EXCEPT !.pc = "set", !.copy = [entry EXCEPT ![r.part] = r.value]])
    /\ UNCHANGED <<books, revision, deleted, entry, saves, outdated, raced>>

SetEntry(p) ==
    LET r == process[p] IN
    /\ r.pc = "set"
    /\ entry' = r.copy
    /\ outdated' = {part \in Parts : r.copy[part] \notin {Unknown, Truth(part)}}
    /\ Proceed(p, Returned(p, r.value))
    /\ UNCHANGED <<books, revision, deleted, saves, raced>>

----------------------------------------------------------------------------
(* Saves, and the event in infobase that follows them before it answers *)

\* A new edition, or another edit of the work.
Save(p) ==
    /\ process[p].pc = "idle" /\ saves < MaxSaves /\ ~deleted
    /\ saves' = saves + 1
    /\ \/ \E b \in Books \ books :
             /\ books' = books \cup {b}
             /\ raced' = raced \cup {q \in Processes : process[q].pc # "idle"}
             /\ UNCHANGED revision
       \/ revision' = revision + 1 /\ UNCHANGED <<books, raced>>
    /\ Proceed(p, [IdleProcess EXCEPT !.pc = "invalidate", !.job = "last"])
    /\ UNCHANGED <<deleted, entry, outdated>>

\* Mutant: only the documents as they are saved are looked at, and a deleted
\* edition does not name its work any more.
FindKeys_NewDocs(p) == process[p].job = "last"

\* MemcacheInvalidater: "d" + key of what has changed, and of the works that
\* changed editions name or named.
FindKeys(p) == TRUE

\* method_memoize: the work object has the count.
Counted(r) == r.local # Unknown

InvalidateMemcache(p) ==
    LET r == process[p] IN
    /\ r.pc = "invalidate"
    /\ entry' = IF FindKeys(p) THEN NoEntry ELSE entry
    /\ outdated' = IF FindKeys(p) THEN {} ELSE outdated
    /\ Proceed(p, IF r.job = "last" THEN IdleProcess
                 ELSE IF Counted(r) THEN [r EXCEPT !.pc = "decide", !.value = r.local]
                 ELSE [r EXCEPT !.pc = "get"])
    /\ UNCHANGED <<books, revision, deleted, saves, raced>>

----------------------------------------------------------------------------
(* book_edit.POST and SaveBookHelper.save, with _delete *)

\* Whether this is a new book is checked before: if the edition and the work are
\* in their first revision the count is asked for, and the work object keeps it.
PostDelete(p) ==
    /\ process[p].pc = "idle"
    /\ \E b \in books :
          \/ Proceed(p, [IdleProcess EXCEPT !.pc = "get", !.job = "check", !.book = b])
          \/ Proceed(p, [IdleProcess EXCEPT !.pc = "delete", !.job = "delete", !.book = b])
    /\ UNCHANGED <<books, revision, deleted, entry, saves, outdated, raced>>

DeleteEdition(p) ==
    /\ process[p].pc = "delete"
    /\ books' = books \ {process[p].book}
    /\ Proceed(p, [process[p] EXCEPT !.pc = "invalidate"])
    /\ UNCHANGED <<revision, deleted, entry, saves, outdated, raced>>

\* Mutant: the work goes with its edition.
NoEditions_Any(p) == TRUE

NoEditions(p) == process[p].value = 0

\* if self.work.edition_count == 0
DeleteWork(p) ==
    /\ process[p].pc = "decide"
    /\ deleted' = (deleted \/ NoEditions(p))
    /\ Proceed(p, IF NoEditions(p) THEN [IdleProcess EXCEPT !.pc = "invalidate", !.job = "last"]
                 ELSE IdleProcess)
    /\ UNCHANGED <<books, revision, entry, saves, outdated, raced>>

PDInit ==
    /\ books \in SUBSET Books /\ revision = 0 /\ deleted = FALSE
    /\ entry \in {NoEntry, [part \in Parts |-> Truth(part)]}
    /\ process = [p \in Processes |-> IdleProcess]
    /\ saves = 0 /\ outdated = {} /\ raced = {}

PDNext == \E p \in Processes :
    View(p) \/ GetPart(p) \/ Compute(p) \/ GetEntry(p) \/ SetEntry(p) \/ Save(p)
    \/ InvalidateMemcache(p) \/ PostDelete(p) \/ DeleteEdition(p) \/ DeleteWork(p)

PDSpec == PDInit /\ [][PDNext]_pdVars

----------------------------------------------------------------------------
(* Properties *)

\* memoize, invalidate_memcache: a part is out of date only while a save has not
\* been followed by its event, or because it was out of date when it was set -
\* by the function that had computed it, or by another one with the entry it got.
OutdatedPartsHaveACause ==
    \A part \in Parts : entry[part] \notin {Unknown, Truth(part)} =>
        part \in outdated \/ \E p \in Processes : process[p].pc = "invalidate"

\* SaveBookHelper.save: a work is deleted while it has an edition only if one was
\* added, or its event had not happened, when its editions were counted or since,
\* or the count in memcache was out of date when it was set.
WorksAreDeletedEmpty ==
    [][\A p \in Processes : deleted' /\ ~deleted /\ process[p] # process'[p] =>
          books = {} \/ p \in raced]_pdVars

=============================================================================
