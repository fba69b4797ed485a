------------------------------- MODULE Catalog -------------------------------
(***************************************************************************)
(* Authors, works and editions, and the requests that change them: merges  *)
(* of authors, edits of books and of authors, books that are added, and    *)
(* imports.  Every request reads documents one call after the other and    *)
(* then saves all it has changed at once, whatever was saved in between.   *)
(* A form was shown before, and says what the documents were then.         *)
(*                                                                         *)
(* Code: openlibrary/plugins/upstream/merge_authors.py and addbook.py,     *)
(* openlibrary/catalog/add_book/__init__.py and load_book.py.              *)
(***************************************************************************)
EXTENDS Naturals, FiniteSets

CONSTANTS
    Authors, Works, Editions, \* keys
    Requests,    \* that may be under way at one time
    NoKey,
    MaxRequests  \* bound: how many requests there are

ASSUME CatalogAssumption ==
    /\ Authors \cap (Works \cup Editions) = {} /\ Works \cap Editions = {}
    /\ NoKey \notin Authors \cup Works \cup Editions
    /\ MaxRequests \in Nat

VARIABLES
    doc,      \* the documents in infobase
    request,  \* [Requests -> where it is, its input, what it has read]
    (* history *)
    begun,    \* how many requests have begun
    behind,   \* [Requests -> keys others have saved since it began, or read them last]
    blind,    \* has a request read a redirect for the author it is about?
    crossed   \* works and editions that were not saved one request at a time

catVars == <<doc, request, begun, behind, blind, crossed>>

Keys == Authors \cup Works \cup Editions

\* The properties that matter: of a redirect its location; of an author its
\* names, each by the author it was the name of at first; of works and editions
\* their authors; of editions their work, and whether there is an ocaid.
Doc == [type: {"none", "author", "redirect", "delete", "work", "edition"},
        location: Authors \cup {NoKey}, names: SUBSET Authors,
        authors: SUBSET Authors, work: Works \cup {NoKey}, ocaid: BOOLEAN]

NewDoc(type) == [type |-> type, location |-> NoKey, names |-> {},
                 authors |-> {}, work |-> NoKey, ocaid |-> FALSE]

Redirect(a) == [NewDoc("redirect") EXCEPT !.location = a]

Pcs == {"idle", "find", "references", "master", "duplicates", "save merge",
        "post book", "save book", "post author", "save author",
        "add book", "save match", "save new"}

\* Documents and requests have their types, documents are of the kind their key
\* says, and what a request saves it has read.
CatTypeOK ==
    /\ doc \in [Keys -> Doc]
    /\ \A a \in Authors : doc[a].type \in {"none", "author", "redirect", "delete"}
    /\ \A a \in Authors : doc[a].type = "redirect" => doc[a].location \in Authors
    /\ \A w \in Works : doc[w].type \in {"none", "work"}
    /\ \A e \in Editions : doc[e].type \in {"none", "edition"}
    /\ \A r \in Requests :
          LET q == request[r] IN
          /\ q.pc \in Pcs /\ q.key \in Keys \cup {NoKey} /\ q.work \in Works \cup {NoKey}
          /\ q.authors \subseteq Authors /\ q.names \subseteq Authors /\ q.ocaid \in BOOLEAN
          /\ q.refs \subseteq Works \cup Editions
          /\ DOMAIN q.read \subseteq Keys /\ \A k \in DOMAIN q.read : q.read[k] \in Doc
          /\ q.pc \in {"save merge", "save author"} => q.key \in DOMAIN q.read
          /\ q.pc = "save merge" => q.refs \cup q.authors \subseteq DOMAIN q.read
          /\ q.pc = "save book" => {q.key, q.work} \ {NoKey} \subseteq DOMAIN q.read
    /\ begun \in 0..MaxRequests /\ behind \in [Requests -> SUBSET Keys]
    /\ blind \in BOOLEAN /\ crossed \subseteq Works \cup Editions

----------------------------------------------------------------------------
OfType(type) == {k \in Keys : doc[k].type = type}

Idle == [pc |-> "idle", key |-> NoKey, work |-> NoKey, authors |-> {}, names |-> {},
         ocaid |-> FALSE, refs |-> {}, read |-> [k \in {} |-> NewDoc("none")]]

At(r, pc) == request[r].pc = pc

\* A request r begins, with the input it is given.
Begin(r, input) ==
    /\ At(r, "idle") /\ begun < MaxRequests
    /\ begun' = begun + 1
    /\ request' = [request EXCEPT ![r] = input]
    /\ behind' = [behind EXCEPT ![r] = {}]
    /\ UNCHANGED <<doc, crossed>>

\* It reads documents, site.get or get_many, and goes on.
ReadCopies(r, keys, pc) ==
    /\ request' = [request EXCEPT ![r].pc = pc,
                      ![r].read = [k \in DOMAIN @ \cup keys |->
                                      IF k \in keys THEN doc[k] ELSE @[k]]]
    /\ UNCHANGED <<doc, begun, crossed>>

Read(r, keys, pc) ==
    ReadCopies(r, keys, pc) /\ behind' = [behind EXCEPT ![r] = @ \ keys]

\* save_many: all documents or none, without a look at their revisions.  The
\* request is over.
SaveMany(r, docs) ==
    /\ doc' = [k \in Keys |-> IF k \in DOMAIN docs THEN docs[k] ELSE doc[k]]
    /\ request' = [request EXCEPT ![r] = Idle]
    /\ behind' = [q \in Requests |->
                     IF q = r \/ At(q, "idle") THEN {}
                     ELSE behind[q] \cup {k \in DOMAIN docs : docs[k] # doc[k]}]
    /\ crossed' = crossed \cup {k \in Works \cup Editions :
                     k \in behind[r] \/ (k \in DOMAIN docs /\ docs[k].authors \cap behind[r] # {})}
    /\ UNCHANGED <<begun, blind>>

\* It ends without a save.
Refuse(r) ==
    /\ request' = [request EXCEPT ![r] = Idle]
    /\ behind' = [behind EXCEPT ![r] = {}]
    /\ UNCHANGED <<doc, begun, blind, crossed>>

----------------------------------------------------------------------------
(* BasicMergeEngine.do_merge and AuthorMergeEngine *)

\* merge_authors_json.POST: keys from a page that was shown when all of them
\* were authors, or that is older; they are not looked at again.
StartMerge(r) ==
    \E master \in Authors, dups \in SUBSET Authors :
        /\ dups # {} /\ master \notin dups
        /\ \A a \in dups \cup {master} : doc[a].type # "none"
        /\ Begin(r, [Idle EXCEPT !.pc = "find", !.key = master, !.authors = dups])
        /\ UNCHANGED blind

\* Mutant: the works of editions that name an author are not found unless they
\* name the author themselves, and editions are not found at all.
Backreferences_Works(dups) == {w \in OfType("work") : doc[w].authors \cap dups # {}}

\* find_all_backreferences: editions, their works, and works.
Backreferences(dups) ==
    LET editions == {e \in OfType("edition") : doc[e].authors \cap dups # {}}
    IN  editions \cup ({doc[e].work : e \in editions} \ {NoKey})
        \cup {w \in OfType("work") : doc[w].authors \cap dups # {}}

FindBackreferences(r) ==
    /\ At(r, "find")
    /\ request' = [request EXCEPT ![r].refs = Backreferences(request[r].authors),
                                  ![r].pc = "references"]
    /\ UNCHANGED <<doc, begun, behind, blind, crossed>>

GetReferences(r) ==
    /\ At(r, "references")
    /\ Read(r, request[r].refs, "master")
    /\ UNCHANGED blind

GetMaster(r) ==
    /\ At(r, "master")
    /\ Read(r, {request[r].key}, "duplicates")
    /\ blind' = (blind \/ doc[request[r].key].type # "author")

\* Mutant: the duplicates are not read.
GetDuplicates_None(r) ==
    /\ At(r, "duplicates")
    /\ Read(r, {}, "save merge")
    /\ UNCHANGED blind

GetDuplicates(r) ==
    /\ At(r, "duplicates")
    /\ Read(r, request[r].authors, "save merge")
    /\ UNCHANGED blind

\* Mutant: the master is added, and the duplicates stay.
ConvertDoc_Adds(d, master, dups) ==
    IF d.authors \cap dups = {} THEN d ELSE [d EXCEPT !.authors = @ \cup {master}]

\* convert_doc.
ConvertDoc(d, master, dups) ==
    IF d.authors \cap dups = {} THEN d
    ELSE [d EXCEPT !.authors = (d.authors \ dups) \cup {master}]

\* Mutant: the master keeps the names it has.
MergeDocs_Master(d, docs) == d

\* Mutant: duplicates of any type are merged, and what they have goes first.
MergeDocs_Any(d, docs) ==
    LET redirects == {b \in docs : b.type = "redirect"} IN
    IF redirects = {} THEN [d EXCEPT !.names = @ \cup UNION {b.names : b \in docs}]
    ELSE CHOOSE b \in redirects : TRUE

\* merge_docs of the master with each of the duplicates that is an author.
MergeDocs(d, docs) ==
    [d EXCEPT !.names = @ \cup UNION {b.names : b \in {b \in docs : b.type = "author"}}]

SaveMerge(r) ==
    LET q == request[r] IN
    /\ At(r, "save merge")
    /\ SaveMany(r, [k \in q.refs \cup q.authors \cup {q.key} |->
                       IF k = q.key THEN MergeDocs(q.read[k], {q.read[a] : a \in q.authors})
                       ELSE IF k \in q.authors THEN Redirect(q.key)
                       ELSE ConvertDoc(q.read[k], q.key, q.authors)])

----------------------------------------------------------------------------
(* book_edit and work_edit *)

\* process_work: what a form may have for authors, empty ones ignored: some of
\* those there are, and one more.
FormAuthors(w) == {S \in SUBSET (doc[w].authors \cup OfType("author")) :
                      Cardinality(S \ doc[w].authors) <= 1 /\ S # {}}

\* GET: the form has the authors and identifiers there are; the patron edits the
\* authors and the rest, and adds or removes the ocaid.
OpenBook(r) ==
    \E e \in OfType("edition") \cup {NoKey}, w \in OfType("work") :
        /\ e # NoKey => doc[e].work = w
        /\ \E authors \in FormAuthors(w), ocaid \in BOOLEAN :
              /\ e = NoKey => ~ocaid
              /\ Begin(r, [Idle EXCEPT !.pc = "post book", !.key = e, !.work = w,
                                       !.authors = authors, !.ocaid = ocaid])
        /\ UNCHANGED blind

\* Mutant: the ocaid is not looked at.
OcaidRemoved_Never(r) == FALSE

\* _prevent_ocaid_deletion, for a user who is no administrator.
OcaidRemoved(r) ==
    LET q == request[r] IN q.key # NoKey /\ doc[q.key].ocaid /\ ~q.ocaid

\* POST: the documents are read again, and process_input raises.
PostBook(r) ==
    LET q == request[r] IN
    /\ At(r, "post book")
    /\ IF OcaidRemoved(r) THEN Refuse(r)
       ELSE Read(r, {q.key, q.work} \ {NoKey}, "save book") /\ UNCHANGED blind

\* SaveBookHelper.save: the work gets the authors of the form and the edition
\* its identifiers.
SaveBook(r) ==
    LET q == request[r] IN
    /\ At(r, "save book")
    /\ SaveMany(r, [k \in {q.key, q.work} \ {NoKey} |->
                       IF k = q.work THEN [q.read[k] EXCEPT !.authors = q.authors]
                       ELSE [q.read[k] EXCEPT !.ocaid = q.ocaid]])

----------------------------------------------------------------------------
(* author_edit *)

\* GET: the form has the names there are.
OpenAuthor(r) ==
    \E a \in OfType("author") :
        /\ Begin(r, [Idle EXCEPT !.pc = "post author", !.key = a, !.names = doc[a].names])
        /\ UNCHANGED blind

\* POST: the author is read again, but its names are those of the form.
PostAuthor(r) ==
    /\ At(r, "post author")
    /\ ReadCopies(r, {request[r].key}, "save author") /\ UNCHANGED behind
    /\ blind' = (blind \/ doc[request[r].key].type # "author")

\* _save, or _delete.
SaveAuthor(r) ==
    LET q == request[r] IN
    /\ At(r, "save author")
    /\ \E d \in {[q.read[q.key] EXCEPT !.names = q.names], NewDoc("delete")} :
          SaveMany(r, [k \in {q.key} |-> d])

----------------------------------------------------------------------------
(* addbook, and load of an import *)

\* find_matches: a work that Solr finds for the author and what is known of the
\* edition, or that the patron picks from a list, or none; the title is free.
\* With a new author what was found is dropped.
MatchingWorks(a) == {NoKey} \cup (IF a = NoKey THEN {} ELSE OfType("work"))

\* addbook.GET, and POST up to the match: an author, or a new one, and a work.
FillBook(r) ==
    \E a \in OfType("author") \cup {NoKey} : \E w \in MatchingWorks(a) :
        /\ Begin(r, [Idle EXCEPT !.pc = "add book", !.key = a, !.work = w])
        /\ UNCHANGED blind

\* The documents of a new edition, and of its author and its work if the
\* request has none.
NewBook(r, a, e, w) ==
    LET q == request[r] IN
    [k \in {e} \cup (IF q.key = NoKey THEN {a} ELSE {}) \cup (IF q.work = NoKey THEN {w} ELSE {}) |->
        IF k = a THEN [NewDoc("author") EXCEPT !.names = {a}]
        ELSE IF k = w THEN [NewDoc("work") EXCEPT !.authors = {a}]
        ELSE [NewDoc("edition") EXCEPT !.work = w]]

\* The author and work that were found, or new keys.
Key(found, new) == IF found = NoKey THEN new \cap OfType("none") ELSE {found}

\* work_match, no_match.
AddBook(r) ==
    /\ At(r, "add book")
    /\ \E a \in Key(request[r].key, Authors), w \in Key(request[r].work, Works),
          e \in Key(NoKey, Editions) : SaveMany(r, NewBook(r, a, e, w))

\* load_data: find_entity finds an author of this name, and find_matching_work
\* one of its works; or there is none.
FindAuthor(r) ==
    \E a \in OfType("author") \cup {NoKey}, w \in OfType("work") \cup {NoKey} :
        /\ w # NoKey => a \in doc[w].authors
        /\ Begin(r, [Idle EXCEPT !.pc = "save new", !.key = a, !.work = w])
        /\ UNCHANGED blind

SaveNew(r) ==
    /\ At(r, "save new")
    /\ \E a \in Key(request[r].key, Authors), w \in Key(request[r].work, Works),
          e \in Key(NoKey, Editions) :
          SaveMany(r, [NewBook(r, a, e, w) EXCEPT ![e].authors = {a}, ![e].ocaid = TRUE])

\* Where redirects lead from an author: to nowhere if they go in a circle.
Target(a) ==
    {b \in Authors :
        /\ doc[b].type # "redirect"
        /\ \A S \in SUBSET Authors :
              a \in S /\ (\A c \in S : doc[c].type = "redirect" => doc[c].location \in S)
              => b \in S}

\* build_pool, early_exit, find_exact_match, find_match: which edition is like the
\* record is up to titles, identifiers and authors, and so may be any.
MatchingEditions == OfType("edition")

\* load, for an edition that matches: it is read with its work, and redirects
\* among its authors are replaced in the list that is iterated over, so that the
\* author behind a redirect is skipped.  For redirects in a circle it never ends.
MatchEdition(r) ==
    \E e \in MatchingEditions :
        LET d == doc[e]
            redirects == {a \in d.authors : doc[a].type = "redirect"}
        IN
        /\ \A a \in redirects : Target(a) # {}
        /\ \E S \in SUBSET redirects :
              /\ Cardinality(redirects \ S) <= Cardinality(S)
              /\ Begin(r, [Idle EXCEPT !.pc = "save match", !.key = e, !.work = d.work,
                     !.authors = (d.authors \ S) \cup UNION {Target(a) : a \in S},
                     !.read = [k \in {e, d.work} |-> doc[k]]])
        /\ UNCHANGED blind

\* The edition gets an ocaid if it has none and the record has one; it is saved
\* with what is new, and so is the work; or nothing is new.
SaveMatch(r) ==
    LET q == request[r] IN
    /\ At(r, "save match")
    /\ \/ \E keys \in (SUBSET {q.key, q.work}) \ {{}}, ocaid \in BOOLEAN :
             SaveMany(r, [k \in keys |->
                 IF k = q.key THEN [q.read[k] EXCEPT !.authors = q.authors,
                                                     !.ocaid = @ \/ ocaid]
                 ELSE q.read[k]])
       \/ Refuse(r)

----------------------------------------------------------------------------
\* Some authors, a work of theirs, and an edition of it that names some of them
\* or none; and an author that was merged before.
CatInit ==
    /\ \E as \in SUBSET Authors, w \in Works, e \in Editions :
       \E wa \in SUBSET as, ea \in SUBSET as, ocaid \in BOOLEAN, gone \in Authors \cup {NoKey} :
          /\ wa # {} /\ gone \notin as
          /\ \E master \in as :
             doc = [k \in Keys |->
                IF k \in as THEN [NewDoc("author") EXCEPT !.names = {k}]
                ELSE IF k = gone THEN Redirect(master)
                ELSE IF k = w THEN [NewDoc("work") EXCEPT !.authors = wa]
                ELSE IF k = e THEN [NewDoc("edition") EXCEPT !.authors = ea, !.work = w,
                                                             !.ocaid = ocaid]
                ELSE NewDoc("none")]
    /\ request = [r \in Requests |-> Idle]
    /\ begun = 0 /\ behind = [r \in Requests |-> {}]
    /\ blind = FALSE /\ crossed = {}

Merge(r) == StartMerge(r) \/ FindBackreferences(r) \/ GetReferences(r) \/ GetMaster(r)
            \/ GetDuplicates(r) \/ SaveMerge(r)
Edit(r) == OpenBook(r) \/ PostBook(r) \/ SaveBook(r)
           \/ OpenAuthor(r) \/ PostAuthor(r) \/ SaveAuthor(r)
Add(r) == FillBook(r) \/ AddBook(r) \/ FindAuthor(r) \/ SaveNew(r)
          \/ MatchEdition(r) \/ SaveMatch(r)

CatNext == \E r \in Requests : Merge(r) \/ Edit(r) \/ Add(r)

CatSpec == CatInit /\ [][CatNext]_catVars

----------------------------------------------------------------------------
(* Properties *)

\* load, walk_redirects: "while is_redirect(a)" ends.  Redirects do not go in a
\* circle - unless a merge or an edit has read a redirect where it expected an
\* author, which it keeps as it is.
RedirectsEnd ==
    blind \/ \A S \in (SUBSET Authors) \ {{}} :
                 \E a \in S : doc[a].type = "redirect" => doc[a].location \notin S

\* AuthorMergeEngine: however old the forms and the copies that are saved back,
\* a book names an author that is a redirect only if it, or the author, was saved
\* by another request while one was under way that saved it or merged the author.
MergedAuthorsAreGone ==
    blind \/ \A k \in Works \cup Editions :
                 (\E a \in doc[k].authors : doc[a].type = "redirect") => k \in crossed

\* merge: what no other request saves during a merge is merged: the duplicates
\* lead to the master, no book names them, and a book that did names the master.
LoneMergesAreComplete ==
    [][\A r \in Requests : SaveMerge(r) /\ behind[r] = {} =>
          LET q == request[r] IN
          /\ \A a \in q.authors : doc'[a] = Redirect(q.key)
          /\ \A k \in Works \cup Editions :
                doc'[k] = [doc[k] EXCEPT !.authors =
                              {IF a \in q.authors THEN q.key ELSE a : a \in @}]]_catVars

Names(d) == UNION {d[a].names : a \in {a \in Authors : d[a].type = "author"}}

\* merge_docs, author_edit: a name that an author has is a name of some author
\* ever after, unless the author is deleted, or was saved by another request since
\* the one that loses it read it or showed it in a form.
NamesAreKept ==
    [][\A r \in Requests :
          ~At(r, "idle") /\ At(r, "idle")' /\ behind[r] \cap Authors = {}
          /\ OfType("delete")' = OfType("delete")
          => blind \/ Names(doc) \subseteq Names(doc')]_catVars

\* _prevent_ocaid_deletion: "Changing Internet Archive ID is not allowed."  An
\* edition loses its ocaid only by a request that read it before it was saved by
\* another one.
OcaidsAreKept ==
    [][\A e \in Editions : doc[e].ocaid /\ ~doc'[e].ocaid =>
          \E r \in Requests : ~At(r, "idle") /\ At(r, "idle")' /\ e \in behind[r]]_catVars

=============================================================================
