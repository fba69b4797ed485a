--------------------------- MODULE CatalogProofs ---------------------------
(***************************************************************************)
(* Theorems about Catalog, for any authors, works, editions and requests:  *)
(* type correctness, that redirects end, that merged authors are gone from *)
(* the books, that a merge nobody interferes with is complete, that names  *)
(* are kept, and that no edition loses its ocaid unnoticed.                *)
(***************************************************************************)
EXTENDS Catalog, TLAPS

----------------------------------------------------------------------------
(* The inductive invariant: documents *)

Books == Works \cup Editions

\* A document is of the kind its key says, and one that is not there is empty.
KindOf(k, d) ==
    /\ k \in Authors => /\ d.type \in {"none", "author", "redirect", "delete"}
                        /\ d.type = "redirect" => d.location \in Authors
    /\ k \in Works => d.type \in {"none", "work"}
    /\ k \in Editions => /\ d.type \in {"none", "edition"}
                         /\ d.type = "edition" => d.work \in Works
    /\ k \in Books /\ d.type = "none" => d.authors = {} /\ ~d.ocaid

There(k, D) == D[k].type # "none"

Documents(D) ==
    /\ D \in [Keys -> Doc]
    /\ \A k \in Keys : KindOf(k, D[k])
    /\ \A e \in Editions : There(e, D) => There(D[e].work, D)

----------------------------------------------------------------------------
(* The inductive invariant: a request q that others have overtaken at b, among *)
(* documents D                                                                 *)

Copies == UNION {[K -> Doc] : K \in SUBSET Keys}

RequestType ==
    [pc: Pcs, key: Keys \cup {NoKey}, work: Works \cup {NoKey}, authors: SUBSET Authors,
     names: SUBSET Authors, ocaid: BOOLEAN, refs: SUBSET Books, read: Copies]

Merging == {"find", "references", "master", "duplicates", "save merge"}

\* What kind of documents a request is about.
Input(q) ==
    /\ q.pc = "idle" => q = Idle
    /\ q.pc \in Merging => q.key \in Authors \ q.authors
    /\ q.pc \in {"post author", "save author"} => q.key \in Authors
    /\ q.pc \in {"post book", "save book"} => q.key \in Editions \cup {NoKey} /\ q.work \in Works
    /\ q.pc \in {"add book", "save new"} => q.key \in Authors \cup {NoKey}
    /\ q.pc = "save match" => q.key \in Editions /\ q.work \in Works

\* What it has read when.
HasRead(q) ==
    /\ q.pc \in {"master", "duplicates", "save merge"} => q.refs \subseteq DOMAIN q.read
    /\ q.pc \in {"duplicates", "save merge", "save author"} => q.key \in DOMAIN q.read
    /\ q.pc = "save merge" => q.authors \subseteq DOMAIN q.read
    /\ q.pc \in {"save book", "save match"} => {q.key, q.work} \ {NoKey} \subseteq DOMAIN q.read
    /\ q.pc = "save book" /\ q.key # NoKey /\ q.read[q.key].ocaid => q.ocaid

\* Its copies are such documents, and of books that are there.
GoodCopies(q, D) ==
    \A k \in DOMAIN q.read :
        /\ KindOf(k, q.read[k])
        /\ k \in Books => q.read[k].type # "none"
        /\ k \in Editions => There(q.read[k].work, D)

\* The books it is about are there.
BooksThere(q, D) == \A k \in Books : k \in q.refs \cup {q.key, q.work} => There(k, D)

\* An author it is about was one when it was read.
AuthorsRead(q) ==
    q.pc \in {"duplicates", "save merge", "save author"} => q.read[q.key].type = "author"

\* A copy is what the document is, or the request is behind.
Fresh(q, b, D) == \A k \in DOMAIN q.read : k \in b \/ q.read[k] = D[k]

\* A merge has found all that names its duplicates, or is behind.
AllFound(q, b, D) ==
    q.pc \in Merging \ {"find"} =>
        \A k \in Books : k \notin q.refs /\ D[k].authors \cap q.authors # {} => k \in b

\* Authors a request will write into a book are no redirects, or it is behind, or
\* the book had a redirect before.
NoRedirects(q, b, D, books) ==
    /\ q.pc \in {"post book", "save book"} =>
           \A a \in q.authors : D[a].type = "redirect" => a \in b \/ q.work \in books
    /\ q.pc = "save match" =>
           \A a \in q.authors : D[a].type = "redirect" => a \in b \/ q.key \in books
    /\ q.pc \in {"add book", "save new"} /\ q.key # NoKey =>
           (D[q.key].type = "redirect" => q.key \in b)

Good(q, b, D) ==
    /\ Input(q) /\ HasRead(q) /\ GoodCopies(q, D) /\ BooksThere(q, D)
    /\ Fresh(q, b, D) /\ AllFound(q, b, D)

\* What holds unless a request was blind.
Clear(q, b, D, books) == AuthorsRead(q) /\ NoRedirects(q, b, D, books)

Tables ==
    /\ request \in [Requests -> RequestType] /\ behind \in [Requests -> SUBSET Keys]
    /\ crossed \subseteq Books /\ blind \in BOOLEAN /\ begun \in 0..MaxRequests

CatInv ==
    /\ Documents(doc) /\ Tables
    /\ \A r \in Requests : Good(request[r], behind[r], doc)
    /\ blind \/ \A r \in Requests : Clear(request[r], behind[r], doc, crossed)
    /\ RedirectsEnd /\ MergedAuthorsAreGone

----------------------------------------------------------------------------
(* Documents and copies *)

\* What the model makes is a document.
AuthorDoc(S) == [NewDoc("author") EXCEPT !.names = S]
WorkDoc(S) == [NewDoc("work") EXCEPT !.authors = S]
EditionDoc(S, w, o) == [NewDoc("edition") EXCEPT !.authors = S, !.work = w, !.ocaid = o]

\* An author with some names.
LEMMA AuthorDocType ==
    ASSUME NEW S \in SUBSET Authors PROVE AuthorDoc(S) \in Doc /\ AuthorDoc(S).type = "author"
BY DEF AuthorDoc, NewDoc, Doc

\* A redirect to an author.
LEMMA RedirectType ==
    ASSUME NEW a \in Authors
    PROVE Redirect(a) \in Doc /\ Redirect(a).type = "redirect" /\ Redirect(a).location = a
BY DEF Redirect, NewDoc, Doc

\* A work of some authors.
LEMMA WorkDocType ==
    ASSUME NEW S \in SUBSET Authors
    PROVE WorkDoc(S) \in Doc /\ WorkDoc(S).type = "work" /\ WorkDoc(S).authors = S
BY DEF WorkDoc, NewDoc, Doc

\* An edition of a work.
LEMMA EditionDocType ==
    ASSUME NEW S \in SUBSET Authors, NEW w \in Works, NEW o \in BOOLEAN
    PROVE /\ EditionDoc(S, w, o) \in Doc /\ EditionDoc(S, w, o).type = "edition"
          /\ EditionDoc(S, w, o).authors = S /\ EditionDoc(S, w, o).work = w
BY DEF EditionDoc, NewDoc, Doc

\* What is not there.
LEMMA NoDocType ==
    /\ NewDoc("none") \in Doc /\ NewDoc("none").type = "none"
    /\ NewDoc("none").authors = {} /\ ~NewDoc("none").ocaid
BY DEF NewDoc, Doc

\* What _delete leaves.
LEMMA DeletedType == NewDoc("delete") \in Doc /\ NewDoc("delete").type = "delete"
BY DEF NewDoc, Doc

\* A request that is over.
LEMMA IdleType == Idle \in RequestType
<1>1. [k \in {} |-> NewDoc("none")] \in [{} -> Doc]
  OBVIOUS
<1>2. [{} -> Doc] \subseteq Copies
  BY DEF Copies
<1>3. QED
  BY <1>1, <1>2 DEF Idle, RequestType, Pcs

\* What a request has read.
LEMMA CopiesType ==
    ASSUME NEW c PROVE c \in Copies <=> DOMAIN c \subseteq Keys /\ c \in [DOMAIN c -> Doc]
BY DEF Copies

\* An idle request is good, whatever there is.
LEMMA IdleGood ==
    ASSUME NEW b, NEW D, NEW books PROVE Good(Idle, b, D) /\ Clear(Idle, b, D, books)
<1>1. /\ Idle.pc = "idle" /\ DOMAIN Idle.read = {} /\ Idle.refs = {} /\ Idle.key = NoKey
      /\ Idle.work = NoKey
  BY DEF Idle
<1>2. NoKey \notin Books
  BY CatalogAssumption DEF Books
<1>3. Input(Idle) /\ HasRead(Idle) /\ AuthorsRead(Idle) /\ AllFound(Idle, b, D)
  BY <1>1 DEF Input, HasRead, AuthorsRead, AllFound, Merging
<1>4. NoRedirects(Idle, b, D, books)
  BY <1>1 DEF NoRedirects
<1>5. GoodCopies(Idle, D) /\ Fresh(Idle, b, D) /\ BooksThere(Idle, D)
  BY <1>1, <1>2 DEF GoodCopies, Fresh, BooksThere
<1>6. QED
  BY <1>3, <1>4, <1>5 DEF Good, Clear

EditionDocs(as, w) == {d \in Doc : d.type = "edition" /\ d.authors \subseteq as /\ d.work = w}

FirstDocs(as, w, e, wa, d, gone, master) ==
    doc = [k \in Keys |-> IF k \in as THEN AuthorDoc({k})
                          ELSE IF k = gone THEN Redirect(master)
                          ELSE IF k = w THEN WorkDoc(wa)
                          ELSE IF k = e THEN d
                          ELSE NewDoc("none")]

\* The invariant holds at first: no author is a redirect but one, which leads to
\* an author and is not named.
LEMMA FirstDocsFacts ==
    ASSUME NEW as \in SUBSET Authors, NEW w \in Works, NEW e \in Editions,
           NEW wa \in SUBSET as, NEW d \in EditionDocs(as, w),
           NEW gone \in Authors \cup {NoKey}, gone \notin as, NEW master \in as,
           FirstDocs(as, w, e, wa, d, gone, master)
    PROVE Documents(doc) /\ RedirectsEnd /\ MergedAuthorsAreGone
<1>a. /\ as \subseteq Keys /\ w \in Keys /\ e \in Keys /\ w # e /\ master \in Authors
      /\ w \notin Authors /\ e \notin Authors /\ gone # w /\ gone # e /\ NoKey \notin Keys
  BY CatalogAssumption DEF Keys
<1>3. /\ \A k \in as : doc[k] \in Doc /\ doc[k].type = "author"
      /\ gone \in Authors => /\ doc[gone] \in Doc /\ doc[gone].type = "redirect"
                             /\ doc[gone].location = master
      /\ doc[w] \in Doc /\ doc[w].type = "work" /\ doc[w].authors \subseteq as
      /\ doc[e] \in Doc /\ doc[e].type = "edition" /\ doc[e].authors \subseteq as /\ doc[e].work = w
      /\ \A k \in Keys \ (as \cup {gone, w, e}) :
            doc[k] \in Doc /\ doc[k].type = "none" /\ doc[k].authors = {} /\ ~doc[k].ocaid
  <2>1. ASSUME NEW k \in as PROVE doc[k] \in Doc /\ doc[k].type = "author"
    <3>1. doc[k] = AuthorDoc({k}) /\ {k} \in SUBSET Authors
      BY <1>a DEF FirstDocs
    <3>2. QED
      BY <3>1, AuthorDocType
  <2>2. ASSUME gone \in Authors
        PROVE doc[gone] \in Doc /\ doc[gone].type = "redirect" /\ doc[gone].location = master
    <3>1. doc[gone] = Redirect(master)
      BY <1>a, <2>2 DEF FirstDocs, Keys
    <3>2. QED
      BY <1>a, <3>1, RedirectType
  <2>3. doc[w] \in Doc /\ doc[w].type = "work" /\ doc[w].authors \subseteq as
    <3>1. doc[w] = WorkDoc(wa) /\ wa \in SUBSET Authors
      BY <1>a DEF FirstDocs
    <3>2. QED
      BY <3>1, WorkDocType
  <2>4. doc[e] \in Doc /\ doc[e].type = "edition" /\ doc[e].authors \subseteq as /\ doc[e].work = w
    <3>1. doc[e] = d
      BY <1>a DEF FirstDocs
    <3>2. QED
      BY <3>1 DEF EditionDocs
  <2>5. ASSUME NEW k \in Keys \ (as \cup {gone, w, e})
        PROVE doc[k] \in Doc /\ doc[k].type = "none" /\ doc[k].authors = {} /\ ~doc[k].ocaid
    <3>1. doc[k] = NewDoc("none")
      BY <1>a DEF FirstDocs
    <3>2. QED
      BY <3>1, NoDocType, Zenon
  <2>6. QED
    BY <2>1, <2>2, <2>3, <2>4, <2>5
<1>4. Documents(doc)
  <2>1. doc \in [Keys -> Doc]
    <3>1. \A k \in Keys : k \in as \/ (k = gone /\ gone \in Authors) \/ k = w \/ k = e
                          \/ k \in Keys \ (as \cup {gone, w, e})
      BY <1>a
    <3>2. \A k \in Keys : doc[k] \in Doc
      BY <1>3, <3>1
    <3>3. doc = [k \in Keys |-> doc[k]]
      BY DEF FirstDocs
    <3>4. QED
      BY <3>2, <3>3
  <2>2. ASSUME NEW k \in Keys PROVE KindOf(k, doc[k])
    <3>1. CASE k \in as
      BY <3>1, <1>3, <1>a, CatalogAssumption DEF KindOf, Books
    <3>2. CASE k = gone
      BY <3>2, <1>3, <1>a, CatalogAssumption DEF KindOf, Books
    <3>3. CASE k = w \/ k = e
      BY <3>3, <1>3, <1>a, CatalogAssumption DEF KindOf, Books
    <3>4. CASE k \notin as \cup {gone, w, e}
      BY <3>4, <1>3 DEF KindOf, Books
    <3>5. QED
      BY <3>1, <3>2, <3>3, <3>4
  <2>3. \A k \in Editions : There(k, doc) => There(doc[k].work, doc)
    <3>1. \A k \in Editions : k \in {e} \cup (Keys \ (as \cup {gone, w, e}))
      BY <1>a, CatalogAssumption DEF Keys
    <3>2. QED
      BY <3>1, <1>3 DEF There
  <2>4. QED
    BY <2>1, <2>2, <2>3 DEF Documents
<1>6. \A a \in Authors : doc[a].type = "redirect" => a = gone /\ doc[a].location = master
  BY <1>3, <1>a, CatalogAssumption DEF Keys
<1>7. RedirectsEnd
  <2> SUFFICES ASSUME NEW S \in (SUBSET Authors) \ {{}}
               PROVE \E a \in S : doc[a].type = "redirect" => doc[a].location \notin S
    BY Zenon DEF RedirectsEnd
  <2>1. CASE S = {gone}
    BY <2>1, <1>6
  <2>2. CASE S # {gone}
    <3>1. \E x : x \in S
      OBVIOUS
    <3>2. \E a \in S : a # gone
      BY <2>2, <3>1
    <3>3. QED
      BY <3>2, <1>6
  <2>3. QED
    BY <2>1, <2>2
<1>8. MergedAuthorsAreGone
  <2> SUFFICES ASSUME NEW k \in Works \cup Editions, NEW a \in doc[k].authors,
                      doc[a].type = "redirect"
               PROVE FALSE
    BY DEF MergedAuthorsAreGone
  <2>1. doc[k].authors \subseteq as
    <3>1. k = w \/ k = e \/ k \in Keys \ (as \cup {gone, w, e})
      BY <1>a, CatalogAssumption DEF Keys
    <3>2. QED
      BY <1>3, <3>1
  <2>2. QED
    BY <2>1, <1>3
<1>9. QED
  BY <1>4, <1>7, <1>8

\* The invariant holds at first.
LEMMA CatInitInv == CatInit => CatInv
<1> SUFFICES ASSUME CatInit PROVE CatInv
  OBVIOUS
<1>1. \E as \in SUBSET Authors, w \in Works, e \in Editions :
      \E wa \in SUBSET as, d \in EditionDocs(as, w), gone \in Authors \cup {NoKey} :
          gone \notin as /\ \E master \in as : FirstDocs(as, w, e, wa, d, gone, master)
  <2>1. \E as \in SUBSET Authors, w \in Works, e \in Editions :
        \E wa \in SUBSET as, ea \in SUBSET as, ocaid \in BOOLEAN, gone \in Authors \cup {NoKey} :
          /\ wa # {} /\ gone \notin as
          /\ \E master \in as : FirstDocs(as, w, e, wa, EditionDoc(ea, w, ocaid), gone, master)
    BY Zenon DEF CatInit, FirstDocs, AuthorDoc, WorkDoc, EditionDoc
  <2>2. ASSUME NEW as \in SUBSET Authors, NEW w \in Works, NEW ea \in SUBSET as, NEW o \in BOOLEAN
        PROVE EditionDoc(ea, w, o) \in EditionDocs(as, w)
    <3>1. PICK d : d = EditionDoc(ea, w, o)
      OBVIOUS
    <3>2. d \in Doc /\ d.type = "edition" /\ d.authors = ea /\ d.work = w
      BY <3>1, EditionDocType, ea \in SUBSET Authors, Zenon
    <3>3. QED
      BY <3>1, <3>2, Zenon DEF EditionDocs
  <2>3. QED
    BY <2>1, <2>2, Zenon
<1>2. Documents(doc) /\ RedirectsEnd /\ MergedAuthorsAreGone
  BY <1>1, FirstDocsFacts
<1>3. /\ Tables
      /\ \A r \in Requests : /\ Good(request[r], behind[r], doc)
                             /\ Clear(request[r], behind[r], doc, crossed)
  <2>1. /\ request = [r \in Requests |-> Idle] /\ behind = [r \in Requests |-> {}]
        /\ begun = 0 /\ blind = FALSE /\ crossed = {} /\ MaxRequests \in Nat
    BY CatalogAssumption DEF CatInit
  <2>2. Tables
    <3>1. request \in [Requests -> RequestType] /\ behind \in [Requests -> SUBSET Keys]
      BY <2>1, IdleType
    <3>2. begun \in 0..MaxRequests
      BY <2>1
    <3>3. QED
      BY <2>1, <3>1, <3>2, Zenon DEF Tables
  <2>3. QED
    BY <2>1, <2>2, IdleGood
<1>4. QED
  BY <1>2, <1>3 DEF CatInv

----------------------------------------------------------------------------
(* Requests that begin, read or refuse *)

\* What a step that saves nothing has to show for the request it is of.
LEMMA NothingSaved ==
    ASSUME CatInv, NEW r \in Requests, NEW q \in RequestType, NEW b \in SUBSET Keys,
           request' = [request EXCEPT ![r] = q], behind' = [behind EXCEPT ![r] = b],
           UNCHANGED <<doc, crossed>>, begun' \in 0..MaxRequests,
           blind' \in BOOLEAN, blind => blind',
           Good(q, b, doc), blind' \/ Clear(q, b, doc, crossed)
    PROVE CatInv'
<1>1. /\ doc' = doc /\ crossed' = crossed
      /\ request \in [Requests -> RequestType] /\ behind \in [Requests -> SUBSET Keys]
      /\ request'[r] = q /\ behind'[r] = b
      /\ \A o \in Requests \ {r} : request'[o] = request[o] /\ behind'[o] = behind[o]
  BY DEF CatInv, Tables
<1>2. Tables'
  BY DEF CatInv, Tables
<1>3. Documents(doc)'
  BY <1>1 DEF CatInv
<1>4. \A o \in Requests : Good(request[o], behind[o], doc)'
  BY <1>1 DEF CatInv
<1>5. blind' \/ \A o \in Requests : Clear(request[o], behind[o], doc, crossed)'
  BY <1>1 DEF CatInv
<1>6. RedirectsEnd' /\ MergedAuthorsAreGone'
  BY <1>1 DEF CatInv, RedirectsEnd, MergedAuthorsAreGone
<1>7. QED
  BY <1>2, <1>3, <1>4, <1>5, <1>6 DEF CatInv

\* A request that begins has read nothing, but for an import that has matched.
LEMMA Begins ==
    ASSUME CatInv, NEW r \in Requests, NEW q \in RequestType, Begin(r, q), UNCHANGED blind,
           Good(q, {}, doc), blind \/ Clear(q, {}, doc, crossed)
    PROVE CatInv'
<1>1. begun' \in 0..MaxRequests
  <2>1. begun \in 0..MaxRequests /\ begun < MaxRequests /\ begun' = begun + 1
    BY DEF CatInv, Tables, Begin
  <2>2. QED
    BY <2>1, CatalogAssumption
<1>2. /\ request' = [request EXCEPT ![r] = q] /\ behind' = [behind EXCEPT ![r] = {}]
      /\ UNCHANGED <<doc, crossed>> /\ blind \in BOOLEAN
  BY DEF Begin, CatInv, Tables
<1>3. QED
  BY <1>1, <1>2, NothingSaved

\* No copies.
LEMMA Nothing == [k \in {} |-> NewDoc("none")] \in Copies /\ DOMAIN [k \in {} |-> NewDoc("none")] = {}
<1>1. [k \in {} |-> NewDoc("none")] \in [{} -> Doc]
  OBVIOUS
<1>2. QED
  BY <1>1 DEF Copies

\* A request that has read nothing and is about books that are there is good.
LEMMA InputGood ==
    ASSUME NEW q, DOMAIN q.read = {}, q.refs = {}, Input(q), BooksThere(q, doc),
           q.pc \in {"find", "post book", "post author", "add book", "save new"}
    PROVE Good(q, {}, doc) /\ AuthorsRead(q)
<1>1. HasRead(q) /\ AllFound(q, {}, doc) /\ AuthorsRead(q)
  BY DEF HasRead, AllFound, AuthorsRead, Merging
<1>2. GoodCopies(q, doc) /\ Fresh(q, {}, doc)
  BY DEF GoodCopies, Fresh
<1>3. QED
  BY <1>1, <1>2 DEF Good

\* One lemma for each way to begin.
LEMMA StartMergeInv == ASSUME CatInv, NEW r \in Requests, StartMerge(r) PROVE CatInv'
<1>1. PICK master \in Authors, dups \in SUBSET Authors :
        /\ master \notin dups
        /\ Begin(r, [Idle EXCEPT !.pc = "find", !.key = master, !.authors = dups])
        /\ UNCHANGED blind
  BY DEF StartMerge
<1>2. PICK q : q = [Idle EXCEPT !.pc = "find", !.key = master, !.authors = dups]
  OBVIOUS
<1>3. /\ q \in RequestType /\ q.pc = "find" /\ q.key = master /\ q.authors = dups
      /\ DOMAIN q.read = {} /\ q.refs = {} /\ q.work = NoKey
  BY <1>2, Nothing DEF Idle, RequestType, Pcs, Keys
<1>4. Input(q)
  BY <1>1, <1>3 DEF Input, Merging
<1>5. BooksThere(q, doc)
  BY <1>3, CatalogAssumption DEF BooksThere, Books
<1>6. NoRedirects(q, {}, doc, crossed)
  BY <1>3 DEF NoRedirects
<1>7. Good(q, {}, doc) /\ Clear(q, {}, doc, crossed)
  BY <1>3, <1>4, <1>5, <1>6, InputGood DEF Clear
<1>8. QED
  BY <1>1, <1>2, <1>3, <1>7, Begins

LEMMA OpenAuthorInv == ASSUME CatInv, NEW r \in Requests, OpenAuthor(r) PROVE CatInv'
<1>1. PICK a \in OfType("author") :
        /\ Begin(r, [Idle EXCEPT !.pc = "post author", !.key = a, !.names = doc[a].names])
        /\ UNCHANGED blind
  BY DEF OpenAuthor
<1>a. a \in Authors /\ doc[a].names \in SUBSET Authors
  <2>1. a \in Keys /\ doc[a].type = "author" /\ KindOf(a, doc[a]) /\ doc[a] \in Doc
    BY DEF OfType, CatInv, Documents
  <2>2. a \notin Works /\ a \notin Editions
    BY <2>1 DEF KindOf
  <2>3. QED
    BY <2>1, <2>2 DEF Keys, Doc
<1>2. PICK q, names : names = doc[a].names
                      /\ q = [Idle EXCEPT !.pc = "post author", !.key = a, !.names = names]
  OBVIOUS
<1>3. /\ q \in RequestType /\ q.pc = "post author" /\ q.key = a
      /\ DOMAIN q.read = {} /\ q.refs = {} /\ q.work = NoKey
  BY <1>2, <1>a, Nothing DEF Idle, RequestType, Pcs, Keys
<1>4. Input(q)
  BY <1>a, <1>3 DEF Input, Merging
<1>5. BooksThere(q, doc)
  BY <1>3, <1>a, CatalogAssumption DEF BooksThere, Books
<1>6. NoRedirects(q, {}, doc, crossed)
  BY <1>3 DEF NoRedirects
<1>7. Good(q, {}, doc) /\ Clear(q, {}, doc, crossed)
  BY <1>3, <1>4, <1>5, <1>6, InputGood DEF Clear
<1>8. QED
  BY <1>1, <1>2, <1>3, <1>7, Begins

\* Documents of a type have keys of that kind.
LEMMA OfTypes ==
    ASSUME CatInv
    PROVE /\ OfType("author") \subseteq Authors /\ OfType("work") \subseteq Works
          /\ OfType("edition") \subseteq Editions
          /\ \A e \in OfType("edition") : doc[e].work \in Works /\ There(doc[e].work, doc)
          /\ \A k \in OfType("work") \cup OfType("edition") : There(k, doc)
<1>1. \A k \in Keys : KindOf(k, doc[k])
  BY DEF CatInv, Documents
<1>2. \A e \in Editions : There(e, doc) => There(doc[e].work, doc)
  BY DEF CatInv, Documents
<1>3. /\ OfType("author") \subseteq Authors /\ OfType("work") \subseteq Works
      /\ OfType("edition") \subseteq Editions
  BY <1>1 DEF OfType, KindOf, Keys
<1>4. \A k \in OfType("work") \cup OfType("edition") : There(k, doc)
  BY DEF OfType, There
<1>5. \A e \in OfType("edition") : doc[e].work \in Works
  BY <1>1, <1>3 DEF OfType, KindOf
<1>6. QED
  BY <1>2, <1>3, <1>4, <1>5

LEMMA OpenBookInv == ASSUME CatInv, NEW r \in Requests, OpenBook(r) PROVE CatInv'
<1>1. PICK e \in OfType("edition") \cup {NoKey}, w \in OfType("work") :
        /\ e # NoKey => doc[e].work = w
        /\ \E authors \in FormAuthors(w), ocaid \in BOOLEAN :
              /\ e = NoKey => ~ocaid
              /\ Begin(r, [Idle EXCEPT !.pc = "post book", !.key = e, !.work = w,
                                       !.authors = authors, !.ocaid = ocaid])
        /\ UNCHANGED blind
  BY DEF OpenBook
<1>2. PICK authors \in FormAuthors(w), ocaid \in BOOLEAN :
          Begin(r, [Idle EXCEPT !.pc = "post book", !.key = e, !.work = w,
                                !.authors = authors, !.ocaid = ocaid])
  BY <1>1
<1>3. /\ e \in Editions \cup {NoKey} /\ w \in Works /\ There(w, doc)
      /\ e # NoKey => There(e, doc)
  BY OfTypes
<1>4. authors \in SUBSET Authors
  <2>1. doc[w] \in Doc
    BY <1>3 DEF CatInv, Documents, Keys
  <2>2. doc[w].authors \subseteq Authors
    BY <2>1 DEF Doc
  <2>3. QED
    BY <2>2, OfTypes DEF FormAuthors
<1>5. PICK q : q = [Idle EXCEPT !.pc = "post book", !.key = e, !.work = w,
                                !.authors = authors, !.ocaid = ocaid]
  OBVIOUS
<1>6. /\ q.pc = "post book" /\ q.key = e /\ q.work = w /\ q.authors = authors
      /\ DOMAIN q.read = {} /\ q.refs = {}
  BY <1>5, Nothing DEF Idle
<1>7. q \in RequestType
  BY <1>3, <1>4, <1>5, Nothing DEF Idle, RequestType, Pcs, Keys
<1>8. Input(q)
  BY <1>3, <1>6 DEF Input, Merging
<1>9. BooksThere(q, doc)
  BY <1>3, <1>6, CatalogAssumption DEF BooksThere, Books
<1>10. blind \/ NoRedirects(q, {}, doc, crossed)
  <2> SUFFICES ASSUME ~blind, NEW a \in authors, doc[a].type = "redirect" PROVE w \in crossed
    BY <1>6 DEF NoRedirects
  <2>1. a \in doc[w].authors
    BY DEF FormAuthors, OfType
  <2>2. QED
    BY <2>1, <1>3 DEF CatInv, MergedAuthorsAreGone
<1>11. Good(q, {}, doc) /\ (blind \/ Clear(q, {}, doc, crossed))
  BY <1>6, <1>8, <1>9, <1>10, InputGood DEF Clear
<1>12. QED
  BY <1>1, <1>2, <1>5, <1>7, <1>11, Begins

LEMMA FillBookInv == ASSUME CatInv, NEW r \in Requests, FillBook(r) PROVE CatInv'
<1>1. PICK a \in OfType("author") \cup {NoKey} : \E w \in MatchingWorks(a) :
        /\ Begin(r, [Idle EXCEPT !.pc = "add book", !.key = a, !.work = w])
        /\ UNCHANGED blind
  BY DEF FillBook
<1>2. PICK w \in MatchingWorks(a) :
        /\ Begin(r, [Idle EXCEPT !.pc = "add book", !.key = a, !.work = w])
        /\ UNCHANGED blind
  BY <1>1
<1>3. /\ a \in Authors \cup {NoKey} /\ w \in Works \cup {NoKey}
      /\ w # NoKey => There(w, doc)
      /\ a # NoKey => doc[a].type = "author"
  BY OfTypes DEF MatchingWorks, OfType
<1>4. PICK q : q = [Idle EXCEPT !.pc = "add book", !.key = a, !.work = w]
  OBVIOUS
<1>5. /\ q \in RequestType /\ q.pc = "add book" /\ q.key = a /\ q.work = w
      /\ DOMAIN q.read = {} /\ q.refs = {}
  BY <1>3, <1>4, Nothing DEF Idle, RequestType, Pcs, Keys
<1>6. Input(q) /\ NoRedirects(q, {}, doc, crossed)
  BY <1>3, <1>5 DEF Input, Merging, NoRedirects
<1>7. BooksThere(q, doc)
  BY <1>3, <1>5, CatalogAssumption DEF BooksThere, Books
<1>8. Good(q, {}, doc) /\ Clear(q, {}, doc, crossed)
  BY <1>5, <1>6, <1>7, InputGood DEF Clear
<1>9. QED
  BY <1>2, <1>4, <1>5, <1>8, Begins

LEMMA FindAuthorInv == ASSUME CatInv, NEW r \in Requests, FindAuthor(r) PROVE CatInv'
<1>1. PICK a \in OfType("author") \cup {NoKey}, w \in OfType("work") \cup {NoKey} :
        /\ Begin(r, [Idle EXCEPT !.pc = "save new", !.key = a, !.work = w])
        /\ UNCHANGED blind
  BY DEF FindAuthor
<1>3. /\ a \in Authors \cup {NoKey} /\ w \in Works \cup {NoKey}
      /\ w # NoKey => There(w, doc)
      /\ a # NoKey => doc[a].type = "author"
  BY OfTypes DEF OfType
<1>4. PICK q : q = [Idle EXCEPT !.pc = "save new", !.key = a, !.work = w]
  OBVIOUS
<1>5. /\ q \in RequestType /\ q.pc = "save new" /\ q.key = a /\ q.work = w
      /\ DOMAIN q.read = {} /\ q.refs = {}
  BY <1>3, <1>4, Nothing DEF Idle, RequestType, Pcs, Keys
<1>6. Input(q) /\ NoRedirects(q, {}, doc, crossed)
  BY <1>3, <1>5 DEF Input, Merging, NoRedirects
<1>7. BooksThere(q, doc)
  BY <1>3, <1>5, CatalogAssumption DEF BooksThere, Books
<1>8. Good(q, {}, doc) /\ Clear(q, {}, doc, crossed)
  BY <1>5, <1>6, <1>7, InputGood DEF Clear
<1>9. QED
  BY <1>1, <1>4, <1>5, <1>8, Begins

LEMMA MatchEditionInv == ASSUME CatInv, NEW r \in Requests, MatchEdition(r) PROVE CatInv'
<1>1. PICK e \in OfType("edition") :
        \E S \in SUBSET {a \in doc[e].authors : doc[a].type = "redirect"} :
           Begin(r, [Idle EXCEPT !.pc = "save match", !.key = e, !.work = doc[e].work,
                     !.authors = (doc[e].authors \ S) \cup UNION {Target(a) : a \in S},
                     !.read = [k \in {e, doc[e].work} |-> doc[k]]])
  BY DEF MatchEdition, MatchingEditions
<1>2. PICK S \in SUBSET {a \in doc[e].authors : doc[a].type = "redirect"} :
           Begin(r, [Idle EXCEPT !.pc = "save match", !.key = e, !.work = doc[e].work,
                     !.authors = (doc[e].authors \ S) \cup UNION {Target(a) : a \in S},
                     !.read = [k \in {e, doc[e].work} |-> doc[k]]])
  BY <1>1
<1>3. PICK w, authors, read, q :
        /\ w = doc[e].work /\ authors = (doc[e].authors \ S) \cup UNION {Target(a) : a \in S}
        /\ read = [k \in {e, w} |-> doc[k]]
        /\ q = [Idle EXCEPT !.pc = "save match", !.key = e, !.work = w, !.authors = authors,
                            !.read = read]
  OBVIOUS
<1>4. /\ e \in Editions /\ w \in Works /\ There(e, doc) /\ There(w, doc)
      /\ \A k \in {e, w} : k \in Keys /\ doc[k] \in Doc /\ KindOf(k, doc[k])
  BY <1>3, OfTypes DEF Keys, CatInv, Documents
<1>5. authors \in SUBSET Authors
  <2>1. doc[e].authors \subseteq Authors
    BY <1>4 DEF Doc
  <2>2. UNION {Target(a) : a \in S} \subseteq Authors
    BY DEF Target
  <2>3. QED
    BY <2>1, <2>2, <1>3
<1>6. \A a \in authors : doc[a].type = "redirect" => a \in doc[e].authors
  BY <1>3 DEF Target
<1>7. read \in Copies
  <2>1. read \in [{e, w} -> Doc]
    BY <1>3, <1>4
  <2>2. QED
    BY <2>1, <1>4 DEF Copies
<1>8. /\ q \in RequestType /\ q.pc = "save match" /\ q.key = e /\ q.work = w /\ q.authors = authors
      /\ q.read = read /\ DOMAIN q.read = {e, w} /\ q.refs = {}
      /\ \A k \in {e, w} : q.read[k] = doc[k]
  BY <1>3, <1>4, <1>5, <1>7, Nothing DEF Idle, RequestType, Pcs, Keys
<1>9. Input(q) /\ HasRead(q)
  BY <1>4, <1>8 DEF Input, HasRead, Merging
<1>10. GoodCopies(q, doc)
  <2>1. \A k \in {e, w} : k \in Editions => k = e
    BY <1>4, CatalogAssumption
  <2>2. QED
    BY <1>3, <1>4, <1>8, <2>1 DEF GoodCopies, There
<1>11. BooksThere(q, doc) /\ Fresh(q, {}, doc) /\ AllFound(q, {}, doc)
  BY <1>4, <1>8 DEF BooksThere, Fresh, AllFound, Merging
<1>12. blind \/ NoRedirects(q, {}, doc, crossed)
  <2> SUFFICES ASSUME ~blind, NEW a \in authors, doc[a].type = "redirect" PROVE e \in crossed
    BY <1>8 DEF NoRedirects
  <2>1. QED
    BY <1>4, <1>6 DEF CatInv, MergedAuthorsAreGone
<1>13. AuthorsRead(q)
  BY <1>8 DEF AuthorsRead
<1>14. Good(q, {}, doc) /\ (blind \/ Clear(q, {}, doc, crossed))
  BY <1>9, <1>10, <1>11, <1>12, <1>13 DEF Good, Clear
<1>15. Begin(r, q) /\ UNCHANGED blind
  BY <1>2, <1>3 DEF MatchEdition
<1>16. QED
  BY <1>8, <1>14, <1>15, Begins

----------------------------------------------------------------------------
(* Requests that read *)

\* What a request is after it has read keys.
AfterRead(q, r, keys, pc) ==
    /\ request' = [request EXCEPT ![r] = q]
    /\ q.pc = pc /\ q.key = request[r].key /\ q.work = request[r].work
    /\ q.authors = request[r].authors /\ q.refs = request[r].refs
    /\ q.names = request[r].names /\ q.ocaid = request[r].ocaid
    /\ DOMAIN q.read = DOMAIN request[r].read \cup keys
    /\ \A k \in keys : q.read[k] = doc[k]
    /\ \A k \in DOMAIN request[r].read \ keys : q.read[k] = request[r].read[k]
    /\ GoodCopies(q, doc) /\ BooksThere(q, doc) /\ Fresh(q, behind[r] \ keys, doc)

LEMMA Reads ==
    ASSUME CatInv, NEW r \in Requests, NEW keys \in SUBSET Keys, NEW pc \in Pcs,
           ReadCopies(r, keys, pc), \A k \in keys \cap Books : There(k, doc)
    PROVE \E q \in RequestType : AfterRead(q, r, keys, pc)
<1>1. PICK p, read, q :
        /\ p = request[r]
        /\ read = [k \in DOMAIN p.read \cup keys |-> IF k \in keys THEN doc[k] ELSE p.read[k]]
        /\ q = [p EXCEPT !.pc = pc, !.read = read]
  OBVIOUS
<1>2. request' = [request EXCEPT ![r] = q]
  BY <1>1 DEF ReadCopies, CatInv, Tables
<1>3. p \in RequestType /\ Good(p, behind[r], doc)
  BY <1>1 DEF CatInv, Tables
<1>4. DOMAIN p.read \subseteq Keys /\ p.read \in [DOMAIN p.read -> Doc]
  BY <1>3, CopiesType DEF RequestType
<1>5. \A k \in Keys : doc[k] \in Doc /\ KindOf(k, doc[k])
  BY DEF CatInv, Documents
<1>6. read \in Copies
  <2>1. read \in [DOMAIN p.read \cup keys -> Doc]
    BY <1>1, <1>4, <1>5
  <2>2. QED
    BY <2>1, <1>4 DEF Copies
<1>7. q \in RequestType
  BY <1>1, <1>3, <1>6 DEF RequestType
<1>8. /\ q.pc = pc /\ q.key = p.key /\ q.work = p.work /\ q.authors = p.authors
      /\ q.refs = p.refs /\ q.names = p.names /\ q.ocaid = p.ocaid /\ q.read = read
  BY <1>1, <1>3 DEF RequestType
<1>9. /\ DOMAIN q.read = DOMAIN p.read \cup keys
      /\ \A k \in keys : q.read[k] = doc[k]
      /\ \A k \in DOMAIN p.read \ keys : q.read[k] = p.read[k]
  BY <1>1, <1>8
<1>10. GoodCopies(q, doc)
  <2>1. GoodCopies(p, doc)
    BY <1>3 DEF Good
  <2>2. ASSUME NEW k \in keys
        PROVE /\ KindOf(k, doc[k])
              /\ k \in Books => doc[k].type # "none"
              /\ k \in Editions => There(doc[k].work, doc)
    BY <1>5 DEF There, CatInv, Documents, Books
  <2>3. QED
    BY <1>9, <2>1, <2>2 DEF GoodCopies
<1>11. BooksThere(q, doc) /\ Fresh(q, behind[r] \ keys, doc)
  BY <1>3, <1>8, <1>9 DEF Good, BooksThere, Fresh
<1>12. QED
  BY <1>1, <1>2, <1>7, <1>8, <1>9, <1>10, <1>11, Zenon DEF AfterRead

\* One lemma for each step that reads.
LEMMA GetReferencesInv == ASSUME CatInv, NEW r \in Requests, GetReferences(r) PROVE CatInv'
<1>1. PICK refs : refs = request[r].refs
  OBVIOUS
<1>2. /\ ReadCopies(r, refs, "master")
      /\ behind' = [behind EXCEPT ![r] = behind[r] \ refs] /\ UNCHANGED <<blind, doc, crossed, begun>>
      /\ request[r].pc = "references" /\ request[r] \in RequestType
      /\ Good(request[r], behind[r], doc)
      /\ behind[r] \in SUBSET Keys /\ begun \in 0..MaxRequests /\ blind \in BOOLEAN
  BY <1>1 DEF GetReferences, At, Read, ReadCopies, CatInv, Tables
<1>3. refs \in SUBSET Keys /\ \A k \in refs \cap Books : There(k, doc)
  BY <1>1, <1>2 DEF RequestType, Books, Keys, Good, BooksThere
<1>x. "master" \in Pcs
  BY DEF Pcs
<1>y. PICK q \in RequestType : AfterRead(q, r, refs, "master")
  BY <1>2, <1>3, <1>x, Reads
<1>4. /\ request' = [request EXCEPT ![r] = q]
      /\ behind' = [behind EXCEPT ![r] = behind[r] \ refs]
      /\ q.pc = "master" /\ q.key = request[r].key /\ q.authors = request[r].authors
      /\ q.refs = request[r].refs
      /\ DOMAIN q.read = DOMAIN request[r].read \cup refs
      /\ GoodCopies(q, doc) /\ BooksThere(q, doc) /\ Fresh(q, behind[r] \ refs, doc)
  BY <1>2, <1>y DEF AfterRead
<1>5. Input(q)
  BY <1>2, <1>4 DEF Good, Input, Merging
<1>6. HasRead(q)
  BY <1>1, <1>4 DEF HasRead
<1>7. AllFound(q, behind[r] \ refs, doc)
  BY <1>1, <1>2, <1>4 DEF Good, AllFound, Merging
<1>8. Clear(q, behind[r] \ refs, doc, crossed)
  BY <1>4 DEF Clear, AuthorsRead, NoRedirects
<1>9. Good(q, behind[r] \ refs, doc)
  BY <1>4, <1>5, <1>6, <1>7 DEF Good
<1>10. QED
  BY <1>2, <1>4, <1>8, <1>9, NothingSaved

LEMMA GetMasterInv == ASSUME CatInv, NEW r \in Requests, GetMaster(r) PROVE CatInv'
<1>1. PICK key : key = request[r].key
  OBVIOUS
<1>2. /\ ReadCopies(r, {key}, "duplicates")
      /\ behind' = [behind EXCEPT ![r] = behind[r] \ {key}] /\ UNCHANGED <<doc, crossed, begun>>
      /\ request[r].pc = "master" /\ request[r] \in RequestType
      /\ Good(request[r], behind[r], doc)
      /\ behind[r] \in SUBSET Keys /\ begun \in 0..MaxRequests
  BY <1>1 DEF GetMaster, At, Read, ReadCopies, CatInv, Tables
<1>3. key \in Authors /\ key \in Keys /\ key \notin Books
  BY <1>1, <1>2, CatalogAssumption DEF Good, Input, Merging, Keys, Books
<1>x. "duplicates" \in Pcs
  BY DEF Pcs
<1>y. PICK q \in RequestType : AfterRead(q, r, {key}, "duplicates")
  BY <1>2, <1>3, <1>x, Reads
<1>4. /\ request' = [request EXCEPT ![r] = q]
      /\ behind' = [behind EXCEPT ![r] = behind[r] \ {key}]
      /\ q.pc = "duplicates" /\ q.key = request[r].key /\ q.authors = request[r].authors
      /\ q.refs = request[r].refs
      /\ DOMAIN q.read = DOMAIN request[r].read \cup {key}
      /\ q.read[key] = doc[key]
      /\ GoodCopies(q, doc) /\ BooksThere(q, doc) /\ Fresh(q, behind[r] \ {key}, doc)
  BY <1>2, <1>y DEF AfterRead
<1>5. Input(q)
  BY <1>2, <1>4 DEF Good, Input, Merging
<1>6. HasRead(q)
  BY <1>1, <1>2, <1>4 DEF Good, HasRead
<1>7. AllFound(q, behind[r] \ {key}, doc)
  BY <1>2, <1>3, <1>4 DEF Good, AllFound, Merging
<1>8. blind' \in BOOLEAN /\ (blind => blind')
      /\ (blind' \/ doc[key].type = "author")
  BY <1>1, Zenon DEF GetMaster, CatInv, Tables
<1>9. NoRedirects(q, behind[r] \ {key}, doc, crossed)
  BY <1>4 DEF NoRedirects
<1>10. doc[key].type = "author" => AuthorsRead(q)
  BY <1>1, <1>4 DEF AuthorsRead
<1>11. Good(q, behind[r] \ {key}, doc)
  BY <1>4, <1>5, <1>6, <1>7 DEF Good
<1>12. blind' \/ Clear(q, behind[r] \ {key}, doc, crossed)
  BY <1>8, <1>9, <1>10, Zenon DEF Clear
<1>13. behind[r] \ {key} \in SUBSET Keys
  BY <1>2
<1>14. begun' \in 0..MaxRequests /\ UNCHANGED <<doc, crossed>>
  BY <1>2
<1>15. QED
  BY <1>4, <1>8, <1>11, <1>12, <1>13, <1>14, NothingSaved

LEMMA GetDuplicatesInv == ASSUME CatInv, NEW r \in Requests, GetDuplicates(r) PROVE CatInv'
<1>1. PICK dups : dups = request[r].authors
  OBVIOUS
<1>2. /\ ReadCopies(r, dups, "save merge")
      /\ behind' = [behind EXCEPT ![r] = behind[r] \ dups] /\ UNCHANGED <<blind, doc, crossed, begun>>
      /\ request[r].pc = "duplicates" /\ request[r] \in RequestType
      /\ Good(request[r], behind[r], doc)
      /\ behind[r] \in SUBSET Keys /\ begun \in 0..MaxRequests /\ blind \in BOOLEAN
  BY <1>1 DEF GetDuplicates, At, Read, ReadCopies, CatInv, Tables
<1>3. dups \in SUBSET Keys /\ dups \cap Books = {} /\ request[r].key \notin dups
  BY <1>1, <1>2, CatalogAssumption DEF RequestType, Keys, Books, Good, Input, Merging
<1>x. "save merge" \in Pcs
  BY DEF Pcs
<1>y. PICK q \in RequestType : AfterRead(q, r, dups, "save merge")
  BY <1>2, <1>3, <1>x, Reads
<1>4. /\ request' = [request EXCEPT ![r] = q]
      /\ behind' = [behind EXCEPT ![r] = behind[r] \ dups]
      /\ q.pc = "save merge" /\ q.key = request[r].key /\ q.authors = request[r].authors
      /\ q.refs = request[r].refs
      /\ DOMAIN q.read = DOMAIN request[r].read \cup dups
      /\ \A k \in DOMAIN request[r].read \ dups : q.read[k] = request[r].read[k]
      /\ GoodCopies(q, doc) /\ BooksThere(q, doc) /\ Fresh(q, behind[r] \ dups, doc)
  BY <1>2, <1>y DEF AfterRead
<1>5. Input(q)
  BY <1>2, <1>4 DEF Good, Input, Merging
<1>6. HasRead(q)
  BY <1>1, <1>2, <1>4 DEF Good, HasRead
<1>7. AllFound(q, behind[r] \ dups, doc)
  BY <1>2, <1>3, <1>4 DEF Good, AllFound, Merging
<1>8. NoRedirects(q, behind[r] \ dups, doc, crossed)
  BY <1>4 DEF NoRedirects
<1>9. blind \/ AuthorsRead(q)
  <2>1. request[r].key \in DOMAIN request[r].read
    BY <1>2 DEF Good, HasRead
  <2>2. blind \/ AuthorsRead(request[r])
    BY DEF CatInv, Clear
  <2>3. AuthorsRead(request[r]) => AuthorsRead(q)
    BY <1>2, <1>3, <1>4, <2>1 DEF AuthorsRead
  <2>4. QED
    BY <2>2, <2>3
<1>10. Good(q, behind[r] \ dups, doc)
  BY <1>4, <1>5, <1>6, <1>7 DEF Good
<1>11. blind' \/ Clear(q, behind[r] \ dups, doc, crossed)
  BY <1>2, <1>8, <1>9, Zenon DEF Clear
<1>12. QED
  BY <1>2, <1>4, <1>10, <1>11, NothingSaved

LEMMA FindBackreferencesInv ==
    ASSUME CatInv, NEW r \in Requests, FindBackreferences(r) PROVE CatInv'
<1>1. PICK p, refs, q : /\ p = request[r] /\ refs = Backreferences(p.authors)
                        /\ q = [p EXCEPT !.refs = refs, !.pc = "references"]
  OBVIOUS
<1>2. /\ p \in RequestType /\ Good(p, behind[r], doc) /\ p.pc = "find"
      /\ request' = [request EXCEPT ![r] = q] /\ UNCHANGED <<doc, begun, behind, blind, crossed>>
      /\ behind \in [Requests -> SUBSET Keys] /\ begun \in 0..MaxRequests
      /\ \A k \in Keys : KindOf(k, doc[k])
  BY <1>1 DEF FindBackreferences, At, CatInv, Tables, Documents
<1>3. refs \subseteq Books /\ \A k \in refs : There(k, doc)
  BY <1>1, OfTypes, CatalogAssumption DEF Backreferences, Books
<1>4. /\ q \in RequestType /\ q.pc = "references" /\ q.key = p.key /\ q.authors = p.authors
      /\ q.refs = refs /\ q.read = p.read /\ q.work = p.work
  BY <1>1, <1>2, <1>3 DEF RequestType, Pcs
<1>5. Input(q) /\ HasRead(q) /\ AuthorsRead(q) /\ NoRedirects(q, behind[r], doc, crossed)
  BY <1>2, <1>4 DEF Good, Input, HasRead, Merging, AuthorsRead, NoRedirects
<1>6. GoodCopies(q, doc) /\ Fresh(q, behind[r], doc) /\ BooksThere(q, doc)
  BY <1>2, <1>3, <1>4 DEF Good, GoodCopies, Fresh, BooksThere
<1>7. AllFound(q, behind[r], doc)
  <2> SUFFICES ASSUME NEW k \in Books, doc[k].authors \cap p.authors # {} PROVE k \in refs
    BY <1>4 DEF AllFound
  <2>1. k \in Keys /\ doc[k].type # "none"
    BY <1>2 DEF KindOf, Books, Keys
  <2>2. doc[k].type \in {"work", "edition"}
    BY <1>2, <2>1 DEF KindOf, Books
  <2>3. QED
    BY <1>1, <2>1, <2>2 DEF Backreferences, OfType
<1>8. Good(q, behind[r], doc) /\ Clear(q, behind[r], doc, crossed)
  BY <1>5, <1>6, <1>7 DEF Good, Clear
<1>9. behind' = [behind EXCEPT ![r] = behind[r]] /\ behind[r] \in SUBSET Keys
      /\ blind' \in BOOLEAN /\ begun' \in 0..MaxRequests
  BY <1>2 DEF CatInv, Tables
<1>10. blind => blind'
  BY <1>2
<1>11. QED
  BY <1>2, <1>4, <1>8, <1>9, <1>10, NothingSaved

\* A request that is refused.
LEMMA RefuseInv == ASSUME CatInv, NEW r \in Requests, Refuse(r) PROVE CatInv'
<1>1. /\ request' = [request EXCEPT ![r] = Idle] /\ behind' = [behind EXCEPT ![r] = {}]
      /\ UNCHANGED <<doc, crossed>> /\ blind' \in BOOLEAN /\ begun' \in 0..MaxRequests
  BY DEF Refuse, CatInv, Tables
<1>2. blind => blind'
  BY DEF Refuse
<1>3. QED
  BY <1>1, <1>2, IdleType, IdleGood, NothingSaved

LEMMA PostBookInv == ASSUME CatInv, NEW r \in Requests, PostBook(r) PROVE CatInv'
<1>1. CASE OcaidRemoved(r)
  BY <1>1, RefuseInv DEF PostBook
<1>2. CASE ~OcaidRemoved(r)
  <2>1. PICK p, keys : p = request[r] /\ keys = {p.key, p.work} \ {NoKey}
    OBVIOUS
  <2>2. ReadCopies(r, keys, "save book")
        /\ behind' = [behind EXCEPT ![r] = behind[r] \ keys] /\ UNCHANGED blind
    BY <1>2, <2>1 DEF PostBook, Read, CatInv, Tables
  <2>3. /\ p.pc = "post book" /\ p \in RequestType /\ Good(p, behind[r], doc)
        /\ UNCHANGED <<doc, crossed, begun>>
        /\ behind[r] \in SUBSET Keys /\ begun \in 0..MaxRequests /\ blind \in BOOLEAN
    BY <2>1, <2>2 DEF PostBook, At, Read, ReadCopies, CatInv, Tables
  <2>4. p.key \in Editions \cup {NoKey} /\ p.work \in Works
    BY <2>3 DEF Good, Input
  <2>5. keys \in SUBSET Keys /\ keys \cap Authors = {} /\ \A k \in keys \cap Books : There(k, doc)
    BY <2>1, <2>3, <2>4, CatalogAssumption DEF Good, BooksThere, Keys, Books
  <2>6. "save book" \in Pcs
    BY DEF Pcs
  <2>7. PICK q \in RequestType : AfterRead(q, r, keys, "save book")
    BY <2>2, <2>5, <2>6, Reads
  <2>8. /\ request' = [request EXCEPT ![r] = q]
        /\ behind' = [behind EXCEPT ![r] = behind[r] \ keys]
        /\ q.pc = "save book" /\ q.key = p.key /\ q.work = p.work /\ q.authors = p.authors
        /\ keys \subseteq DOMAIN q.read /\ \A k \in keys : q.read[k] = doc[k]
        /\ GoodCopies(q, doc) /\ BooksThere(q, doc) /\ Fresh(q, behind[r] \ keys, doc)
    BY <2>1, <2>2, <2>7 DEF AfterRead
  <2>9. Input(q) /\ AllFound(q, behind[r] \ keys, doc) /\ AuthorsRead(q)
    BY <2>4, <2>8 DEF Input, AllFound, Merging, AuthorsRead
  <2>10. HasRead(q)
    <3>1. q.key # NoKey /\ q.read[q.key].ocaid => q.ocaid
      <4>1. q.ocaid = p.ocaid
        BY <2>1, <2>7 DEF AfterRead
      <4>2. q.key # NoKey => q.read[q.key] = doc[p.key]
        BY <2>1, <2>8
      <4>3. p.key # NoKey /\ doc[p.key].ocaid => p.ocaid
        BY <1>2, <2>1 DEF OcaidRemoved
      <4>4. QED
        BY <4>1, <4>2, <4>3, <2>8
    <3>2. QED
      BY <2>1, <2>8, <3>1 DEF HasRead
  <2>11. blind \/ NoRedirects(q, behind[r] \ keys, doc, crossed)
    <3>1. blind \/ NoRedirects(p, behind[r], doc, crossed)
      BY <2>1 DEF CatInv, Clear
    <3>2. p.authors \subseteq Authors
      BY <2>3 DEF RequestType
    <3>3. NoRedirects(p, behind[r], doc, crossed) => NoRedirects(q, behind[r] \ keys, doc, crossed)
      BY <2>3, <2>5, <2>8, <3>2 DEF NoRedirects
    <3>4. QED
      BY <3>1, <3>3
  <2>12. Good(q, behind[r] \ keys, doc) /\ (blind \/ Clear(q, behind[r] \ keys, doc, crossed))
    BY <2>8, <2>9, <2>10, <2>11 DEF Good, Clear
  <2>13. blind' \/ Clear(q, behind[r] \ keys, doc, crossed)
    BY <2>2, <2>12
  <2>14. /\ behind[r] \ keys \in SUBSET Keys /\ begun' \in 0..MaxRequests
         /\ UNCHANGED <<doc, crossed>>
    BY <2>3
  <2>15. blind' \in BOOLEAN /\ (blind => blind')
    BY <2>2, <2>3
  <2>16. QED
    BY <2>8, <2>12, <2>13, <2>14, <2>15, NothingSaved
<1>3. QED
  BY <1>1, <1>2

LEMMA PostAuthorInv == ASSUME CatInv, NEW r \in Requests, PostAuthor(r) PROVE CatInv'
<1>1. PICK key : key = request[r].key
  OBVIOUS
<1>2. /\ ReadCopies(r, {key}, "save author") /\ UNCHANGED <<behind, doc, crossed, begun>>
      /\ request[r].pc = "post author" /\ request[r] \in RequestType
      /\ Good(request[r], behind[r], doc)
      /\ behind[r] \in SUBSET Keys /\ begun \in 0..MaxRequests
  BY <1>1 DEF PostAuthor, At, Read, ReadCopies, CatInv, Tables
<1>3. key \in Authors /\ {key} \in SUBSET Keys /\ key \notin Books
  BY <1>1, <1>2, CatalogAssumption DEF Good, Input, Keys, Books
<1>4. "save author" \in Pcs
  BY DEF Pcs
<1>5. PICK q \in RequestType : AfterRead(q, r, {key}, "save author")
  BY <1>2, <1>3, <1>4, Reads
<1>6. /\ request' = [request EXCEPT ![r] = q]
      /\ behind' = [behind EXCEPT ![r] = behind[r]]
      /\ q.pc = "save author" /\ q.key = key
      /\ key \in DOMAIN q.read /\ q.read[key] = doc[key]
      /\ GoodCopies(q, doc) /\ BooksThere(q, doc) /\ Fresh(q, behind[r], doc)
  BY <1>1, <1>2, <1>5 DEF AfterRead, CatInv, Tables, Fresh
<1>7. Input(q) /\ HasRead(q) /\ AllFound(q, behind[r], doc)
  BY <1>3, <1>6 DEF Input, HasRead, Merging, AllFound
<1>8. blind' \in BOOLEAN /\ (blind => blind')
      /\ (blind' \/ doc[key].type = "author")
  BY <1>1, Zenon DEF PostAuthor, CatInv, Tables
<1>9. /\ NoRedirects(q, behind[r], doc, crossed)
      /\ doc[key].type = "author" => AuthorsRead(q)
  BY <1>6 DEF NoRedirects, AuthorsRead
<1>10. Good(q, behind[r], doc)
  BY <1>6, <1>7 DEF Good
<1>11. blind' \/ Clear(q, behind[r], doc, crossed)
  BY <1>8, <1>9, Zenon DEF Clear
<1>12. /\ behind[r] \in SUBSET Keys /\ begun' \in 0..MaxRequests
       /\ UNCHANGED <<doc, crossed>>
  BY <1>2
<1>13. QED
  BY <1>6, <1>8, <1>10, <1>11, <1>12, NothingSaved

----------------------------------------------------------------------------
(* Requests that save *)

\* What may be saved: documents of the kind their keys say, books that are there,
\* editions with a work that is there or is saved with them.
Savable(docs) ==
    /\ DOMAIN docs \subseteq Keys
    /\ \A k \in DOMAIN docs :
          /\ docs[k] \in Doc /\ KindOf(k, docs[k])
          /\ k \in Books => docs[k].type # "none"
          /\ k \in Editions => docs[k].work \in DOMAIN docs \/ There(docs[k].work, doc)

\* A save keeps what all requests rely on; whom it overtakes is behind.
LEMMA Saves ==
    ASSUME CatInv, NEW r \in Requests, NEW docs, SaveMany(r, docs), Savable(docs)
    PROVE /\ Documents(doc)' /\ Tables'
          /\ \A o \in Requests : Good(request[o], behind[o], doc)'
          /\ blind' \/ \A o \in Requests : Clear(request[o], behind[o], doc, crossed)'
          /\ blind' = blind /\ crossed \subseteq crossed'
<1>1. /\ doc' = [k \in Keys |-> IF k \in DOMAIN docs THEN docs[k] ELSE doc[k]]
      /\ request' = [request EXCEPT ![r] = Idle]
      /\ behind' = [q \in Requests |->
                     IF q = r \/ At(q, "idle") THEN {}
                     ELSE behind[q] \cup {k \in DOMAIN docs : docs[k] # doc[k]}]
      /\ crossed' = crossed \cup {k \in Works \cup Editions :
                     k \in behind[r] \/ (k \in DOMAIN docs /\ docs[k].authors \cap behind[r] # {})}
      /\ UNCHANGED <<begun, blind>>
  BY DEF SaveMany
<1>2. /\ request \in [Requests -> RequestType] /\ behind \in [Requests -> SUBSET Keys]
      /\ crossed \subseteq Books /\ DOMAIN docs \subseteq Keys
  BY DEF CatInv, Tables, Savable
<1>3. Tables'
  <2>1. request' \in [Requests -> RequestType]
    BY <1>1, <1>2, IdleType
  <2>2. behind' \in [Requests -> SUBSET Keys]
    BY <1>1, <1>2
  <2>3. crossed' \subseteq Books
    BY <1>1, <1>2 DEF Books
  <2>4. blind' \in BOOLEAN /\ begun' \in 0..MaxRequests
    BY <1>1 DEF CatInv, Tables
  <2>5. QED
    BY <2>1, <2>2, <2>3, <2>4 DEF Tables
<1>4. PICK D, D2 : D = doc /\ D2 = doc'
  OBVIOUS
<1>5. /\ D \in [Keys -> Doc] /\ \A k \in Keys : KindOf(k, D[k])
      /\ \A e \in Editions : There(e, D) => There(D[e].work, D)
  BY <1>4 DEF CatInv, Documents
<1>6. /\ \A k \in DOMAIN docs : D2[k] = docs[k]
      /\ \A k \in Keys \ DOMAIN docs : D2[k] = D[k]
  BY <1>1, <1>2, <1>4
<1>7. \A k \in Books : There(k, D) => There(k, D2)
  BY <1>6 DEF Savable, There, Books, Keys
<1>8. Documents(D2)
  <2>1. D2 \in [Keys -> Doc]
    BY <1>1, <1>4, <1>5 DEF Savable
  <2>2. \A k \in Keys : KindOf(k, D2[k])
    BY <1>5, <1>6 DEF Savable
  <2>3. ASSUME NEW e \in Editions, There(e, D2) PROVE There(D2[e].work, D2)
    <3>1. D2[e].work \in Works
      BY <2>2, <2>3 DEF KindOf, There, Keys
    <3>2. CASE e \in DOMAIN docs
      <4>1. docs[e].work \in DOMAIN docs \/ There(docs[e].work, D)
        BY <1>4, <3>2 DEF Savable
      <4>2. docs[e].work \in DOMAIN docs => docs[docs[e].work].type # "none"
        BY <1>6, <3>1, <3>2 DEF Savable, Books
      <4>3. QED
        BY <1>6, <1>7, <3>1, <3>2, <4>1, <4>2 DEF There, Books
    <3>3. CASE e \notin DOMAIN docs
      BY <1>5, <1>6, <1>7, <2>3, <3>1, <3>3 DEF There, Books, Keys
    <3>4. QED
      BY <3>2, <3>3
  <2>4. QED
    BY <2>1, <2>2, <2>3 DEF Documents
<1>9. ASSUME NEW o \in Requests
      PROVE /\ Good(request'[o], behind'[o], D2)
            /\ blind \/ Clear(request'[o], behind'[o], D2, crossed')
  <2>1. CASE o = r \/ At(o, "idle")
    <3>1. request'[o] = Idle
      BY <1>1, <1>2, <2>1 DEF At, CatInv, Good, Input
    <3>2. QED
      BY <3>1, IdleGood
  <2>2. CASE ~(o = r \/ At(o, "idle"))
    <3>1. PICK q, b, b2, books, books2 :
             /\ q = request[o] /\ b = behind[o] /\ b2 = behind'[o]
             /\ books = crossed /\ books2 = crossed'
      OBVIOUS
    <3>2. /\ request'[o] = q /\ b2 = b \cup {k \in DOMAIN docs : docs[k] # D[k]}
          /\ books \subseteq books2
      BY <1>1, <1>2, <1>4, <2>2, <3>1
    <3>3. /\ Good(q, b, D) /\ q \in RequestType
          /\ blind \/ Clear(q, b, D, books)
      BY <1>2, <1>4, <3>1 DEF CatInv
    <3>4. \A k \in Keys : k \in b2 \/ (D2[k] = D[k] /\ (k \in b2 <=> k \in b))
      BY <1>6, <3>2
    <3>5. b \subseteq b2
      BY <3>2
    <3>6. /\ DOMAIN q.read \subseteq Keys /\ q.authors \subseteq Authors
          /\ q.key \in Keys \cup {NoKey}
      BY <3>3, CopiesType DEF RequestType
    <3>7. GoodCopies(q, D2)
      <4>1. GoodCopies(q, D)
        BY <3>3 DEF Good
      <4>2. \A k \in DOMAIN q.read : k \in Editions => q.read[k].work \in Books
        BY <4>1, CatalogAssumption DEF GoodCopies, KindOf, Books
      <4>3. QED
        BY <1>7, <4>1, <4>2 DEF GoodCopies
    <3>8. Fresh(q, b2, D2)
      BY <3>3, <3>4, <3>6 DEF Good, Fresh
    <3>9. BooksThere(q, D2)
      BY <1>7, <3>3 DEF Good, BooksThere
    <3>10. AllFound(q, b2, D2)
      BY <3>3, <3>4 DEF Good, AllFound, Books, Keys
    <3>11. NoRedirects(q, b, D, books) => NoRedirects(q, b2, D2, books2)
      <4>1. \A a \in Authors : a \in Keys
        BY DEF Keys
      <4>2. q.pc \in {"add book", "save new"} /\ q.key # NoKey => q.key \in Authors
        BY <3>3 DEF Good, Input
      <4>3. QED
        BY <3>2, <3>4, <3>6, <4>1, <4>2 DEF NoRedirects
    <3>12. Good(q, b2, D2)
      BY <3>3, <3>7, <3>8, <3>9, <3>10 DEF Good
    <3>13. blind \/ Clear(q, b2, D2, books2)
      BY <3>3, <3>11 DEF Clear
    <3>14. QED
      BY <3>1, <3>2, <3>12, <3>13
  <2>3. QED
    BY <2>1, <2>2
<1>10. \A o \in Requests : Good(request[o], behind[o], doc)'
  BY <1>4, <1>9
<1>11. blind' \/ \A o \in Requests : Clear(request[o], behind[o], doc, crossed)'
  BY <1>1, <1>4, <1>9
<1>12. QED
  BY <1>1, <1>3, <1>4, <1>8, <1>10, <1>11

\* A save of no redirect keeps redirects ending, and merged authors gone if what it
\* writes names a redirect only where it is behind.
LEMMA SavesNoRedirect ==
    ASSUME CatInv, NEW r \in Requests, NEW docs, SaveMany(r, docs), Savable(docs),
           blind \/ \A a \in DOMAIN docs \cap Authors : docs[a].type # "redirect",
           blind \/ \A k \in DOMAIN docs \cap Books : \A a \in docs[k].authors :
                       \/ doc[a].type # "redirect"
                       \/ k \in crossed \cup behind[r] \/ a \in behind[r]
    PROVE CatInv'
<1>1. /\ \A k \in DOMAIN docs : doc'[k] = docs[k]
      /\ \A k \in Keys \ DOMAIN docs : doc'[k] = doc[k]
      /\ \A k \in Books : k \in behind[r] => k \in crossed'
      /\ \A k \in Books \cap DOMAIN docs : docs[k].authors \cap behind[r] # {} => k \in crossed'
      /\ crossed \subseteq crossed' /\ blind' = blind
  BY DEF SaveMany, Savable, Books
<1>2. RedirectsEnd'
  <2> SUFFICES ASSUME ~blind, NEW S \in (SUBSET Authors) \ {{}}
               PROVE \E a \in S : doc'[a].type = "redirect" => doc'[a].location \notin S
    BY <1>1 DEF RedirectsEnd
  <2>1. PICK a \in S : doc[a].type = "redirect" => doc[a].location \notin S
    BY DEF CatInv, RedirectsEnd
  <2>2. a \in Keys /\ a \in Authors
    BY DEF Keys
  <2>3. QED
    BY <1>1, <2>1, <2>2
<1>3. MergedAuthorsAreGone'
  <2> SUFFICES ASSUME ~blind, NEW k \in Books, NEW a \in doc'[k].authors, doc'[a].type = "redirect"
               PROVE k \in crossed'
    BY <1>1 DEF MergedAuthorsAreGone, Books
  <2>1. k \in Keys /\ a \in Keys /\ a \in Authors
    BY Saves DEF Documents, Doc, Books, Keys
  <2>2. a \notin DOMAIN docs /\ doc[a].type = "redirect"
    BY <1>1, <2>1
  <2>3. CASE k \in DOMAIN docs
    BY <1>1, <2>2, <2>3
  <2>4. CASE k \notin DOMAIN docs
    BY <1>1, <2>1, <2>2, <2>4 DEF CatInv, MergedAuthorsAreGone, Books
  <2>5. QED
    BY <2>3, <2>4
<1>4. QED
  BY <1>2, <1>3, Saves DEF CatInv

\* What becomes of a copy that is merged into, or converted.
LEMMA MergeDocsType ==
    ASSUME NEW d \in Doc, NEW docs \in SUBSET Doc
    PROVE /\ MergeDocs(d, docs) \in Doc /\ MergeDocs(d, docs).type = d.type
          /\ MergeDocs(d, docs).location = d.location
<1>1. PICK names : names = d.names \cup UNION {b.names : b \in {b \in docs : b.type = "author"}}
  OBVIOUS
<1>2. names \in SUBSET Authors
  <2>1. \A b \in Doc : b.names \subseteq Authors
    BY DEF Doc
  <2>2. QED
    BY <1>1, <2>1
<1>3. MergeDocs(d, docs) = [d EXCEPT !.names = names]
  BY <1>1 DEF MergeDocs
<1>4. QED
  BY <1>2, <1>3 DEF Doc

\* The authors of a book when the duplicates have become the master.
Renamed(authors, master, dups) == {IF a \in dups THEN master ELSE a : a \in authors}

LEMMA ConvertDocType ==
    ASSUME NEW d \in Doc, NEW master \in Authors, NEW dups \in SUBSET Authors
    PROVE LET c == ConvertDoc(d, master, dups) IN
          /\ c \in Doc /\ c.type = d.type /\ c.work = d.work
          /\ c = [d EXCEPT !.authors = c.authors]
          /\ c.authors \subseteq (d.authors \ dups) \cup {master}
          /\ c.authors = Renamed(d.authors, master, dups)
<1>1. PICK c : c = ConvertDoc(d, master, dups)
  OBVIOUS
<1>2. CASE d.authors \cap dups = {}
  <2>1. c = d
    BY <1>1, <1>2 DEF ConvertDoc
  <2>2. c.authors = Renamed(d.authors, master, dups)
    BY <1>2, <2>1 DEF Renamed
  <2>3. d = [d EXCEPT !.authors = d.authors]
    BY DEF Doc
  <2>4. QED
    BY <1>1, <1>2, <2>1, <2>2, <2>3
<1>3. CASE d.authors \cap dups # {}
  <2>1. c = [d EXCEPT !.authors = (d.authors \ dups) \cup {master}]
    BY <1>1, <1>3 DEF ConvertDoc
  <2>2. /\ c \in Doc /\ c.type = d.type /\ c.work = d.work
        /\ c.authors = (d.authors \ dups) \cup {master}
    BY <2>1 DEF Doc
  <2>3. c.authors = Renamed(d.authors, master, dups)
    BY <1>3, <2>2 DEF Renamed
  <2>4. QED
    BY <1>1, <2>1, <2>2, <2>3
<1>4. QED
  BY <1>2, <1>3

\* What a merge saves.
MergedDocs(q) ==
    [k \in q.refs \cup q.authors \cup {q.key} |->
        IF k = q.key THEN MergeDocs(q.read[k], {q.read[a] : a \in q.authors})
        ELSE IF k \in q.authors THEN Redirect(q.key)
        ELSE ConvertDoc(q.read[k], q.key, q.authors)]

LEMMA MergeSaves ==
    ASSUME CatInv, NEW r \in Requests, NEW q, q = request[r], SaveMerge(r)
    PROVE /\ SaveMany(r, MergedDocs(q)) /\ Savable(MergedDocs(q))
          /\ q \in RequestType /\ q.pc = "save merge" /\ Good(q, behind[r], doc)
          /\ q.key \in Authors /\ q.key \notin q.authors /\ q.authors \subseteq Authors
          /\ q.refs \subseteq Books
          /\ blind \/ MergedDocs(q)[q.key].type = "author"
          /\ \A a \in q.authors : MergedDocs(q)[a] = Redirect(q.key)
          /\ \A k \in q.refs : /\ MergedDocs(q)[k] = ConvertDoc(q.read[k], q.key, q.authors)
                               /\ q.read[k] \in Doc /\ k \in DOMAIN q.read
<1>1. /\ q \in RequestType /\ q.pc = "save merge" /\ Good(q, behind[r], doc)
      /\ SaveMany(r, MergedDocs(q))
  BY DEF SaveMerge, At, MergedDocs, CatInv, Tables
<1>2. /\ q.key \in Authors /\ q.key \notin q.authors
      /\ q.refs \cup q.authors \cup {q.key} \subseteq DOMAIN q.read
      /\ \A k \in DOMAIN q.read : /\ KindOf(k, q.read[k])
                                  /\ k \in Books => q.read[k].type # "none"
                                  /\ k \in Editions => There(q.read[k].work, doc)
  BY <1>1 DEF Good, Input, HasRead, GoodCopies, Merging
<1>3. /\ q.authors \subseteq Authors /\ q.refs \subseteq Books
      /\ DOMAIN q.read \subseteq Keys /\ \A k \in DOMAIN q.read : q.read[k] \in Doc
  BY <1>1, CopiesType DEF RequestType
<1>a. Authors \cap Books = {} /\ Works \cap Editions = {}
  BY CatalogAssumption DEF Books
<1>4. PICK docs : docs = MergedDocs(q)
  OBVIOUS
<1>5. DOMAIN docs = q.refs \cup q.authors \cup {q.key}
  BY <1>4 DEF MergedDocs
<1>6. docs[q.key] = MergeDocs(q.read[q.key], {q.read[a] : a \in q.authors})
  BY <1>4 DEF MergedDocs
<1>7. \A a \in q.authors : docs[a] = Redirect(q.key)
  BY <1>2, <1>4 DEF MergedDocs
<1>8. \A k \in q.refs : docs[k] = ConvertDoc(q.read[k], q.key, q.authors)
  BY <1>2, <1>3, <1>4, <1>a DEF MergedDocs
<1>9. /\ docs[q.key] \in Doc /\ docs[q.key].type = q.read[q.key].type
      /\ docs[q.key].location = q.read[q.key].location
  <2>1. q.read[q.key] \in Doc /\ {q.read[a] : a \in q.authors} \in SUBSET Doc
    BY <1>2, <1>3
  <2>2. QED
    BY <1>6, <2>1, MergeDocsType
<1>10. ASSUME NEW a \in q.authors
       PROVE docs[a] \in Doc /\ docs[a].type = "redirect" /\ docs[a].location = q.key
  BY <1>2, <1>7, RedirectType
<1>11. ASSUME NEW k \in q.refs
       PROVE docs[k] \in Doc /\ docs[k].type = q.read[k].type /\ docs[k].work = q.read[k].work
  BY <1>2, <1>3, <1>8, ConvertDocType
<1>12. Savable(docs)
  <2>1. DOMAIN docs \subseteq Keys
    BY <1>2, <1>3, <1>5
  <2>2. KindOf(q.key, docs[q.key])
    BY <1>2, <1>9, <1>a DEF KindOf, Books
  <2>3. \A a \in q.authors : KindOf(a, docs[a])
    BY <1>2, <1>3, <1>10, <1>a DEF KindOf, Books
  <2>4. ASSUME NEW k \in q.refs
        PROVE /\ KindOf(k, docs[k]) /\ docs[k].type # "none"
              /\ k \in Editions => There(docs[k].work, doc)
    BY <1>2, <1>3, <1>11, <1>a DEF KindOf, Books
  <2>5. \A k \in q.authors \cup {q.key} : k \notin Books /\ k \notin Editions
    BY <1>2, <1>3, <1>a DEF Books
  <2>6. QED
    BY <1>5, <1>9, <1>10, <1>11, <2>1, <2>2, <2>3, <2>4, <2>5 DEF Savable
<1>13. blind \/ docs[q.key].type = "author"
  BY <1>1, <1>9 DEF CatInv, Clear, AuthorsRead
<1>14. QED
  BY <1>1, <1>2, <1>3, <1>4, <1>7, <1>8, <1>12, <1>13

\* One lemma for each save.
LEMMA SaveMergeInv == ASSUME CatInv, NEW r \in Requests, SaveMerge(r) PROVE CatInv'
<1>1. PICK q, docs : q = request[r] /\ docs = MergedDocs(q)
  OBVIOUS
<1>a. DOMAIN docs = q.refs \cup q.authors \cup {q.key}
  BY <1>1 DEF MergedDocs
<1>2. /\ SaveMany(r, docs) /\ Savable(docs)
      /\ Good(q, behind[r], doc) /\ q.pc = "save merge"
      /\ q.key \in Authors /\ q.key \notin q.authors /\ q.authors \subseteq Authors
      /\ q.refs \subseteq Books /\ DOMAIN docs = q.refs \cup q.authors \cup {q.key}
      /\ blind \/ docs[q.key].type = "author"
      /\ \A a \in q.authors : docs[a] = Redirect(q.key)
      /\ \A k \in q.refs : docs[k] = ConvertDoc(q.read[k], q.key, q.authors)
      /\ \A k \in q.refs : q.read[k] \in Doc /\ k \in DOMAIN q.read
  BY <1>1, <1>a, MergeSaves
<1>3. Authors \cap Books = {}
  BY CatalogAssumption DEF Books
<1>4. /\ \A k \in DOMAIN docs : doc'[k] = docs[k]
      /\ \A k \in Keys \ DOMAIN docs : doc'[k] = doc[k]
      /\ \A k \in Books : k \in behind[r] => k \in crossed'
      /\ crossed \subseteq crossed' /\ blind' = blind
  BY <1>2 DEF SaveMany, Savable, Books
<1>5. \A a \in q.authors : doc'[a].type = "redirect" /\ doc'[a].location = q.key
  <2>1. \A a \in q.authors : doc'[a] = Redirect(q.key)
    BY <1>2, <1>4
  <2>2. Redirect(q.key).type = "redirect" /\ Redirect(q.key).location = q.key
    BY <1>2, RedirectType
  <2>3. QED
    BY <2>1, <2>2
<1>6. RedirectsEnd'
  <2> SUFFICES ASSUME ~blind, NEW S \in (SUBSET Authors) \ {{}}
               PROVE \E a \in S : doc'[a].type = "redirect" => doc'[a].location \notin S
    BY <1>4 DEF RedirectsEnd
  <2>1. CASE q.key \in S
    BY <1>2, <1>4, <2>1
  <2>2. CASE q.key \notin S /\ \E a \in S : a \in q.authors
    BY <1>5, <2>2
  <2>3. CASE q.key \notin S /\ \A a \in S : a \notin q.authors
    <3>1. \A a \in S : doc'[a] = doc[a]
      BY <1>2, <1>3, <1>4, <2>3 DEF Keys
    <3>2. PICK a \in S : doc[a].type = "redirect" => doc[a].location \notin S
      BY DEF CatInv, RedirectsEnd
    <3>3. QED
      BY <3>1, <3>2
  <2>4. QED
    BY <2>1, <2>2, <2>3
<1>7. MergedAuthorsAreGone'
  <2> SUFFICES ASSUME ~blind, NEW k \in Books, NEW a \in doc'[k].authors, doc'[a].type = "redirect"
               PROVE k \in crossed'
    BY <1>4 DEF MergedAuthorsAreGone, Books
  <2>1. k \in Keys /\ a \in Keys /\ a \in Authors
    BY <1>2, Saves DEF Documents, Doc, Books, Keys
  <2>2. a # q.key
    BY <1>2, <1>4
  <2>3. CASE k \in q.refs
    <3>1. a \in q.read[k].authors /\ a \notin q.authors
      <4>1. doc'[k].authors \subseteq (q.read[k].authors \ q.authors) \cup {q.key}
        <5>1. doc'[k] = ConvertDoc(q.read[k], q.key, q.authors) /\ q.read[k] \in Doc
          BY <1>2, <1>4, <2>3
        <5>2. PICK d, key, dups : d = q.read[k] /\ key = q.key /\ dups = q.authors
          OBVIOUS
        <5>3. d \in Doc /\ key \in Authors /\ dups \in SUBSET Authors
          BY <1>2, <5>1, <5>2
        <5>4. ConvertDoc(d, key, dups).authors \subseteq (d.authors \ dups) \cup {key}
          BY <5>3, ConvertDocType
        <5>5. QED
          BY <5>1, <5>2, <5>4
      <4>2. QED
        BY <2>2, <4>1
    <3>2. doc[a].type = "redirect"
      BY <1>2, <1>3, <1>4, <2>1, <2>2, <3>1
    <3>3. k \in behind[r] \/ q.read[k] = doc[k]
      BY <1>2, <2>3 DEF Good, Fresh
    <3>4. QED
      BY <1>4, <3>1, <3>2, <3>3 DEF CatInv, MergedAuthorsAreGone, Books
  <2>4. CASE k \notin q.refs
    <3>1. doc'[k] = doc[k]
      BY <1>2, <1>3, <1>4, <2>1, <2>4
    <3>2. CASE a \in q.authors
      BY <1>2, <1>4, <2>4, <3>1, <3>2 DEF Good, AllFound, Merging
    <3>3. CASE a \notin q.authors
      <4>1. doc[a].type = "redirect"
        BY <1>2, <1>3, <1>4, <2>1, <2>2, <3>3
      <4>2. QED
        BY <1>4, <3>1, <4>1 DEF CatInv, MergedAuthorsAreGone, Books
    <3>4. QED
      BY <3>2, <3>3
  <2>5. QED
    BY <2>3, <2>4
<1>8. QED
  BY <1>2, <1>6, <1>7, Saves DEF CatInv

LEMMA SaveBookInv == ASSUME CatInv, NEW r \in Requests, SaveBook(r) PROVE CatInv'
<1>1. PICK q, docs : /\ q = request[r]
                     /\ docs = [k \in {q.key, q.work} \ {NoKey} |->
                                   IF k = q.work THEN [q.read[k] EXCEPT !.authors = q.authors]
                                   ELSE [q.read[k] EXCEPT !.ocaid = q.ocaid]]
  OBVIOUS
<1>2. /\ SaveMany(r, docs) /\ q.pc = "save book" /\ q \in RequestType /\ Good(q, behind[r], doc)
      /\ blind \/ Clear(q, behind[r], doc, crossed)
  BY <1>1 DEF SaveBook, At, CatInv, Tables
<1>3. /\ q.key \in Editions \cup {NoKey} /\ q.work \in Works /\ q.authors \in SUBSET Authors
      /\ q.key # q.work /\ q.work # NoKey
  BY <1>2, CatalogAssumption DEF Good, Input, RequestType
<1>4. \A k \in {q.key, q.work} \ {NoKey} :
         /\ k \in DOMAIN q.read /\ q.read[k] \in Doc /\ KindOf(k, q.read[k])
         /\ q.read[k].type # "none" /\ (k \in Editions => There(q.read[k].work, doc))
  <2>1. {q.key, q.work} \ {NoKey} \subseteq DOMAIN q.read
    BY <1>2 DEF Good, HasRead
  <2>2. \A k \in DOMAIN q.read : q.read[k] \in Doc
    BY <1>2, CopiesType DEF RequestType
  <2>3. QED
    BY <1>2, <1>3, <2>1, <2>2 DEF Good, GoodCopies, Books
<1>5. /\ docs[q.work] \in Doc /\ docs[q.work].type = q.read[q.work].type
      /\ docs[q.work].authors = q.authors
  <2>1. docs[q.work] = [q.read[q.work] EXCEPT !.authors = q.authors]
    BY <1>1, <1>3
  <2>2. QED
    BY <2>1, <1>3, <1>4 DEF Doc
<1>6. q.key # NoKey => /\ docs[q.key] \in Doc /\ docs[q.key].type = q.read[q.key].type
                       /\ docs[q.key].authors = q.read[q.key].authors
                       /\ docs[q.key].work = q.read[q.key].work
  <2> SUFFICES ASSUME q.key # NoKey
               PROVE /\ docs[q.key] \in Doc /\ docs[q.key].type = q.read[q.key].type
                     /\ docs[q.key].authors = q.read[q.key].authors
                     /\ docs[q.key].work = q.read[q.key].work
    OBVIOUS
  <2>1. docs[q.key] = [q.read[q.key] EXCEPT !.ocaid = q.ocaid]
    BY <1>1, <1>3
  <2>2. q.ocaid \in BOOLEAN
    BY <1>2 DEF RequestType
  <2>3. QED
    BY <2>1, <2>2, <1>4 DEF Doc
<1>7. DOMAIN docs = {q.key, q.work} \ {NoKey} /\ DOMAIN docs \cap Authors = {}
  BY <1>1, <1>3, CatalogAssumption
<1>8. Savable(docs)
  <2>1. DOMAIN docs \subseteq Keys
    BY <1>3, <1>7 DEF Keys
  <2>2. KindOf(q.work, docs[q.work])
    BY <1>3, <1>4, <1>5, CatalogAssumption DEF KindOf, Books
  <2>3. q.key # NoKey => KindOf(q.key, docs[q.key])
    BY <1>3, <1>4, <1>6, CatalogAssumption DEF KindOf, Books
  <2>4. q.work \notin Editions
    BY <1>3, CatalogAssumption
  <2>5. QED
    BY <1>3, <1>4, <1>5, <1>6, <1>7, <2>1, <2>2, <2>3, <2>4 DEF Savable
<1>9. ASSUME ~blind, NEW k \in DOMAIN docs \cap Books, NEW a \in docs[k].authors,
             doc[a].type = "redirect"
      PROVE k \in crossed \cup behind[r] \/ a \in behind[r]
  <2>1. CASE k = q.work
    BY <1>2, <1>5, <1>9, <2>1 DEF Clear, NoRedirects
  <2>2. CASE k = q.key /\ k # q.work
    <3>1. a \in q.read[k].authors /\ k \in DOMAIN q.read
      BY <1>4, <1>6, <1>7, <1>9, <2>2
    <3>2. k \in behind[r] \/ q.read[k] = doc[k]
      BY <1>2, <3>1 DEF Good, Fresh
    <3>3. QED
      BY <1>9, <3>1, <3>2 DEF CatInv, MergedAuthorsAreGone, Books
  <2>3. QED
    BY <1>7, <2>1, <2>2
<1>10. QED
  BY <1>2, <1>7, <1>8, <1>9, SavesNoRedirect

LEMMA SaveAuthorInv == ASSUME CatInv, NEW r \in Requests, SaveAuthor(r) PROVE CatInv'
<1>1. PICK q : q = request[r]
  OBVIOUS
<1>2. PICK d \in {[q.read[q.key] EXCEPT !.names = q.names], NewDoc("delete")} :
         SaveMany(r, [k \in {q.key} |-> d])
  BY <1>1 DEF SaveAuthor
<1>3. /\ q.pc = "save author" /\ q \in RequestType /\ Good(q, behind[r], doc)
      /\ blind \/ Clear(q, behind[r], doc, crossed)
  BY <1>1 DEF SaveAuthor, At, CatInv, Tables
<1>4. /\ q.key \in Authors /\ q.key \in Keys /\ q.key \notin Books /\ q.key \in DOMAIN q.read
      /\ KindOf(q.key, q.read[q.key]) /\ q.names \in SUBSET Authors
  BY <1>3, CatalogAssumption DEF Good, Input, HasRead, GoodCopies, Keys, Books, RequestType
<1>5. q.read[q.key] \in Doc
  BY <1>3, <1>4, CopiesType DEF RequestType
<1>6. /\ d \in Doc
      /\ d.type = "delete" \/ (d.type = q.read[q.key].type /\ d.location = q.read[q.key].location)
  <2>1. CASE d = [q.read[q.key] EXCEPT !.names = q.names]
    BY <1>4, <1>5, <2>1 DEF Doc
  <2>2. CASE d = NewDoc("delete")
    BY <2>2, DeletedType
  <2>3. QED
    BY <2>1, <2>2
<1>7. KindOf(q.key, d)
  BY <1>4, <1>6, CatalogAssumption DEF KindOf, Books
<1>8. PICK docs : docs = [k \in {q.key} |-> d]
  OBVIOUS
<1>9. DOMAIN docs = {q.key} /\ docs[q.key] = d
  BY <1>8
<1>10. Savable(docs)
  BY <1>4, <1>6, <1>7, <1>9 DEF Savable, Books
<1>11. blind \/ \A a \in DOMAIN docs \cap Authors : docs[a].type # "redirect"
  BY <1>3, <1>6, <1>9 DEF Clear, AuthorsRead
<1>12. blind \/ \A k \in DOMAIN docs \cap Books : \A a \in docs[k].authors :
                       \/ doc[a].type # "redirect"
                       \/ k \in crossed \cup behind[r] \/ a \in behind[r]
  BY <1>4, <1>9
<1>13. QED
  BY <1>2, <1>8, <1>10, <1>11, <1>12, SavesNoRedirect

\* A new edition e of a work w, with an author a and a work if a request q has none.
IsNewBook(docs, q, a, e, w) ==
    /\ DOMAIN docs = {e} \cup (IF q.key = NoKey THEN {a} ELSE {})
                         \cup (IF q.work = NoKey THEN {w} ELSE {})
    /\ q.key = NoKey => docs[a] = AuthorDoc({a})
    /\ q.work = NoKey => docs[w] = WorkDoc({a})
    /\ docs[e] \in Doc /\ docs[e].type = "edition" /\ docs[e].work = w
    /\ docs[e].authors \subseteq {a}

LEMMA NewBookSaved ==
    ASSUME CatInv, NEW r \in Requests, NEW q, q = request[r], q.pc \in {"add book", "save new"},
           NEW a \in Key(q.key, Authors), NEW w \in Key(q.work, Works),
           NEW e \in Key(NoKey, Editions), NEW docs, SaveMany(r, docs),
           IsNewBook(docs, q, a, e, w)
    PROVE CatInv'
<1>a. /\ DOMAIN docs = {e} \cup (IF q.key = NoKey THEN {a} ELSE {})
                         \cup (IF q.work = NoKey THEN {w} ELSE {})
      /\ q.key = NoKey => docs[a] = AuthorDoc({a})
      /\ q.work = NoKey => docs[w] = WorkDoc({a})
      /\ docs[e] \in Doc /\ docs[e].type = "edition" /\ docs[e].work = w
      /\ docs[e].authors \subseteq {a}
  BY DEF IsNewBook
<1>1. /\ q \in RequestType /\ Good(q, behind[r], doc)
      /\ blind \/ Clear(q, behind[r], doc, crossed)
  BY DEF CatInv, Tables
<1>2. q.key \in Authors \cup {NoKey} /\ q.work \in Works \cup {NoKey}
  BY <1>1 DEF Good, Input, RequestType
<1>3. /\ e \in Editions /\ e \notin Authors /\ e \notin Works
      /\ a \in Authors /\ a \notin Books /\ w \in Works /\ w \notin Editions /\ w \notin Authors
      /\ q.key # NoKey => a = q.key
      /\ q.key = NoKey => doc[a].type = "none"
      /\ q.work # NoKey => w = q.work
  BY <1>2, CatalogAssumption DEF Key, OfType, Books
<1>4. q.key = NoKey => docs[a] \in Doc /\ docs[a].type = "author"
  BY <1>3, <1>a, {a} \in SUBSET Authors, AuthorDocType
<1>5. q.work = NoKey => docs[w] \in Doc /\ docs[w].type = "work" /\ docs[w].authors = {a}
  BY <1>3, <1>a, {a} \in SUBSET Authors, WorkDocType
<1>6. q.work = NoKey \/ There(w, doc)
  BY <1>1, <1>3 DEF Good, BooksThere, Books
<1>7. \A k \in DOMAIN docs :
         /\ k \in Keys /\ docs[k] \in Doc /\ KindOf(k, docs[k])
         /\ (k \in Books => docs[k].type # "none")
         /\ (k \in Editions => docs[k].work \in DOMAIN docs \/ There(docs[k].work, doc))
  <2>1. CASE q.key = NoKey /\ q.work = NoKey
    BY <1>3, <1>4, <1>5, <1>a, <2>1 DEF KindOf, Keys, Books
  <2>2. CASE q.key # NoKey /\ q.work = NoKey
    BY <1>3, <1>5, <1>6, <1>a, <2>2 DEF KindOf, Keys, Books
  <2>3. CASE q.key = NoKey /\ q.work # NoKey
    BY <1>3, <1>4, <1>6, <1>a, <2>3 DEF KindOf, Keys, Books
  <2>4. CASE q.key # NoKey /\ q.work # NoKey
    BY <1>3, <1>6, <1>a, <2>4 DEF KindOf, Keys, Books
  <2>5. QED
    BY <2>1, <2>2, <2>3, <2>4
<1>8. Savable(docs)
  BY <1>7 DEF Savable
<1>9. \A x \in DOMAIN docs \cap Authors : docs[x].type # "redirect"
  BY <1>3, <1>4, <1>a
<1>10. \A k \in DOMAIN docs \cap Books : docs[k].authors \subseteq {a}
  BY <1>3, <1>5, <1>a
<1>11. blind \/ doc[a].type # "redirect" \/ a \in behind[r]
  BY <1>1, <1>3 DEF Clear, NoRedirects
<1>12. blind \/ \A k \in DOMAIN docs \cap Books : \A x \in docs[k].authors :
                       \/ doc[x].type # "redirect"
                       \/ k \in crossed \cup behind[r] \/ x \in behind[r]
  BY <1>10, <1>11
<1>13. QED
  BY <1>8, <1>9, <1>12, SavesNoRedirect

\* NewBook is such a save.
LEMMA NewBookFacts ==
    ASSUME CatInv, NEW r \in Requests, NEW q, q = request[r],
           q.key \in Authors \cup {NoKey}, q.work \in Works \cup {NoKey},
           NEW a \in Authors, NEW w \in Works, NEW e \in Editions, NEW docs, docs = NewBook(r, a, e, w)
    PROVE IsNewBook(docs, q, a, e, w)
<1>1. a # w /\ a # e /\ w # e
  BY CatalogAssumption
<1>2. docs = [k \in {e} \cup (IF q.key = NoKey THEN {a} ELSE {})
                        \cup (IF q.work = NoKey THEN {w} ELSE {}) |->
                 IF k = a THEN AuthorDoc({a})
                 ELSE IF k = w THEN WorkDoc({a})
                 ELSE [NewDoc("edition") EXCEPT !.work = w]]
  BY DEF NewBook, AuthorDoc, WorkDoc
<1>3. docs[e] = [NewDoc("edition") EXCEPT !.work = w]
  BY <1>1, <1>2
<1>4. docs[e] \in Doc /\ docs[e].type = "edition" /\ docs[e].work = w /\ docs[e].authors = {}
  BY <1>3 DEF NewDoc, Doc
<1>5. /\ q.key = NoKey => docs[a] = AuthorDoc({a})
      /\ q.work = NoKey => docs[w] = WorkDoc({a})
  BY <1>1, <1>2
<1>6. DOMAIN docs = {e} \cup (IF q.key = NoKey THEN {a} ELSE {})
                        \cup (IF q.work = NoKey THEN {w} ELSE {})
  BY <1>2
<1>7. QED
  BY <1>3, <1>4, <1>5, <1>6 DEF IsNewBook

LEMMA AddBookInv == ASSUME CatInv, NEW r \in Requests, AddBook(r) PROVE CatInv'
<1>1. PICK q : q = request[r]
  OBVIOUS
<1>2. PICK a \in Key(q.key, Authors), w \in Key(q.work, Works), e \in Key(NoKey, Editions) :
         SaveMany(r, NewBook(r, a, e, w))
  BY <1>1 DEF AddBook
<1>3. PICK docs : docs = NewBook(r, a, e, w)
  OBVIOUS
<1>4. q.pc = "add book" /\ q.key \in Authors \cup {NoKey} /\ q.work \in Works \cup {NoKey}
  BY <1>1 DEF AddBook, At, CatInv, Tables, Good, Input, RequestType
<1>5. a \in Authors /\ w \in Works /\ e \in Editions
  BY <1>4 DEF Key
<1>6. IsNewBook(docs, q, a, e, w)
  BY <1>1, <1>3, <1>4, <1>5, NewBookFacts
<1>7. SaveMany(r, docs) /\ q.pc \in {"add book", "save new"}
  BY <1>2, <1>3, <1>4
<1>8. QED
  BY <1>1, <1>6, <1>7, NewBookSaved

LEMMA SaveNewInv == ASSUME CatInv, NEW r \in Requests, SaveNew(r) PROVE CatInv'
<1>1. PICK q : q = request[r]
  OBVIOUS
<1>2. PICK a \in Key(q.key, Authors), w \in Key(q.work, Works), e \in Key(NoKey, Editions) :
         SaveMany(r, [NewBook(r, a, e, w) EXCEPT ![e].authors = {a}, ![e].ocaid = TRUE])
  BY <1>1 DEF SaveNew
<1>x. PICK new : new = NewBook(r, a, e, w)
  OBVIOUS
<1>4. q.pc = "save new" /\ q.key \in Authors \cup {NoKey} /\ q.work \in Works \cup {NoKey}
  BY <1>1 DEF SaveNew, At, CatInv, Tables, Good, Input, RequestType
<1>5. a \in Authors /\ w \in Works /\ e \in Editions /\ e # a /\ e # w
  BY <1>4, CatalogAssumption DEF Key
<1>6. IsNewBook(new, q, a, e, w)
  BY <1>1, <1>x, <1>4, <1>5, NewBookFacts
<1>3. PICK docs : docs = [new EXCEPT ![e].authors = {a}, ![e].ocaid = TRUE]
  OBVIOUS
<1>7. /\ DOMAIN docs = DOMAIN new /\ docs[e] = [new[e] EXCEPT !.authors = {a}, !.ocaid = TRUE]
      /\ q.key = NoKey => docs[a] = new[a]
      /\ q.work = NoKey => docs[w] = new[w]
  <2>1. e \in DOMAIN new
    BY <1>6 DEF IsNewBook
  <2>2. docs[e] = [new[e] EXCEPT !.authors = {a}, !.ocaid = TRUE]
    BY <1>3, <2>1
  <2>3. DOMAIN docs = DOMAIN new /\ \A k \in DOMAIN new : k # e => docs[k] = new[k]
    BY <1>3
  <2>4. (q.key = NoKey => a \in DOMAIN new) /\ (q.work = NoKey => w \in DOMAIN new)
    BY <1>6 DEF IsNewBook
  <2>5. QED
    BY <1>5, <2>2, <2>3, <2>4
<1>8. /\ docs[e] \in Doc /\ docs[e].type = "edition" /\ docs[e].work = w
      /\ docs[e].authors \subseteq {a}
  <2>1. new[e] \in Doc /\ new[e].type = "edition" /\ new[e].work = w
    BY <1>6 DEF IsNewBook
  <2>2. PICK d, d2 : d = new[e] /\ d2 = [d EXCEPT !.authors = {a}, !.ocaid = TRUE]
    OBVIOUS
  <2>3. d2 \in Doc /\ d2.type = d.type /\ d2.work = d.work /\ d2.authors = {a}
    BY <1>5, <2>1, <2>2 DEF Doc
  <2>4. d2 = docs[e]
    BY <1>7, <2>2
  <2>5. QED
    BY <2>1, <2>2, <2>3, <2>4
<1>9. IsNewBook(docs, q, a, e, w)
  BY <1>6, <1>7, <1>8 DEF IsNewBook
<1>10. SaveMany(r, docs) /\ q.pc \in {"add book", "save new"}
  BY <1>2, <1>x, <1>3, <1>4
<1>11. QED
  BY <1>1, <1>9, <1>10, NewBookSaved

LEMMA SaveMatchInv == ASSUME CatInv, NEW r \in Requests, SaveMatch(r) PROVE CatInv'
<1> SUFFICES ASSUME ~Refuse(r) PROVE CatInv'
  BY RefuseInv
<1>1. PICK q : q = request[r]
  OBVIOUS
<1>2. PICK keys \in (SUBSET {q.key, q.work}) \ {{}}, ocaid \in BOOLEAN :
         SaveMany(r, [k \in keys |->
                 IF k = q.key THEN [q.read[k] EXCEPT !.authors = q.authors,
                                                     !.ocaid = @ \/ ocaid]
                 ELSE q.read[k]])
  BY <1>1, Zenon DEF SaveMatch
<1>3. PICK docs : docs = [k \in keys |->
                 IF k = q.key THEN [q.read[k] EXCEPT !.authors = q.authors,
                                                     !.ocaid = @ \/ ocaid]
                 ELSE q.read[k]]
  OBVIOUS
<1>4. /\ q.pc = "save match" /\ q \in RequestType /\ Good(q, behind[r], doc)
      /\ blind \/ Clear(q, behind[r], doc, crossed)
  BY <1>1 DEF SaveMatch, At, CatInv, Tables
<1>5. /\ q.key \in Editions /\ q.work \in Works /\ q.authors \in SUBSET Authors
      /\ q.key # NoKey /\ q.work # NoKey /\ q.key # q.work
  BY <1>4, CatalogAssumption DEF Good, Input, RequestType
<1>6. \A k \in {q.key, q.work} :
         /\ k \in DOMAIN q.read /\ q.read[k] \in Doc /\ KindOf(k, q.read[k])
         /\ q.read[k].type # "none" /\ (k \in Editions => There(q.read[k].work, doc))
  <2>1. {q.key, q.work} \subseteq DOMAIN q.read
    BY <1>4, <1>5 DEF Good, HasRead
  <2>2. \A k \in DOMAIN q.read : q.read[k] \in Doc
    BY <1>4, CopiesType DEF RequestType
  <2>3. QED
    BY <1>4, <1>5, <2>1, <2>2 DEF Good, GoodCopies, Books
<1>7. DOMAIN docs = keys /\ keys \subseteq {q.key, q.work} /\ keys \cap Authors = {}
  BY <1>3, <1>5, CatalogAssumption
<1>8. q.work \in keys => docs[q.work] = q.read[q.work]
  BY <1>3, <1>5
<1>9. q.key \in keys => /\ docs[q.key] \in Doc /\ docs[q.key].type = q.read[q.key].type
                        /\ docs[q.key].authors = q.authors
                        /\ docs[q.key].work = q.read[q.key].work
  <2> SUFFICES ASSUME q.key \in keys
               PROVE /\ docs[q.key] \in Doc /\ docs[q.key].type = q.read[q.key].type
                     /\ docs[q.key].authors = q.authors /\ docs[q.key].work = q.read[q.key].work
    OBVIOUS
  <2>1. docs[q.key] = [q.read[q.key] EXCEPT !.authors = q.authors, !.ocaid = @ \/ ocaid]
    BY <1>3
  <2>2. QED
    BY <2>1, <1>5, <1>6 DEF Doc
<1>10. Savable(docs)
  <2>1. keys \subseteq Keys /\ q.work \notin Editions
    BY <1>5, <1>7, CatalogAssumption DEF Keys
  <2>2. q.key \in keys => KindOf(q.key, docs[q.key])
    BY <1>5, <1>6, <1>9, CatalogAssumption DEF KindOf, Books
  <2>3. QED
    BY <1>5, <1>6, <1>7, <1>8, <1>9, <2>1, <2>2 DEF Savable
<1>11. ASSUME ~blind, NEW k \in DOMAIN docs \cap Books, NEW a \in docs[k].authors,
             doc[a].type = "redirect"
      PROVE k \in crossed \cup behind[r] \/ a \in behind[r]
  <2>1. CASE k = q.key
    BY <1>4, <1>7, <1>9, <1>11, <2>1 DEF Clear, NoRedirects
  <2>2. CASE k = q.work
    <3>1. a \in q.read[k].authors /\ k \in DOMAIN q.read
      BY <1>6, <1>7, <1>8, <1>11, <2>2
    <3>2. k \in behind[r] \/ q.read[k] = doc[k]
      BY <1>4, <3>1 DEF Good, Fresh
    <3>3. QED
      BY <1>11, <3>1, <3>2 DEF CatInv, MergedAuthorsAreGone, Books
  <2>3. QED
    BY <1>7, <2>1, <2>2
<1>12. SaveMany(r, docs)
  BY <1>2, <1>3, Zenon
<1>13. QED
  BY <1>7, <1>10, <1>11, <1>12, SavesNoRedirect

----------------------------------------------------------------------------
(* Every request *)

\* The invariant is inductive.
LEMMA CatNextInv == CatInv /\ [CatNext]_catVars => CatInv'
<1> SUFFICES ASSUME CatInv, [CatNext]_catVars PROVE CatInv'
  OBVIOUS
<1>1. CASE UNCHANGED catVars
  <2>1. /\ doc' = doc /\ request' = request /\ begun' = begun /\ behind' = behind
        /\ blind' = blind /\ crossed' = crossed
    BY <1>1 DEF catVars
  <2>2. QED
    BY <2>1 DEF CatInv, Tables, RedirectsEnd, MergedAuthorsAreGone
<1>2. CASE CatNext
  <2>1. PICK r \in Requests : Merge(r) \/ Edit(r) \/ Add(r)
    BY <1>2 DEF CatNext
  <2>2. CASE Merge(r)
    BY <2>2, StartMergeInv, FindBackreferencesInv, GetReferencesInv, GetMasterInv,
       GetDuplicatesInv, SaveMergeInv DEF Merge
  <2>3. CASE Edit(r)
    BY <2>3, OpenBookInv, PostBookInv, SaveBookInv, OpenAuthorInv, PostAuthorInv, SaveAuthorInv
       DEF Edit
  <2>4. CASE Add(r)
    BY <2>4, FillBookInv, AddBookInv, FindAuthorInv, SaveNewInv, MatchEditionInv, SaveMatchInv
       DEF Add
  <2>5. QED
    BY <2>1, <2>2, <2>3, <2>4
<1>3. QED
  BY <1>1, <1>2

\* The invariant holds of every behaviour of Catalog.
THEOREM CatInvariant == CatSpec => []CatInv
<1>1. QED
  BY CatInitInv, CatNextInv, PTL DEF CatSpec

\* Type correctness: documents are of the kind their key says, and a request has
\* read what it saves.
THEOREM CatTypeCorrect == CatSpec => []CatTypeOK
<1>1. CatInv => CatTypeOK
  <2> SUFFICES ASSUME CatInv PROVE CatTypeOK
    OBVIOUS
  <2>1. /\ doc \in [Keys -> Doc] /\ \A k \in Keys : KindOf(k, doc[k])
        /\ request \in [Requests -> RequestType] /\ behind \in [Requests -> SUBSET Keys]
        /\ begun \in 0..MaxRequests /\ crossed \subseteq Works \cup Editions
    BY DEF CatInv, Documents, Tables, Books
  <2>2. blind \in BOOLEAN
    BY DEF CatInv, Tables
  <2>3. /\ \A a \in Authors : doc[a].type \in {"none", "author", "redirect", "delete"}
        /\ \A a \in Authors : doc[a].type = "redirect" => doc[a].location \in Authors
        /\ \A w \in Works : doc[w].type \in {"none", "work"}
        /\ \A e \in Editions : doc[e].type \in {"none", "edition"}
    BY <2>1 DEF KindOf, Keys
  <2>4. ASSUME NEW r \in Requests, NEW q, q = request[r]
        PROVE /\ q.pc \in Pcs /\ q.key \in Keys \cup {NoKey} /\ q.work \in Works \cup {NoKey}
              /\ q.authors \subseteq Authors /\ q.names \subseteq Authors /\ q.ocaid \in BOOLEAN
              /\ q.refs \subseteq Works \cup Editions
              /\ DOMAIN q.read \subseteq Keys /\ \A k \in DOMAIN q.read : q.read[k] \in Doc
              /\ q.pc \in {"save merge", "save author"} => q.key \in DOMAIN q.read
              /\ q.pc = "save merge" => q.refs \cup q.authors \subseteq DOMAIN q.read
              /\ q.pc = "save book" => {q.key, q.work} \ {NoKey} \subseteq DOMAIN q.read
    <3>1. q \in RequestType /\ HasRead(q)
      BY <2>1, <2>4 DEF CatInv, Good
    <3>2. /\ q.pc \in Pcs /\ q.key \in Keys \cup {NoKey} /\ q.work \in Works \cup {NoKey}
          /\ q.authors \subseteq Authors /\ q.names \subseteq Authors /\ q.ocaid \in BOOLEAN
          /\ q.refs \subseteq Works \cup Editions
      BY <3>1 DEF RequestType, Books
    <3>3. DOMAIN q.read \subseteq Keys /\ \A k \in DOMAIN q.read : q.read[k] \in Doc
      BY <3>1, CopiesType DEF RequestType
    <3>4. /\ q.pc \in {"save merge", "save author"} => q.key \in DOMAIN q.read
          /\ q.pc = "save merge" => q.refs \cup q.authors \subseteq DOMAIN q.read
          /\ q.pc = "save book" => {q.key, q.work} \ {NoKey} \subseteq DOMAIN q.read
      BY <3>1 DEF HasRead
    <3>5. QED
      BY <3>2, <3>3, <3>4, Zenon
  <2>5. QED
    BY <2>1, <2>2, <2>3, <2>4, Zenon DEF CatTypeOK
<1>2. QED
  BY <1>1, CatInvariant, PTL

\* Redirects between authors never go in a circle, unless a request was about a
\* redirect: load's walk along them ends.
THEOREM RedirectsLeadSomewhere == CatSpec => []RedirectsEnd
<1>1. CatInv => RedirectsEnd
  BY DEF CatInv
<1>2. QED
  BY <1>1, CatInvariant, PTL

\* A book names a merged author only after requests have crossed, for any number of
\* authors, books and requests under way.
THEOREM MergedAuthorsGone == CatSpec => []MergedAuthorsAreGone
<1>1. CatInv => MergedAuthorsAreGone
  BY DEF CatInv
<1>2. QED
  BY <1>1, CatInvariant, PTL

----------------------------------------------------------------------------
(* What a save may not do *)

\* A save loses an ocaid only where its own document has none.
LEMMA OcaidLost ==
    ASSUME CatInv, NEW r \in Requests, ~At(r, "idle"), NEW docs, SaveMany(r, docs),
           NEW e \in Editions, doc[e].ocaid, ~doc'[e].ocaid,
           e \in DOMAIN docs => docs[e].ocaid \/ e \in behind[r]
    PROVE ~At(r, "idle") /\ At(r, "idle")' /\ e \in behind[r]
<1>1. e \in Keys
  BY DEF Keys
<1>2. e \in DOMAIN docs /\ doc'[e] = docs[e]
  BY <1>1 DEF SaveMany
<1>3. At(r, "idle")'
  BY DEF SaveMany, At, Idle, CatInv, Tables
<1>4. QED
  BY <1>2, <1>3

\* The copies of an edition a request saves: it has the ocaid, or is behind.
LEMMA CopyOcaid ==
    ASSUME CatInv, NEW r \in Requests, NEW q, q = request[r],
           NEW e \in Editions, e \in DOMAIN q.read, doc[e].ocaid
    PROVE q.read[e].ocaid \/ e \in behind[r]
<1>1. Fresh(q, behind[r], doc)
  BY DEF CatInv, Good
<1>2. e \in behind[r] \/ q.read[e] = doc[e]
  BY <1>1 DEF Fresh
<1>3. QED
  BY <1>2

\* A step of a request loses an ocaid only if it is behind.
LEMMA OcaidStep ==
    ASSUME CatInv, NEW r \in Requests, Merge(r) \/ Edit(r) \/ Add(r),
           NEW e \in Editions, doc[e].ocaid, ~doc'[e].ocaid
    PROVE ~At(r, "idle") /\ At(r, "idle")' /\ e \in behind[r]
<1>1. PICK q : q = request[r]
  OBVIOUS
<1>2. q \in RequestType /\ Good(q, behind[r], doc)
  BY <1>1 DEF CatInv, Tables
<1>3. e \notin Authors /\ e \notin Works /\ NoKey # e
  BY CatalogAssumption
<1>4. ASSUME UNCHANGED doc PROVE FALSE
  BY <1>4
<1>5. CASE SaveMerge(r)
  <2>1. PICK docs : docs = MergedDocs(q)
    OBVIOUS
  <2>2. /\ SaveMany(r, docs) /\ DOMAIN docs = q.refs \cup q.authors \cup {q.key}
        /\ q.key \in Authors /\ q.authors \subseteq Authors
    <3>1. DOMAIN docs = q.refs \cup q.authors \cup {q.key}
      BY <2>1 DEF MergedDocs
    <3>2. QED
      BY <1>1, <1>5, <2>1, <3>1, MergeSaves
  <2>3. ASSUME e \in DOMAIN docs PROVE docs[e].ocaid \/ e \in behind[r]
    <3>1. e \in q.refs
      BY <1>3, <2>2, <2>3
    <3>2. /\ docs[e] = ConvertDoc(q.read[e], q.key, q.authors)
          /\ q.read[e] \in Doc /\ e \in DOMAIN q.read
      BY <1>1, <1>5, <2>1, <3>1, MergeSaves
    <3>3. PICK d, key, dups, c : /\ d = q.read[e] /\ key = q.key /\ dups = q.authors
                                 /\ c = ConvertDoc(d, key, dups)
      OBVIOUS
    <3>4. d \in Doc /\ c = [d EXCEPT !.authors = c.authors]
      BY <2>2, <3>2, <3>3, ConvertDocType
    <3>5. c.ocaid = d.ocaid
      BY <3>4 DEF Doc
    <3>6. d.ocaid \/ e \in behind[r]
      BY <1>1, <3>2, <3>3, CopyOcaid
    <3>7. QED
      BY <3>2, <3>3, <3>5, <3>6
  <2>4. ~At(r, "idle")
    BY <1>5 DEF SaveMerge, At
  <2>5. QED
    BY <2>2, <2>3, <2>4, OcaidLost
<1>6. CASE SaveBook(r)
  <2>1. PICK docs : docs = [k \in {q.key, q.work} \ {NoKey} |->
                               IF k = q.work THEN [q.read[k] EXCEPT !.authors = q.authors]
                               ELSE [q.read[k] EXCEPT !.ocaid = q.ocaid]]
    OBVIOUS
  <2>2. SaveMany(r, docs) /\ q.pc = "save book"
    BY <1>1, <1>6, <2>1 DEF SaveBook, At
  <2>3. ASSUME e \in DOMAIN docs PROVE docs[e].ocaid \/ e \in behind[r]
    <3>1. e = q.key /\ e # q.work /\ q.key # NoKey
      BY <1>2, <1>3, <2>1, <2>2, <2>3 DEF Good, Input
    <3>2. docs[e] = [q.read[e] EXCEPT !.ocaid = q.ocaid] /\ e \in DOMAIN q.read
      BY <1>2, <2>1, <2>2, <3>1 DEF Good, HasRead
    <3>3. q.read[e] \in Doc /\ q.ocaid \in BOOLEAN
      BY <1>2, <3>2, CopiesType DEF RequestType
    <3>4. docs[e].ocaid = q.ocaid
      BY <3>2, <3>3 DEF Doc
    <3>5. q.read[e].ocaid => q.ocaid
      BY <1>2, <2>2, <3>1 DEF Good, HasRead
    <3>6. q.read[e].ocaid \/ e \in behind[r]
      BY <1>1, <3>2, CopyOcaid
    <3>7. QED
      BY <3>4, <3>5, <3>6
  <2>4. ~At(r, "idle")
    BY <1>6 DEF SaveBook, At
  <2>5. QED
    BY <2>2, <2>3, <2>4, OcaidLost
<1>7. CASE SaveAuthor(r)
  <2>1. PICK d : SaveMany(r, [k \in {q.key} |-> d])
    BY <1>1, <1>7 DEF SaveAuthor
  <2>2. PICK docs : docs = [k \in {q.key} |-> d]
    OBVIOUS
  <2>3. e \notin DOMAIN docs
    BY <1>1, <1>2, <1>3, <1>7, <2>2 DEF SaveAuthor, At, Good, Input
  <2>4. SaveMany(r, docs) /\ ~At(r, "idle")
    BY <1>7, <2>1, <2>2 DEF SaveAuthor, At
  <2>5. QED
    BY <2>3, <2>4, OcaidLost
<1>8. CASE AddBook(r) \/ SaveNew(r)
  <2>1. PICK a \in Key(q.key, Authors), w \in Key(q.work, Works),
             new \in Key(NoKey, Editions) :
           \/ SaveMany(r, NewBook(r, a, new, w))
           \/ SaveMany(r, [NewBook(r, a, new, w) EXCEPT ![new].authors = {a}, ![new].ocaid = TRUE])
    <3>1. CASE AddBook(r)
      <4>1. PICK a \in Key(q.key, Authors), w \in Key(q.work, Works),
                 new \in Key(NoKey, Editions) : SaveMany(r, NewBook(r, a, new, w))
        BY <1>1, <3>1 DEF AddBook
      <4>2. QED
        BY <4>1
    <3>2. CASE SaveNew(r)
      <4>1. PICK a \in Key(q.key, Authors), w \in Key(q.work, Works),
                 new \in Key(NoKey, Editions) :
              SaveMany(r, [NewBook(r, a, new, w) EXCEPT ![new].authors = {a}, ![new].ocaid = TRUE])
        BY <1>1, <3>2 DEF SaveNew
      <4>2. QED
        BY <4>1
    <3>3. QED
      BY <1>8, <3>1, <3>2
  <2>y. PICK docs : /\ SaveMany(r, docs)
                    /\ \/ docs = NewBook(r, a, new, w)
                       \/ docs = [NewBook(r, a, new, w) EXCEPT ![new].authors = {a},
                                                               ![new].ocaid = TRUE]
    BY <2>1, Zenon
  <2>x. /\ DOMAIN docs \subseteq {a, w, new} /\ a \notin Editions /\ w \notin Editions
    <3>1. DOMAIN docs \subseteq {a, w, new}
      <4>1. DOMAIN NewBook(r, a, new, w) \subseteq {a, w, new}
        BY DEF NewBook
      <4>2. QED
        BY <2>y, <4>1
    <3>3. q.key \in Authors \cup {NoKey} /\ q.work \in Works \cup {NoKey}
      BY <1>1, <1>2, <1>8 DEF AddBook, SaveNew, At, Good, Input, RequestType
    <3>4. a \notin Editions /\ w \notin Editions
      BY <3>3, CatalogAssumption DEF Key
    <3>5. QED
      BY <3>1, <3>4
  <2>2. new # e
    <3>1. doc[new].type = "none" /\ new \in Editions /\ new \in Keys
      BY DEF Key, OfType
    <3>2. ~doc[new].ocaid
      BY <3>1 DEF CatInv, Documents, KindOf, Books
    <3>3. QED
      BY <3>2
  <2>3. e \notin DOMAIN docs
    BY <2>2, <2>x
  <2>4. ~At(r, "idle")
    BY <1>8 DEF AddBook, SaveNew, At
  <2>5. QED
    BY <2>y, <2>3, <2>4, OcaidLost
<1>9. CASE SaveMatch(r)
  <2>1. ~Refuse(r)
    BY <1>4 DEF Refuse
  <2>2. PICK keys \in (SUBSET {q.key, q.work}) \ {{}}, ocaid \in BOOLEAN :
         SaveMany(r, [k \in keys |->
                 IF k = q.key THEN [q.read[k] EXCEPT !.authors = q.authors,
                                                     !.ocaid = @ \/ ocaid]
                 ELSE q.read[k]])
    BY <1>1, <1>9, <2>1, Zenon DEF SaveMatch
  <2>3. PICK docs : docs = [k \in keys |->
                 IF k = q.key THEN [q.read[k] EXCEPT !.authors = q.authors,
                                                     !.ocaid = @ \/ ocaid]
                 ELSE q.read[k]]
    OBVIOUS
  <2>4. SaveMany(r, docs)
    BY <2>2, <2>3, Zenon
  <2>5. ~At(r, "idle") /\ q.pc = "save match"
    BY <1>1, <1>9 DEF SaveMatch, At
  <2>6. ASSUME e \in DOMAIN docs PROVE docs[e].ocaid \/ e \in behind[r]
    <3>1. e \in keys /\ e = q.key
      BY <1>2, <1>3, <2>3, <2>5, <2>6 DEF Good, Input
    <3>2. e \in DOMAIN q.read
      BY <1>2, <1>3, <2>5, <3>1 DEF Good, HasRead
    <3>3. q.read[e] \in Doc
      BY <1>2, <3>2, CopiesType DEF RequestType
    <3>4. q.read[e].ocaid \/ e \in behind[r]
      BY <1>1, <3>2, CopyOcaid
    <3>5. PICK d : d = q.read[e]
      OBVIOUS
    <3>6. docs[e] = [d EXCEPT !.authors = q.authors, !.ocaid = d.ocaid \/ ocaid]
      BY <2>3, <3>1, <3>5
    <3>7. d.ocaid => docs[e].ocaid
      BY <3>3, <3>5, <3>6 DEF Doc
    <3>8. QED
      BY <3>4, <3>5, <3>7
  <2>7. QED
    BY <2>4, <2>5, <2>6, OcaidLost
<1>10. QED
  BY <1>4, <1>5, <1>6, <1>7, <1>8, <1>9
     DEF Merge, Edit, Add, StartMerge, FindBackreferences, GetReferences, GetMaster, GetDuplicates,
         OpenBook, PostBook, OpenAuthor, PostAuthor, FillBook, FindAuthor, MatchEdition, Begin,
         Read, ReadCopies, Refuse

\* No edition loses its ocaid but by a request that had read it before another one
\* saved it.
THEOREM OcaidsKept == CatSpec => OcaidsAreKept
<1>1. CatInv /\ [CatNext]_catVars =>
      [\A e \in Editions : doc[e].ocaid /\ ~doc'[e].ocaid =>
          \E r \in Requests : ~At(r, "idle") /\ At(r, "idle")' /\ e \in behind[r]]_catVars
  BY OcaidStep DEF CatNext
<1>2. QED
  BY <1>1, CatInvariant, PTL DEF CatSpec, OcaidsAreKept

\* A merge that no other request has overtaken leaves nothing of the duplicates,
\* whatever was saved before.
THEOREM LoneMergesComplete == CatSpec => LoneMergesAreComplete
<1> DEFINE Complete(q) ==
       /\ \A a \in q.authors : doc'[a] = Redirect(q.key)
       /\ \A k \in Works \cup Editions :
             doc'[k] = [doc[k] EXCEPT !.authors =
                           {IF a \in q.authors THEN q.key ELSE a : a \in @}]
<1>1. ASSUME CatInv, NEW r \in Requests, SaveMerge(r), behind[r] = {}, NEW q, q = request[r]
      PROVE Complete(q)
  <2>1. PICK docs : docs = MergedDocs(q)
    OBVIOUS
  <2>2. DOMAIN docs = q.refs \cup q.authors \cup {q.key}
    BY <2>1 DEF MergedDocs
  <2>3. /\ SaveMany(r, docs) /\ q.pc = "save merge" /\ Good(q, behind[r], doc)
        /\ q.key \in Authors /\ q.authors \subseteq Authors
        /\ q.refs \subseteq Books /\ \A a \in q.authors : docs[a] = Redirect(q.key)
    BY <1>1, <2>1, MergeSaves
  <2>4. \A k \in q.refs : /\ docs[k] = ConvertDoc(q.read[k], q.key, q.authors)
                          /\ q.read[k] \in Doc /\ k \in DOMAIN q.read
    BY <1>1, <2>1, MergeSaves
  <2>5. /\ \A k \in DOMAIN docs \cap Keys : doc'[k] = docs[k]
        /\ \A k \in Keys \ DOMAIN docs : doc'[k] = doc[k]
    BY <2>3 DEF SaveMany
  <2>6. \A a \in q.authors : doc'[a] = Redirect(q.key)
    BY <2>2, <2>3, <2>5 DEF Keys
  <2>7. ASSUME NEW k \in Works \cup Editions
        PROVE doc'[k] = [doc[k] EXCEPT !.authors =
                            {IF a \in q.authors THEN q.key ELSE a : a \in @}]
    <3>1. k \in Keys /\ k \in Books /\ doc[k] \in Doc /\ k \notin Authors
      BY <1>1, CatalogAssumption DEF Keys, Books, CatInv, Documents
    <3>2. PICK key, dups, d, c : /\ key = q.key /\ dups = q.authors /\ d = doc[k]
                                 /\ c = ConvertDoc(d, key, dups)
      OBVIOUS
    <3>3. /\ c = [d EXCEPT !.authors = c.authors]
          /\ c.authors = Renamed(d.authors, key, dups)
      <4>1. d \in Doc /\ key \in Authors /\ dups \in SUBSET Authors
        BY <2>3, <3>1, <3>2
      <4>2. /\ ConvertDoc(d, key, dups) =
                  [d EXCEPT !.authors = ConvertDoc(d, key, dups).authors]
            /\ ConvertDoc(d, key, dups).authors = Renamed(d.authors, key, dups)
        BY <4>1, ConvertDocType
      <4>3. QED
        BY <3>2, <4>2
    <3>a. [doc[k] EXCEPT !.authors = {IF a \in q.authors THEN q.key ELSE a : a \in @}]
          = [d EXCEPT !.authors = c.authors]
      BY <3>2, <3>3 DEF Renamed
    <3>4. CASE k \in q.refs
      <4>1. q.read[k] = doc[k]
        BY <1>1, <2>3, <2>4, <3>4 DEF Good, Fresh
      <4>2. doc'[k] = c
        BY <2>2, <2>4, <2>5, <3>1, <3>2, <3>4, <4>1
      <4>3. QED
        BY <3>3, <3>a, <4>2
    <3>5. CASE k \notin q.refs
      <4>1. d.authors \cap dups = {}
        BY <1>1, <2>3, <3>1, <3>2, <3>5 DEF Good, AllFound, Merging
      <4>2. c = d
        BY <3>2, <4>1 DEF ConvertDoc
      <4>3. doc'[k] = d
        BY <2>2, <2>3, <2>5, <3>1, <3>2, <3>5
      <4>4. QED
        BY <3>3, <3>a, <4>2, <4>3
    <3>6. QED
      BY <3>4, <3>5
  <2>8. QED
    BY <2>6, <2>7
<1>2. CatInv /\ [CatNext]_catVars =>
      [\A r \in Requests : SaveMerge(r) /\ behind[r] = {} => Complete(request[r])]_catVars
  BY <1>1
<1>3. QED
  BY <1>2, CatInvariant, PTL DEF CatSpec, LoneMergesAreComplete

----------------------------------------------------------------------------
(* Names: what the forms of authors show *)

Forms == {"post author", "save author"}

\* A form has the names its author has, unless the author was saved since.
FormAgrees(q, b, D) == q.pc \in Forms => q.key \in b \/ q.names = D[q.key].names

FormsInv == \A r \in Requests : FormAgrees(request[r], behind[r], doc)

\* A step that saves nothing has to show it of its own request.
LEMMA FormsKept ==
    ASSUME CatInv, FormsInv, NEW r \in Requests, NEW q, NEW b,
           request' = [request EXCEPT ![r] = q], behind' = [behind EXCEPT ![r] = b],
           UNCHANGED doc, FormAgrees(q, b, doc)
    PROVE FormsInv'
<1>1. \A o \in Requests : FormAgrees(request'[o], behind'[o], doc)
  BY DEF FormsInv, CatInv, Tables
<1>2. QED
  BY <1>1 DEF FormsInv

\* Requests that begin, or read, without a form of an author.
LEMMA FormsBegin ==
    ASSUME CatInv, FormsInv, NEW r \in Requests, NEW q, Begin(r, q), q.pc \notin Forms
    PROVE FormsInv'
<1>1. FormAgrees(q, {}, doc)
  BY DEF FormAgrees
<1>2. QED
  BY <1>1, FormsKept DEF Begin

LEMMA FormsRead ==
    ASSUME CatInv, FormsInv, NEW r \in Requests, NEW keys, NEW pc, Read(r, keys, pc), pc \notin Forms
    PROVE FormsInv'
<1>1. PICK q : q = request'[r]
  OBVIOUS
<1>2. request' = [request EXCEPT ![r] = q] /\ q.pc = pc
  BY <1>1 DEF Read, ReadCopies, CatInv, Tables, RequestType
<1>3. FormAgrees(q, behind[r] \ keys, doc)
  BY <1>2 DEF FormAgrees
<1>4. behind' = [behind EXCEPT ![r] = behind[r] \ keys] /\ UNCHANGED doc
  BY DEF Read, ReadCopies, CatInv, Tables
<1>5. QED
  BY <1>2, <1>3, <1>4, FormsKept

\* A request that is over.
LEMMA FormsRefuse ==
    ASSUME CatInv, FormsInv, NEW r \in Requests, Refuse(r) PROVE FormsInv'
<1>1. FormAgrees(Idle, {}, doc)
  BY DEF FormAgrees, Forms, Idle
<1>2. QED
  BY <1>1, FormsKept DEF Refuse

\* Whose form a save overtakes is behind.
LEMMA FormsSaved ==
    ASSUME CatInv, FormsInv, NEW r \in Requests, NEW docs, SaveMany(r, docs) PROVE FormsInv'
<1>1. ASSUME NEW o \in Requests PROVE FormAgrees(request'[o], behind'[o], doc')
  <2>1. CASE o = r
    <3>1. request'[o] = Idle
      BY <2>1 DEF SaveMany, CatInv, Tables
    <3>2. QED
      BY <3>1 DEF FormAgrees, Forms, Idle
  <2>2. CASE o # r
    <3>1. PICK q, b : q = request[o] /\ b = behind[o]
      OBVIOUS
    <3>2. request'[o] = q
      BY <2>2, <3>1 DEF SaveMany, CatInv, Tables
    <3>3. CASE q.pc \notin Forms
      BY <3>2, <3>3 DEF FormAgrees
    <3>4. CASE q.pc \in Forms
      <4>1. behind'[o] = b \cup {k \in DOMAIN docs : docs[k] # doc[k]}
        BY <2>2, <3>1, <3>4 DEF SaveMany, At, Forms
      <4>2. q.key \in Keys
        BY <3>1, <3>4 DEF CatInv, Good, Input, Forms, Keys
      <4>3. q.key \in behind'[o] \/ (q.key \notin b /\ doc'[q.key] = doc[q.key])
        BY <4>1, <4>2 DEF SaveMany
      <4>4. q.key \in b \/ q.names = doc[q.key].names
        BY <3>1, <3>4 DEF FormsInv, FormAgrees
      <4>5. QED
        BY <3>2, <4>3, <4>4 DEF FormAgrees
    <3>5. QED
      BY <3>3, <3>4
  <2>3. QED
    BY <2>1, <2>2
<1>2. QED
  BY <1>1 DEF FormsInv

\* The form of an author.
LEMMA OpenAuthorForms ==
    ASSUME CatInv, FormsInv, NEW r \in Requests, OpenAuthor(r) PROVE FormsInv'
<1>1. PICK a \in OfType("author") :
        Begin(r, [Idle EXCEPT !.pc = "post author", !.key = a, !.names = doc[a].names])
  BY DEF OpenAuthor
<1>2. PICK q, names : names = doc[a].names
                      /\ q = [Idle EXCEPT !.pc = "post author", !.key = a, !.names = names]
  OBVIOUS
<1>3. q.key = a /\ q.names = names
  BY <1>2 DEF Idle
<1>4. FormAgrees(q, {}, doc)
  BY <1>2, <1>3 DEF FormAgrees
<1>5. QED
  BY <1>1, <1>2, <1>4, FormsKept DEF Begin

LEMMA PostAuthorForms ==
    ASSUME CatInv, FormsInv, NEW r \in Requests, PostAuthor(r) PROVE FormsInv'
<1>1. PICK p, q, b : p = request[r] /\ q = request'[r] /\ b = behind[r]
  OBVIOUS
<1>2. /\ request' = [request EXCEPT ![r] = q] /\ q.key = p.key /\ q.names = p.names
      /\ UNCHANGED doc /\ behind' = [behind EXCEPT ![r] = b] /\ p.pc \in Forms
  BY <1>1 DEF PostAuthor, At, ReadCopies, CatInv, Tables, RequestType, Forms
<1>3. FormAgrees(p, b, doc)
  BY <1>1 DEF FormsInv
<1>4. FormAgrees(q, b, doc)
  BY <1>2, <1>3 DEF FormAgrees
<1>5. QED
  BY <1>2, <1>4, FormsKept

LEMMA FormsNext == CatInv /\ FormsInv /\ [CatNext]_catVars => FormsInv'
<1> SUFFICES ASSUME CatInv, FormsInv, [CatNext]_catVars PROVE FormsInv'
  OBVIOUS
<1>1. CASE UNCHANGED catVars
  BY <1>1 DEF catVars, FormsInv
<1>2. CASE CatNext
  <2>1. PICK r \in Requests : Merge(r) \/ Edit(r) \/ Add(r)
    BY <1>2 DEF CatNext
  <2>2. CASE StartMerge(r) \/ OpenBook(r) \/ FillBook(r) \/ FindAuthor(r) \/ MatchEdition(r)
    <3>1. CASE StartMerge(r)
      <4>1. PICK master \in Authors, dups \in SUBSET Authors :
              Begin(r, [Idle EXCEPT !.pc = "find", !.key = master, !.authors = dups])
        BY <3>1 DEF StartMerge
      <4>2. PICK q : q = [Idle EXCEPT !.pc = "find", !.key = master, !.authors = dups]
        OBVIOUS
      <4>3. q.pc \notin Forms
        BY <4>2 DEF Idle, Forms
      <4>4. QED
        BY <4>1, <4>2, <4>3, FormsBegin
    <3>2. CASE OpenBook(r)
      <4>1. PICK e, w, authors, ocaid :
              Begin(r, [Idle EXCEPT !.pc = "post book", !.key = e, !.work = w,
                                       !.authors = authors, !.ocaid = ocaid])
        BY <3>2 DEF OpenBook
      <4>2. PICK q : q = [Idle EXCEPT !.pc = "post book", !.key = e, !.work = w,
                                       !.authors = authors, !.ocaid = ocaid]
        OBVIOUS
      <4>3. q.pc \notin Forms
        BY <4>2 DEF Idle, Forms
      <4>4. QED
        BY <4>1, <4>2, <4>3, FormsBegin
    <3>3. CASE FillBook(r)
      <4>1. PICK a, w :
              Begin(r, [Idle EXCEPT !.pc = "add book", !.key = a, !.work = w])
        BY <3>3 DEF FillBook
      <4>2. PICK q : q = [Idle EXCEPT !.pc = "add book", !.key = a, !.work = w]
        OBVIOUS
      <4>3. q.pc \notin Forms
        BY <4>2 DEF Idle, Forms
      <4>4. QED
        BY <4>1, <4>2, <4>3, FormsBegin
    <3>4. CASE FindAuthor(r)
      <4>1. PICK a, w :
              Begin(r, [Idle EXCEPT !.pc = "save new", !.key = a, !.work = w])
        BY <3>4 DEF FindAuthor
      <4>2. PICK q : q = [Idle EXCEPT !.pc = "save new", !.key = a, !.work = w]
        OBVIOUS
      <4>3. q.pc \notin Forms
        BY <4>2 DEF Idle, Forms
      <4>4. QED
        BY <4>1, <4>2, <4>3, FormsBegin
    <3>5. CASE MatchEdition(r)
      <4>1. PICK e, work, authors, read :
              Begin(r, [Idle EXCEPT !.pc = "save match", !.key = e, !.work = work,
                                       !.authors = authors, !.read = read])
        BY <3>5 DEF MatchEdition
      <4>2. PICK q : q = [Idle EXCEPT !.pc = "save match", !.key = e, !.work = work,
                                       !.authors = authors, !.read = read]
        OBVIOUS
      <4>3. q.pc \notin Forms
        BY <4>2 DEF Idle, Forms
      <4>4. QED
        BY <4>1, <4>2, <4>3, FormsBegin
    <3>6. QED
      BY <2>2, <3>1, <3>2, <3>3, <3>4, <3>5
  <2>3. CASE GetReferences(r) \/ GetMaster(r) \/ GetDuplicates(r) \/ PostBook(r)
    <3>1. \/ Refuse(r)
          \/ \E keys, pc : Read(r, keys, pc) /\ pc \in {"master", "duplicates", "save merge", "save book"}
      BY <2>3, Zenon DEF GetReferences, GetMaster, GetDuplicates, PostBook
    <3>2. QED
      BY <3>1, FormsRead, FormsRefuse DEF Forms
  <2>4. CASE FindBackreferences(r)
    <3>1. PICK q, b : q = request'[r] /\ b = behind[r]
      OBVIOUS
    <3>2. /\ request' = [request EXCEPT ![r] = q] /\ q.pc = "references"
          /\ behind' = [behind EXCEPT ![r] = b] /\ UNCHANGED doc
      BY <2>4, <3>1 DEF FindBackreferences, CatInv, Tables, RequestType
    <3>3. FormAgrees(q, b, doc)
      BY <3>2 DEF FormAgrees, Forms
    <3>4. QED
      BY <3>2, <3>3, FormsKept
  <2>5. CASE SaveMerge(r) \/ SaveBook(r) \/ SaveAuthor(r) \/ AddBook(r) \/ SaveNew(r) \/ SaveMatch(r)
    BY <2>5, FormsSaved, FormsRefuse
       DEF SaveMerge, SaveBook, SaveAuthor, AddBook, SaveNew, SaveMatch
  <2>6. QED
    BY <2>1, <2>2, <2>3, <2>4, <2>5, OpenAuthorForms, PostAuthorForms DEF Merge, Edit, Add
<1>3. QED
  BY <1>1, <1>2

LEMMA FormsInvariant == CatSpec => []FormsInv
<1>1. CatInit => FormsInv
  <2>1. Idle.pc \notin Forms
    BY DEF Idle, Forms
  <2>2. QED
    BY <2>1 DEF CatInit, FormsInv, FormAgrees
<1>2. QED
  BY <1>1, FormsNext, CatInvariant, PTL DEF CatSpec

----------------------------------------------------------------------------
(* Names: what a save does to them *)

\* A save keeps the names if every author it saves leaves them to an author.
LEMMA NamesSaved ==
    ASSUME NEW r, NEW docs, SaveMany(r, docs),
           \A a \in DOMAIN docs \cap Authors : doc[a].type = "author" =>
               \E c \in DOMAIN docs \cap Authors :
                   docs[c].type = "author" /\ doc[a].names \subseteq docs[c].names
    PROVE Names(doc) \subseteq Names(doc')
<1> SUFFICES ASSUME NEW a \in Authors, doc[a].type = "author", NEW n \in doc[a].names
             PROVE n \in Names(doc')
  BY DEF Names
<1>1. \A k \in Authors : doc'[k] = IF k \in DOMAIN docs THEN docs[k] ELSE doc[k]
  BY DEF SaveMany, Keys
<1>2. CASE a \in DOMAIN docs
  <2>1. PICK c \in DOMAIN docs \cap Authors :
           docs[c].type = "author" /\ doc[a].names \subseteq docs[c].names
    BY <1>2
  <2>2. c \in Authors /\ doc'[c].type = "author" /\ n \in doc'[c].names
    BY <1>1, <2>1
  <2>3. QED
    BY <2>2 DEF Names
<1>3. CASE a \notin DOMAIN docs
  <2>1. doc'[a].type = "author" /\ n \in doc'[a].names
    BY <1>1, <1>3
  <2>2. QED
    BY <2>1 DEF Names
<1>4. QED
  BY <1>2, <1>3

\* A merge leaves them to the master.
LEMMA MergeKeepsNames ==
    ASSUME CatInv, ~blind, NEW r \in Requests, SaveMerge(r), behind[r] \cap Authors = {}
    PROVE Names(doc) \subseteq Names(doc')
<1>1. PICK q : q = request[r]
  OBVIOUS
<1>2. /\ SaveMany(r, MergedDocs(q)) /\ q.pc = "save merge" /\ Good(q, behind[r], doc)
      /\ q \in RequestType
      /\ q.key \in Authors /\ q.key \notin q.authors /\ q.authors \subseteq Authors
      /\ q.refs \subseteq Books /\ MergedDocs(q)[q.key].type = "author"
  BY <1>1, MergeSaves
<1>3. PICK docs, D, copies :
        /\ docs = MergedDocs(q) /\ copies = {q.read[a] : a \in q.authors}
        /\ D = q.read[q.key]
  OBVIOUS
<1>4. DOMAIN docs = q.refs \cup q.authors \cup {q.key} /\ docs[q.key] = MergeDocs(D, copies)
  BY <1>3 DEF MergedDocs
<1>5. \A a \in q.authors \cup {q.key} : q.read[a] = doc[a]
  BY <1>2 DEF Good, HasRead, Fresh
<1>6. doc[q.key] \in Doc
  BY <1>2 DEF CatInv, Documents, Keys
<1>7. docs[q.key].names =
         doc[q.key].names \cup UNION {b.names : b \in {b \in copies : b.type = "author"}}
  BY <1>3, <1>4, <1>5, <1>6 DEF MergeDocs, Doc
<1>8. ASSUME NEW a \in q.authors \cup {q.key}, doc[a].type = "author"
      PROVE doc[a].names \subseteq docs[q.key].names
  <2>1. a \in q.authors => doc[a] \in copies
    BY <1>3, <1>5
  <2>2. QED
    BY <1>7, <1>8, <2>1
<1>9. \A a \in DOMAIN docs \cap Authors : a \in q.authors \cup {q.key}
  BY <1>2, <1>4, CatalogAssumption DEF Books
<1>10. q.key \in DOMAIN docs \cap Authors /\ docs[q.key].type = "author" /\ SaveMany(r, docs)
  BY <1>2, <1>3, <1>4
<1>11. QED
  BY <1>8, <1>9, <1>10, NamesSaved

\* An author that is saved keeps those of its form.
LEMMA SaveAuthorKeepsNames ==
    ASSUME CatInv, FormsInv, ~blind, NEW r \in Requests, SaveAuthor(r),
           behind[r] \cap Authors = {}, OfType("delete")' = OfType("delete")
    PROVE Names(doc) \subseteq Names(doc')
<1>1. PICK q : q = request[r]
  OBVIOUS
<1>2. /\ q.pc = "save author" /\ q \in RequestType /\ Good(q, behind[r], doc)
      /\ Clear(q, behind[r], doc, crossed) /\ FormAgrees(q, behind[r], doc)
  BY <1>1 DEF SaveAuthor, At, CatInv, Tables, FormsInv
<1>3. q.key \in Authors /\ q.key \in Keys /\ q.key \notin behind[r]
  BY <1>2 DEF Good, Input, Keys
<1>4. /\ q.read[q.key] = doc[q.key] /\ doc[q.key].type = "author"
      /\ q.names = doc[q.key].names /\ doc[q.key] \in Doc
  BY <1>2, <1>3 DEF Good, HasRead, Fresh, Clear, AuthorsRead, FormAgrees, Forms, CatInv, Documents
<1>5. PICK d \in {[q.read[q.key] EXCEPT !.names = q.names], NewDoc("delete")} :
         SaveMany(r, [k \in {q.key} |-> d])
  BY <1>1 DEF SaveAuthor
<1>6. PICK docs : docs = [k \in {q.key} |-> d]
  OBVIOUS
<1>7. SaveMany(r, docs) /\ DOMAIN docs = {q.key} /\ docs[q.key] = d
  BY <1>5, <1>6
<1>8. d # NewDoc("delete")
  <2> SUFFICES ASSUME d = NewDoc("delete") PROVE FALSE
    OBVIOUS
  <2>1. doc'[q.key] = d
    BY <1>3, <1>7 DEF SaveMany
  <2>2. q.key \in OfType("delete")' /\ q.key \notin OfType("delete")
    BY <1>3, <1>4, <2>1, DeletedType DEF OfType
  <2>3. QED
    BY <2>2
<1>9. d.type = "author" /\ d.names = doc[q.key].names
  <2>1. PICK c, names : c = doc[q.key] /\ names = q.names
    OBVIOUS
  <2>2. d = [c EXCEPT !.names = names] /\ c \in Doc /\ c.type = "author"
    BY <1>4, <1>5, <1>8, <2>1
  <2>3. QED
    BY <1>4, <2>1, <2>2 DEF Doc
<1>10. QED
  BY <1>3, <1>7, <1>9, NamesSaved

\* Other saves touch no author there is.
LEMMA BooksKeepNames ==
    ASSUME CatInv, NEW r \in Requests,
           SaveBook(r) \/ AddBook(r) \/ SaveNew(r) \/ SaveMatch(r)
    PROVE Names(doc) \subseteq Names(doc')
<1>1. PICK q : q = request[r]
  OBVIOUS
<1>2. q \in RequestType /\ Good(q, behind[r], doc)
  BY <1>1 DEF CatInv, Tables
<1>3. CASE UNCHANGED doc
  BY <1>3
<1>4. CASE SaveBook(r) \/ SaveMatch(r)
  <2>1. \/ Refuse(r)
        \/ \E docs : SaveMany(r, docs) /\ DOMAIN docs \subseteq {q.key, q.work} \ {NoKey}
    <3>1. CASE SaveBook(r)
      <4>1. PICK docs : docs = [k \in {q.key, q.work} \ {NoKey} |->
                       IF k = q.work THEN [q.read[k] EXCEPT !.authors = q.authors]
                       ELSE [q.read[k] EXCEPT !.ocaid = q.ocaid]]
        OBVIOUS
      <4>2. SaveMany(r, docs) /\ DOMAIN docs \subseteq {q.key, q.work} \ {NoKey}
        BY <1>1, <3>1, <4>1 DEF SaveBook
      <4>3. QED
        BY <4>2
    <3>2. CASE SaveMatch(r) /\ ~Refuse(r)
      <4>1. PICK keys \in (SUBSET {q.key, q.work}) \ {{}}, ocaid \in BOOLEAN :
             SaveMany(r, [k \in keys |->
                 IF k = q.key THEN [q.read[k] EXCEPT !.authors = q.authors,
                                                     !.ocaid = @ \/ ocaid]
                 ELSE q.read[k]])
        BY <1>1, <3>2, Zenon DEF SaveMatch
      <4>2. PICK docs : docs = [k \in keys |->
                 IF k = q.key THEN [q.read[k] EXCEPT !.authors = q.authors,
                                                     !.ocaid = @ \/ ocaid]
                 ELSE q.read[k]]
        OBVIOUS
      <4>3. SaveMany(r, docs) /\ DOMAIN docs = keys
        BY <4>1, <4>2, Zenon
      <4>4. NoKey \notin keys
        BY <1>1, <1>2, <3>2, CatalogAssumption DEF SaveMatch, At, Good, Input
      <4>5. QED
        BY <4>3, <4>4
    <3>3. QED
      BY <1>4, <3>1, <3>2
  <2>2. {q.key, q.work} \ {NoKey} \subseteq Books
    BY <1>1, <1>2, <1>4 DEF SaveBook, SaveMatch, At, Good, Input, Books
  <2>3. ASSUME NEW docs, SaveMany(r, docs), DOMAIN docs \subseteq {q.key, q.work} \ {NoKey}
        PROVE Names(doc) \subseteq Names(doc')
    <3>1. DOMAIN docs \cap Authors = {}
      BY <2>2, <2>3, CatalogAssumption DEF Books
    <3>2. QED
      BY <2>3, <3>1, NamesSaved
  <2>4. QED
    BY <1>3, <2>1, <2>3 DEF Refuse
<1>5. CASE AddBook(r) \/ SaveNew(r)
  <2>1. /\ q.key \in Authors \cup {NoKey} /\ q.work \in Works \cup {NoKey}
    BY <1>1, <1>2, <1>5 DEF AddBook, SaveNew, At, Good, Input, RequestType
  <2>2. \E a \in Key(q.key, Authors), w \in Key(q.work, Works), e \in Key(NoKey, Editions) :
        \E docs : SaveMany(r, docs) /\ DOMAIN docs = DOMAIN NewBook(r, a, e, w)
    <3>1. CASE AddBook(r)
      <4>1. PICK a \in Key(q.key, Authors), w \in Key(q.work, Works), e \in Key(NoKey, Editions) :
               SaveMany(r, NewBook(r, a, e, w))
        BY <1>1, <3>1 DEF AddBook
      <4>2. QED
        BY <4>1, Zenon
    <3>2. CASE SaveNew(r)
      <4>1. PICK a \in Key(q.key, Authors), w \in Key(q.work, Works), e \in Key(NoKey, Editions) :
               SaveMany(r, [NewBook(r, a, e, w) EXCEPT ![e].authors = {a}, ![e].ocaid = TRUE])
        BY <1>1, <3>2 DEF SaveNew
      <4>2. PICK new, docs : /\ new = NewBook(r, a, e, w)
                             /\ docs = [new EXCEPT ![e].authors = {a}, ![e].ocaid = TRUE]
        OBVIOUS
      <4>3. SaveMany(r, docs) /\ DOMAIN docs = DOMAIN NewBook(r, a, e, w)
        BY <4>1, <4>2
      <4>4. QED
        BY <4>3, Zenon
    <3>3. QED
      BY <1>5, <3>1, <3>2
  <2>3. PICK a \in Key(q.key, Authors), w \in Key(q.work, Works), e \in Key(NoKey, Editions) :
           \E docs : SaveMany(r, docs) /\ DOMAIN docs = DOMAIN NewBook(r, a, e, w)
    BY <2>2, Zenon
  <2>a. PICK docs : SaveMany(r, docs) /\ DOMAIN docs = DOMAIN NewBook(r, a, e, w)
    BY <2>3
  <2>4. DOMAIN docs = {e} \cup (IF q.key = NoKey THEN {a} ELSE {})
                          \cup (IF q.work = NoKey THEN {w} ELSE {})
    BY <1>1, <2>a DEF NewBook
  <2>5. \A k \in DOMAIN docs \cap Authors : doc[k].type = "none"
    BY <2>1, <2>3, <2>4, CatalogAssumption DEF Key, OfType
  <2>6. QED
    BY <2>a, <2>5, NamesSaved
<1>6. QED
  BY <1>4, <1>5

\* A request whose place changes is the one that takes the step.
LEMMA OwnStep ==
    ASSUME CatInv, NEW r \in Requests, NEW o \in Requests, o # r, Merge(o) \/ Edit(o) \/ Add(o)
    PROVE request'[r] = request[r]
<1>1. \E q : request' = [request EXCEPT ![o] = q]
  <2>1. ASSUME NEW q, Begin(o, q) PROVE \E p : request' = [request EXCEPT ![o] = p]
    BY <2>1 DEF Begin
  <2>2. ASSUME NEW keys, NEW pc, ReadCopies(o, keys, pc)
        PROVE \E p : request' = [request EXCEPT ![o] = p]
    BY <2>2 DEF ReadCopies
  <2>3. ASSUME NEW docs, SaveMany(o, docs) PROVE \E p : request' = [request EXCEPT ![o] = p]
    BY <2>3 DEF SaveMany
  <2>4. Refuse(o) => \E p : request' = [request EXCEPT ![o] = p]
    BY DEF Refuse
  <2>5. FindBackreferences(o) => \E p : request' = [request EXCEPT ![o] = p]
    BY DEF FindBackreferences
  <2>6. CASE Merge(o)
    BY <2>1, <2>2, <2>3, <2>5, <2>6
       DEF Merge, StartMerge, GetReferences, GetMaster, GetDuplicates, SaveMerge, Read
  <2>7. CASE Edit(o)
    BY <2>1, <2>2, <2>3, <2>4, <2>7
       DEF Edit, OpenBook, PostBook, SaveBook, OpenAuthor, PostAuthor, SaveAuthor, Read
  <2>8. CASE Add(o)
    BY <2>1, <2>3, <2>4, <2>8
       DEF Add, FillBook, AddBook, FindAuthor, SaveNew, MatchEdition, SaveMatch
  <2>9. QED
    BY <2>6, <2>7, <2>8
<1>2. QED
  BY <1>1 DEF CatInv, Tables

\* No name is lost by a request that nobody has overtaken on an author since it
\* read it or showed it in a form, for any number of authors and of requests
\* under way: a merge hands the names of the duplicates to the master, and an
\* edit saves those the form was shown with.
THEOREM NamesKept == CatSpec => NamesAreKept
<1>1. ASSUME CatInv, FormsInv, CatNext, NEW r \in Requests,
             ~At(r, "idle"), At(r, "idle")', behind[r] \cap Authors = {},
             OfType("delete")' = OfType("delete"), ~blind
      PROVE Names(doc) \subseteq Names(doc')
  <2>1. PICK o \in Requests : Merge(o) \/ Edit(o) \/ Add(o)
    BY <1>1 DEF CatNext
  <2>2. o = r
    BY <1>1, <2>1, OwnStep DEF At
  <2>3. CASE UNCHANGED doc
    BY <2>3
  <2>4. CASE ~UNCHANGED doc
    <3>1. \/ SaveMerge(r) \/ SaveBook(r) \/ SaveAuthor(r)
          \/ AddBook(r) \/ SaveNew(r) \/ SaveMatch(r)
      BY <2>1, <2>2, <2>4
         DEF Merge, Edit, Add, StartMerge, FindBackreferences, GetReferences, GetMaster,
             GetDuplicates, OpenBook, PostBook, OpenAuthor, PostAuthor, FillBook, FindAuthor,
             MatchEdition, Begin, Read, ReadCopies, Refuse
    <3>2. QED
      BY <1>1, <3>1, MergeKeepsNames, SaveAuthorKeepsNames, BooksKeepNames
  <2>5. QED
    BY <2>3, <2>4
<1>2. CatInv /\ FormsInv /\ [CatNext]_catVars =>
      [\A r \in Requests :
          ~At(r, "idle") /\ At(r, "idle")' /\ behind[r] \cap Authors = {}
          /\ OfType("delete")' = OfType("delete")
          => blind \/ Names(doc) \subseteq Names(doc')]_catVars
  BY <1>1
<1>3. QED
  BY <1>2, CatInvariant, FormsInvariant, PTL DEF CatSpec, NamesAreKept
=============================================================================
