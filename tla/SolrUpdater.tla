---------------------------- MODULE SolrUpdater ----------------------------
(***************************************************************************)
(* The Solr updater: a process that follows the log of the document store, *)
(* maps every edit to the works it concerns, and posts these works to      *)
(* Solr.  It saves its position in the log in a state file, is started     *)
(* again when it dies, and keeps the documents it has loaded in memory for *)
(* as long as it runs.                                                     *)
(*                                                                         *)
(* Code: scripts/new-solr-updater.py, openlibrary/solr/update_work.py      *)
(* (update_keys), openlibrary/solr/data_provider.py (BetterDataProvider).  *)
(***************************************************************************)
EXTENDS Naturals, FiniteSets, Sequences

CONSTANTS
    Works,
    Editions,
    NoWork,      \* the work of an edition that has none
    NoSolr,      \* nothing in Solr under this key
    Torn,        \* the contents of a state file cut short by a crash
    BatchSize,   \* records per request to the log (100 in the code)
    MaxFetches,  \* requests to the log per round (10 in the code)
    ChunkSize,   \* keys per call of do_updates (100 in the code)
    MaxLog,      \* bound: edits that are made
    MaxCrashes,  \* bound: how often the updater dies
    Failures     \* may single documents fail?

Docs == Works \cup Editions

ASSUME SolrUpdaterAssumption ==
    /\ Works \cap Editions = {}
    /\ NoWork \notin Works
    /\ Torn \notin Nat
    /\ BatchSize \in Nat \ {0}
    /\ MaxFetches \in Nat \ {0}
    /\ ChunkSize \in Nat \ {0}
    /\ MaxLog \in Nat /\ MaxCrashes \in Nat
    /\ Failures \in BOOLEAN

VARIABLES
    (* the document store *)
    doc,      \* [Docs -> Doc]
    log,      \* Seq(Docs), the keys of its records
    (* disk *)
    saved,    \* the state file: a position in the log, or Torn
    (* Solr, by the key of a work, or of an edition indexed as a work *)
    solr,     \* [Docs -> SolrDoc], what was posted
    visible,  \* [Docs -> SolrDoc], what was committed
    (* the process *)
    pc,
    offset,   \* InfobaseLog.offset
    fetches,  \* requests made this round
    keys,     \* keys read and not yet passed to do_updates
    chunk,    \* keys do_updates works on
    wkeys,    \* works left to be posted
    deletes,  \* keys to be deleted first
    cache,    \* [Docs -> Doc], documents loaded since the process started
    members,  \* [Works -> SUBSET Editions], editions of works, likewise
    (* history *)
    crashes,  \* how often the updater died
    old,      \* documents that were in the cache before this chunk
    excused   \* keys whose last indexing missed something, see below

store == <<doc, log>>
index == <<solr, visible>>
fetch == <<offset, fetches, keys>>
update == <<chunk, wkeys, deletes, cache, members, old>>
vars == <<store, saved, index, pc, fetch, update, crashes, excused>>

----------------------------------------------------------------------------
(* Documents, and the documents of Solr made of them *)

\* rev is the position in the log of the edit that made this revision.
Doc == [type: {"none", "live", "deleted"}, work: Works \cup {NoWork},
        rev: 0..MaxLog]
NoDoc == [type |-> "none", work |-> NoWork, rev |-> 0]

SolrDoc == [rev: 0..MaxLog, editions: SUBSET (Editions \X (0..MaxLog))]
           \cup {NoSolr}

\* Nothing is not a document.
ASSUME NoSolrAssumption ==
    NoSolr \notin [rev: 0..MaxLog, editions: SUBSET (Editions \X (0..MaxLog))]

Points == {"down", "read", "editions", "select", "works", "post", "save",
           "write", "commit"}

\* The variables have the types listed with their declarations, and the
\* position in the log is never past its end.
TypeOK ==
    /\ doc \in [Docs -> Doc]
    /\ log \in Seq(Docs) /\ Len(log) <= MaxLog
    /\ saved \in 0..Len(log) \cup {Torn}
    /\ solr \in [Docs -> SolrDoc] /\ visible \in [Docs -> SolrDoc]
    /\ pc \in Points
    /\ offset \in 0..Len(log) /\ fetches \in 0..MaxFetches
    /\ keys \in Seq(Docs) /\ chunk \in Seq(Docs)
    /\ wkeys \subseteq Docs /\ deletes \subseteq Docs
    /\ cache \in [Docs -> Doc] /\ members \in [Works -> SUBSET Editions]
    /\ crashes \in 0..MaxCrashes /\ old \subseteq Docs /\ excused \subseteq Docs

\* The editions infobase finds for a work.
EditionsOf(w) == {e \in Editions : doc[e].type = "live" /\ doc[e].work = w}

\* update_work of the document d under key k, with the editions es, which are
\* looked up in view: a document of Solr, or its deletion.
Build(k, view, es) ==
    IF view[k].type # "live" THEN NoSolr
    ELSE IF k \in Works
         THEN [rev |-> view[k].rev, editions |-> {<<e, view[e].rev>> : e \in es}]
         ELSE IF view[k].work = NoWork
              THEN [rev |-> view[k].rev, editions |-> {<<k, view[k].rev>>}]
              ELSE NoSolr

\* What Solr should hold under key k.
Expected(k) == Build(k, doc, IF k \in Works THEN EditionsOf(k) ELSE {})

Holds(s, e) == s # NoSolr /\ \E p \in s.editions : p[1] = e

----------------------------------------------------------------------------
(* Edits *)

Put(k, type, w) ==
    /\ Len(log) < MaxLog
    /\ doc' = [doc EXCEPT ![k] = [type |-> type, work |-> w,
                                  rev |-> Len(log) + 1]]
    /\ log' = Append(log, k)
    /\ UNCHANGED <<saved, index, pc, fetch, update, crashes, excused>>

SaveWork == \E w \in Works : Put(w, "live", NoWork)

\* The work of an edition exists.
SaveEdition == \E e \in Editions, w \in Works \cup {NoWork} :
    /\ w # NoWork => doc[w].type = "live"
    /\ Put(e, "live", w)

\* A document becomes a /type/delete, or, for a work, a /type/redirect.
Remove == \E k \in Docs :
    /\ doc[k].type = "live"
    /\ Put(k, "deleted", NoWork)

----------------------------------------------------------------------------
(* InfobaseLog.read_records and the loop of update_keys over its records *)

\* main: the state file is read.  A torn one is not a position: every request
\* for the log then fails, and the process with it.
StartUp ==
    /\ pc = "down"
    /\ saved # Torn
    /\ pc' = "read"
    /\ offset' = saved
    /\ fetches' = 0
    /\ UNCHANGED <<store, saved, index, keys, update, crashes, excused>>

Batch == SubSeq(log, offset + 1,
                IF offset + BatchSize < Len(log) THEN offset + BatchSize
                                                 ELSE Len(log))

NextOffset == offset + Len(Batch)

\* Mutant: the position is saved with the batch.
Fetch_SavesAtOnce ==
    /\ pc = "read"
    /\ Len(keys) < ChunkSize
    /\ fetches < MaxFetches
    /\ IF offset = Len(log)
       THEN /\ fetches' = MaxFetches
            /\ UNCHANGED <<offset, keys>>
       ELSE /\ fetches' = fetches + 1
            /\ keys' = keys \o Batch
            /\ offset' = NextOffset
    /\ saved' = offset'
    /\ UNCHANGED <<store, index, pc, update, crashes, excused>>

\* The records are read as far as the next chunk needs them.
Fetch ==
    /\ pc = "read"
    /\ Len(keys) < ChunkSize
    /\ fetches < MaxFetches
    /\ IF offset = Len(log)
       THEN /\ fetches' = MaxFetches
            /\ UNCHANGED <<offset, keys>>
       ELSE /\ fetches' = fetches + 1
            /\ keys' = keys \o Batch
            /\ offset' = NextOffset
    /\ UNCHANGED <<store, saved, index, pc, update, crashes, excused>>

TakeChunk ==
    LET n == IF Len(keys) < ChunkSize THEN Len(keys) ELSE ChunkSize
    IN  /\ pc = "read"
        /\ keys # <<>>
        /\ Len(keys) >= ChunkSize \/ fetches = MaxFetches
        /\ pc' = "editions"
        /\ chunk' = SubSeq(keys, 1, n)
        /\ keys' = SubSeq(keys, n + 1, Len(keys))
        /\ old' = {k \in Docs : cache[k] # NoDoc}
        /\ UNCHANGED <<store, saved, index, offset, fetches, wkeys, deletes,
                       cache, members, crashes, excused>>

ReadAll ==
    /\ pc = "read"
    /\ keys = <<>> /\ fetches = MaxFetches
    /\ pc' = "save"
    /\ UNCHANGED <<store, saved, index, fetch, update, crashes, excused>>

----------------------------------------------------------------------------
(* BetterDataProvider *)

\* Documents that are in the cache are not loaded again.
Loaded(c, ks) == [k \in Docs |-> IF k \in ks /\ c[k] = NoDoc THEN doc[k] ELSE c[k]]

\* preload_documents(ks): also the works of all editions in the cache, and the
\* editions of all works in it.  A work without editions is looked up again.
Preload(ks) ==
    LET c1 == Loaded(cache, ks)
        c2 == Loaded(c1, {c1[e].work : e \in {f \in Editions : c1[f].type = "live"}}
                         \ {NoWork})
        m == [w \in Works |-> IF c2[w].type = "live" /\ members[w] = {}
                              THEN EditionsOf(w) ELSE members[w]]
    IN  /\ members' = m
        /\ cache' = Loaded(c2, UNION {m[w] : w \in Works})

----------------------------------------------------------------------------
(* update_work.update_keys *)

InChunk == {chunk[i] : i \in 1..Len(chunk)}

PreloadEditions ==
    /\ pc = "editions"
    /\ Preload(InChunk \cap Editions)
    /\ pc' = "select"
    /\ UNCHANGED <<store, saved, index, fetch, chunk, wkeys, deletes, old,
                   crashes, excused>>

\* solr_select_work(e): some work in Solr with this edition.
SelectWork(e) ==
    LET found == {k \in Docs : Holds(visible[k], e)}
    IN  IF found = {} THEN {{}} ELSE {{k} : k \in found}

\* Mutant: an edition that got a work stays indexed as a work.
FakeWorks_None(es) == {}

\* Keys under which editions with a work may have been indexed as works.
FakeWorks(es) == {e \in es : cache[e].work # NoWork}

\* What this chunk misses: a work Solr still shows with an edition that has
\* left it, a deleted edition Solr does not show yet, and whatever was in the
\* cache before, with the work an edition has got since.
Missed ==
    LET es == InChunk \cap Editions
    IN  {w \in Works \ wkeys' : \E e \in es : Holds(solr[w], e)}
        \cup {e \in es \ wkeys' : cache[e].type = "deleted" /\ solr[e] # NoSolr}
        \cup (InChunk \cap old)
        \cup ({doc[e].work : e \in es \cap old} \ {NoWork})

\* The works of the editions, and of those deleted the works Solr knows.
SelectWorks ==
    LET live == {e \in InChunk \cap Editions : cache[e].type = "live"}
        gone == (InChunk \cap Editions) \ live
    IN  /\ pc = "select"
        /\ \E found \in [gone -> {{}} \cup {{k} : k \in Docs}] :
              /\ \A e \in gone : found[e] \in SelectWork(e)
              /\ wkeys' = (InChunk \cap Works)
                          \cup {IF cache[e].work = NoWork THEN e
                                ELSE cache[e].work : e \in live}
                          \cup UNION {found[e] : e \in gone}
              /\ deletes' = FakeWorks(live)
              /\ excused' = excused \cup Missed
        /\ pc' = "works"
        /\ UNCHANGED <<store, saved, index, fetch, chunk, cache, members, old,
                       crashes>>

PreloadWorks ==
    /\ pc = "works"
    /\ Preload(wkeys)
    /\ pc' = "post"
    /\ UNCHANGED <<store, saved, index, fetch, chunk, wkeys, deletes, old,
                   crashes, excused>>

\* The deletions are posted first ...
PostDeletes ==
    /\ pc = "post"
    /\ deletes # {}
    /\ solr' = [k \in Docs |-> IF k \in deletes THEN NoSolr ELSE solr[k]]
    /\ deletes' = {}
    /\ excused' = excused \ (deletes \ old)
    /\ UNCHANGED <<store, saved, visible, pc, fetch, chunk, wkeys, cache,
                   members, old, crashes>>

\* get_editions_of_work: a work without editions is looked up once more.
MembersOf(k) == IF k \notin Works THEN {}
                ELSE IF cache[k].type = "live" /\ members[k] = {}
                     THEN EditionsOf(k) ELSE members[k]

Posted(k) == Build(k, Loaded(cache, MembersOf(k)), MembersOf(k))

\* ... then the works.  A work that raises, or that Solr refuses, is logged
\* and skipped.
PostWork ==
    /\ pc = "post"
    /\ deletes = {}
    /\ \E k \in wkeys :
          /\ wkeys' = wkeys \ {k}
          /\ cache' = Loaded(cache, MembersOf(k))
          /\ members' = [w \in Works |-> IF w = k THEN MembersOf(k) ELSE members[w]]
          /\ \/ /\ solr' = [solr EXCEPT ![k] = Posted(k)]
                /\ excused' = IF ({k} \cup MembersOf(k)) \cap old = {}
                              THEN excused \ {k} ELSE excused \cup {k}
             \/ /\ Failures
                /\ excused' = excused \cup {k}
                /\ UNCHANGED solr
    /\ UNCHANGED <<store, saved, visible, pc, fetch, chunk, deletes, old, crashes>>

ChunkDone ==
    /\ pc = "post"
    /\ deletes = {} /\ wkeys = {}
    /\ pc' = "read"
    /\ chunk' = <<>> /\ old' = {}
    /\ UNCHANGED <<store, saved, index, fetch, wkeys, deletes, cache, members,
                   crashes, excused>>

----------------------------------------------------------------------------
(* The rest of main's loop *)

\* The state file is opened for writing ...
TruncateState ==
    /\ pc = "save"
    /\ IF offset = saved
       THEN pc' = "commit" /\ UNCHANGED saved
       ELSE pc' = "write" /\ saved' = Torn
    /\ UNCHANGED <<store, index, fetch, update, crashes, excused>>

\* ... and written when it is closed.
WriteState ==
    /\ pc = "write"
    /\ pc' = "commit"
    /\ saved' = offset
    /\ UNCHANGED <<store, index, fetch, update, crashes, excused>>

\* Mutant: the generator of records is not made anew.
Commit_NoReset ==
    /\ pc = "commit"
    /\ pc' = "read"
    /\ visible' \in {visible, solr}
    /\ UNCHANGED <<store, saved, solr, fetch, update, crashes, excused>>

\* Solr.commit, by the number of documents and the time.
Commit ==
    /\ pc = "commit"
    /\ pc' = "read"
    /\ fetches' = 0
    /\ visible' \in {visible, solr}
    /\ UNCHANGED <<store, saved, solr, offset, keys, update, crashes, excused>>

\* Solr commits by itself (commitWithin).
SolrCommit ==
    /\ visible # solr
    /\ visible' = solr
    /\ UNCHANGED <<store, saved, solr, pc, fetch, update, crashes, excused>>

NoCache == [k \in Docs |-> NoDoc]
NoMembers == [w \in Works |-> {}]

\* An exception that is not caught, or the end of the process.
Crash ==
    /\ pc # "down"
    /\ crashes < MaxCrashes
    /\ crashes' = crashes + 1
    /\ pc' = "down"
    /\ offset' = 0 /\ fetches' = 0 /\ keys' = <<>>
    /\ chunk' = <<>> /\ wkeys' = {} /\ deletes' = {} /\ old' = {}
    /\ cache' = NoCache /\ members' = NoMembers
    /\ UNCHANGED <<store, saved, index, excused>>

----------------------------------------------------------------------------
\* The works of a catalogue without editions have been indexed before.
Init ==
    /\ doc = [k \in Docs |-> IF k \in Works THEN [NoDoc EXCEPT !.type = "live"]
                                             ELSE NoDoc]
    /\ log = <<>>
    /\ saved = 0
    /\ solr = [k \in Docs |-> IF k \in Works THEN [rev |-> 0, editions |-> {}]
                                              ELSE NoSolr]
    /\ visible = solr
    /\ pc = "down"
    /\ offset = 0 /\ fetches = 0 /\ keys = <<>>
    /\ chunk = <<>> /\ wkeys = {} /\ deletes = {} /\ old = {}
    /\ cache = NoCache /\ members = NoMembers
    /\ crashes = 0 /\ excused = {}

Read == Fetch \/ TakeChunk \/ ReadAll
UpdateKeys == PreloadEditions \/ SelectWorks \/ PreloadWorks \/ PostDeletes
              \/ PostWork \/ ChunkDone
Finish == TruncateState \/ WriteState \/ Commit

Updater == StartUp \/ Read \/ UpdateKeys \/ Finish
Edit == SaveWork \/ SaveEdition \/ Remove

Next == Edit \/ Updater \/ SolrCommit \/ Crash

Spec == Init /\ [][Next]_vars

\* The service manager starts the updater whenever it is down, and all its
\* calls have a timeout.
FairSpec == Spec /\ WF_vars(Updater)

----------------------------------------------------------------------------
(* The abstract follower it implements *)

\* A restart begins at the saved position; what is written is not lost any
\* more once the process survives the writing.
Passed == IF pc = "write" THEN offset ELSE saved

\* Records all of whose keys have gone through update_keys.
Handled == IF pc = "down" THEN saved ELSE offset - Len(keys) - Len(chunk)

Follower == INSTANCE LogFollower WITH
    MaxLength <- MaxLog, Lost <- Torn,
    length <- Len(log), handled <- Handled, passed <- Passed

\* main: the offset is saved only after every record before it has gone
\* through update_keys, across chunks, rounds and crashes.
DeliversAtLeastOnce == Follower!Spec

\* main: the updater gets to every edit, unless a crash tears the state file.
EveryEditIsPassed == Follower!EveryRecordIsPassed

----------------------------------------------------------------------------
(* Properties *)

UpToDate == saved = Len(log)

\* update_keys: when the updater has passed every edit, Solr shows each work,
\* and each edition without a work, the way the document store has it, with the
\* editions it has now - although edits go on while documents are loaded, and
\* crashes repeat updates.  Excused are keys of failed documents, of works an
\* edition has left unseen, and keys this process had loaded before.
IndexIsCurrent == UpToDate => \A k \in Docs \ excused : solr[k] = Expected(k)

----------------------------------------------------------------------------
(* What docstrings of the code say *)

\* update_keys: "Insert/update the documents with the provided keys in Solr."
\* DataProvider.get_document: "Returns the document with specified key from the
\* database."  A work Solr has been updated with is the one of the database.
WorksAreCurrent == UpToDate => \A w \in Works : solr[w] = Expected(w)

=============================================================================
