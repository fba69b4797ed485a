-------------------------- MODULE SolrUpdaterProofs --------------------------
(***************************************************************************)
(* Theorems about SolrUpdater, for any works, editions, sizes of batches   *)
(* and chunks, logs and crashes: type correctness, that the updater        *)
(* implements LogFollower, and that its index is current.                  *)
(***************************************************************************)
EXTENDS SolrUpdater, TLAPS

----------------------------------------------------------------------------
(* The inductive invariant *)

\* Where a round is over there is nothing left of it, the state file is torn
\* only while it is written or when the process has died then, and what is
\* still to be handled has been read.
Control ==
    /\ pc \in {"read", "save", "write", "commit"} => chunk = <<>>
    /\ pc \in {"save", "write", "commit"} => keys = <<>>
    /\ saved = Torn => pc \in {"down", "write"}
    /\ pc = "write" => saved = Torn
    /\ pc = "down" => keys = <<>> /\ chunk = <<>>
    /\ Len(keys) + Len(chunk) <= offset

UpdaterInv == TypeOK /\ Control

----------------------------------------------------------------------------
(* Lemmas about the operators *)

\* Loading documents fills the cache with documents.
LEMMA LoadedType ==
    ASSUME TypeOK, NEW c \in [Docs -> Doc], NEW ks
    PROVE  Loaded(c, ks) \in [Docs -> Doc]
BY DEF TypeOK, Loaded

\* The editions of a work are editions.
LEMMA MembersType ==
    ASSUME TypeOK, NEW k PROVE MembersOf(k) \subseteq Editions
BY DEF TypeOK, MembersOf, EditionsOf

\* A document of Solr is made of documents of the store.
LEMMA PostedType ==
    ASSUME TypeOK, NEW k \in Docs
    PROVE  Posted(k) \in SolrDoc
<1> DEFINE c == Loaded(cache, MembersOf(k))
<1>1. MembersOf(k) \subseteq Editions
  BY MembersType
<1>2. c \in [Docs -> Doc]
  BY LoadedType DEF TypeOK
<1> HIDE DEF c
<1>3. \A e \in Docs : c[e].rev \in 0..MaxLog
  BY <1>2 DEF Doc
<1>4. {<<e, c[e].rev>> : e \in MembersOf(k)} \subseteq Editions \X (0..MaxLog)
  BY <1>1, <1>3 DEF Docs
<1>5. k \notin Works => {<<k, c[k].rev>>} \subseteq Editions \X (0..MaxLog)
  BY <1>3 DEF Docs
<1>6. QED
  BY <1>3, <1>4, <1>5 DEF c, Posted, Build, SolrDoc

LEMMA PreloadType ==
    ASSUME TypeOK, NEW ks, Preload(ks)
    PROVE  cache' \in [Docs -> Doc] /\ members' \in [Works -> SUBSET Editions]
<1> DEFINE c1 == Loaded(cache, ks)
           c2 == Loaded(c1, {c1[e].work : e \in {f \in Editions :
                                                 c1[f].type = "live"}} \ {NoWork})
           m == [w \in Works |-> IF c2[w].type = "live" /\ members[w] = {}
                                 THEN EditionsOf(w) ELSE members[w]]
<1>1. c1 \in [Docs -> Doc]
  BY LoadedType DEF TypeOK
<1>2. c2 \in [Docs -> Doc]
  BY <1>1, LoadedType
<1>3. m \in [Works -> SUBSET Editions]
  BY DEF TypeOK, EditionsOf
<1>4. Loaded(c2, UNION {m[w] : w \in Works}) \in [Docs -> Doc]
  BY <1>2, LoadedType
<1>5. members' = m /\ cache' = Loaded(c2, UNION {m[w] : w \in Works})
  BY DEF Preload
<1>6. QED
  BY <1>3, <1>4, <1>5

\* What is read is part of the log, and the next position within it.
LEMMA BatchType ==
    ASSUME TypeOK, offset # Len(log)
    PROVE  /\ Batch \in Seq(Docs)
           /\ NextOffset \in 0..Len(log)
           /\ NextOffset = offset + Len(Batch)
<1> DEFINE last == IF offset + BatchSize < Len(log) THEN offset + BatchSize
                                                     ELSE Len(log)
<1>1. log \in Seq(Docs) /\ offset \in 0..Len(log) /\ Len(log) \in Nat
  BY DEF TypeOK
<1>2. BatchSize \in Nat \ {0}
  BY SolrUpdaterAssumption
<1>3. last \in 1..Len(log) /\ offset + 1 \in 1..last
  BY <1>1, <1>2
<1>4. Batch = SubSeq(log, offset + 1, last)
  BY DEF Batch
<1> HIDE DEF last
<1>5. Batch \in Seq(Docs)
  BY <1>1, <1>3, <1>4
<1>6. Len(Batch) = last - offset
  BY <1>1, <1>3, <1>4
<1>7. QED
  BY <1>1, <1>3, <1>5, <1>6 DEF NextOffset

----------------------------------------------------------------------------
(* Every step keeps the invariant *)

LEMMA InitInv == Init => UpdaterInv
<1> SUFFICES ASSUME Init PROVE UpdaterInv
  OBVIOUS
<1>1. NoDoc \in Doc /\ NoSolr \in SolrDoc
  BY SolrUpdaterAssumption DEF NoDoc, Doc, SolrDoc
<1>2. [NoDoc EXCEPT !.type = "live"] \in Doc /\ [rev |-> 0, editions |-> {}] \in SolrDoc
  BY SolrUpdaterAssumption DEF NoDoc, Doc, SolrDoc
<1>3. doc \in [Docs -> Doc]
  BY <1>1, <1>2 DEF Init
<1>4. solr \in [Docs -> SolrDoc]
  BY <1>1, <1>2 DEF Init
<1>5. TypeOK
  BY <1>1, <1>3, <1>4, SolrUpdaterAssumption
  DEF Init, TypeOK, NoCache, NoMembers, Points
<1>6. Control
  BY SolrUpdaterAssumption DEF Init, Control
<1>7. QED
  BY <1>5, <1>6 DEF UpdaterInv

LEMMA PutInv ==
    ASSUME UpdaterInv, NEW k \in Docs, NEW type \in {"live", "deleted"},
           NEW w \in Works \cup {NoWork}, Put(k, type, w)
    PROVE  UpdaterInv'
<1> USE DEF UpdaterInv
<1>1. log' \in Seq(Docs) /\ Len(log') = Len(log) + 1 /\ Len(log') <= MaxLog
  BY SolrUpdaterAssumption DEF Put, TypeOK
<1>2. [type |-> type, work |-> w, rev |-> Len(log) + 1] \in Doc
  BY SolrUpdaterAssumption DEF Put, TypeOK, Doc
<1>3. doc' \in [Docs -> Doc]
  BY <1>2 DEF Put, TypeOK
<1>4. saved' \in 0..Len(log') \cup {Torn} /\ offset' \in 0..Len(log')
  BY <1>1 DEF Put, TypeOK, fetch
<1>5. TypeOK'
  BY <1>1, <1>3, <1>4 DEF Put, TypeOK, index, fetch, update
<1>6. Control'
  BY DEF Put, Control, fetch, update
<1>7. QED
  BY <1>5, <1>6

LEMMA EditInv == UpdaterInv /\ Edit => UpdaterInv'
<1> SUFFICES ASSUME UpdaterInv, Edit PROVE UpdaterInv'
  OBVIOUS
<1>1. CASE SaveWork
  BY <1>1, PutInv DEF SaveWork, Docs
<1>2. CASE SaveEdition
  BY <1>2, PutInv DEF SaveEdition, Docs
<1>3. CASE Remove
  BY <1>3, PutInv DEF Remove
<1>4. QED
  BY <1>1, <1>2, <1>3 DEF Edit

LEMMA StartUpInv == UpdaterInv /\ StartUp => UpdaterInv'
<1> SUFFICES ASSUME UpdaterInv, StartUp PROVE UpdaterInv'
  OBVIOUS
<1> USE DEF UpdaterInv
<1>1. saved \in 0..Len(log) /\ 0 \in 0..MaxFetches
  BY SolrUpdaterAssumption DEF StartUp, TypeOK
<1>2. TypeOK'
  BY <1>1 DEF StartUp, TypeOK, Points, store, index, update
<1>3. Control'
  BY <1>1 DEF StartUp, Control, TypeOK, update
<1>4. QED
  BY <1>2, <1>3

LEMMA FetchInv == UpdaterInv /\ Fetch => UpdaterInv'
<1> SUFFICES ASSUME UpdaterInv, Fetch PROVE UpdaterInv'
  OBVIOUS
<1> USE DEF UpdaterInv
<1>1. fetches' \in 0..MaxFetches
  BY SolrUpdaterAssumption DEF Fetch, TypeOK
<1>2. CASE offset = Len(log)
  <2>1. TypeOK'
    BY <1>1, <1>2 DEF Fetch, TypeOK, store, index, update
  <2>2. Control'
    BY <1>2 DEF Fetch, Control, update
  <2>3. QED
    BY <2>1, <2>2
<1>3. CASE offset # Len(log)
  <2>1. keys' = keys \o Batch /\ offset' = NextOffset
    BY <1>3 DEF Fetch
  <2>2. keys' \in Seq(Docs) /\ Len(keys') = Len(keys) + Len(Batch)
    BY <1>3, <2>1, BatchType DEF TypeOK
  <2>3. TypeOK'
    BY <1>1, <1>3, <2>1, <2>2, BatchType DEF Fetch, TypeOK, store, index, update
  <2>4. Control'
    BY <1>3, <2>1, <2>2, BatchType DEF Fetch, Control, TypeOK, update
  <2>5. QED
    BY <2>3, <2>4
<1>4. QED
  BY <1>2, <1>3

LEMMA TakeChunkInv == UpdaterInv /\ TakeChunk => UpdaterInv'
<1> SUFFICES ASSUME UpdaterInv, TakeChunk PROVE UpdaterInv'
  OBVIOUS
<1> USE DEF UpdaterInv
<1> DEFINE n == IF Len(keys) < ChunkSize THEN Len(keys) ELSE ChunkSize
<1>1. keys \in Seq(Docs) /\ keys # <<>> /\ n \in 1..Len(keys)
  BY SolrUpdaterAssumption DEF TakeChunk, TypeOK
<1>2. chunk' = SubSeq(keys, 1, n) /\ keys' = SubSeq(keys, n + 1, Len(keys))
  BY DEF TakeChunk
<1> HIDE DEF n
<1>3. chunk' \in Seq(Docs) /\ keys' \in Seq(Docs)
  BY <1>1, <1>2
<1>4. Len(chunk') = n /\ Len(keys') = Len(keys) - n
  BY <1>1, <1>2
<1>5. TypeOK'
  BY <1>3 DEF TakeChunk, TypeOK, Points, store, index
<1>6. Control'
  <2>1. Len(chunk) = 0 /\ Len(keys) <= offset
    <3>1. chunk = <<>> /\ Len(keys) + Len(chunk) <= offset
      BY DEF TakeChunk, Control
    <3>2. Len(keys) \in Nat /\ offset \in Nat
      BY <1>1 DEF TypeOK
    <3>3. Len(chunk) = 0
      BY <3>1
    <3>4. QED
      BY <3>1, <3>2, <3>3
  <2>2. Len(keys') + Len(chunk') <= offset'
    <3>1. offset' = offset
      BY DEF TakeChunk
    <3>2. Len(keys) \in Nat /\ offset \in Nat
      BY <1>1 DEF TypeOK
    <3>3. QED
      BY <1>1, <1>4, <2>1, <3>1, <3>2
  <2>3. pc' = "editions" /\ saved' = saved /\ saved # Torn
    BY DEF TakeChunk, Control
  <2>4. QED
    BY <2>2, <2>3 DEF Control
<1>7. QED
  BY <1>5, <1>6

LEMMA UpdateKeysInv == UpdaterInv /\ UpdateKeys => UpdaterInv'
<1> SUFFICES ASSUME UpdaterInv, UpdateKeys PROVE UpdaterInv'
  OBVIOUS
<1> USE DEF UpdaterInv
<1>1. CASE PreloadEditions
  <2>1. cache' \in [Docs -> Doc] /\ members' \in [Works -> SUBSET Editions]
    BY <1>1, PreloadType DEF PreloadEditions
  <2>2. TypeOK'
    BY <1>1, <2>1 DEF PreloadEditions, TypeOK, Points, store, index, fetch
  <2>3. QED
    BY <1>1, <2>2 DEF PreloadEditions, Control, fetch
<1>2. CASE SelectWorks
  <2>1. InChunk \subseteq Docs
    BY DEF InChunk, TypeOK
  <2>2. \A e \in Editions : cache[e].work \in Works \cup {NoWork}
                            /\ doc[e].work \in Works \cup {NoWork}
    BY DEF TypeOK, Doc, Docs
  <2>3. wkeys' \subseteq Docs
    BY <1>2, <2>2 DEF SelectWorks, Docs
  <2>4. deletes' \subseteq Docs
    BY <1>2 DEF SelectWorks, FakeWorks, Docs
  <2>5. Missed \subseteq Docs
    BY <2>1, <2>2 DEF Missed, Docs
  <2>6. excused' \subseteq Docs
    BY <1>2, <2>5 DEF SelectWorks, TypeOK
  <2>7. TypeOK'
    BY <1>2, <2>3, <2>4, <2>6 DEF SelectWorks, TypeOK, Points, store, index, fetch
  <2>8. QED
    BY <1>2, <2>7 DEF SelectWorks, Control, fetch
<1>3. CASE PreloadWorks
  <2>1. cache' \in [Docs -> Doc] /\ members' \in [Works -> SUBSET Editions]
    BY <1>3, PreloadType DEF PreloadWorks
  <2>2. TypeOK'
    BY <1>3, <2>1 DEF PreloadWorks, TypeOK, Points, store, index, fetch
  <2>3. QED
    BY <1>3, <2>2 DEF PreloadWorks, Control, fetch
<1>4. CASE PostDeletes
  <2>1. solr' \in [Docs -> SolrDoc]
    BY <1>4 DEF PostDeletes, TypeOK, SolrDoc
  <2>2. TypeOK'
    BY <1>4, <2>1 DEF PostDeletes, TypeOK, store, fetch
  <2>3. QED
    BY <1>4, <2>2 DEF PostDeletes, Control, fetch
<1>5. CASE PostWork
  <2>1. PICK k \in wkeys :
           /\ wkeys' = wkeys \ {k}
           /\ solr' = [solr EXCEPT ![k] = Posted(k)] \/ UNCHANGED solr
           /\ excused' = excused \ {k} \/ excused' = excused \cup {k}
           /\ cache' = Loaded(cache, MembersOf(k))
           /\ members' = [w \in Works |-> IF w = k THEN MembersOf(k) ELSE members[w]]
    BY <1>5 DEF PostWork
  <2>2. k \in Docs
    BY DEF TypeOK
  <2>3. solr' \in [Docs -> SolrDoc]
    BY <2>1, <2>2, PostedType DEF TypeOK
  <2>4. excused' \subseteq Docs /\ wkeys' \subseteq Docs
    BY <2>1, <2>2 DEF TypeOK
  <2>5. cache' \in [Docs -> Doc]
    BY <2>1, LoadedType DEF TypeOK
  <2>6. members' \in [Works -> SUBSET Editions]
    BY <2>1, MembersType DEF TypeOK
  <2>7. TypeOK'
    BY <1>5, <2>3, <2>4, <2>5, <2>6 DEF PostWork, TypeOK, store, fetch
  <2>8. QED
    BY <1>5, <2>7 DEF PostWork, Control, fetch
<1>6. CASE ChunkDone
  <2>1. TypeOK'
    BY <1>6 DEF ChunkDone, TypeOK, Points, store, index, fetch
  <2>2. Len(chunk') = 0 /\ Len(chunk) \in Nat /\ Len(keys) \in Nat
    BY <1>6 DEF ChunkDone, TypeOK
  <2>3. Control'
    BY <1>6, <2>2 DEF ChunkDone, Control, TypeOK, fetch
  <2>4. QED
    BY <2>1, <2>3
<1>7. QED
  BY <1>1, <1>2, <1>3, <1>4, <1>5, <1>6 DEF UpdateKeys

LEMMA FinishInv == UpdaterInv /\ (ReadAll \/ Finish) => UpdaterInv'
<1> SUFFICES ASSUME UpdaterInv, ReadAll \/ Finish PROVE UpdaterInv'
  OBVIOUS
<1> USE DEF UpdaterInv
<1>1. CASE ReadAll
  <2>1. TypeOK'
    BY <1>1 DEF ReadAll, TypeOK, Points, store, index, fetch, update
  <2>2. QED
    BY <1>1, <2>1 DEF ReadAll, Control, fetch, update
<1>2. CASE TruncateState
  <2>1. TypeOK'
    BY <1>2 DEF TruncateState, TypeOK, Points, store, index, fetch, update
  <2>2. offset # Torn
    BY SolrUpdaterAssumption DEF TypeOK
  <2>3. QED
    BY <1>2, <2>1, <2>2 DEF TruncateState, Control, fetch, update
<1>3. CASE WriteState
  <2>1. TypeOK'
    BY <1>3 DEF WriteState, TypeOK, Points, store, index, fetch, update
  <2>2. offset # Torn
    BY SolrUpdaterAssumption DEF TypeOK
  <2>3. QED
    BY <1>3, <2>1, <2>2 DEF WriteState, Control, fetch, update
<1>4. CASE Commit
  <2>1. TypeOK'
    BY <1>4, SolrUpdaterAssumption DEF Commit, TypeOK, Points, store, update
  <2>2. QED
    BY <1>4, <2>1 DEF Commit, Control, update
<1>5. QED
  BY <1>1, <1>2, <1>3, <1>4 DEF Finish

LEMMA CrashInv == UpdaterInv /\ (SolrCommit \/ Crash) => UpdaterInv'
<1> SUFFICES ASSUME UpdaterInv, SolrCommit \/ Crash PROVE UpdaterInv'
  OBVIOUS
<1> USE DEF UpdaterInv
<1>1. CASE SolrCommit
  <2>1. TypeOK'
    BY <1>1 DEF SolrCommit, TypeOK, store, fetch, update
  <2>2. QED
    BY <1>1, <2>1 DEF SolrCommit, Control, fetch, update
<1>2. CASE Crash
  <2>1. NoDoc \in Doc
    BY SolrUpdaterAssumption DEF NoDoc, Doc
  <2>2. NoCache \in [Docs -> Doc] /\ NoMembers \in [Works -> SUBSET Editions]
    BY <2>1 DEF NoCache, NoMembers
  <2>3. crashes' \in 0..MaxCrashes
    BY <1>2, SolrUpdaterAssumption DEF Crash, TypeOK
  <2>4. TypeOK'
    BY <1>2, <2>2, <2>3, SolrUpdaterAssumption
       DEF Crash, TypeOK, Points, store, index
  <2>5. Control'
    BY <1>2 DEF Crash, Control
  <2>6. QED
    BY <2>4, <2>5
<1>3. QED
  BY <1>1, <1>2

LEMMA NextInv == UpdaterInv /\ [Next]_vars => UpdaterInv'
<1> SUFFICES ASSUME UpdaterInv, [Next]_vars PROVE UpdaterInv'
  OBVIOUS
<1>1. CASE UNCHANGED vars
  BY <1>1 DEF vars, store, index, fetch, update, UpdaterInv, TypeOK, Control
<1>2. CASE Next
  BY <1>2, EditInv, StartUpInv, FetchInv, TakeChunkInv, UpdateKeysInv, FinishInv,
     CrashInv DEF Next, Updater, Read
<1>3. QED
  BY <1>1, <1>2

LEMMA Invariance == Spec => []UpdaterInv
BY InitInv, NextInv, PTL DEF Spec

\* The variables keep their types for any number of edits and crashes; the
\* position in memory and the one on disk are never past the end of the log.
THEOREM TypeCorrect == Spec => []TypeOK
<1>1. UpdaterInv => TypeOK
  BY DEF UpdaterInv
<1>2. QED
  BY <1>1, Invariance, PTL

----------------------------------------------------------------------------
(* The refinement *)

LEMMA InitRefines == Init => Follower!Init
BY SolrUpdaterAssumption DEF Init, Follower!Init, Handled, Passed

\* Steps that neither read nor finish anything map to stuttering.
LEMMA Stutters ==
    ASSUME UNCHANGED <<log, saved, offset, keys, chunk>>,
           \/ UNCHANGED pc
           \/ /\ pc \notin {"down", "write"}
              /\ pc' \notin {"down", "write"}
    PROVE  UNCHANGED Follower!vars
BY DEF Follower!vars, Handled, Passed

LEMMA StepRefines == UpdaterInv /\ [Next]_vars => [Follower!Next]_(Follower!vars)
<1> SUFFICES ASSUME UpdaterInv, [Next]_vars
             PROVE  [Follower!Next]_(Follower!vars)
  OBVIOUS
<1> USE DEF UpdaterInv
<1>1. CASE UNCHANGED vars
  <2>1. UNCHANGED <<log, saved, offset, keys, chunk>> /\ UNCHANGED pc
    BY <1>1 DEF vars, store, fetch, update
  <2>2. QED
    BY <2>1, Stutters
<1>2. CASE Edit
  <2>1. Len(log') = Len(log) + 1 /\ UNCHANGED <<saved, pc, fetch, update>>
    BY <1>2 DEF Edit, SaveWork, SaveEdition, Remove, Put, TypeOK, Docs
  <2>2. Follower!Append
    BY <2>1 DEF Follower!Append, Handled, Passed, fetch, update
  <2>3. QED
    BY <2>2 DEF Follower!Next
<1>3. CASE StartUp
  <2>1. saved \in Nat /\ offset' = saved /\ Len(keys') = 0 /\ Len(chunk') = 0
    BY <1>3 DEF StartUp, TypeOK, Control, update
  <2>2. UNCHANGED Follower!vars
    BY <1>3, <2>1 DEF StartUp, Follower!vars, Handled, Passed, store
  <2>3. QED
    BY <2>2
<1>4. CASE Fetch
  <2>1. CASE offset = Len(log)
    BY <1>4, <2>1, Stutters DEF Fetch, store, update
  <2>2. CASE offset # Len(log)
    <3>1. keys' = keys \o Batch /\ offset' = offset + Len(Batch)
      BY <1>4, <2>2 DEF Fetch, NextOffset
    <3>2. Len(keys') = Len(keys) + Len(Batch)
      BY <2>2, <3>1, BatchType DEF TypeOK
    <3>3. Len(Batch) \in Nat /\ Len(keys) \in Nat /\ Len(chunk) \in Nat
          /\ offset \in Nat
      BY <2>2, BatchType DEF TypeOK
    <3>4. offset' - Len(keys') - Len(chunk) = offset - Len(keys) - Len(chunk)
      BY <3>1, <3>2, <3>3
    <3>5. UNCHANGED Follower!vars
      BY <1>4, <3>4 DEF Fetch, Follower!vars, Handled, Passed, store, update
    <3>6. QED
      BY <3>5
  <2>3. QED
    BY <2>1, <2>2
<1>5. CASE TakeChunk
  <2> DEFINE n == IF Len(keys) < ChunkSize THEN Len(keys) ELSE ChunkSize
  <2>1. keys \in Seq(Docs) /\ keys # <<>> /\ n \in 1..Len(keys)
    BY <1>5, SolrUpdaterAssumption DEF TakeChunk, TypeOK
  <2>2. chunk' = SubSeq(keys, 1, n) /\ keys' = SubSeq(keys, n + 1, Len(keys))
    BY <1>5 DEF TakeChunk
  <2>3. chunk = <<>>
    BY <1>5 DEF TakeChunk, Control
  <2> HIDE DEF n
  <2>4. Len(chunk') = n /\ Len(keys') = Len(keys) - n /\ Len(chunk) = 0
    BY <2>1, <2>2, <2>3
  <2>5. offset - Len(keys') - Len(chunk') = offset - Len(keys) - Len(chunk)
    BY <2>1, <2>4 DEF TypeOK
  <2>6. UNCHANGED Follower!vars
    BY <1>5, <2>5 DEF TakeChunk, Follower!vars, Handled, Passed, store
  <2>7. QED
    BY <2>6
<1>6. CASE ReadAll
  BY <1>6, Stutters DEF ReadAll, store, fetch, update
<1>7. CASE PreloadEditions \/ SelectWorks \/ PreloadWorks \/ PostDeletes \/ PostWork
  BY <1>7, Stutters DEF PreloadEditions, SelectWorks, PreloadWorks, PostDeletes,
     PostWork, store, fetch
<1>8. CASE ChunkDone
  <2>1. Len(chunk) \in Nat /\ Len(keys) \in Nat /\ offset \in 0..Len(log)
        /\ Len(log) \in Nat
    BY DEF TypeOK
  <2>2. Len(chunk') = 0 /\ UNCHANGED <<log, saved, offset, keys>>
        /\ pc = "post" /\ pc' = "read"
    BY <1>8 DEF ChunkDone, store, fetch
  <2>3. Handled = offset - Len(keys) - Len(chunk) /\ Handled' = offset - Len(keys)
    BY <2>1, <2>2 DEF Handled
  <2>4. Passed = saved /\ Passed' = saved /\ saved # Torn
    BY <2>2 DEF Passed, Control
  <2>5. CASE Len(chunk) = 0
    BY <2>1, <2>2, <2>3, <2>4, <2>5 DEF Follower!vars
  <2>6. CASE Len(chunk) # 0
    <3>1. Handled' \in (Handled + 1)..Len(log)
      BY <2>1, <2>3, <2>6
    <3>2. Follower!Handle
      BY <2>2, <2>4, <3>1 DEF Follower!Handle
    <3>3. QED
      BY <3>2 DEF Follower!Next
  <2>7. QED
    BY <2>5, <2>6
<1>9. CASE TruncateState
  <2>1. CASE offset = saved
    BY <1>9, <2>1, Stutters DEF TruncateState, store, fetch, update
  <2>2. CASE offset # saved
    <3>1. Len(keys) = 0 /\ Len(chunk) = 0 /\ offset \in Nat
      BY <1>9 DEF TruncateState, Control, TypeOK
    <3>2. Handled = offset /\ Handled' = offset /\ Passed = saved /\ Passed' = offset
      BY <1>9, <2>2, <3>1 DEF TruncateState, Handled, Passed, fetch, update
    <3>3. Follower!Pass
      BY <1>9, <3>2 DEF TruncateState, Follower!Pass, Control, store
    <3>4. QED
      BY <3>3 DEF Follower!Next
  <2>3. QED
    BY <2>1, <2>2
<1>10. CASE WriteState
  <2>1. UNCHANGED Follower!vars
    BY <1>10 DEF WriteState, Follower!vars, Handled, Passed, store, fetch, update
  <2>2. QED
    BY <2>1
<1>11. CASE Commit \/ SolrCommit
  <2>1. /\ UNCHANGED <<log, saved, offset, keys, chunk>>
        /\ UNCHANGED pc \/ (pc = "commit" /\ pc' = "read")
    BY <1>11 DEF Commit, SolrCommit, store, fetch, update
  <2>2. QED
    BY <2>1, Stutters
<1>12. CASE Crash
  <2>1. Handled' = saved /\ Passed' = saved /\ UNCHANGED log
    BY <1>12 DEF Crash, Handled, Passed, store
  <2>2. CASE pc = "write"
    <3>1. saved = Torn
      BY <2>2 DEF Control
    <3>2. QED
      BY <2>1, <3>1 DEF Follower!Next, Follower!Lose
  <2>3. CASE pc # "write"
    <3>1. Follower!Restart
      BY <2>1, <2>3 DEF Follower!Restart, Passed
    <3>2. QED
      BY <3>1 DEF Follower!Next
  <2>4. QED
    BY <2>2, <2>3
<1>13. QED
  BY <1>1, <1>2, <1>3, <1>4, <1>5, <1>6, <1>7, <1>8, <1>9, <1>10, <1>11, <1>12
     DEF Next, Updater, Read, UpdateKeys, Finish

\* The updater implements a follower that handles every record at least once
\* before its saved position moves past it (main, InfobaseLog.read_records).
THEOREM Delivers == Spec => DeliversAtLeastOnce
<1>1. Spec => []UpdaterInv
  BY Invariance
<1>2. QED
  BY <1>1, InitRefines, StepRefines, PTL DEF Spec, DeliversAtLeastOnce, Follower!Spec

----------------------------------------------------------------------------
(* The index is current: the inductive invariant *)

\* The log has a record of d after position n.
RecordAfter(d, n) == \E i \in (n + 1)..Len(log) : log[i] = d

\* Edited since the updater read the log.
Recent(d) == RecordAfter(d, offset)

\* Records before this position were handled, or are in the chunk.
Begun == offset - Len(keys)

Updating == pc \in {"editions", "select", "works", "post"}
Posting == pc \in {"works", "post"}

\* What was read and is not handled yet is the end of what was read of the log.
Positions ==
    /\ \A i \in 1..Len(chunk) : chunk[i] = log[Begun - Len(chunk) + i]
    /\ \A i \in 1..Len(keys) : keys[i] = log[Begun + i]
    /\ pc # "down" /\ saved # Torn => saved <= Begun - Len(chunk)
    /\ \A i \in 1..Len(log) : doc[log[i]].type # "none"

\* What an update of a chunk has loaded is as it is in the store, or a record of
\* the edit that has changed it comes after the chunk.
LoadedOrRecent(d) == d \in old \/ cache[d] = doc[d] \/ Recent(d)

CacheAgrees ==
    /\ \A w \in Works : members[w] # {} => cache[w] # NoDoc
    /\ Updating => \A d \in Docs : cache[d] = NoDoc \/ LoadedOrRecent(d)
    /\ Updating => \A w \in Works \ old : members[w] # {} =>
          \A e \in Editions : (e \in members[w] <=> e \in EditionsOf(w)) \/ Recent(e)

\* What the next step looks at has been loaded.
NeededIsLoaded ==
    /\ pc = "select" => \A e \in InChunk \cap Editions : LoadedOrRecent(e)
    /\ pc = "post" => \A k \in wkeys : LoadedOrRecent(k)

\* An edition that is going to be deleted has a work.
DeletesAgree ==
    Posting => \A e \in deletes :
        /\ e \in Editions
        /\ e \in old => e \in excused
        /\ e \in old \/ Recent(e) \/ (doc[e].type = "live" /\ doc[e].work # NoWork)

\* Solr shows an edition under a work exactly if it is one of the work's.
EditionShown(w, e) ==
    \A rev \in 0..MaxLog :
        <<e, rev>> \in solr[w].editions <=> e \in EditionsOf(w) /\ rev = doc[e].rev

\* Solr shows a work as it is, but for editions with a record after n.
WorkShown(w, n) ==
    IF doc[w].type # "live" THEN solr[w] = NoSolr
    ELSE /\ solr[w] # NoSolr /\ solr[w].rev = doc[w].rev
         /\ \A e \in Editions : RecordAfter(e, n) \/ EditionShown(w, e)

\* Solr shows what the store has under k, as far as the log up to n goes.
Shown(k, n) ==
    \/ RecordAfter(k, n)
    \/ IF k \in Works THEN WorkShown(k, n) ELSE solr[k] = Expected(k)

\* Solr shows everything, as far as the log is handled; and while a chunk is
\* posted, as far as the log was read, but for what is still to be posted.
IndexShown ==
    /\ Handled # Torn => \A k \in Docs \ excused : Shown(k, Handled)
    /\ Posting => \A k \in Docs \ excused :
                      k \in wkeys \cup deletes \/ Shown(k, Begun)

IndexInv == /\ UpdaterInv /\ Positions /\ CacheAgrees /\ NeededIsLoaded /\ DeletesAgree
            /\ IndexShown

----------------------------------------------------------------------------
(* Lemmas about what Solr shows *)

\* Positions in the log are numbers, in their order.
LEMMA Numbers ==
    ASSUME UpdaterInv
    PROVE  /\ Len(log) \in Nat /\ offset \in 0..Len(log)
           /\ Len(keys) \in Nat /\ Len(chunk) \in Nat
           /\ Begun \in 0..offset /\ Begun - Len(chunk) \in 0..Begun
           /\ pc # "down" => Handled = Begun - Len(chunk) /\ Handled # Torn
<1>1. Len(log) \in Nat /\ offset \in 0..Len(log) /\ Len(keys) \in Nat /\ Len(chunk) \in Nat
  BY DEF UpdaterInv, TypeOK
<1>2. Len(keys) + Len(chunk) <= offset
  BY DEF UpdaterInv, Control
<1>3. Begun \in 0..offset /\ Begun - Len(chunk) \in 0..Begun
  BY <1>1, <1>2 DEF Begun
<1>4. pc # "down" => Handled = Begun - Len(chunk)
  BY DEF Handled, Begun
<1>5. QED
  BY <1>1, <1>3, <1>4, SolrUpdaterAssumption

\* What is shown up to a position is shown up to an earlier one.
LEMMA ShownBefore ==
    ASSUME NEW k, NEW m \in Nat, NEW n \in Nat, m <= n, Len(log) \in Nat, Shown(k, n)
    PROVE  Shown(k, m)
<1>1. \A d : RecordAfter(d, n) => RecordAfter(d, m)
  BY DEF RecordAfter
<1>2. WorkShown(k, n) => WorkShown(k, m)
  BY <1>1 DEF WorkShown
<1>3. QED
  BY <1>1, <1>2 DEF Shown

\* What is shown depends on the store, and on what is in Solr under the key.
LEMMA SameShown ==
    ASSUME UNCHANGED <<doc, log>>, NEW k, solr'[k] = solr[k], NEW n
    PROVE  Shown(k, n)' <=> Shown(k, n)
<1>1. \A d : RecordAfter(d, n)' <=> RecordAfter(d, n)
  BY DEF RecordAfter
<1>2. Expected(k)' = Expected(k)
  BY DEF Expected, Build, EditionsOf
<1>3. \A e : EditionShown(k, e)' <=> EditionShown(k, e)
  BY DEF EditionShown, EditionsOf
<1>4. WorkShown(k, n)' <=> WorkShown(k, n)
  BY <1>1, <1>3 DEF WorkShown
<1>5. QED
  BY <1>1, <1>2, <1>4 DEF Shown

\* The log after an edit of d: a new record, the others as they were.
LEMMA PutLog ==
    ASSUME UpdaterInv, NEW d \in Docs, NEW type, NEW w, Put(d, type, w)
    PROVE  /\ Len(log') = Len(log) + 1 /\ log'[Len(log) + 1] = d
           /\ \A i \in 1..Len(log) : log'[i] = log[i]
           /\ \A n \in 0..Len(log) : RecordAfter(d, n)'
           /\ \A c : \A n \in 0..Len(log) : RecordAfter(c, n) => RecordAfter(c, n)'
           /\ \A c \in Docs : c # d => doc'[c] = doc[c]
           /\ doc'[d] = [type |-> type, work |-> w, rev |-> Len(log) + 1]
<1>1. log \in Seq(Docs) /\ log' = Append(log, d) /\ doc \in [Docs -> Doc]
  BY DEF UpdaterInv, TypeOK, Put
<1>2. Len(log') = Len(log) + 1 /\ log'[Len(log) + 1] = d /\ Len(log) \in Nat
  BY <1>1
<1>3. \A i \in 1..Len(log) : log'[i] = log[i]
  BY <1>1
<1>4. \A n \in 0..Len(log) : RecordAfter(d, n)'
  BY <1>2 DEF RecordAfter
<1>5. \A c : \A n \in 0..Len(log) : RecordAfter(c, n) => RecordAfter(c, n)'
  BY <1>2, <1>3 DEF RecordAfter
<1>6. QED
  BY <1>1, <1>2, <1>3, <1>4, <1>5 DEF Put

\* An edit is seen by the record it makes, and by nothing else.
LEMMA PutShown ==
    ASSUME UpdaterInv, NEW d \in Docs, NEW type, NEW w, Put(d, type, w),
           NEW k \in Docs, NEW n \in 0..Len(log), Shown(k, n)
    PROVE  Shown(k, n)'
<1>1. /\ RecordAfter(d, n)'
      /\ \A c : RecordAfter(c, n) => RecordAfter(c, n)'
      /\ \A c \in Docs : c # d => doc'[c] = doc[c]
  BY PutLog
<1>2. solr' = solr
  BY DEF Put, index
<1>3. CASE k = d \/ RecordAfter(k, n)
  BY <1>1, <1>3 DEF Shown
<1>4. CASE k # d /\ k \in Works /\ WorkShown(k, n)
  <2>1. \A e \in Editions : e # d => (e \in EditionsOf(k)' <=> e \in EditionsOf(k))
    BY <1>1 DEF EditionsOf, Docs
  <2>2. \A e \in Editions : e # d /\ EditionShown(k, e) => EditionShown(k, e)'
    BY <1>1, <1>2, <2>1 DEF EditionShown, Docs
  <2>3. WorkShown(k, n)'
    BY <1>1, <1>2, <1>4, <2>2 DEF WorkShown
  <2>4. QED
    BY <1>4, <2>3 DEF Shown
<1>5. CASE k # d /\ k \notin Works /\ solr[k] = Expected(k)
  <2>1. Expected(k)' = Expected(k)
    BY <1>1, <1>5 DEF Expected, Build
  <2>2. QED
    BY <1>2, <1>5, <2>1 DEF Shown
<1>6. QED
  BY <1>3, <1>4, <1>5 DEF Shown

----------------------------------------------------------------------------
(* Every step keeps the index current.  Type and control are kept by NextInv. *)

LEMMA InitIndex == Init => IndexInv
<1> SUFFICES ASSUME Init PROVE IndexInv
  OBVIOUS
<1>1. UpdaterInv
  BY InitInv
<1>2. Len(log) = 0 /\ Len(keys) = 0 /\ Len(chunk) = 0 /\ pc = "down" /\ offset = 0 /\ saved = 0
  BY DEF Init
<1>3. Positions
  BY <1>2 DEF Positions, Begun
<1>4. \A w \in Works : members[w] = {}
  BY DEF Init, NoMembers
<1>5. CacheAgrees /\ NeededIsLoaded /\ DeletesAgree
  BY <1>2, <1>4 DEF CacheAgrees, NeededIsLoaded, DeletesAgree, Updating, Posting
<1>6. \A k \in Docs : Shown(k, 0)
  <2> SUFFICES ASSUME NEW k \in Docs PROVE Shown(k, 0)
    OBVIOUS
  <2>1. \A e \in Editions : doc[e] = NoDoc /\ e \notin Works
    BY SolrUpdaterAssumption DEF Init, Docs
  <2>2. \A w \in Works : EditionsOf(w) = {}
    BY <2>1 DEF EditionsOf, NoDoc
  <2>3. CASE k \in Works
    <3>1. doc[k] = [NoDoc EXCEPT !.type = "live"] /\ solr[k] = [rev |-> 0, editions |-> {}]
      BY <2>3 DEF Init, Docs
    <3>2. doc[k].type = "live" /\ doc[k].rev = 0
      BY <3>1 DEF NoDoc
    <3>3. solr[k] # NoSolr
      BY <3>1, NoSolrAssumption, SolrUpdaterAssumption
    <3>4. \A e \in Editions : EditionShown(k, e)
      BY <2>2, <2>3, <3>1 DEF EditionShown
    <3>5. WorkShown(k, 0)
      BY <3>1, <3>2, <3>3, <3>4 DEF WorkShown
    <3>6. QED
      BY <2>3, <3>5 DEF Shown
  <2>4. CASE k \notin Works
    <3>1. doc[k] = NoDoc /\ solr[k] = NoSolr
      BY <2>4 DEF Init
    <3>2. Expected(k) = NoSolr
      BY <3>1 DEF Expected, Build, NoDoc
    <3>3. QED
      BY <2>4, <3>1, <3>2 DEF Shown
  <2>5. QED
    BY <2>3, <2>4
<1>7. IndexShown
  BY <1>2, <1>6 DEF IndexShown, Handled, Posting
<1>8. QED
  BY <1>1, <1>3, <1>5, <1>7 DEF IndexInv

LEMMA PutIndex ==
    ASSUME IndexInv, NEW d \in Docs, NEW type \in {"live", "deleted"},
           NEW w \in Works \cup {NoWork}, Put(d, type, w)
    PROVE  IndexInv'
<1> USE DEF IndexInv
<1>1. UpdaterInv'
  BY PutInv
<1>2. UNCHANGED <<saved, solr, pc, offset, keys, chunk, wkeys, deletes, cache, members,
                  old, excused>>
  BY DEF Put, index, fetch, update
<1>3. /\ Len(log) \in Nat /\ Len(log') = Len(log) + 1 /\ log'[Len(log) + 1] = d
      /\ \A i \in 1..Len(log) : log'[i] = log[i]
      /\ \A c \in Docs : c # d => doc'[c] = doc[c]
      /\ doc'[d].type = type /\ doc'[d].work = w
  <2>1. Len(log) \in Nat
    BY Numbers
  <2>2. doc'[d] = [type |-> type, work |-> w, rev |-> Len(log) + 1]
    BY PutLog
  <2>3. /\ Len(log') = Len(log) + 1 /\ log'[Len(log) + 1] = d
        /\ \A i \in 1..Len(log) : log'[i] = log[i]
    BY PutLog
  <2>4. \A c \in Docs : c # d => doc'[c] = doc[c]
    BY PutLog
  <2>5. QED
    BY <2>1, <2>2, <2>3, <2>4
<1>4. Recent(d)' /\ \A c : Recent(c) => Recent(c)'
  <2>1. offset \in 0..Len(log)
    BY Numbers
  <2>2. QED
    BY <1>2, <2>1, PutLog DEF Recent
<1>5. Positions'
  <2>1. Begun' = Begun /\ UNCHANGED <<chunk, keys, pc, saved>>
    BY <1>2 DEF Begun
  <2>2. \A i \in 1..Len(chunk) : Begun - Len(chunk) + i \in 1..Len(log)
    BY Numbers
  <2>3. \A i \in 1..Len(keys) : Begun + i \in 1..Len(log)
    BY Numbers DEF Begun
  <2>4. \A i \in 1..Len(log') : doc'[log'[i]].type # "none"
    <3> SUFFICES ASSUME NEW i \in 1..Len(log') PROVE doc'[log'[i]].type # "none"
      OBVIOUS
    <3>1. CASE i = Len(log) + 1
      BY <1>3, <3>1
    <3>2. CASE i # Len(log) + 1
      <4>1. i \in 1..Len(log) /\ log[i] \in Docs
        BY <1>3, <3>2 DEF UpdaterInv, TypeOK
      <4>2. QED
        BY <1>3, <4>1 DEF Positions
    <3>3. QED
      BY <3>1, <3>2
  <2>5. QED
    BY <1>3, <2>1, <2>2, <2>3, <2>4 DEF Positions
<1>6. \A c : LoadedOrRecent(c) /\ c \in Docs => LoadedOrRecent(c)'
  BY <1>2, <1>3, <1>4 DEF LoadedOrRecent
<1>7. CacheAgrees'
  <2>1. \A v \in Works, e \in Editions :
           e # d => (e \in EditionsOf(v)' <=> e \in EditionsOf(v))
    BY <1>3 DEF EditionsOf, Docs
  <2>2. QED
    BY <1>2, <1>4, <1>6, <2>1 DEF CacheAgrees, Updating
<1>8. NeededIsLoaded'
  <2>1. wkeys \subseteq Docs
    BY DEF UpdaterInv, TypeOK
  <2>2. QED
    BY <1>2, <1>6, <2>1 DEF NeededIsLoaded, InChunk, Docs
<1>9. DeletesAgree'
  BY <1>2, <1>3, <1>4 DEF DeletesAgree, Posting, Docs
<1>10. IndexShown'
  <2>1. Handled' = Handled /\ Begun' = Begun
    BY <1>2 DEF Handled, Begun
  <2>2. Begun \in 0..Len(log) /\ (Handled # Torn => Handled \in 0..Len(log))
    BY Numbers DEF Handled, UpdaterInv, TypeOK
  <2>3. QED
    BY <1>2, <2>1, <2>2, PutShown DEF IndexShown, Posting
<1>11. QED
  BY <1>1, <1>5, <1>7, <1>8, <1>9, <1>10

\* Steps of the updater that neither load nor post anything.
LEMMA RestIndex ==
    ASSUME IndexInv, UpdaterInv', Positions',
           UNCHANGED <<doc, log, solr, excused, cache, members>>,
           ~Updating', Handled' = Handled
    PROVE  IndexInv'
<1> USE DEF IndexInv
<1>1. CacheAgrees' /\ NeededIsLoaded' /\ DeletesAgree'
  BY DEF CacheAgrees, NeededIsLoaded, DeletesAgree, Updating, Posting
<1>2. \A k, n : Shown(k, n)' <=> Shown(k, n)
  BY SameShown
<1>3. IndexShown'
  BY <1>2 DEF IndexShown, Updating, Posting
<1>4. QED
  BY <1>1, <1>3

LEMMA StartUpIndex == IndexInv /\ StartUp => IndexInv'
<1> SUFFICES ASSUME IndexInv, StartUp PROVE IndexInv'
  OBVIOUS
<1> USE DEF IndexInv
<1>1. UpdaterInv'
  BY StartUpInv
<1>2. /\ UNCHANGED <<doc, log, saved, solr, excused, cache, members, keys, chunk>>
      /\ pc' = "read" /\ offset' = saved
  BY DEF StartUp, store, index, update
<1>3. Len(keys) = 0 /\ Len(chunk) = 0 /\ saved \in Nat
  BY DEF StartUp, UpdaterInv, Control, TypeOK
<1>4. Handled' = Handled
  BY <1>2, <1>3 DEF StartUp, Handled
<1>5. Positions'
  BY <1>2, <1>3 DEF Positions, Begun
<1>6. QED
  BY <1>1, <1>2, <1>4, <1>5, RestIndex DEF Updating

LEMMA FetchIndex == IndexInv /\ Fetch => IndexInv'
<1> SUFFICES ASSUME IndexInv, Fetch PROVE IndexInv'
  OBVIOUS
<1> USE DEF IndexInv
<1>1. UpdaterInv'
  BY FetchInv
<1>2. UNCHANGED <<doc, log, saved, solr, excused, cache, members, chunk, pc>> /\ pc = "read"
  BY DEF Fetch, store, index, update
<1>3. CASE offset = Len(log)
  <2>1. UNCHANGED <<offset, keys>>
    BY <1>3 DEF Fetch
  <2>2. Handled' = Handled /\ Begun' = Begun
    BY <1>2, <2>1 DEF Handled, Begun
  <2>3. Positions'
    BY <1>2, <2>1, <2>2 DEF Positions
  <2>4. QED
    BY <1>1, <1>2, <2>2, <2>3, RestIndex DEF Updating
<1>4. CASE offset # Len(log)
  <2> DEFINE last == IF offset + BatchSize < Len(log) THEN offset + BatchSize ELSE Len(log)
  <2>1. keys' = keys \o Batch /\ offset' = offset + Len(Batch)
    BY <1>4 DEF Fetch, NextOffset
  <2>2. keys \in Seq(Docs) /\ Batch \in Seq(Docs) /\ log \in Seq(Docs)
    BY <1>4, BatchType DEF UpdaterInv, TypeOK
  <2>3. Len(keys') = Len(keys) + Len(Batch)
    BY <2>1, <2>2
  <2>4. Begun' = Begun /\ Handled' = Handled
    <3>1. offset \in Nat /\ Len(keys) \in Nat /\ Len(Batch) \in Nat
      BY <2>2, Numbers
    <3>2. QED
      BY <1>2, <2>1, <2>3, <3>1 DEF Begun, Handled
  <2>5. last \in (offset + 1)..Len(log) /\ offset \in Nat /\ Len(log) \in Nat
    BY <1>4, Numbers, SolrUpdaterAssumption
  <2>6. Batch = SubSeq(log, offset + 1, last)
    BY DEF Batch
  <2> HIDE DEF last
  <2>7. \A i \in 1..Len(Batch) : Batch[i] = log[offset + i]
    BY <2>2, <2>5, <2>6
  <2>8. \A i \in 1..Len(keys') : keys'[i] = log[Begun + i]
    <3> SUFFICES ASSUME NEW i \in 1..Len(keys') PROVE keys'[i] = log[Begun + i]
      OBVIOUS
    <3>1. CASE i <= Len(keys)
      BY <2>1, <2>2, <2>3, <3>1 DEF Positions
    <3>2. CASE i > Len(keys)
      <4>1. i - Len(keys) \in 1..Len(Batch) /\ keys'[i] = Batch[i - Len(keys)]
        BY <2>1, <2>2, <2>3, <3>2
      <4>2. Begun + i = offset + (i - Len(keys))
        BY <2>2, <2>5 DEF Begun
      <4>3. QED
        BY <2>7, <4>1, <4>2
    <3>3. QED
      BY <2>2, <3>1, <3>2
  <2>9. Positions'
    BY <1>2, <2>4, <2>8 DEF Positions
  <2>10. QED
    BY <1>1, <1>2, <2>4, <2>9, RestIndex DEF Updating
<1>5. QED
  BY <1>3, <1>4

LEMMA TakeChunkIndex == IndexInv /\ TakeChunk => IndexInv'
<1> SUFFICES ASSUME IndexInv, TakeChunk PROVE IndexInv'
  OBVIOUS
<1> USE DEF IndexInv
<1> DEFINE n == IF Len(keys) < ChunkSize THEN Len(keys) ELSE ChunkSize
<1>1. UpdaterInv'
  BY TakeChunkInv
<1>2. /\ UNCHANGED <<doc, log, saved, solr, excused, cache, members, offset>>
      /\ pc = "read" /\ pc' = "editions" /\ old' = {k \in Docs : cache[k] # NoDoc}
      /\ chunk' = SubSeq(keys, 1, n) /\ keys' = SubSeq(keys, n + 1, Len(keys))
  BY DEF TakeChunk, store, index
<1>3. keys \in Seq(Docs) /\ n \in 1..Len(keys) /\ offset \in Nat /\ Len(chunk) = 0
  BY SolrUpdaterAssumption, Numbers DEF TakeChunk, UpdaterInv, TypeOK, Control
<1> HIDE DEF n
<1>4. /\ Len(chunk') = n /\ Len(keys') = Len(keys) - n /\ Len(keys) \in Nat
      /\ \A i \in 1..n : chunk'[i] = keys[i]
      /\ \A i \in 1..(Len(keys) - n) : keys'[i] = keys[n + i]
  BY <1>2, <1>3
<1>5. Begun' = Begun + n /\ Begun \in Nat
  <2>1. n \in Nat /\ offset' = offset /\ Len(keys') = Len(keys) - n
    BY <1>2, <1>3, <1>4
  <2>2. Begun' = Begun + n
    BY <1>3, <1>4, <2>1 DEF Begun
  <2>3. QED
    BY <2>2, Numbers
<1>6. Handled' = Handled
  <2>1. /\ n \in Nat /\ Len(keys) \in Nat /\ offset \in Nat /\ Len(chunk) = 0
        /\ offset' = offset /\ Len(keys') = Len(keys) - n /\ Len(chunk') = n
    BY <1>2, <1>3, <1>4
  <2>2. offset' - Len(keys') - Len(chunk') = offset - Len(keys) - Len(chunk)
    BY <2>1
  <2>3. pc # "down" /\ pc' # "down"
    BY <1>2
  <2>4. QED
    BY <2>2, <2>3 DEF Handled
<1>7. Positions'
  <2>1. \A i \in 1..Len(chunk') : chunk'[i] = log[Begun' - Len(chunk') + i]
    <3> SUFFICES ASSUME NEW i \in 1..n PROVE chunk'[i] = log[Begun' - n + i]
      BY <1>4
    <3>1. chunk'[i] = keys[i] /\ i \in 1..Len(keys)
      BY <1>3, <1>4
    <3>2. Begun' - n + i = Begun + i
      BY <1>3, <1>5
    <3>3. QED
      BY <3>1, <3>2 DEF Positions
  <2>2. \A i \in 1..Len(keys') : keys'[i] = log[Begun' + i]
    <3> SUFFICES ASSUME NEW i \in 1..(Len(keys) - n) PROVE keys'[i] = log[Begun' + i]
      BY <1>4
    <3>1. keys'[i] = keys[n + i] /\ n + i \in 1..Len(keys)
      BY <1>3, <1>4
    <3>2. Begun' + i = Begun + (n + i)
      BY <1>3, <1>5
    <3>3. QED
      BY <3>1, <3>2 DEF Positions
  <2>3. Begun - Len(chunk) = Begun' - Len(chunk')
    BY <1>3, <1>4, <1>5
  <2>4. saved # Torn => saved <= Begun' - Len(chunk')
    BY <1>2, <2>3 DEF Positions
  <2>5. \A i \in 1..Len(log') : doc'[log'[i]].type # "none"
    BY <1>2 DEF Positions
  <2>6. QED
    BY <1>2, <2>1, <2>2, <2>4, <2>5 DEF Positions
<1>8. CacheAgrees'
  BY <1>2 DEF CacheAgrees, LoadedOrRecent, Docs
<1>9. NeededIsLoaded' /\ DeletesAgree'
  BY <1>2 DEF NeededIsLoaded, DeletesAgree, Posting
<1>10. \A k, m : Shown(k, m)' <=> Shown(k, m)
  BY <1>2, SameShown
<1>11. IndexShown'
  BY <1>2, <1>6, <1>10 DEF IndexShown, Posting
<1>12. QED
  BY <1>1, <1>7, <1>8, <1>9, <1>11

\* The end of a round.
LEMMA FinishIndex == IndexInv /\ (ReadAll \/ Finish) => IndexInv'
<1> SUFFICES ASSUME IndexInv, ReadAll \/ Finish PROVE IndexInv'
  OBVIOUS
<1> USE DEF IndexInv
<1>1. UpdaterInv'
  BY FinishInv
<1>2. /\ UNCHANGED <<doc, log, solr, excused, cache, members, keys, chunk, offset>>
      /\ pc # "down" /\ pc' \in {"read", "save", "write", "commit"}
      /\ \/ saved' \in {saved, Torn, offset} /\ (saved' = offset => keys = <<>> /\ chunk = <<>>)
         \/ saved' = saved
  BY DEF ReadAll, Finish, TruncateState, WriteState, Commit, store, index, fetch, update,
         UpdaterInv, Control
<1>3. Handled' = Handled /\ Begun' = Begun
  BY <1>2 DEF Handled, Begun
<1>4. saved' # Torn => saved' <= Begun - Len(chunk)
  <2>1. CASE saved' = saved
    BY <1>2, <2>1 DEF Positions
  <2>2. CASE saved' = offset /\ Len(keys) = 0 /\ Len(chunk) = 0
    BY <2>2, Numbers DEF Begun
  <2>3. QED
    BY <1>2, <2>1, <2>2
<1>5. Positions'
  BY <1>2, <1>3, <1>4 DEF Positions
<1>6. QED
  BY <1>1, <1>2, <1>3, <1>5, RestIndex DEF Updating

\* Steps that touch none of the variables of IndexInv.
LEMMA SameIndex ==
    ASSUME IndexInv, UpdaterInv', UNCHANGED <<store, solr, excused, saved, pc, fetch, update>>
    PROVE  IndexInv'
<1> USE DEF IndexInv
<1>1. UNCHANGED <<doc, log>>
  BY DEF store
<1>2. /\ Handled' = Handled /\ Begun' = Begun /\ InChunk' = InChunk
      /\ \A d : LoadedOrRecent(d)' <=> LoadedOrRecent(d)
      /\ \A d : Recent(d)' <=> Recent(d)
      /\ \A w : EditionsOf(w)' = EditionsOf(w)
  BY <1>1 DEF Handled, Begun, InChunk, LoadedOrRecent, Recent, RecordAfter,
     EditionsOf, fetch, update
<1>3. \A k, n : Shown(k, n)' <=> Shown(k, n)
  BY <1>1, SameShown
<1>4. Positions'
  BY <1>1, <1>2 DEF Positions, fetch, update
<1>5. CacheAgrees' /\ NeededIsLoaded' /\ DeletesAgree'
  BY <1>1, <1>2 DEF CacheAgrees, NeededIsLoaded, DeletesAgree, Updating, Posting,
     fetch, update
<1>6. IndexShown'
  BY <1>2, <1>3 DEF IndexShown, Posting, update
<1>7. QED
  BY <1>4, <1>5, <1>6

LEMMA CrashIndex == IndexInv /\ (SolrCommit \/ Crash) => IndexInv'
<1> SUFFICES ASSUME IndexInv, SolrCommit \/ Crash PROVE IndexInv'
  OBVIOUS
<1> USE DEF IndexInv
<1>1. UpdaterInv'
  BY CrashInv
<1>2. UNCHANGED <<doc, log, solr, excused, saved>>
  BY DEF SolrCommit, Crash, store, index
<1>3. \A k, n : Shown(k, n)' <=> Shown(k, n)
  BY <1>2, SameShown
<1>4. CASE SolrCommit
  <2>1. UNCHANGED <<store, pc, fetch, update>>
    BY <1>4 DEF SolrCommit
  <2>2. QED
    BY <1>1, <1>2, <2>1, SameIndex
<1>5. CASE Crash
  <2>1. pc # "down" /\ pc' = "down" /\ keys' = <<>> /\ chunk' = <<>> /\ members' = NoMembers
    BY <1>5 DEF Crash
  <2>2. Positions'
    BY <1>2, <2>1 DEF Positions
  <2>3. CacheAgrees' /\ NeededIsLoaded' /\ DeletesAgree'
    BY <2>1 DEF CacheAgrees, NeededIsLoaded, DeletesAgree, Updating, Posting, NoMembers
  <2>4. Handled' = saved
    BY <1>2, <2>1 DEF Handled
  <2>5. ASSUME saved # Torn, NEW k \in Docs \ excused PROVE Shown(k, saved)
    <3>1. saved \in Nat /\ Handled \in Nat /\ saved <= Handled /\ Len(log) \in Nat
      BY <2>1, <2>5, Numbers DEF Positions, UpdaterInv, TypeOK
    <3>2. Shown(k, Handled)
      BY <2>1, <2>5, Numbers DEF IndexShown
    <3>3. QED
      BY <3>1, <3>2, ShownBefore
  <2>6. IndexShown'
    BY <1>2, <1>3, <2>1, <2>4, <2>5 DEF IndexShown, Posting
  <2>7. QED
    BY <1>1, <2>2, <2>3, <2>6
<1>6. QED
  BY <1>4, <1>5

----------------------------------------------------------------------------
(* Loading *)

LEMMA LoadedIs ==
    ASSUME NEW c, NEW ks, NEW d \in Docs
    PROVE  Loaded(c, ks)[d] = IF d \in ks /\ c[d] = NoDoc THEN doc[d] ELSE c[d]
BY DEF Loaded

\* What is in the cache stays, and the rest is loaded as it is now.
LEMMA PreloadLoads ==
    ASSUME TypeOK, CacheAgrees, NEW ks, Preload(ks)
    PROVE  /\ \A d \in Docs : cache[d] # NoDoc => cache'[d] = cache[d]
           /\ \A d \in Docs : cache'[d] \in {cache[d], doc[d]}
           /\ \A d \in Docs : d \in ks /\ cache[d] = NoDoc => cache'[d] = doc[d]
           /\ \A w \in Works : members'[w] \in {members[w], EditionsOf(w)}
           /\ \A w \in Works : members'[w] # {} => cache'[w] # NoDoc
<1> DEFINE c1 == Loaded(cache, ks)
           ws == {c1[e].work : e \in {f \in Editions : c1[f].type = "live"}} \ {NoWork}
           c2 == Loaded(c1, ws)
           m == [w \in Works |-> IF c2[w].type = "live" /\ members[w] = {}
                                 THEN EditionsOf(w) ELSE members[w]]
           es == UNION {m[w] : w \in Works}
<1>1. members' = m /\ cache' = Loaded(c2, es)
  BY DEF Preload
<1>2. \A d \in Docs : c1[d] = IF d \in ks /\ cache[d] = NoDoc THEN doc[d] ELSE cache[d]
  BY LoadedIs
<1> HIDE DEF c1
<1>3. \A d \in Docs : c2[d] = IF d \in ws /\ c1[d] = NoDoc THEN doc[d] ELSE c1[d]
  BY LoadedIs
<1> HIDE DEF ws
<1>4. \A d \in Docs : cache'[d] = IF d \in es /\ c2[d] = NoDoc THEN doc[d] ELSE c2[d]
  BY <1>1, LoadedIs
<1> HIDE DEF c2, es
<1>5. \A w \in Works : members'[w] = IF c2[w].type = "live" /\ members[w] = {}
                                     THEN EditionsOf(w) ELSE members[w]
  BY <1>1
<1> HIDE DEF m
<1>6. \A d \in Docs : cache[d] # NoDoc => cache'[d] = cache[d]
  BY <1>2, <1>3, <1>4
<1>7. \A w \in Works : members'[w] # {} => cache'[w] # NoDoc
  <2> SUFFICES ASSUME NEW w \in Works, members'[w] # {} PROVE cache'[w] # NoDoc
    OBVIOUS
  <2>1. CASE members[w] # {}
    BY <1>6, <2>1 DEF CacheAgrees, Docs
  <2>2. CASE members[w] = {}
    <3>1. c2[w].type = "live"
      BY <1>5, <2>2
    <3>2. c2[w] # NoDoc
      BY <3>1 DEF NoDoc
    <3>3. QED
      BY <1>4, <3>2 DEF Docs
  <2>3. QED
    BY <2>1, <2>2
<1>8. QED
  BY <1>2, <1>3, <1>4, <1>5, <1>6, <1>7

\* Loading what is not in the cache keeps it as good as it was.
LEMMA CacheKept ==
    ASSUME IndexInv, UNCHANGED <<doc, log, old, offset>>, Updating,
           \A d \in Docs : cache'[d] \in {cache[d], doc[d]},
           \A w \in Works : members'[w] \in {members[w], EditionsOf(w), {}},
           \A w \in Works : members'[w] # {} => cache'[w] # NoDoc
    PROVE  CacheAgrees' /\ \A d \in Docs : LoadedOrRecent(d) => LoadedOrRecent(d)'
<1>1. \A d : Recent(d)' <=> Recent(d)
  BY DEF Recent, RecordAfter
<1>2. \A w : EditionsOf(w)' = EditionsOf(w)
  BY DEF EditionsOf
<1>3. \A d \in Docs : LoadedOrRecent(d) => LoadedOrRecent(d)'
  BY <1>1 DEF LoadedOrRecent
<1>4. \A d \in Docs : cache'[d] = NoDoc \/ LoadedOrRecent(d)'
  BY <1>1 DEF IndexInv, CacheAgrees, LoadedOrRecent
<1>5. \A w \in Works \ old : members'[w] # {} =>
          \A e \in Editions : (e \in members'[w] <=> e \in EditionsOf(w)) \/ Recent(e)
  BY DEF IndexInv, CacheAgrees
<1>6. QED
  BY <1>1, <1>2, <1>3, <1>4, <1>5 DEF CacheAgrees

LEMMA PreloadIndex == IndexInv /\ (PreloadEditions \/ PreloadWorks) => IndexInv'
<1> SUFFICES ASSUME IndexInv, PreloadEditions \/ PreloadWorks PROVE IndexInv'
  OBVIOUS
<1> USE DEF IndexInv
<1>1. UpdaterInv'
  BY UpdateKeysInv DEF UpdateKeys
<1>2. /\ UNCHANGED <<doc, log, solr, excused, saved, offset, keys, chunk, wkeys, deletes, old>>
      /\ Updating /\ Updating' /\ pc' # "down" /\ pc # "down"
      /\ Posting' => Posting
  BY DEF PreloadEditions, PreloadWorks, store, index, fetch, Updating, Posting
<1>3. PICK ks : /\ Preload(ks)
                /\ pc' = "select" => ks = InChunk \cap Editions
                /\ pc' = "post" => ks = wkeys
                /\ pc' \in {"select", "post"}
  BY DEF PreloadEditions, PreloadWorks
<1>4. /\ \A d \in Docs : cache[d] # NoDoc => cache'[d] = cache[d]
      /\ \A d \in Docs : cache'[d] \in {cache[d], doc[d]}
      /\ \A d \in Docs : d \in ks /\ cache[d] = NoDoc => cache'[d] = doc[d]
      /\ \A w \in Works : members'[w] \in {members[w], EditionsOf(w)}
      /\ \A w \in Works : members'[w] # {} => cache'[w] # NoDoc
  BY <1>3, PreloadLoads DEF UpdaterInv
<1>5. CacheAgrees' /\ \A d \in Docs : LoadedOrRecent(d) => LoadedOrRecent(d)'
  BY <1>2, <1>4, CacheKept
<1>6. \A d \in Docs : d \in ks => LoadedOrRecent(d)'
  <2> SUFFICES ASSUME NEW d \in Docs, d \in ks PROVE LoadedOrRecent(d)'
    OBVIOUS
  <2>1. CASE cache[d] = NoDoc
    BY <1>2, <1>4, <2>1 DEF LoadedOrRecent
  <2>2. CASE cache[d] # NoDoc
    BY <1>2, <1>5, <2>2 DEF CacheAgrees
  <2>3. QED
    BY <2>1, <2>2
<1>7. NeededIsLoaded'
  <2>1. wkeys \subseteq Docs /\ InChunk' = InChunk
    BY <1>2 DEF UpdaterInv, TypeOK, InChunk
  <2>2. pc' = "select" => \A e \in InChunk \cap Editions : LoadedOrRecent(e)'
    BY <1>3, <1>6 DEF Docs
  <2>3. pc' = "post" => \A k \in wkeys : LoadedOrRecent(k)'
    BY <1>3, <1>6, <2>1
  <2>4. QED
    BY <1>2, <2>1, <2>2, <2>3 DEF NeededIsLoaded
<1>8. Positions' /\ Handled' = Handled /\ Begun' = Begun
  BY <1>2 DEF Positions, Handled, Begun
<1>9. DeletesAgree'
  BY <1>2 DEF DeletesAgree, Recent, RecordAfter
<1>10. \A k, n : Shown(k, n)' <=> Shown(k, n)
  BY <1>2, SameShown
<1>11. IndexShown'
  BY <1>2, <1>8, <1>10 DEF IndexShown
<1>12. QED
  BY <1>1, <1>5, <1>7, <1>8, <1>9, <1>11

----------------------------------------------------------------------------
(* Posting *)

\* A record before the end of the chunk that is not handled is in the chunk.
LEMMA InChunkOrAfter ==
    ASSUME IndexInv, pc # "down", NEW d, RecordAfter(d, Handled)
    PROVE  (d \in InChunk /\ doc[d].type # "none") \/ RecordAfter(d, Begun)
<1> USE DEF IndexInv
<1>1. PICK i \in (Handled + 1)..Len(log) : log[i] = d
  BY DEF RecordAfter
<1>2. /\ Handled \in Nat /\ Begun \in Nat /\ Len(chunk) \in Nat /\ Len(log) \in Nat
      /\ Handled = Begun - Len(chunk)
  BY Numbers
<1>3. CASE i > Begun
  BY <1>1, <1>2, <1>3 DEF RecordAfter
<1>4. CASE i <= Begun
  <2>1. i - Handled \in 1..Len(chunk) /\ i \in 1..Len(log)
    BY <1>2, <1>4
  <2>2. chunk[i - Handled] = log[Begun - Len(chunk) + (i - Handled)]
    BY <2>1 DEF Positions
  <2>3. Begun - Len(chunk) + (i - Handled) = i
    BY <1>2, <2>1
  <2>4. d \in InChunk
    BY <1>1, <2>1, <2>2, <2>3 DEF InChunk
  <2>5. doc[d].type # "none"
    BY <1>1, <2>1 DEF Positions
  <2>6. QED
    BY <2>4, <2>5
<1>5. QED
  BY <1>2, <1>3, <1>4

\* What is recent has a record after the chunk.
LEMMA RecentAfter ==
    ASSUME UpdaterInv, NEW d, Recent(d), NEW n \in Nat, n <= offset
    PROVE  RecordAfter(d, n)
<1>1. offset \in Nat /\ Len(log) \in Nat
  BY Numbers
<1>2. QED
  BY <1>1 DEF Recent, RecordAfter

\* SelectWorks finds every key the records of the chunk are about, or excuses it.
LEMMA SelectsAll ==
    ASSUME IndexInv, SelectWorks, NEW k \in Docs \ excused', k \notin wkeys' \cup deletes'
    PROVE  Shown(k, Begun)
<1> USE DEF IndexInv
<1> DEFINE es == InChunk \cap Editions
           live == {e \in es : cache[e].type = "live"}
<1>1. /\ pc = "select" /\ excused' = excused \cup Missed /\ deletes' = FakeWorks(live)
      /\ InChunk \cap Works \subseteq wkeys'
      /\ \A e \in live : (IF cache[e].work = NoWork THEN e ELSE cache[e].work) \in wkeys'
  BY DEF SelectWorks
<1>2. Shown(k, Handled) /\ k \notin excused /\ k \notin Missed
  BY <1>1, Numbers DEF IndexShown
<1>3. Begun \in Nat /\ Begun <= offset
  BY Numbers
<1>4. ASSUME NEW e \in es, ~RecordAfter(e, Begun)
      PROVE  e \in old \/ cache[e] = doc[e]
  BY <1>1, <1>3, <1>4, RecentAfter DEF NeededIsLoaded, LoadedOrRecent
<1>5. CASE RecordAfter(k, Begun)
  BY <1>5 DEF Shown
<1>6. CASE ~RecordAfter(k, Begun) /\ RecordAfter(k, Handled)
  <2>1. k \in InChunk /\ doc[k].type # "none"
    BY <1>1, <1>6, InChunkOrAfter
  <2>2. k \in es /\ k \notin Works
    BY <1>1, <2>1 DEF Docs
  <2>3. k \notin old
    BY <1>2, <2>1 DEF Missed
  <2>4. cache[k] = doc[k]
    BY <1>4, <1>6, <2>2, <2>3
  <2>5. doc[k].type # "live"
    <3> SUFFICES ASSUME doc[k].type = "live" PROVE FALSE
      OBVIOUS
    <3>1. k \in live
      BY <2>2, <2>4
    <3>2. cache[k].work # NoWork
      BY <1>1, <3>1
    <3>3. k \in deletes'
      BY <1>1, <3>1, <3>2 DEF FakeWorks
    <3>4. QED
      BY <3>3
  <2>6. doc[k].type = "deleted"
    BY <2>1, <2>5 DEF UpdaterInv, TypeOK, Doc
  <2>7. solr[k] = NoSolr
    BY <1>2, <2>2, <2>4, <2>6 DEF Missed
  <2>8. Expected(k) = NoSolr
    BY <2>5 DEF Expected, Build
  <2>9. QED
    BY <2>2, <2>7, <2>8 DEF Shown
<1>7. CASE ~RecordAfter(k, Handled) /\ k \notin Works
  BY <1>2, <1>7 DEF Shown
<1>8. CASE ~RecordAfter(k, Handled) /\ k \in Works
  <2>1. WorkShown(k, Handled)
    BY <1>2, <1>8 DEF Shown
  <2>2. CASE doc[k].type # "live"
    BY <1>8, <2>1, <2>2 DEF Shown, WorkShown
  <2>3. CASE doc[k].type = "live"
    <3> SUFFICES ASSUME NEW e \in Editions, RecordAfter(e, Handled), ~RecordAfter(e, Begun)
                 PROVE  EditionShown(k, e)
      BY <1>8, <2>1, <2>3 DEF Shown, WorkShown
    <3>1. e \in es
      BY <1>1, InChunkOrAfter
    <3>2. e \notin EditionsOf(k)
      <4> SUFFICES ASSUME doc[e].type = "live", doc[e].work = k PROVE FALSE
        BY DEF EditionsOf
      <4>1. k # NoWork
        BY <1>8, SolrUpdaterAssumption
      <4>2. CASE e \in old
        BY <1>2, <3>1, <4>1, <4>2 DEF Missed
      <4>3. CASE cache[e] = doc[e]
        BY <1>1, <3>1, <4>1, <4>3
      <4>4. QED
        BY <1>4, <3>1, <4>2, <4>3
    <3>3. ~Holds(solr[k], e)
      BY <1>2, <1>8, <3>1 DEF Missed
    <3>4. solr[k] # NoSolr
      BY <2>1, <2>3 DEF WorkShown
    <3>5. \A rev \in 0..MaxLog : <<e, rev>> \notin solr[k].editions
      BY <3>3, <3>4 DEF Holds
    <3>6. QED
      BY <3>2, <3>5 DEF EditionShown
  <2>4. QED
    BY <2>2, <2>3
<1>9. QED
  BY <1>5, <1>6, <1>7, <1>8

LEMMA SelectIndex == IndexInv /\ SelectWorks => IndexInv'
<1> SUFFICES ASSUME IndexInv, SelectWorks PROVE IndexInv'
  OBVIOUS
<1> USE DEF IndexInv
<1> DEFINE live == {e \in InChunk \cap Editions : cache[e].type = "live"}
<1>1. UpdaterInv'
  BY UpdateKeysInv DEF UpdateKeys
<1>2. /\ UNCHANGED <<doc, log, solr, saved, offset, keys, chunk, cache, members, old>>
      /\ pc = "select" /\ pc' = "works"
      /\ excused' = excused \cup Missed /\ deletes' = FakeWorks(live)
  BY DEF SelectWorks, store, index, fetch
<1>3. /\ Handled' = Handled /\ Begun' = Begun
      /\ \A d : Recent(d)' <=> Recent(d)
      /\ \A d : LoadedOrRecent(d)' <=> LoadedOrRecent(d)
      /\ \A w : EditionsOf(w)' = EditionsOf(w)
  BY <1>2 DEF Handled, Begun, Recent, RecordAfter, LoadedOrRecent, EditionsOf
<1>4. Positions'
  BY <1>2, <1>3 DEF Positions
<1>5. CacheAgrees' /\ NeededIsLoaded'
  BY <1>2, <1>3 DEF CacheAgrees, NeededIsLoaded, Updating
<1>6. DeletesAgree'
  <2> SUFFICES ASSUME NEW e \in deletes'
               PROVE  /\ e \in Editions
                      /\ e \in old => e \in excused'
                      /\ e \in old \/ Recent(e) \/ (doc[e].type = "live" /\ doc[e].work # NoWork)
    BY <1>2, <1>3 DEF DeletesAgree
  <2>1. e \in InChunk \cap Editions /\ cache[e].type = "live" /\ cache[e].work # NoWork
    BY <1>2 DEF FakeWorks
  <2>2. LoadedOrRecent(e)
    BY <1>2, <2>1 DEF NeededIsLoaded
  <2>3. e \in old => e \in excused'
    BY <1>2, <2>1 DEF Missed
  <2>4. QED
    BY <2>1, <2>2, <2>3 DEF LoadedOrRecent
<1>7. \A k, n : Shown(k, n)' <=> Shown(k, n)
  BY <1>2, SameShown
<1>8. Handled # Torn => \A k \in Docs \ excused' : Shown(k, Handled)
  BY <1>2 DEF IndexShown
<1>9. \A k \in Docs \ excused' : k \in wkeys' \cup deletes' \/ Shown(k, Begun)
  BY SelectsAll
<1>10. IndexShown'
  BY <1>2, <1>3, <1>7, <1>8, <1>9 DEF IndexShown
<1>11. QED
  BY <1>1, <1>4, <1>5, <1>6, <1>10

LEMMA PostDeletesIndex == IndexInv /\ PostDeletes => IndexInv'
<1> SUFFICES ASSUME IndexInv, PostDeletes PROVE IndexInv'
  OBVIOUS
<1> USE DEF IndexInv
<1>1. UpdaterInv'
  BY UpdateKeysInv DEF UpdateKeys
<1>2. /\ UNCHANGED <<doc, log, saved, pc, offset, keys, chunk, wkeys, cache, members, old>>
      /\ solr' = [k \in Docs |-> IF k \in deletes THEN NoSolr ELSE solr[k]]
      /\ pc = "post" /\ deletes' = {} /\ excused' = excused \ (deletes \ old)
  BY DEF PostDeletes, store, fetch
<1>3. /\ Handled' = Handled /\ Begun' = Begun
      /\ \A d : Recent(d)' <=> Recent(d)
      /\ \A d : LoadedOrRecent(d)' <=> LoadedOrRecent(d)
      /\ \A w : EditionsOf(w)' = EditionsOf(w)
  BY <1>2 DEF Handled, Begun, Recent, RecordAfter, LoadedOrRecent, EditionsOf
<1>4. Positions' /\ CacheAgrees' /\ NeededIsLoaded' /\ DeletesAgree'
  BY <1>2, <1>3 DEF Positions, CacheAgrees, Updating, NeededIsLoaded, DeletesAgree
<1>5. ASSUME NEW k \in deletes \ excused', NEW n \in Nat, n <= offset
      PROVE  Shown(k, n)'
  <2>1. k \in Editions /\ k \notin old /\ k \in Docs /\ k \notin Works
    BY <1>2, <1>5, SolrUpdaterAssumption DEF DeletesAgree, Posting, Docs
  <2>2. CASE Recent(k)
    BY <1>2, <1>5, <2>2, RecentAfter DEF Shown, RecordAfter
  <2>3. CASE doc[k].type = "live" /\ doc[k].work # NoWork
    <3>1. solr'[k] = NoSolr /\ Expected(k)' = NoSolr
      BY <1>2, <1>5, <2>1, <2>3 DEF Expected, Build
    <3>2. QED
      BY <2>1, <3>1 DEF Shown
  <2>4. QED
    BY <1>2, <1>5, <2>1, <2>2, <2>3 DEF DeletesAgree, Posting
<1>6. ASSUME NEW k \in Docs \ deletes, NEW n
      PROVE  Shown(k, n)' <=> Shown(k, n)
  <2>1. solr'[k] = solr[k]
    BY <1>2
  <2>2. QED
    BY <1>2, <2>1, SameShown
<1>7. Handled \in Nat /\ Handled <= offset /\ Begun \in Nat /\ Begun <= offset /\ Handled # Torn
  BY <1>2, Numbers
<1>8. \A k \in Docs \ excused' : Shown(k, Handled)'
  BY <1>2, <1>3, <1>5, <1>6, <1>7 DEF IndexShown
<1>9. \A k \in Docs \ excused' : k \in wkeys \/ Shown(k, Begun)'
  BY <1>2, <1>3, <1>5, <1>6, <1>7 DEF IndexShown, Posting
<1>10. IndexShown'
  BY <1>2, <1>3, <1>8, <1>9 DEF IndexShown
<1>11. QED
  BY <1>1, <1>4, <1>10

\* What is posted under a key is what the store has, but for what has changed since.
LEMMA PostedShown ==
    ASSUME IndexInv, pc = "post", NEW k \in wkeys, ({k} \cup MembersOf(k)) \cap old = {},
           UNCHANGED <<doc, log>>, solr'[k] = Posted(k), NEW n \in Nat, n <= offset
    PROVE  Shown(k, n)'
<1> USE DEF IndexInv
<1> DEFINE view == Loaded(cache, MembersOf(k))
<1>1. k \in Docs /\ k \notin old
  BY DEF UpdaterInv, TypeOK
<1>2. MembersOf(k) \subseteq Editions
  BY MembersType DEF UpdaterInv
<1>3. \A d : Recent(d) => RecordAfter(d, n)'
  BY RecentAfter DEF RecordAfter
<1>4. CASE Recent(k)
  BY <1>3, <1>4 DEF Shown
<1>5. CASE ~Recent(k) /\ k \notin Works
  <2>1. MembersOf(k) = {} /\ view[k] = cache[k] /\ cache[k] = doc[k]
    BY <1>1, <1>5, LoadedIs DEF MembersOf, NeededIsLoaded, LoadedOrRecent
  <2>2. Posted(k) = Expected(k)' 
    BY <1>5, <2>1 DEF Posted, Expected, Build
  <2>3. QED
    BY <1>5, <2>2 DEF Shown
<1>6. CASE ~Recent(k) /\ k \in Works
  <2>1. k \notin Editions
    BY <1>6, SolrUpdaterAssumption
  <2>2. view[k] = doc[k] /\ cache[k] = doc[k]
    BY <1>1, <1>2, <1>6, <2>1, LoadedIs DEF NeededIsLoaded, LoadedOrRecent
  <2>3. CASE doc[k].type # "live"
    <3>1. Posted(k) = NoSolr
      BY <2>2, <2>3 DEF Posted, Build
    <3>2. QED
      BY <1>6, <2>3, <3>1 DEF Shown, WorkShown
  <2>4. CASE doc[k].type = "live"
    <3> HIDE DEF view
    <3>1. Posted(k) = [rev |-> doc[k].rev, editions |-> {<<e, view[e].rev>> : e \in MembersOf(k)}]
      BY <1>6, <2>2, <2>4 DEF Posted, Build, view
    <3>2. Posted(k) # NoSolr
      <4>1. doc[k].rev \in 0..MaxLog
        BY <1>1 DEF UpdaterInv, TypeOK, Doc
      <4>2. \A e \in MembersOf(k) : view[e] \in Doc
        <5>1. view \in [Docs -> Doc]
          BY LoadedType DEF view, UpdaterInv, TypeOK
        <5>2. QED
          BY <1>2, <5>1 DEF Docs
      <4>3. {<<e, view[e].rev>> : e \in MembersOf(k)} \subseteq Editions \X (0..MaxLog)
        BY <1>2, <4>2 DEF Doc
      <4>4. QED
        BY <3>1, <4>1, <4>3, NoSolrAssumption
    <3>3. ASSUME NEW e \in Editions, ~Recent(e) PROVE EditionShown(k, e)'
      <4>1. e \in MembersOf(k) <=> e \in EditionsOf(k)
        BY <1>1, <1>6, <2>2, <2>4, <3>3 DEF MembersOf, CacheAgrees, Updating
      <4>2. e \in MembersOf(k) => view[e] = doc[e]
        <5> SUFFICES ASSUME e \in MembersOf(k) PROVE view[e] = doc[e]
          OBVIOUS
        <5>1. e \notin old /\ e \in Docs
          BY <1>2 DEF Docs
        <5>2. cache[e] = NoDoc \/ cache[e] = doc[e]
          BY <3>3, <5>1 DEF CacheAgrees, Updating, LoadedOrRecent
        <5>3. QED
          BY <5>1, <5>2, LoadedIs DEF view
      <4>3. \A rev : <<e, rev>> \in Posted(k).editions <=> e \in MembersOf(k) /\ rev = view[e].rev
        BY <3>1
      <4>4. EditionsOf(k)' = EditionsOf(k)
        BY DEF EditionsOf
      <4>5. QED
        BY <4>1, <4>2, <4>3, <4>4 DEF EditionShown
    <3>4. WorkShown(k, n)'
      BY <1>3, <2>4, <3>1, <3>2, <3>3 DEF WorkShown
    <3>5. QED
      BY <1>6, <3>4 DEF Shown
  <2>5. QED
    BY <2>3, <2>4
<1>7. QED
  BY <1>4, <1>5, <1>6

LEMMA PostWorkIndex == IndexInv /\ PostWork => IndexInv'
<1> SUFFICES ASSUME IndexInv, PostWork PROVE IndexInv'
  OBVIOUS
<1> USE DEF IndexInv
<1>1. UpdaterInv'
  BY UpdateKeysInv DEF UpdateKeys
<1>2. /\ UNCHANGED <<doc, log, saved, pc, offset, keys, chunk, deletes, old>>
      /\ pc = "post" /\ deletes = {} /\ Updating
  BY DEF PostWork, store, fetch, Updating
<1>3. PICK k \in wkeys :
         /\ wkeys' = wkeys \ {k}
         /\ cache' = Loaded(cache, MembersOf(k))
         /\ members' = [w \in Works |-> IF w = k THEN MembersOf(k) ELSE members[w]]
         /\ \/ /\ solr' = [solr EXCEPT ![k] = Posted(k)]
               /\ ({k} \cup MembersOf(k)) \cap old = {} /\ excused' = excused \ {k}
            \/ /\ solr' = solr \/ solr' = [solr EXCEPT ![k] = Posted(k)]
               /\ excused' = excused \cup {k}
  BY DEF PostWork
<1>4. k \in Docs
  BY DEF UpdaterInv, TypeOK
<1>5. /\ Handled' = Handled /\ Begun' = Begun
      /\ \A d : Recent(d)' <=> Recent(d)
  BY <1>2 DEF Handled, Begun, Recent, RecordAfter
<1>6. CacheAgrees' /\ \A d \in Docs : LoadedOrRecent(d) => LoadedOrRecent(d)'
  <2>1. \A d \in Docs : cache'[d] = IF d \in MembersOf(k) /\ cache[d] = NoDoc THEN doc[d] ELSE cache[d]
    BY <1>3, LoadedIs
  <2>2. \A w \in Works : members'[w] \in {members[w], EditionsOf(w), {}}
    BY <1>3 DEF MembersOf
  <2>3. \A w \in Works : members'[w] # {} => cache'[w] # NoDoc
    <3> SUFFICES ASSUME NEW w \in Works, members'[w] # {} PROVE cache'[w] # NoDoc
      OBVIOUS
    <3>1. members[w] # {} \/ cache[w].type = "live"
      BY <1>3 DEF MembersOf
    <3>2. cache[w] # NoDoc
      BY <3>1 DEF CacheAgrees, NoDoc
    <3>3. QED
      BY <2>1, <3>2 DEF Docs
  <2>4. QED
    BY <1>2, <2>1, <2>2, <2>3, CacheKept
<1>7. NeededIsLoaded'
  <2>1. \A j \in wkeys : j \in Docs /\ LoadedOrRecent(j)
    BY <1>2 DEF NeededIsLoaded, UpdaterInv, TypeOK
  <2>2. QED
    BY <1>2, <1>3, <1>6, <2>1 DEF NeededIsLoaded
<1>8. Positions' /\ DeletesAgree'
  BY <1>2, <1>5 DEF Positions, DeletesAgree
<1>9. Handled \in Nat /\ Handled <= offset /\ Begun \in Nat /\ Begun <= offset /\ Handled # Torn
  BY <1>2, Numbers
<1>10. k \notin excused' => \A n \in Nat : n <= offset => Shown(k, n)'
  <2> SUFFICES ASSUME k \notin excused', NEW n \in Nat, n <= offset PROVE Shown(k, n)'
    OBVIOUS
  <2>1. ({k} \cup MembersOf(k)) \cap old = {} /\ solr' = [solr EXCEPT ![k] = Posted(k)]
    BY <1>3
  <2>2. solr'[k] = Posted(k)
    BY <1>4, <2>1 DEF UpdaterInv, TypeOK
  <2>3. QED
    BY <1>2, <2>1, <2>2, PostedShown
<1>11. ASSUME NEW j \in Docs, j # k, NEW n PROVE Shown(j, n)' <=> Shown(j, n)
  <2>1. solr'[j] = solr[j]
    BY <1>3, <1>11 DEF UpdaterInv, TypeOK
  <2>2. QED
    BY <1>2, <2>1, SameShown
<1>12. \A j \in Docs \ excused' : Shown(j, Handled)'
  BY <1>3, <1>5, <1>9, <1>10, <1>11 DEF IndexShown
<1>13. \A j \in Docs \ excused' : j \in wkeys' \/ Shown(j, Begun)'
  BY <1>2, <1>3, <1>5, <1>9, <1>10, <1>11 DEF IndexShown, Posting
<1>14. IndexShown'
  BY <1>2, <1>5, <1>12, <1>13 DEF IndexShown
<1>15. QED
  BY <1>1, <1>6, <1>7, <1>8, <1>14

LEMMA ChunkDoneIndex == IndexInv /\ ChunkDone => IndexInv'
<1> SUFFICES ASSUME IndexInv, ChunkDone PROVE IndexInv'
  OBVIOUS
<1> USE DEF IndexInv
<1>1. UpdaterInv'
  BY UpdateKeysInv DEF UpdateKeys
<1>2. /\ UNCHANGED <<doc, log, saved, solr, excused, offset, keys, cache, members>>
      /\ pc = "post" /\ pc' = "read" /\ deletes = {} /\ wkeys = {} /\ chunk' = <<>>
  BY DEF ChunkDone, store, index, fetch
<1>3. /\ Begun' = Begun /\ Begun \in Nat /\ Len(chunk') = 0 /\ Len(chunk) \in Nat
      /\ Handled' = Begun
  <2>1. Begun' = Begun /\ Len(chunk') = 0 /\ Begun \in Nat /\ Len(chunk) \in Nat
    BY <1>2, Numbers DEF Begun
  <2>2. pc' # "down" /\ Handled' = Begun' - Len(chunk')
    BY <1>2 DEF Handled, Begun
  <2>3. QED
    BY <2>1, <2>2
<1>4. saved # Torn => saved <= Begun - Len(chunk')
  <2>1. saved # Torn => saved \in Nat /\ saved <= Begun - Len(chunk)
    BY <1>2 DEF Positions, UpdaterInv, TypeOK
  <2>2. QED
    BY <1>3, <2>1
<1>5. Positions'
  BY <1>2, <1>3, <1>4 DEF Positions
<1>6. CacheAgrees' /\ NeededIsLoaded' /\ DeletesAgree'
  BY <1>2 DEF CacheAgrees, NeededIsLoaded, DeletesAgree, Updating, Posting
<1>7. \A k, n : Shown(k, n)' <=> Shown(k, n)
  BY <1>2, SameShown
<1>8. IndexShown'
  BY <1>2, <1>3, <1>7 DEF IndexShown, Posting
<1>9. QED
  BY <1>1, <1>5, <1>6, <1>8

LEMMA NextIndex == IndexInv /\ [Next]_vars => IndexInv'
<1> SUFFICES ASSUME IndexInv, [Next]_vars PROVE IndexInv'
  OBVIOUS
<1>1. CASE UNCHANGED vars
  <2>1. UNCHANGED <<store, solr, excused, saved, pc, fetch, update>>
    BY <1>1 DEF vars, index
  <2>2. UpdaterInv'
    BY NextInv DEF IndexInv
  <2>3. QED
    BY <2>1, <2>2, SameIndex
<1>2. CASE SaveWork
  BY <1>2, PutIndex DEF SaveWork, Docs
<1>3. CASE SaveEdition
  BY <1>3, PutIndex DEF SaveEdition, Docs
<1>4. CASE Remove
  BY <1>4, PutIndex DEF Remove
<1>5. CASE Updater
  BY <1>5, StartUpIndex, FetchIndex, TakeChunkIndex, FinishIndex, PreloadIndex, SelectIndex,
     PostDeletesIndex, PostWorkIndex, ChunkDoneIndex DEF Updater, Read, UpdateKeys
<1>6. CASE SolrCommit \/ Crash
  BY <1>6, CrashIndex
<1>7. QED
  BY <1>1, <1>2, <1>3, <1>4, <1>5, <1>6 DEF Next, Edit

\* What IndexShown says once every record is handled.
LEMMA ShownIsExpected ==
    ASSUME UpdaterInv, NEW k \in Docs, Shown(k, Len(log))
    PROVE  solr[k] = Expected(k)
<1>1. Len(log) \in Nat
  BY Numbers
<1>2. \A d : ~RecordAfter(d, Len(log))
  BY <1>1 DEF RecordAfter
<1>3. CASE k \notin Works
  BY <1>2, <1>3 DEF Shown
<1>4. CASE k \in Works
  <2>1. WorkShown(k, Len(log))
    BY <1>2, <1>4 DEF Shown
  <2>2. CASE doc[k].type # "live"
    BY <2>1, <2>2 DEF WorkShown, Expected, Build
  <2>3. CASE doc[k].type = "live"
    <3> DEFINE shown == {<<e, doc[e].rev>> : e \in EditionsOf(k)}
    <3>1. solr[k] \in [rev: 0..MaxLog, editions: SUBSET (Editions \X (0..MaxLog))]
      BY <2>1, <2>3 DEF WorkShown, UpdaterInv, TypeOK, SolrDoc
    <3>2. \A e \in Editions, rev \in 0..MaxLog :
             <<e, rev>> \in solr[k].editions <=> <<e, rev>> \in shown
      BY <1>2, <2>1, <2>3 DEF WorkShown, EditionShown
    <3>3. shown \subseteq Editions \X (0..MaxLog)
      BY DEF EditionsOf, UpdaterInv, TypeOK, Doc, Docs
    <3>4. solr[k].editions = shown
      BY <3>1, <3>2, <3>3
    <3>5. Expected(k) = [rev |-> doc[k].rev, editions |-> shown]
      BY <1>4, <2>3 DEF Expected, Build
    <3>6. solr[k].rev = doc[k].rev
      BY <2>1, <2>3 DEF WorkShown
    <3>7. QED
      BY <3>1, <3>4, <3>5, <3>6
  <2>4. QED
    BY <2>2, <2>3
<1>5. QED
  BY <1>3, <1>4

LEMMA IndexInvIsCurrent == IndexInv => IndexIsCurrent
<1> SUFFICES ASSUME IndexInv, saved = Len(log), NEW k \in Docs \ excused
             PROVE  solr[k] = Expected(k)
  BY DEF IndexIsCurrent, UpToDate
<1> USE DEF IndexInv
<1>1. saved \in Nat /\ saved # Torn /\ Len(log) \in Nat /\ offset <= Len(log)
  BY SolrUpdaterAssumption, Numbers
<1>2. Handled = saved
  <2>1. CASE pc = "down"
    BY <2>1 DEF Handled
  <2>2. CASE pc # "down"
    <3>1. saved <= Begun - Len(chunk) /\ Handled = Begun - Len(chunk)
      BY <1>1, <2>2, Numbers DEF Positions
    <3>2. Begun - Len(chunk) \in Nat /\ Begun - Len(chunk) <= Len(log)
      BY <1>1, Numbers
    <3>3. QED
      BY <1>1, <3>1, <3>2
  <2>3. QED
    BY <2>1, <2>2
<1>3. Shown(k, Len(log))
  BY <1>1, <1>2 DEF IndexShown
<1>4. QED
  BY <1>3, ShownIsExpected

\* When the updater has passed every edit, Solr shows every work, and every
\* edition without a work, as it is in the store - with any number of edits
\* between any two steps of an update, and after any number of crashes -
\* unless a step of update_keys is known to have missed the key.
THEOREM IndexCurrent == Spec => []IndexIsCurrent
<1>1. Spec => []IndexInv
  BY InitIndex, NextIndex, PTL DEF Spec
<1>2. QED
  BY <1>1, IndexInvIsCurrent, PTL
=============================================================================
