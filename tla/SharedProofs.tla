---------------------------- MODULE SharedProofs ----------------------------
(***************************************************************************)
(* Theorems about what several processes share, for any numbers of them.   *)
(* About StoreCache: type correctness, and that every stale entry has a    *)
(* cause.  About Memoize: type correctness, and that the flag of a refresh *)
(* is there exactly while one thread is going to remove it, or the thread  *)
(* that set it was killed.  About ImportQueue: type correctness, and that  *)
(* rows and editions are double only by a race.                            *)
(***************************************************************************)
EXTENDS MCShared, FiniteSetTheorems, SequenceTheorems, TLAPS

----------------------------------------------------------------------------
(* StoreCache: the inductive invariant *)

\* A reader that was not overtaken is about to add the document of the store.
ReadersAreFresh ==
    \A p \in Processes : pc[p] = "fill" /\ p \notin overtaken =>
        \A k \in keys[p] : doc[p] = store[k]

\* Between its first deletion and its write, a writer knows of every entry: all
\* of them were added meanwhile.  Until its second deletion it knows of no others.
WritersKnowEntries ==
    \A p \in Processes :
        /\ pc[p] = "write" => \A k \in keys[p] : cache[k] # Empty => k \in filled[p]
        /\ pc[p] \in {"write", "clear"} => filled[p] \subseteq keys[p]

CacheInv ==
    TypeOK /\ ReadersAreFresh /\ WritersKnowEntries /\ StaleEntriesHaveACause

----------------------------------------------------------------------------
(* Lemmas about entries *)

LEMMA EntryType ==
    ASSUME NEW d \in Doc, d.live, NEW t \in BOOLEAN
    PROVE  EntryOf(d, t) \in Entry /\ EntryOf(d, t) # Empty /\ EntryOf(d, t).rev = d.rev
<1>1. d.live \in BOOLEAN /\ d.rev \in 0..MaxWrites
  BY DEF Doc
<1>2. d.live = TRUE
  BY Zenon, <1>1
<1>3. EntryOf(d, t) = [rev |-> d.rev, live |-> TRUE, timed |-> t]
  BY Zenon, <1>2 DEF EntryOf
<1>4. [rev |-> d.rev, live |-> TRUE, timed |-> t]
         \in [rev: 0..MaxWrites, live: {TRUE}, timed: BOOLEAN]
  BY <1>1
<1>5. [rev |-> d.rev, live |-> TRUE, timed |-> t]
         \in [rev: 0..MaxWrites, live: BOOLEAN, timed: BOOLEAN]
  BY <1>1
<1>6. EntryOf(d, t) \in Entry
  BY Zenon, <1>3, <1>4 DEF Entry
<1>7. EntryOf(d, t) # Empty
  BY Zenon, <1>3, <1>5, StoreCacheAssumption
<1>8. EntryOf(d, t).rev = d.rev
  BY <1>3
<1>9. QED
  BY <1>6, <1>7, <1>8

\* Deleting entries makes none stale.
LEMMA DeleteType ==
    ASSUME TypeOK, NEW ks, Delete(ks)
    PROVE  /\ cache' \in [Keys -> Entry] /\ late' \subseteq Keys
           /\ \A k \in Keys : cache'[k] # Empty => k \notin ks /\ cache'[k] = cache[k]
           /\ late' = late \ ks
BY DEF TypeOK, Delete, Entry

LEMMA InitInv == Init => CacheInv
<1> SUFFICES ASSUME Init PROVE CacheInv
  OBVIOUS
<1>1. NoDoc \in Doc
  BY StoreCacheAssumption DEF NoDoc, Doc
<1>2. TypeOK
  BY <1>1 DEF Init, TypeOK, Entry
<1>3. ReadersAreFresh /\ WritersKnowEntries /\ StaleEntriesHaveACause
  BY DEF Init, ReadersAreFresh, WritersKnowEntries, StaleEntriesHaveACause, Stale
<1>4. QED
  BY <1>2, <1>3 DEF CacheInv

----------------------------------------------------------------------------
(* Readers *)

LEMMA StoreGetInv ==
    ASSUME CacheInv, NEW p \in Processes, NEW k \in Keys, StoreGet(p, k)
    PROVE  CacheInv'
<1> USE DEF CacheInv
<1>1. TypeOK'
  BY DEF StoreGet, TypeOK, Goto
<1>2. ReadersAreFresh'
  BY DEF StoreGet, TypeOK, Goto, ReadersAreFresh
<1>3. WritersKnowEntries'
  BY DEF StoreGet, TypeOK, Goto, WritersKnowEntries
<1>4. StaleEntriesHaveACause'
  BY DEF StoreGet, TypeOK, Goto, StaleEntriesHaveACause, Stale
<1>5. QED
  BY <1>1, <1>2, <1>3, <1>4

LEMMA FetchInv ==
    ASSUME CacheInv, NEW p \in Processes, Fetch(p) PROVE CacheInv'
<1> USE DEF CacheInv
<1>1. PICK k \in keys[p] :
         /\ doc' = [doc EXCEPT ![p] = store[k]]
         /\ pc' = [pc EXCEPT ![p] = IF store[k].live THEN "fill" ELSE "idle"]
  BY DEF Fetch, Goto
<1>2. k \in Keys /\ keys[p] = {k}
  BY DEF Fetch, TypeOK
<1>3. TypeOK'
  BY <1>1, <1>2 DEF Fetch, TypeOK, history
<1>4. ReadersAreFresh'
  BY <1>1, <1>2 DEF Fetch, TypeOK, history, ReadersAreFresh
<1>5. WritersKnowEntries'
  BY <1>1 DEF Fetch, TypeOK, history, WritersKnowEntries
<1>6. StaleEntriesHaveACause'
  BY <1>1 DEF Fetch, TypeOK, history, StaleEntriesHaveACause, Stale
<1>7. QED
  BY <1>3, <1>4, <1>5, <1>6

LEMMA FillInv ==
    ASSUME CacheInv, NEW p \in Processes, Fill(p) PROVE CacheInv'
<1> USE DEF CacheInv
<1>1. PICK k \in Keys : keys[p] = {k}
  BY DEF Fill, TypeOK
<1>2. doc[p] \in Doc /\ doc[p].live /\ Lifetime \in BOOLEAN
  BY DEF Fill, TypeOK, Lifetime
<1>3. pc' = [pc EXCEPT ![p] = "idle"] /\ UNCHANGED <<store, keys, doc, overtaken>>
  BY DEF Fill, Goto
<1>4. ReadersAreFresh'
  BY <1>3 DEF ReadersAreFresh, TypeOK
<1>5. CASE cache[k] # Empty
  <2>1. UNCHANGED <<cache, filled, late>>
    BY <1>1, <1>5 DEF Fill
  <2>2. TypeOK' /\ WritersKnowEntries'
    BY <1>3, <2>1 DEF TypeOK, WritersKnowEntries
  <2>3. StaleEntriesHaveACause'
    BY <1>3, <2>1 DEF Fill, TypeOK, StaleEntriesHaveACause, Stale
  <2>4. QED
    BY <1>4, <2>2, <2>3
<1>6. CASE cache[k] = Empty
  <2>1. /\ cache' = [cache EXCEPT ![k] = EntryOf(doc[p], Lifetime)]
        /\ filled' = [q \in Processes |->
                        IF pc[q] = "write" /\ k \in keys[q]
                        THEN filled[q] \cup {k} ELSE filled[q]]
        /\ late' = IF p \in overtaken THEN late \cup {k} ELSE late
    BY <1>1, <1>6 DEF Fill
  <2>2. EntryOf(doc[p], Lifetime) \in Entry
        /\ EntryOf(doc[p], Lifetime).rev = doc[p].rev
    BY <1>2, EntryType
  <2> HIDE DEF Entry, EntryOf
  <2>3. TypeOK'
    BY <1>3, <2>1, <2>2 DEF TypeOK
  <2>4. WritersKnowEntries'
    BY <1>3, <2>1 DEF TypeOK, WritersKnowEntries
  <2>5. StaleEntriesHaveACause'
    <3> SUFFICES ASSUME NEW j \in Keys, Stale(j)'
                 PROVE  j \in late' \/ \E q \in Processes : pc'[q] = "clear" /\ j \in filled'[q]
      BY DEF StaleEntriesHaveACause
    <3>1. CASE j = k
      <4>1. p \in overtaken
        BY <1>1, <1>3, <2>1, <2>2, <3>1 DEF Stale, ReadersAreFresh, Fill, TypeOK
      <4>2. QED
        BY <2>1, <3>1, <4>1
    <3>2. CASE j # k
      <4>1. Stale(j)
        BY <1>3, <2>1, <3>2 DEF Stale, TypeOK
      <4>2. CASE j \in late
        BY <2>1, <4>2
      <4>3. CASE \E q \in Processes : pc[q] = "clear" /\ j \in filled[q]
        BY <1>3, <2>1, <4>3 DEF Fill, TypeOK
      <4>4. QED
        BY <4>1, <4>2, <4>3 DEF StaleEntriesHaveACause
    <3>3. QED
      BY <3>1, <3>2
  <2>6. QED
    BY <1>4, <2>3, <2>4, <2>5
<1>7. QED
  BY <1>5, <1>6

----------------------------------------------------------------------------
(* Writers *)

LEMMA ClearFirstInv ==
    ASSUME CacheInv, NEW p \in Processes, NEW ks \in SUBSET Keys, ClearFirst(p, ks)
    PROVE  CacheInv'
<1> USE DEF CacheInv
<1>1. /\ cache' \in [Keys -> Entry] /\ late' \subseteq Keys
      /\ \A k \in Keys : cache'[k] # Empty => k \notin ks /\ cache'[k] = cache[k]
      /\ late' = late \ ks
  BY DeleteType DEF ClearFirst
<1>2. /\ pc[p] = "idle"
      /\ pc' = [pc EXCEPT ![p] = "write"] /\ keys' = [keys EXCEPT ![p] = ks]
      /\ filled' = [q \in Processes |-> IF q = p THEN {} ELSE filled[q] \ ks]
      /\ UNCHANGED <<store, doc, overtaken>>
  BY DEF ClearFirst, Goto
<1>3. TypeOK'
  BY <1>1, <1>2 DEF TypeOK
<1>4. ReadersAreFresh'
  BY <1>2 DEF TypeOK, ReadersAreFresh
<1>5. WritersKnowEntries'
  BY <1>1, <1>2 DEF TypeOK, WritersKnowEntries
<1>6. StaleEntriesHaveACause'
  BY <1>1, <1>2 DEF TypeOK, StaleEntriesHaveACause, Stale
<1>7. QED
  BY <1>3, <1>4, <1>5, <1>6

\* What a write makes stale was added after the writer's first deletion, and
\* readers that have read the document before are overtaken.
LEMMA WriteInv ==
    ASSUME CacheInv, NEW p \in Processes, Write(p) PROVE CacheInv'
<1> USE DEF CacheInv
<1>1. PICK live \in BOOLEAN :
         store' = [k \in Keys |->
                     IF k \in keys[p] THEN [rev |-> store[k].rev + 1, live |-> live]
                                      ELSE store[k]]
  BY DEF Write
<1>2. /\ pc[p] = "write" /\ pc' = [pc EXCEPT ![p] = "clear"]
      /\ overtaken' = overtaken \cup
                      {q \in Processes : pc[q] = "fill" /\ keys[q] \cap keys[p] # {}}
      /\ UNCHANGED <<cache, keys, doc, filled, late>>
  BY DEF Write, Goto
<1>3. \A k \in keys[p] : [rev |-> store[k].rev + 1, live |-> live] \in Doc
  BY StoreCacheAssumption DEF Write, TypeOK, Doc
<1>4. store' \in [Keys -> Doc]
  BY <1>1, <1>3 DEF TypeOK
<1>5. TypeOK'
  BY <1>2, <1>4 DEF TypeOK
<1>6. ReadersAreFresh'
  BY <1>1, <1>2 DEF TypeOK, ReadersAreFresh
<1>7. WritersKnowEntries'
  BY <1>2 DEF TypeOK, WritersKnowEntries
<1>8. StaleEntriesHaveACause'
  <2> SUFFICES ASSUME NEW j \in Keys, Stale(j)'
               PROVE  j \in late' \/ \E q \in Processes : pc'[q] = "clear" /\ j \in filled'[q]
    BY DEF StaleEntriesHaveACause
  <2>1. CASE j \in keys[p]
    BY <1>2, <2>1 DEF Stale, WritersKnowEntries, TypeOK
  <2>2. CASE j \notin keys[p]
    BY <1>1, <1>2, <2>2 DEF Stale, StaleEntriesHaveACause, TypeOK
  <2>3. QED
    BY <2>1, <2>2
<1>9. QED
  BY <1>5, <1>6, <1>7, <1>8

LEMMA RefuseInv ==
    ASSUME CacheInv, NEW p \in Processes, Refuse(p) PROVE CacheInv'
<1> USE DEF CacheInv
<1>1. TypeOK' /\ ReadersAreFresh' /\ WritersKnowEntries'
  BY DEF Refuse, Goto, history, TypeOK, ReadersAreFresh, WritersKnowEntries
<1>2. StaleEntriesHaveACause'
  BY DEF Refuse, Goto, history, TypeOK, StaleEntriesHaveACause, Stale
<1>3. QED
  BY <1>1, <1>2

\* What is left once the entries are deleted has another cause.
LEMMA ClearAgainInv ==
    ASSUME CacheInv, NEW p \in Processes, ClearAgain(p) PROVE CacheInv'
<1> USE DEF CacheInv
<1>1. /\ cache' \in [Keys -> Entry] /\ late' \subseteq Keys
      /\ \A k \in Keys : cache'[k] # Empty => k \notin keys[p] /\ cache'[k] = cache[k]
      /\ late' = late \ keys[p]
  BY DeleteType DEF ClearAgain
<1>2. /\ pc[p] = "clear" /\ pc' = [pc EXCEPT ![p] = "idle"]
      /\ filled' = [q \in Processes |-> filled[q] \ keys[p]]
      /\ UNCHANGED <<store, keys, doc, overtaken>>
  BY DEF ClearAgain, Goto
<1>3. TypeOK'
  BY <1>1, <1>2 DEF TypeOK
<1>4. ReadersAreFresh'
  BY <1>2 DEF TypeOK, ReadersAreFresh
<1>5. WritersKnowEntries'
  BY <1>1, <1>2 DEF TypeOK, WritersKnowEntries
<1>6. StaleEntriesHaveACause'
  <2> SUFFICES ASSUME NEW j \in Keys, Stale(j)'
               PROVE  j \in late' \/ \E q \in Processes : pc'[q] = "clear" /\ j \in filled'[q]
    BY DEF StaleEntriesHaveACause
  <2>1. Stale(j) /\ j \notin keys[p]
    BY <1>1, <1>2 DEF Stale
  <2>2. CASE j \in late
    BY <1>1, <2>1, <2>2
  <2>3. CASE \E q \in Processes : pc[q] = "clear" /\ j \in filled[q]
    <3>1. PICK q \in Processes : pc[q] = "clear" /\ j \in filled[q]
      BY <2>3
    <3>2. q # p
      BY <1>2, <2>1, <3>1 DEF WritersKnowEntries
    <3>3. pc'[q] = "clear" /\ j \in filled'[q]
      BY <1>2, <2>1, <3>1, <3>2 DEF TypeOK
    <3>4. QED
      BY <3>3
  <2>4. QED
    BY <2>1, <2>2, <2>3 DEF StaleEntriesHaveACause
<1>7. QED
  BY <1>3, <1>4, <1>5, <1>6

LEMMA DieInv ==
    ASSUME CacheInv, NEW p \in Processes, Die(p) PROVE CacheInv'
<1> USE DEF CacheInv
<1>1. TypeOK' /\ ReadersAreFresh' /\ WritersKnowEntries'
  BY DEF Die, Goto, TypeOK, ReadersAreFresh, WritersKnowEntries
<1>2. StaleEntriesHaveACause'
  BY DEF Die, Goto, TypeOK, StaleEntriesHaveACause, Stale
<1>3. QED
  BY <1>1, <1>2

LEMMA ExpireInv ==
    ASSUME CacheInv, NEW k \in Keys, Expire(k) PROVE CacheInv'
<1> USE DEF CacheInv
<1>1. /\ cache' \in [Keys -> Entry] /\ late' \subseteq Keys
      /\ \A j \in Keys : cache'[j] # Empty => j \notin {k} /\ cache'[j] = cache[j]
      /\ late' = late \ {k}
  BY DeleteType DEF Expire
<1>2. /\ filled' = [q \in Processes |-> filled[q] \ {k}]
      /\ UNCHANGED <<store, pc, keys, doc, overtaken>>
  BY DEF Expire, local
<1>3. TypeOK' /\ ReadersAreFresh' /\ WritersKnowEntries'
  BY <1>1, <1>2 DEF TypeOK, ReadersAreFresh, WritersKnowEntries
<1>4. StaleEntriesHaveACause'
  BY <1>1, <1>2 DEF TypeOK, StaleEntriesHaveACause, Stale
<1>5. QED
  BY <1>3, <1>4

----------------------------------------------------------------------------

LEMMA NextInv == CacheInv /\ [Next]_vars => CacheInv'
<1> SUFFICES ASSUME CacheInv, [Next]_vars PROVE CacheInv'
  OBVIOUS
<1>1. CASE UNCHANGED vars
  BY <1>1 DEF vars, local, history, CacheInv, TypeOK, ReadersAreFresh,
     WritersKnowEntries, StaleEntriesHaveACause, Stale
<1>2. CASE \E p \in Processes : Call(p)
  BY <1>2, StoreGetInv, ClearFirstInv DEF Call
<1>3. CASE \E p \in Processes : Continue(p)
  BY <1>3, FetchInv, FillInv, WriteInv, RefuseInv, ClearAgainInv DEF Continue
<1>4. CASE \E p \in Processes : Die(p)
  BY <1>4, DieInv
<1>5. CASE \E k \in Keys : Expire(k)
  BY <1>5, ExpireInv
<1>6. QED
  BY <1>1, <1>2, <1>3, <1>4, <1>5 DEF Next

LEMMA Invariance == Spec => []CacheInv
BY InitInv, NextInv, PTL DEF Spec

\* The variables keep their types; a document that does not exist is never
\* cached.
THEOREM TypeCorrect == Spec => []TypeOK
<1>1. CacheInv => TypeOK
  BY DEF CacheInv
<1>2. QED
  BY <1>1, Invariance, PTL

\* A stale entry is about to be deleted, was added by a reader that a write had
\* overtaken, or was added during a write whose writer died.
THEOREM StaleHasCause == Spec => []StaleEntriesHaveACause
<1>1. CacheInv => StaleEntriesHaveACause
  BY DEF CacheInv
<1>2. QED
  BY <1>1, Invariance, PTL

----------------------------------------------------------------------------
(* Memoize: the inductive invariant *)

\* The flag lets one thread in, and none any more once it has been orphaned.
\* FlagsHaveAnOwner says the first with a cardinality; that an orphaned flag is
\* never removed again is what makes it inductive.
OneOwner ==
    /\ \A t, u \in Refreshing : t = u
    /\ flag <=> Refreshing # {} \/ orphan
    /\ orphan => Refreshing = {}

MemInv == MemTypeOK /\ OneOwner

LEMMA MemInitInv == MemInit => MemInv
<1> SUFFICES ASSUME MemInit PROVE MemInv
  OBVIOUS
<1>1. /\ result \in 0..MaxChanges /\ value \in {NoValue} \cup (0..result)
      /\ faults \in 0..MaxFaults /\ computed \in [Threads -> 0..result]
  BY MemoizeAssumption DEF MemInit
<1>2. expired = FALSE /\ flag = FALSE /\ orphan = FALSE
  BY DEF MemInit
<1>3. thread \in [Threads -> MemPcs] /\ Refreshing = {}
  BY DEF MemInit, MemPcs, Refreshing
<1>4. MemTypeOK
  BY <1>1, <1>2, <1>3 DEF MemTypeOK
<1>5. QED
  BY <1>2, <1>3, <1>4 DEF MemInv, OneOwner

----------------------------------------------------------------------------
(* Type correctness.  Numbers, flags and functions are kept in steps of      *)
(* their own, as no prover takes all of them at once.                        *)

\* The numbers keep their types if each stays, or moves within its bounds.
LEMMA NumbersKeepTypes ==
    ASSUME MemTypeOK,
           result' = result \/ (result < MaxChanges /\ result' = result + 1),
           faults' = faults \/ (faults < MaxFaults /\ faults' = faults + 1),
           value' = value \/ value' = NoValue \/ \E t \in Threads : value' = computed[t],
           computed' = computed \/ \E t \in Threads : computed' = [computed EXCEPT ![t] = result]
    PROVE  /\ result' \in 0..MaxChanges /\ faults' \in 0..MaxFaults
           /\ value' \in {NoValue} \cup (0..result')
           /\ computed' \in [Threads -> 0..result']
<1>1. /\ result \in 0..MaxChanges /\ faults \in 0..MaxFaults
      /\ value \in {NoValue} \cup (0..result) /\ computed \in [Threads -> 0..result]
  BY DEF MemTypeOK
<1>2. result' \in 0..MaxChanges /\ 0..result \subseteq 0..result' /\ result \in 0..result'
  BY <1>1, MemoizeAssumption
<1>3. faults' \in 0..MaxFaults
  BY <1>1, MemoizeAssumption
<1>4. value' \in {NoValue} \cup (0..result')
  BY <1>1, <1>2
<1>5. computed' \in [Threads -> 0..result']
  BY <1>1, <1>2
<1>6. QED
  BY <1>2, <1>3, <1>4, <1>5

LEMMA MemNextNumbers ==
    ASSUME MemTypeOK, MemNext
    PROVE  /\ result' \in 0..MaxChanges /\ faults' \in 0..MaxFaults
           /\ value' \in {NoValue} \cup (0..result')
           /\ computed' \in [Threads -> 0..result']
<1>1. result' = result \/ (result < MaxChanges /\ result' = result + 1)
  BY DEF MemNext, MemCall, MemStep, CallMisses, CallFindsExpired, EditLibrary, KillThread, Change,
         Age, AddFlag, Compute, SetValue, RemoveFlag, DeleteValue
<1>2. faults' = faults \/ (faults < MaxFaults /\ faults' = faults + 1)
  BY DEF MemNext, MemCall, MemStep, CallMisses, CallFindsExpired, EditLibrary, KillThread, Change,
         Age, AddFlag, Compute, SetValue, RemoveFlag, DeleteValue
<1>3. value' = value \/ value' = NoValue \/ \E t \in Threads : value' = computed[t]
  BY DEF MemNext, MemCall, MemStep, CallMisses, CallFindsExpired, EditLibrary, KillThread, Change,
         Age, AddFlag, Compute, SetValue, RemoveFlag, DeleteValue
<1>4. computed' = computed \/ \E t \in Threads : computed' = [computed EXCEPT ![t] = result]
  BY DEF MemNext, MemCall, MemStep, CallMisses, CallFindsExpired, EditLibrary, KillThread, Change,
         Age, AddFlag, Compute, SetValue, RemoveFlag, DeleteValue
<1>5. QED
  BY <1>1, <1>2, <1>3, <1>4, NumbersKeepTypes

LEMMA MemNextThreads ==
    ASSUME MemTypeOK, MemNext PROVE thread' \in [Threads -> MemPcs]
<1>1. thread \in [Threads -> MemPcs]
  BY DEF MemTypeOK
<1>2. thread' = thread \/ \E t \in Threads, l \in MemPcs : thread' = [thread EXCEPT ![t] = l]
  <2>1. ASSUME NEW t \in Threads, NEW l \in MemPcs, MemGoto(t, l)
        PROVE  \E u \in Threads, k \in MemPcs : thread' = [thread EXCEPT ![u] = k]
    BY <2>1 DEF MemGoto
  <2>2. ASSUME NEW t \in Threads, MemCall(t) \/ EditLibrary(t) \/ KillThread(t)
        PROVE  \E l \in MemPcs : MemGoto(t, l)
    BY <2>2 DEF MemCall, CallMisses, CallFindsExpired, EditLibrary, KillThread, MemPcs
  <2>3. ASSUME NEW t \in Threads, MemStep(t) PROVE \E l \in MemPcs : MemGoto(t, l)
    BY <2>3 DEF MemStep, AddFlag, Compute, SetValue, RemoveFlag, DeleteValue, AfterRaise, MemPcs
  <2>4. CASE Change \/ Age
    BY <2>4 DEF Change, Age
  <2>5. CASE \E t \in Threads : MemCall(t) \/ MemStep(t) \/ EditLibrary(t) \/ KillThread(t)
    BY <2>1, <2>2, <2>3, <2>5
  <2>6. QED
    BY <2>4, <2>5 DEF MemNext
<1>3. QED
  BY <1>1, <1>2

\* Flags are truth values, and what expires is a value.
LEMMA MemNextFlags ==
    ASSUME MemTypeOK, MemNext
    PROVE  /\ expired' \in BOOLEAN /\ flag' \in BOOLEAN /\ orphan' \in BOOLEAN
           /\ expired' => value' # NoValue
<1>1. /\ expired \in BOOLEAN /\ flag \in BOOLEAN /\ orphan \in BOOLEAN
      /\ expired => value # NoValue
  BY DEF MemTypeOK
<1>2. CASE Age
  BY <1>1, <1>2 DEF Age
<1>3. CASE Change
  BY <1>1, <1>3 DEF Change
<1>4. ASSUME NEW t \in Threads, MemCall(t) \/ EditLibrary(t) \/ Compute(t)
      PROVE  UNCHANGED <<value, expired, flag, orphan>>
  <2>1. CASE MemCall(t)
    BY <2>1 DEF MemCall, CallMisses, CallFindsExpired
  <2>2. CASE EditLibrary(t)
    BY <2>2 DEF EditLibrary
  <2>3. CASE Compute(t)
    BY <2>3 DEF Compute
  <2>4. QED
    BY <1>4, <2>1, <2>2, <2>3
<1>5. ASSUME NEW t \in Threads, AddFlag(t) \/ RemoveFlag(t)
      PROVE  (flag' = TRUE \/ flag' = FALSE) /\ UNCHANGED <<value, expired, orphan>>
  BY <1>5 DEF AddFlag, RemoveFlag
<1>6. ASSUME NEW t \in Threads, SetValue(t) \/ DeleteValue(t)
      PROVE  expired' = FALSE /\ UNCHANGED <<flag, orphan>>
  BY <1>6 DEF SetValue, DeleteValue
<1>7. ASSUME NEW t \in Threads, KillThread(t)
      PROVE  orphan' \in BOOLEAN /\ UNCHANGED <<value, expired, flag>>
  BY <1>1, <1>7 DEF KillThread
<1>8. ASSUME NEW t \in Threads, MemCall(t) \/ MemStep(t) \/ EditLibrary(t) \/ KillThread(t)
      PROVE  /\ expired' \in BOOLEAN /\ flag' \in BOOLEAN /\ orphan' \in BOOLEAN
             /\ expired' => value' # NoValue
  <2>1. CASE MemCall(t) \/ EditLibrary(t) \/ Compute(t)
    BY <2>1, <1>4, <1>1
  <2>2. CASE AddFlag(t) \/ RemoveFlag(t)
    BY <2>2, <1>5, <1>1
  <2>3. CASE SetValue(t) \/ DeleteValue(t)
    BY <2>3, <1>6, <1>1
  <2>4. CASE KillThread(t)
    BY <2>4, <1>7, <1>1
  <2>5. QED
    BY <1>8, <2>1, <2>2, <2>3, <2>4 DEF MemStep
<1>9. QED
  BY <1>2, <1>3, <1>8 DEF MemNext

LEMMA MemNextType == ASSUME MemTypeOK, MemNext PROVE MemTypeOK'
BY MemNextNumbers, MemNextThreads, MemNextFlags DEF MemTypeOK

----------------------------------------------------------------------------
(* The owner of the flag, action by action *)

\* A thread that does not go into or out of a refresh changes nothing.
LEMMA ElsewhereOwner ==
    ASSUME MemInv, UNCHANGED <<flag, orphan>>, Refreshing' = Refreshing PROVE OneOwner'
BY DEF MemInv, OneOwner

LEMMA MemStepOwner ==
    ASSUME MemInv, NEW t \in Threads, MemStep(t) PROVE OneOwner'
<1> USE DEF MemInv
<1>1. CASE AddFlag(t)
  <2>1. CASE flag
    <3>1. Refreshing' = Refreshing
      BY <1>1, <2>1 DEF MemTypeOK, AddFlag, MemGoto, Refreshing
    <3>2. flag' = flag /\ orphan' = orphan
      BY <1>1, <2>1 DEF MemTypeOK, AddFlag
    <3>3. QED
      BY <3>1, <3>2, ElsewhereOwner
  <2>2. CASE ~flag
    <3>1. Refreshing = {} /\ ~orphan
      BY <2>2 DEF OneOwner
    <3>2. Refreshing' = {t}
      BY <1>1, <2>2, <3>1 DEF MemTypeOK, AddFlag, MemGoto, Refreshing
    <3>3. flag' = TRUE /\ orphan' = orphan
      BY <1>1 DEF AddFlag
    <3>4. QED
      BY <3>1, <3>2, <3>3 DEF OneOwner
  <2>3. QED
    BY <2>1, <2>2
<1>2. CASE Compute(t)
  <2>1. Refreshing' = Refreshing
    BY <1>2 DEF MemTypeOK, Compute, MemGoto, AfterRaise, Refreshing
  <2>2. QED
    BY <1>2, <2>1, ElsewhereOwner DEF Compute
<1>3. CASE SetValue(t)
  <2>1. Refreshing' = Refreshing
    BY <1>3 DEF MemTypeOK, SetValue, MemGoto, Refreshing
  <2>2. QED
    BY <1>3, <2>1, ElsewhereOwner DEF SetValue
<1>4. CASE RemoveFlag(t)
  <2>1. t \in Refreshing /\ Refreshing' = Refreshing \ {t}
    BY <1>4 DEF MemTypeOK, RemoveFlag, MemGoto, Refreshing
  <2>2. Refreshing = {t} /\ ~orphan
    BY <2>1 DEF OneOwner
  <2>3. Refreshing' = {} /\ flag' = FALSE /\ orphan' = orphan
    BY <1>4, <2>1, <2>2 DEF RemoveFlag
  <2>4. QED
    BY <2>2, <2>3 DEF OneOwner
<1>5. CASE DeleteValue(t)
  <2>1. Refreshing' = Refreshing
    BY <1>5 DEF MemTypeOK, DeleteValue, MemGoto, Refreshing
  <2>2. QED
    BY <1>5, <2>1, ElsewhereOwner DEF DeleteValue
<1>6. QED
  BY <1>1, <1>2, <1>3, <1>4, <1>5 DEF MemStep

LEMMA MemRestOwner ==
    ASSUME MemInv, Change \/ Age \/ \E t \in Threads : MemCall(t) \/ EditLibrary(t) PROVE OneOwner'
<1>1. Refreshing' = Refreshing
  BY DEF MemInv, MemTypeOK, Change, Age, MemCall, CallMisses, CallFindsExpired, EditLibrary,
         MemGoto, Refreshing
<1>2. UNCHANGED <<flag, orphan>>
  BY DEF Change, Age, MemCall, CallMisses, CallFindsExpired, EditLibrary
<1>3. QED
  BY <1>1, <1>2, ElsewhereOwner

\* A kill during a refresh orphans the flag, and no refresh is left.
LEMMA KillOwner ==
    ASSUME MemInv, NEW t \in Threads, KillThread(t) PROVE OneOwner'
<1>1. Refreshing' = Refreshing \ {t}
  BY DEF MemInv, MemTypeOK, KillThread, MemGoto, Refreshing
<1>2. flag' = flag /\ (orphan' <=> orphan \/ t \in Refreshing)
  BY DEF KillThread
<1>3. QED
  BY <1>1, <1>2 DEF MemInv, OneOwner

----------------------------------------------------------------------------
LEMMA MemNextInv == MemInv /\ [MemNext]_memVars => MemInv'
<1> SUFFICES ASSUME MemInv, [MemNext]_memVars PROVE MemInv'
  OBVIOUS
<1>1. CASE UNCHANGED memVars
  BY <1>1 DEF memVars, MemInv, MemTypeOK, OneOwner, Refreshing
<1>2. CASE MemNext
  <2>1. MemTypeOK'
    BY <1>2, MemNextType DEF MemInv
  <2>2. OneOwner'
    BY <1>2, MemStepOwner, MemRestOwner, KillOwner DEF MemNext
  <2>3. QED
    BY <2>1, <2>2 DEF MemInv
<1>3. QED
  BY <1>1, <1>2

LEMMA MemInvariant == MemSpec => []MemInv
<1>1. QED
  BY MemInitInv, MemNextInv, PTL DEF MemSpec

\* The variables of a memoized function keep their types, and an age has a value,
\* for any threads (memcache_memoize of cache.py).
THEOREM MemTypeCorrect == MemSpec => []MemTypeOK
<1>1. MemInv => MemTypeOK
  BY DEF MemInv
<1>2. QED
  BY <1>1, MemInvariant, PTL

\* At most one of any number of threads refreshes a value, and a flag that no
\* thread is going to remove was left by one that was killed
\* (_update_async_worker).
THEOREM FlagOwners == MemSpec => []FlagsHaveAnOwner
<1>1. ASSUME MemInv PROVE FlagsHaveAnOwner
  <2>1. Cardinality(Refreshing) <= 1
    <3>1. CASE Refreshing = {}
      BY <3>1, FS_EmptySet
    <3>2. CASE Refreshing # {}
      <4>1. PICK t \in Refreshing : TRUE
        BY <3>2
      <4>2. Refreshing = {t}
        BY <1>1, <4>1 DEF MemInv, OneOwner
      <4>3. QED
        BY <4>2, FS_Singleton
    <3>3. QED
      BY <3>1, <3>2
  <2>2. QED
    BY <1>1, <2>1 DEF MemInv, OneOwner, FlagsHaveAnOwner
<1>2. QED
  BY <1>1, MemInvariant, PTL

----------------------------------------------------------------------------
(* ImportQueue: the inductive invariant.  It falls into the rows and what    *)
(* batches add to them; the requests in the server and the editions they     *)
(* make; and the bots and the answers they wait for.                         *)

\* What a batch is about to insert is not in the queue, and no other batch is about
\* to insert it, unless two have raced.
QueueInv ==
    /\ import_item \in Seq(Row) /\ adding \in [Batches -> SUBSET Items] /\ raced \subseteq Items
    /\ \A b \in Batches : \A i \in adding[b] :
          i \in raced \/ \A n \in Rows : import_item[n].ia_id # i
    /\ \A b, c \in Batches : b # c => adding[b] \cap adding[c] \subseteq raced
    /\ ItemsAreQueuedOnce

\* Unless requests for an item overlapped, one may make an edition of it, and goes
\* to make it only when there is none.
ServerInv ==
    /\ server \in Seq(ServerRequest) /\ editions \in [Items -> Nat] /\ overlapped \subseteq Items
    /\ \A i \in Items \ overlapped :
          /\ \A m, n \in Importing(i) : m = n
          /\ \A n \in Importing(i) : server[n].pc = "make" => editions[i] = 0
          /\ editions[i] <= 1

BotType == [todo: Seq(Rows), tries: 0..Retries, waits: BOOLEAN]

\* A bot waits exactly if there is a request that it waits for, and for one only.
AnswersInv ==
    /\ bot \in [Bots -> BotType] /\ failures \in 0..MaxFailures
    /\ \A m, n \in 1..Len(server) :
          server[m].bot = server[n].bot /\ server[n].bot # NoBot => m = n
    /\ \A b \in Bots :
          /\ bot[b].waits => bot[b].todo # <<>> /\ bot[b].tries < Retries
          /\ bot[b].waits <=> \E n \in 1..Len(server) : server[n].bot = b

IQInv == QueueInv /\ ServerInv /\ AnswersInv

----------------------------------------------------------------------------
(* ImportQueue: lemmas about its sequences *)

LEMMA RemoveAtIs ==
    ASSUME NEW S, NEW s \in Seq(S), NEW n \in 1..Len(s)
    PROVE  /\ RemoveAt(s, n) \in Seq(S) /\ Len(RemoveAt(s, n)) = Len(s) - 1
           /\ \A m \in 1..(Len(s) - 1) : RemoveAt(s, n)[m] = s[IF m < n THEN m ELSE m + 1]
<1> DEFINE head == SubSeq(s, 1, n - 1)
           tail == SubSeq(s, n + 1, Len(s))
<1>1. head \in Seq(S) /\ Len(head) = n - 1 /\ \A m \in 1..(n - 1) : head[m] = s[m]
  OBVIOUS
<1>2. /\ tail \in Seq(S) /\ Len(tail) = Len(s) - n
      /\ \A m \in 1..(Len(s) - n) : tail[m] = s[n + m]
  OBVIOUS
<1>3. RemoveAt(s, n) = head \o tail
  BY DEF RemoveAt
<1> HIDE DEF head, tail
<1>4. /\ head \o tail \in Seq(S) /\ Len(head \o tail) = Len(head) + Len(tail)
      /\ \A m \in 1..(Len(head) + Len(tail)) :
            (head \o tail)[m] = IF m <= Len(head) THEN head[m] ELSE tail[m - Len(head)]
  BY <1>1, <1>2, ConcatProperties
<1>5. Len(head \o tail) = Len(s) - 1
  BY <1>1, <1>2, <1>4
<1>6. \A m \in 1..(Len(s) - 1) : (head \o tail)[m] = s[IF m < n THEN m ELSE m + 1]
  BY <1>1, <1>2, <1>4
<1>7. QED
  BY <1>3, <1>4, <1>5, <1>6

\* Of the requests in the server the n-th becomes one of rs, or goes; the others stay.
Goes(n, rs, kept) ==
    /\ kept \in [1..Len(server') -> 1..Len(server)]
    /\ \A l, m \in 1..Len(server') : kept[l] = kept[m] => l = m
    /\ \A m \in 1..Len(server) : m # n => \E l \in 1..Len(server') : kept[l] = m
    /\ \A m \in 1..Len(server') :
          IF kept[m] = n THEN server'[m] \in rs ELSE server'[m] = server[kept[m]]

LEMMA RequestRemoved ==
    ASSUME ServerInv, NEW n \in 1..Len(server), server' = RemoveAt(server, n)
    PROVE  server' \in Seq(ServerRequest) /\ \E kept : Goes(n, {}, kept)
<1> DEFINE kept == [m \in 1..(Len(server) - 1) |-> IF m < n THEN m ELSE m + 1]
<1>1. server \in Seq(ServerRequest) /\ Len(server) \in Nat
  BY DEF ServerInv
<1>2. /\ server' \in Seq(ServerRequest) /\ Len(server') = Len(server) - 1
      /\ \A m \in 1..(Len(server) - 1) : server'[m] = server[IF m < n THEN m ELSE m + 1]
  BY <1>1, RemoveAtIs
<1>3. /\ kept \in [1..Len(server') -> 1..Len(server)]
      /\ \A m \in 1..Len(server') : kept[m] # n /\ server'[m] = server[kept[m]]
  BY <1>1, <1>2
<1>4. \A l, m \in 1..Len(server') : kept[l] = kept[m] => l = m
  BY <1>1, <1>2
<1>5. ASSUME NEW m \in 1..Len(server), m # n PROVE \E l \in 1..Len(server') : kept[l] = m
  <2>1. CASE m < n
    <3>1. m \in 1..Len(server') /\ kept[m] = m
      BY <1>1, <1>2, <2>1
    <3>2. QED
      BY <3>1
  <2>2. CASE m > n
    <3>1. m - 1 \in 1..Len(server') /\ kept[m - 1] = m
      BY <1>1, <1>2, <2>2
    <3>2. QED
      BY <3>1
  <2>3. m < n \/ m > n
    BY <1>1, <1>5
  <2>4. QED
    BY Zenon, <2>1, <2>2, <2>3
<1> HIDE DEF kept
<1>6. Goes(n, {}, kept)
  <2>1. \A m \in 1..Len(server') :
           IF kept[m] = n THEN server'[m] \in {} ELSE server'[m] = server[kept[m]]
    BY <1>3
  <2>2. QED
    BY Zenon, <1>3, <1>4, <1>5, <2>1 DEF Goes
<1>7. QED
  BY Zenon, <1>2, <1>6

LEMMA RequestChanged ==
    ASSUME ServerInv, NEW n \in 1..Len(server), NEW r \in ServerRequest,
           server' = [server EXCEPT ![n] = r]
    PROVE  server' \in Seq(ServerRequest) /\ \E kept : Goes(n, {r}, kept)
<1> DEFINE kept == [m \in 1..Len(server) |-> m]
<1>1. server \in Seq(ServerRequest) /\ Len(server) \in Nat
  BY DEF ServerInv
<1>2. /\ server' \in Seq(ServerRequest) /\ Len(server') = Len(server)
      /\ \A m \in 1..Len(server) : server'[m] = IF m = n THEN r ELSE server[m]
  BY <1>1
<1>3. Goes(n, {r}, kept)
  BY <1>1, <1>2 DEF Goes
<1>4. QED
  BY <1>2, <1>3

\* The requests that may make an edition are those that might before, but for the
\* one that has changed.
LEMMA ServerStep ==
    ASSUME ServerInv, server' \in Seq(ServerRequest), overlapped' = overlapped,
           NEW n \in 1..Len(server), NEW rs, NEW kept, Goes(n, rs, kept),
           \A r \in rs : /\ r.ia_id = server[n].ia_id
                         /\ r.pc \in {"find", "make"} => server[n].pc \in {"find", "make"}
                         /\ r.pc = "make" => server[n].pc = "make" \/ editions[r.ia_id] = 0,
           editions' \in [Items -> Nat],
           \A i \in Items \ overlapped :
              \/ editions'[i] = editions[i]
              \/ editions[i] = 0 /\ editions'[i] = 1 /\ Importing(i)' = {}
    PROVE  ServerInv'
<1>1. ASSUME NEW i, NEW m \in Importing(i)'
      PROVE  /\ kept[m] \in Importing(i)
             /\ server'[m].pc = "make" => server[kept[m]].pc = "make" \/ editions[i] = 0
  BY <1>1 DEF Importing, Goes
<1>2. ASSUME NEW i \in Items \ overlapped, NEW l \in Importing(i)', NEW m \in Importing(i)'
      PROVE  l = m
  <2>1. kept[l] = kept[m]
    BY <1>1 DEF ServerInv
  <2>2. QED
    BY <2>1 DEF Goes, Importing
<1>3. ASSUME NEW i \in Items \ overlapped, NEW m \in Importing(i)', server'[m].pc = "make"
      PROVE  editions'[i] = 0
  <2>1. editions[i] = 0
    BY <1>1, <1>3 DEF ServerInv
  <2>2. QED
    BY <2>1
<1>4. \A i \in Items \ overlapped : editions'[i] <= 1
  BY DEF ServerInv
<1>5. QED
  BY <1>2, <1>3, <1>4 DEF ServerInv

\* Bots other than b wait for what they waited for.
LEMMA AnswersStep ==
    ASSUME AnswersInv, ServerInv, NEW b \in Bots, NEW n \in 1..Len(server), NEW rs, NEW kept,
           Goes(n, rs, kept), server[n].bot \in {b, NoBot}, server' \in Seq(ServerRequest),
           \A r \in rs : r.bot = NoBot,
           bot' \in [Bots -> BotType'], failures' \in 0..MaxFailures,
           \A c \in Bots \ {b} : bot'[c] = bot[c],
           bot'[b].waits => bot'[b].todo # <<>> /\ bot'[b].tries < Retries,
           bot'[b].waits <=> \E m \in 1..Len(server') : server'[m].bot = b
    PROVE  AnswersInv'
<1>1. NoBot \notin Bots /\ Len(server) \in Nat /\ Len(server') \in Nat
  BY ImportQueueAssumption DEF ServerInv
<1>2. ASSUME NEW m \in 1..Len(server'), server'[m].bot # NoBot
      PROVE  kept[m] # n /\ kept[m] \in 1..Len(server) /\ server'[m] = server[kept[m]]
  BY <1>2 DEF Goes
<1>3. ASSUME NEW l \in 1..Len(server'), NEW m \in 1..Len(server'),
             server'[l].bot = server'[m].bot, server'[m].bot # NoBot
      PROVE  l = m
  <2>1. /\ kept[l] \in 1..Len(server) /\ kept[m] \in 1..Len(server)
        /\ server[kept[l]].bot = server[kept[m]].bot /\ server[kept[m]].bot # NoBot
    BY <1>2, <1>3
  <2>2. kept[l] = kept[m]
    BY <2>1 DEF AnswersInv
  <2>3. QED
    BY <2>2 DEF Goes
<1>4. ASSUME NEW c \in Bots, c # b
      PROVE  (\E m \in 1..Len(server') : server'[m].bot = c)
             <=> \E m \in 1..Len(server) : server[m].bot = c
  <2>1. ASSUME NEW m \in 1..Len(server'), server'[m].bot = c
        PROVE  \E l \in 1..Len(server) : server[l].bot = c
    BY <1>1, <1>2, <2>1
  <2>2. ASSUME NEW m \in 1..Len(server), server[m].bot = c
        PROVE  \E l \in 1..Len(server') : server'[l].bot = c
    <3>1. m # n
      BY <1>1, <1>4, <2>2
    <3>2. PICK l \in 1..Len(server') : kept[l] = m
      BY <3>1 DEF Goes
    <3>3. server'[l] = server[m]
      BY <3>1, <3>2 DEF Goes
    <3>4. QED
      BY <2>2, <3>3
  <2>3. QED
    BY <2>1, <2>2
<1>5. ASSUME NEW c \in Bots
      PROVE  /\ bot'[c].waits => bot'[c].todo # <<>> /\ bot'[c].tries < Retries
             /\ bot'[c].waits <=> \E m \in 1..Len(server') : server'[m].bot = c
  BY <1>4 DEF AnswersInv
<1>6. QED
  BY <1>3, <1>5 DEF AnswersInv

\* The server goes on with a request, and its bot with waiting.
LEMMA AnswersKept ==
    ASSUME AnswersInv, ServerInv, NEW n \in 1..Len(server), NEW rs, NEW kept, Goes(n, rs, kept),
           rs = {} => server[n].bot = NoBot, \A r \in rs : r.bot = server[n].bot,
           rs # {} => \E m \in 1..Len(server') : kept[m] = n,
           server' \in Seq(ServerRequest), UNCHANGED <<bot, failures, import_item>>
    PROVE  AnswersInv'
<1>1. NoBot \notin Bots /\ BotType' = BotType
  BY ImportQueueAssumption DEF BotType, Rows
<1>2. \A m \in 1..Len(server') :
         kept[m] \in 1..Len(server) /\ server'[m].bot = server[kept[m]].bot
  BY DEF Goes
<1>3. ASSUME NEW l \in 1..Len(server'), NEW m \in 1..Len(server'),
             server'[l].bot = server'[m].bot, server'[m].bot # NoBot
      PROVE  l = m
  <2>1. /\ kept[l] \in 1..Len(server) /\ kept[m] \in 1..Len(server)
        /\ server[kept[l]].bot = server[kept[m]].bot /\ server[kept[m]].bot # NoBot
    BY <1>2, <1>3
  <2>2. kept[l] = kept[m]
    BY <2>1 DEF AnswersInv
  <2>3. QED
    BY <2>2 DEF Goes
<1>4. ASSUME NEW c \in Bots
      PROVE  (\E m \in 1..Len(server') : server'[m].bot = c)
             <=> \E m \in 1..Len(server) : server[m].bot = c
  <2>1. ASSUME NEW m \in 1..Len(server), server[m].bot = c
        PROVE  \E l \in 1..Len(server') : server'[l].bot = c
    <3>1. \E l \in 1..Len(server') : kept[l] = m
      BY <1>1, <2>1 DEF Goes
    <3>2. QED
      BY <1>2, <2>1, <3>1
  <2>2. QED
    BY <1>2, <2>1
<1>5. QED
  BY <1>1, <1>3, <1>4 DEF AnswersInv

----------------------------------------------------------------------------
(* ImportQueue: rows *)

\* A row gets a status, or nothing happens to it.
LEMMA QueueKept ==
    ASSUME QueueInv, import_item' \in Seq(Row), Len(import_item') = Len(import_item),
           \A n \in Rows : import_item'[n].ia_id = import_item[n].ia_id,
           UNCHANGED <<adding, raced>>
    PROVE  QueueInv'
BY DEF QueueInv, Rows, ItemsAreQueuedOnce

LEMMA StatusQueue ==
    ASSUME QueueInv, NEW n \in Rows, NEW status \in {"pending", "created", "matched", "failed"},
           import_item' = [import_item EXCEPT ![n].status = status],
           UNCHANGED <<adding, raced>>
    PROVE  QueueInv' /\ Rows' = Rows
<1>1. import_item \in Seq(Row) /\ import_item[n] \in Row /\ Len(import_item) \in Nat
  BY DEF QueueInv, Rows
<1>2. [import_item[n] EXCEPT !.status = status] \in Row
      /\ [import_item[n] EXCEPT !.status = status].ia_id = import_item[n].ia_id
  BY <1>1 DEF Row
<1>3. import_item' = [import_item EXCEPT ![n] = [import_item[n] EXCEPT !.status = status]]
  OBVIOUS
<1>4. import_item' \in Seq(Row) /\ Len(import_item') = Len(import_item)
  BY <1>1, <1>2, <1>3 DEF Rows
<1>5. \A m \in Rows : import_item'[m].ia_id = import_item[m].ia_id
  BY <1>1, <1>2, <1>3 DEF Rows
<1>6. QED
  BY <1>4, <1>5, QueueKept DEF Rows

LEMMA SelectQueue == ASSUME QueueInv, NEW b \in Batches, SelectPresent(b) PROVE QueueInv'
<1>1. PICK items \in SUBSET Items :
        adding' = [adding EXCEPT ![b] = items \ AlreadyPresent(b, items)]
  BY DEF SelectPresent
<1>2. /\ adding \in [Batches -> SUBSET Items] /\ import_item' = import_item
      /\ raced' = raced \cup {i \in adding'[b] : \E c \in Batches \ {b} : i \in adding[c]}
  BY DEF SelectPresent, QueueInv
<1>3. /\ adding' \in [Batches -> SUBSET Items] /\ adding'[b] = items \ AlreadyPresent(b, items)
      /\ \A c \in Batches \ {b} : adding'[c] = adding[c]
  BY <1>1, <1>2
<1>4. raced' \subseteq Items /\ raced \subseteq raced'
  BY <1>2, <1>3 DEF QueueInv
<1>5. ASSUME NEW c \in Batches, NEW i \in adding'[c]
      PROVE  i \in raced' \/ \A n \in Rows : import_item[n].ia_id # i
  BY <1>3, <1>4, <1>5 DEF QueueInv, AlreadyPresent
<1>6. ASSUME NEW c \in Batches, NEW d \in Batches, c # d
      PROVE  adding'[c] \cap adding'[d] \subseteq raced'
  BY <1>2, <1>3, <1>4, <1>6 DEF QueueInv
<1>7. QED
  BY <1>2, <1>3, <1>4, <1>5, <1>6 DEF QueueInv, Rows, ItemsAreQueuedOnce

LEMMA InsertQueue ==
    ASSUME QueueInv, NEW b \in Batches, InsertItems(b)
    PROVE  QueueInv' /\ Len(import_item) \in Nat /\ Rows \subseteq Rows'
<1>1. PICK rows \in SetToSeqs(adding[b]) :
        import_item' = import_item \o
            [n \in DOMAIN rows |-> [batch |-> b, ia_id |-> rows[n], status |-> "pending"]]
  BY DEF InsertItems
<1> DEFINE new == [n \in DOMAIN rows |-> [batch |-> b, ia_id |-> rows[n], status |-> "pending"]]
           N == Cardinality(adding[b])
<1>2. /\ adding \in [Batches -> SUBSET Items] /\ import_item \in Seq(Row)
      /\ UNCHANGED raced /\ adding' = [adding EXCEPT ![b] = {}]
  BY DEF InsertItems, QueueInv
<1>3. N \in Nat
  BY <1>2, ImportQueueAssumption, FS_Subset, FS_CardinalityType
<1>4. /\ DOMAIN rows = 1..N /\ \A n \in 1..N : rows[n] \in adding[b]
      /\ \A m, n \in 1..N : m # n => rows[m] # rows[n]
  BY DEF SetToSeqs
<1>5. new \in Seq(Row) /\ Len(new) = N /\ \A n \in 1..N : new[n].ia_id = rows[n]
  <2>1. new \in [1..N -> Row]
    BY <1>2, <1>4 DEF Row
  <2>2. QED
    BY <1>3, <1>4, <2>1
<1> HIDE DEF new, N
<1>6. /\ import_item' \in Seq(Row) /\ Len(import_item') = Len(import_item) + N
      /\ Len(import_item) \in Nat
      /\ \A n \in 1..(Len(import_item) + N) : import_item'[n] =
            IF n <= Len(import_item) THEN import_item[n] ELSE new[n - Len(import_item)]
  <2>1. import_item' = import_item \o new
    BY <1>1 DEF new
  <2>2. /\ import_item \o new \in Seq(Row)
        /\ Len(import_item \o new) = Len(import_item) + Len(new)
        /\ \A n \in 1..(Len(import_item) + Len(new)) : (import_item \o new)[n] =
              IF n <= Len(import_item) THEN import_item[n] ELSE new[n - Len(import_item)]
    BY <1>2, <1>5, ConcatProperties
  <2>3. QED
    BY <1>2, <1>5, <2>1, <2>2
<1>7. \A c \in Batches : adding'[c] = IF c = b THEN {} ELSE adding[c]
  BY <1>2
<1>8. \A n \in Rows' : \/ n \in Rows /\ import_item'[n] = import_item[n]
                       \/ /\ n \notin Rows /\ n - Len(import_item) \in 1..N
                          /\ import_item'[n].ia_id = rows[n - Len(import_item)]
  BY <1>3, <1>5, <1>6 DEF Rows
<1>9. ASSUME NEW c \in Batches, NEW i \in adding'[c], NEW n \in Rows', i \notin raced
      PROVE  import_item'[n].ia_id # i
  <2>1. c # b /\ i \in adding[c]
    BY <1>7, <1>9
  <2>2. i \notin adding[b]
    BY <1>9, <2>1 DEF QueueInv
  <2>3. QED
    BY <1>4, <1>8, <1>9, <2>1, <2>2 DEF QueueInv
<1>10. ASSUME NEW m \in Rows', NEW n \in Rows', m # n,
              import_item'[m].ia_id = import_item'[n].ia_id, import_item'[m].ia_id \notin raced
       PROVE  FALSE
  <2>1. \A l \in Rows : \A i \in adding[b] : i \in raced \/ import_item[l].ia_id # i
    BY DEF QueueInv
  <2>2. m \in Rows /\ n \in Rows => FALSE
    BY <1>8, <1>10 DEF QueueInv, ItemsAreQueuedOnce
  <2>3. m \in Rows /\ n \notin Rows => FALSE
    BY <1>4, <1>8, <1>10, <2>1
  <2>4. m \notin Rows /\ n \in Rows => FALSE
    BY <1>4, <1>8, <1>10, <2>1
  <2>5. m \notin Rows /\ n \notin Rows => m - Len(import_item) = n - Len(import_item)
    BY <1>4, <1>8, <1>10
  <2>6. m \in Nat /\ n \in Nat
    BY <1>3, <1>6 DEF Rows
  <2>7. QED
    BY <1>6, <1>10, <2>2, <2>3, <2>4, <2>5, <2>6
<1>11. adding' \in [Batches -> SUBSET Items]
  BY <1>2
<1>12. \A c, d \in Batches : c # d => adding'[c] \cap adding'[d] \subseteq raced'
  BY <1>2, <1>7 DEF QueueInv
<1>13. QueueInv'
  BY <1>2, <1>6, <1>9, <1>10, <1>11, <1>12 DEF QueueInv, ItemsAreQueuedOnce
<1>14. QED
  BY <1>3, <1>6, <1>13 DEF Rows

----------------------------------------------------------------------------
(* ImportQueue: bots *)

LEMMA BotIs ==
    ASSUME IQInv, NEW b \in Bots
    PROVE  /\ bot[b].todo \in Seq(Rows) /\ bot[b].tries \in 0..Retries /\ bot[b].waits \in BOOLEAN
           /\ bot[b].todo # <<>> => Head(bot[b].todo) \in Rows /\ Tail(bot[b].todo) \in Seq(Rows)
           /\ Len(import_item) \in Nat /\ Len(server) \in Nat
<1>1. bot[b] \in BotType
  BY DEF IQInv, AnswersInv
<1>2. bot[b].todo \in Seq(Rows) /\ bot[b].tries \in 0..Retries /\ bot[b].waits \in BOOLEAN
  BY <1>1 DEF BotType
<1>3. Len(import_item) \in Nat /\ Len(server) \in Nat
  BY DEF IQInv, QueueInv, ServerInv
<1>4. QED
  BY <1>2, <1>3

LEMMA TakesPending == ASSUME IQInv, NEW b \in Bots, TakePending(b) PROVE IQInv'
<1>1. UNCHANGED <<import_item, adding, server, editions, failures, overlapped, raced>>
  BY DEF TakePending
<1>2. QueueInv' /\ ServerInv' /\ Rows' = Rows
  BY <1>1 DEF IQInv, QueueInv, ServerInv, Rows, ItemsAreQueuedOnce, Importing
<1>3. \E S \in SUBSET Rows : \E todo \in SetToSeqs(S) :
         todo # <<>> /\ bot' = [bot EXCEPT ![b].todo = todo]
  <2>1. PICK batches : \E todo \in SetToSeqs({n \in Rows : Pending(n) /\ import_item[n].batch \in batches}) :
          todo # <<>> /\ bot' = [bot EXCEPT ![b].todo = todo]
    BY DEF TakePending
  <2>2. {n \in Rows : Pending(n) /\ import_item[n].batch \in batches} \in SUBSET Rows
    OBVIOUS
  <2>3. QED
    BY <2>1, <2>2
<1>4. PICK todo \in Seq(Rows) : todo # <<>> /\ bot' = [bot EXCEPT ![b].todo = todo]
  <2>1. PICK S \in SUBSET Rows : \E todo \in SetToSeqs(S) :
          todo # <<>> /\ bot' = [bot EXCEPT ![b].todo = todo]
    BY <1>3
  <2>2. IsFiniteSet(Rows)
    <3>1. 1 \in Int /\ Len(import_item) \in Int
      BY BotIs
    <3>2. QED
      BY <3>1, FS_Interval DEF Rows
  <2>3. Cardinality(S) \in Nat
    BY <2>2, FS_Subset, FS_CardinalityType
  <2>4. \A todo \in SetToSeqs(S) : todo \in [1..Cardinality(S) -> S]
    BY DEF SetToSeqs
  <2>5. \A todo \in SetToSeqs(S) : todo \in Seq(Rows)
    BY <2>3, <2>4
  <2>6. QED
    BY <2>1, <2>5
<1>5. /\ bot \in [Bots -> BotType] /\ BotType' = BotType
      /\ bot' = [bot EXCEPT ![b] = [bot[b] EXCEPT !.todo = todo]]
  BY <1>2, <1>4 DEF IQInv, AnswersInv, BotType
<1>6. /\ [bot[b] EXCEPT !.todo = todo] \in BotType
      /\ [bot[b] EXCEPT !.todo = todo].todo = todo
      /\ [bot[b] EXCEPT !.todo = todo].waits = bot[b].waits
      /\ [bot[b] EXCEPT !.todo = todo].tries = bot[b].tries
  BY <1>5 DEF BotType
<1>7. /\ bot' \in [Bots -> BotType'] /\ bot'[b].todo # <<>> /\ bot'[b].waits = bot[b].waits
      /\ bot'[b].tries = bot[b].tries
      /\ \A c \in Bots \ {b} : bot'[c] = bot[c]
  BY <1>4, <1>5, <1>6
<1>8. AnswersInv'
  BY <1>1, <1>7 DEF IQInv, AnswersInv
<1>9. QED
  BY <1>2, <1>8 DEF IQInv

LEMMA Asks == ASSUME IQInv, NEW b \in Bots, Ask(b) PROVE IQInv'
<1> DEFINE item == import_item[Head(bot[b].todo)].ia_id
           r == [ia_id |-> item, bot |-> b, pc |-> "find"]
<1>1. /\ UNCHANGED <<import_item, adding, editions, failures, raced>>
      /\ bot[b].todo # <<>> /\ ~bot[b].waits /\ bot[b].tries < Retries /\ server' = Append(server, r)
      /\ overlapped' = IF Importing(item) = {} THEN overlapped ELSE overlapped \cup {item}
      /\ bot' = [bot EXCEPT ![b].waits = TRUE]
  BY DEF Ask
<1>2. QueueInv' /\ Rows' = Rows
  BY <1>1 DEF IQInv, QueueInv, Rows, ItemsAreQueuedOnce
<1>3. /\ server \in Seq(ServerRequest) /\ Len(server) \in Nat /\ NoBot \notin Bots
      /\ editions \in [Items -> Nat] /\ overlapped \subseteq Items
  BY ImportQueueAssumption DEF IQInv, ServerInv
<1>4. item \in Items
  <2>1. import_item \in Seq(Row) /\ Head(bot[b].todo) \in Rows
    BY <1>1, BotIs DEF IQInv, QueueInv
  <2>2. import_item[Head(bot[b].todo)] \in Row
    BY <2>1 DEF Rows
  <2>3. QED
    BY <2>2 DEF Row
<1>5. r \in ServerRequest /\ r.ia_id = item /\ r.bot = b /\ r.pc = "find"
  BY <1>4 DEF ServerRequest
<1> HIDE DEF r, item
<1>6. /\ server' \in Seq(ServerRequest) /\ Len(server') = Len(server) + 1
      /\ server'[Len(server) + 1] = r /\ \A n \in 1..Len(server) : server'[n] = server[n]
  BY <1>1, <1>3, <1>5
<1>7. ServerInv'
  <2>1. overlapped \subseteq overlapped' /\ overlapped' \subseteq Items
        /\ (item \notin overlapped' => Importing(item) = {})
    BY <1>1, <1>3, <1>4
  <2>2. ASSUME NEW i, NEW n \in Importing(i)'
        PROVE  \/ n \in Importing(i) /\ server'[n] = server[n]
               \/ i = item /\ n = Len(server) + 1 /\ server'[n].pc = "find"
    BY <1>3, <1>5, <1>6, <2>2 DEF Importing
  <2>3. ASSUME NEW i \in Items \ overlapped'
        PROVE  /\ \A m, n \in Importing(i)' : m = n
               /\ \A n \in Importing(i)' : server'[n].pc = "make" => editions'[i] = 0
               /\ editions'[i] <= 1
    <3>1. i \in Items \ overlapped
      BY <2>1
    <3>2. \A m, n \in Importing(i)' : m = n
      BY <2>1, <2>2, <3>1 DEF IQInv, ServerInv
    <3>3. QED
      BY <1>1, <2>2, <3>1, <3>2 DEF IQInv, ServerInv
  <2>4. QED
    BY <1>1, <1>3, <1>6, <2>1, <2>3 DEF ServerInv
<1>8. AnswersInv'
  <2>1. /\ bot \in [Bots -> BotType] /\ BotType' = BotType
        /\ bot' = [bot EXCEPT ![b] = [bot[b] EXCEPT !.waits = TRUE]]
    BY <1>1, <1>2 DEF IQInv, AnswersInv, BotType
  <2>2. /\ [bot[b] EXCEPT !.waits = TRUE] \in BotType
        /\ [bot[b] EXCEPT !.waits = TRUE].todo = bot[b].todo
        /\ [bot[b] EXCEPT !.waits = TRUE].waits = TRUE
        /\ [bot[b] EXCEPT !.waits = TRUE].tries = bot[b].tries
    BY <2>1 DEF BotType
  <2>3. /\ bot' \in [Bots -> BotType'] /\ bot'[b].todo # <<>> /\ bot'[b].waits
        /\ bot'[b].tries < Retries
        /\ \A c \in Bots \ {b} : bot'[c] = bot[c]
    BY <1>1, <2>1, <2>2
  <2>4. \A n \in 1..Len(server) : server[n].bot # b
    BY <1>1 DEF IQInv, AnswersInv
  <2>5. \A n \in 1..Len(server') : \/ n \in 1..Len(server) /\ server'[n] = server[n]
                                   \/ n = Len(server) + 1 /\ server'[n].bot = b
    BY <1>3, <1>5, <1>6
  <2>6. \A m, n \in 1..Len(server') :
           server'[m].bot = server'[n].bot /\ server'[n].bot # NoBot => m = n
    BY <1>3, <2>4, <2>5 DEF IQInv, AnswersInv
  <2>7. \E n \in 1..Len(server') : server'[n].bot = b
    <3>1. Len(server) + 1 \in 1..Len(server')
      BY <1>3, <1>6
    <3>2. QED
      BY <1>5, <1>6, <3>1
  <2>8. \A c \in Bots \ {b} : (\E n \in 1..Len(server') : server'[n].bot = c)
                               <=> \E n \in 1..Len(server) : server[n].bot = c
    <3>1. \A n \in 1..Len(server) : n \in 1..Len(server') /\ server'[n] = server[n]
      BY <1>3, <1>6
    <3>2. QED
      BY <2>5, <3>1
  <2>9. QED
    BY <1>1, <2>3, <2>6, <2>7, <2>8 DEF IQInv, AnswersInv
<1>9. QED
  BY <1>2, <1>7, <1>8 DEF IQInv

\* A bot has its answer, or gives its request up.
LEMMA StopsWaiting ==
    ASSUME IQInv, NEW b \in Bots, NEW n \in 1..Len(server), server[n].bot = b,
           server' = RemoveAt(server, n) \/ Abandon(n), UNCHANGED <<editions, overlapped>>,
           Rows' = Rows, failures' \in 0..MaxFailures,
           NEW z \in BotType, ~z.waits, bot' = [bot EXCEPT ![b] = z]
    PROVE  ServerInv' /\ AnswersInv'
<1> DEFINE r == [server[n] EXCEPT !.bot = NoBot]
<1>1. /\ server \in Seq(ServerRequest) /\ server[n] \in ServerRequest
      /\ editions' \in [Items -> Nat] /\ NoBot \notin Bots
  BY ImportQueueAssumption DEF IQInv, ServerInv
<1>2. /\ r \in ServerRequest /\ r.bot = NoBot /\ r.ia_id = server[n].ia_id
      /\ r.pc = server[n].pc
  BY <1>1 DEF ServerRequest
<1>3. server' = RemoveAt(server, n) \/ server' = [server EXCEPT ![n] = r]
  BY DEF Abandon
<1> HIDE DEF r
<1>4. PICK rs \in {{}, {r}} : server' \in Seq(ServerRequest) /\ \E kept : Goes(n, rs, kept)
  BY <1>2, <1>3, RequestRemoved, RequestChanged DEF IQInv
<1>5. PICK kept : Goes(n, rs, kept)
  BY <1>4
<1>6. \A q \in rs : /\ q.bot = NoBot /\ q.ia_id = server[n].ia_id /\ q.pc = server[n].pc
  BY <1>2
<1>7. ServerInv'
  <2>1. ServerInv
    BY DEF IQInv
  <2>2. \A i \in Items \ overlapped :
           \/ editions'[i] = editions[i]
           \/ editions[i] = 0 /\ editions'[i] = 1 /\ Importing(i)' = {}
    OBVIOUS
  <2>3. \A q \in rs : /\ q.ia_id = server[n].ia_id
                      /\ q.pc \in {"find", "make"} => server[n].pc \in {"find", "make"}
                      /\ q.pc = "make" => server[n].pc = "make" \/ editions[q.ia_id] = 0
    BY <1>6
  <2>4. QED
    BY <1>1, <1>4, <1>5, <2>1, <2>2, <2>3, ServerStep
<1>8. ASSUME NEW m \in 1..Len(server') PROVE server'[m].bot # b
  <2>1. kept[m] \in 1..Len(server)
    BY <1>5 DEF Goes
  <2>2. CASE kept[m] = n
    <3>1. server'[m] \in rs
      BY <1>5, <2>2 DEF Goes
    <3>2. QED
      BY <1>1, <1>6, <3>1
  <2>3. CASE kept[m] # n
    <3>1. server'[m] = server[kept[m]]
      BY <1>5, <2>3 DEF Goes
    <3>2. server[kept[m]].bot # b
      BY <1>1, <2>1, <2>3 DEF IQInv, AnswersInv
    <3>3. QED
      BY <3>1, <3>2
  <2>4. QED
    BY <2>2, <2>3
<1>9. /\ bot' \in [Bots -> BotType'] /\ bot'[b] = z
      /\ \A c \in Bots \ {b} : bot'[c] = bot[c]
  BY DEF IQInv, AnswersInv, BotType
<1>10. AnswersInv'
  BY <1>4, <1>5, <1>6, <1>8, <1>9, AnswersStep DEF IQInv
<1>11. QED
  BY <1>7, <1>10

LEMMA StatusSet ==
    ASSUME IQInv, NEW b \in Bots, NEW status \in {"pending", "created", "matched", "failed"},
           bot[b].todo # <<>>, SetStatus(b, status), UNCHANGED <<adding, raced>>
    PROVE  /\ QueueInv' /\ Rows' = Rows
           /\ \E z \in BotType : ~z.waits /\ bot' = [bot EXCEPT ![b] = z]
<1> DEFINE z == [IdleBot EXCEPT !.todo = Tail(bot[b].todo)]
<1>1. Head(bot[b].todo) \in Rows /\ Tail(bot[b].todo) \in Seq(Rows)
  BY BotIs
<1>2. QueueInv' /\ Rows' = Rows
  BY <1>1, StatusQueue DEF SetStatus, IQInv
<1>3. IdleBot \in BotType /\ ~IdleBot.waits
  BY ImportQueueAssumption DEF IdleBot, BotType
<1>4. z \in BotType /\ ~z.waits
  BY <1>1, <1>3 DEF BotType
<1>5. bot' = [bot EXCEPT ![b] = z]
  BY DEF SetStatus
<1>6. QED
  BY <1>2, <1>4, <1>5

LEMMA GetsAnswer == ASSUME IQInv, NEW b \in Bots, Answered(b) PROVE IQInv'
<1>1. PICK n \in 1..Len(server) :
        /\ server[n].bot = b /\ server[n].pc \in {"created", "matched"}
        /\ SetStatus(b, server[n].pc) /\ server' = RemoveAt(server, n)
        /\ UNCHANGED <<adding, editions, failures, overlapped, raced>>
  BY DEF Answered
<1>2. bot[b].todo # <<>>
  BY <1>1 DEF IQInv, AnswersInv
<1>3. /\ QueueInv' /\ Rows' = Rows
      /\ \E z \in BotType : ~z.waits /\ bot' = [bot EXCEPT ![b] = z]
  BY <1>1, <1>2, StatusSet
<1>4. failures' \in 0..MaxFailures
  BY <1>1 DEF IQInv, AnswersInv
<1>5. ServerInv' /\ AnswersInv'
  BY <1>1, <1>3, <1>4, StopsWaiting
<1>6. QED
  BY <1>3, <1>5 DEF IQInv

LEMMA GivesUp == ASSUME IQInv, NEW b \in Bots, GiveUp(b) PROVE IQInv'
<1>1. /\ UNCHANGED <<adding, server, editions, failures, overlapped, raced>>
      /\ bot[b].todo # <<>> /\ ~bot[b].waits /\ SetStatus(b, "failed")
  BY DEF GiveUp
<1>2. QueueInv' /\ Rows' = Rows
  BY <1>1, StatusSet
<1>3. PICK z \in BotType : ~z.waits /\ bot' = [bot EXCEPT ![b] = z]
  BY <1>1, StatusSet
<1>4. ServerInv'
  BY <1>1 DEF IQInv, ServerInv, Importing
<1>5. BotType' = BotType /\ bot \in [Bots -> BotType]
  BY <1>2 DEF BotType, IQInv, AnswersInv
<1>6. /\ bot' \in [Bots -> BotType'] /\ ~bot'[b].waits
      /\ \A c \in Bots \ {b} : bot'[c] = bot[c]
  BY <1>3, <1>5
<1>7. AnswersInv'
  BY <1>1, <1>6 DEF IQInv, AnswersInv
<1>8. QED
  BY <1>2, <1>4, <1>7 DEF IQInv

LEMMA FailsAttempt == ASSUME IQInv, NEW b \in Bots, AttemptFails(b) PROVE IQInv'
<1>1. PICK n \in 1..Len(server) :
        /\ server[n].bot = b /\ Abandon(n)
        /\ failures' = failures \/ (failures < MaxFailures /\ failures' = failures + 1)
        /\ bot' = [bot EXCEPT ![b].waits = FALSE, ![b].tries = @ + 1]
        /\ UNCHANGED <<import_item, adding, editions, overlapped, raced>>
  BY DEF AttemptFails
<1> DEFINE z == [bot[b] EXCEPT !.waits = FALSE, !.tries = bot[b].tries + 1]
<1>2. bot[b] \in BotType /\ bot[b].tries < Retries /\ bot[b].tries \in Nat
  BY <1>1, BotIs DEF IQInv, AnswersInv
<1>3. z \in BotType /\ ~z.waits
  <2>1. bot[b].tries + 1 \in 0..Retries
    BY <1>2, ImportQueueAssumption
  <2>2. z \in BotType
    BY <1>2, <2>1 DEF BotType
  <2>3. z.waits = FALSE
    BY <1>2 DEF BotType
  <2>4. QED
    BY <2>2, <2>3
<1>4. bot' = [bot EXCEPT ![b] = z]
  BY <1>1
<1>5. failures' \in 0..MaxFailures
  BY <1>1, ImportQueueAssumption DEF IQInv, AnswersInv
<1>6. QueueInv' /\ Rows' = Rows
  BY <1>1 DEF IQInv, QueueInv, Rows, ItemsAreQueuedOnce
<1> HIDE DEF z
<1>7. ServerInv' /\ AnswersInv'
  BY <1>1, <1>3, <1>4, <1>5, <1>6, StopsWaiting
<1>8. QED
  BY <1>6, <1>7 DEF IQInv

LEMMA KillsBot == ASSUME IQInv, NEW b \in Bots, KillBot(b) PROVE IQInv'
<1>1. /\ UNCHANGED <<import_item, adding, editions, overlapped, raced>>
      /\ bot' = [bot EXCEPT ![b] = IdleBot] /\ failures' \in 0..MaxFailures
  BY ImportQueueAssumption DEF KillBot, IQInv, AnswersInv
<1>2. IdleBot \in BotType /\ ~IdleBot.waits
  BY ImportQueueAssumption DEF IdleBot, BotType
<1>3. QueueInv' /\ Rows' = Rows
  BY <1>1 DEF IQInv, QueueInv, Rows, ItemsAreQueuedOnce
<1>4. CASE bot[b].waits
  <2>1. PICK n \in 1..Len(server) : server[n].bot = b /\ Abandon(n)
    BY <1>4 DEF KillBot
  <2>2. ServerInv' /\ AnswersInv'
    BY <1>1, <1>2, <1>3, <2>1, StopsWaiting
  <2>3. QED
    BY <1>3, <2>2 DEF IQInv
<1>5. CASE ~bot[b].waits
  <2>1. server' = server
    BY <1>5 DEF KillBot
  <2>2. ServerInv'
    BY <1>1, <2>1 DEF IQInv, ServerInv, Importing
  <2>3. BotType' = BotType /\ bot \in [Bots -> BotType]
    BY <1>3 DEF BotType, IQInv, AnswersInv
  <2>4. /\ bot' \in [Bots -> BotType'] /\ ~bot'[b].waits
        /\ \A c \in Bots \ {b} : bot'[c] = bot[c]
    BY <1>1, <1>2, <2>3
  <2>5. AnswersInv'
    BY <1>1, <1>5, <2>1, <2>4 DEF IQInv, AnswersInv
  <2>6. QED
    BY <1>3, <2>2, <2>5 DEF IQInv
<1>6. QED
  BY <1>4, <1>5

----------------------------------------------------------------------------
(* ImportQueue: the server *)

LEMMA ProceedGoes ==
    ASSUME IQInv, NEW n \in 1..Len(server), NEW what \in {"make", "created", "matched", "error"},
           Proceed(n, what), UNCHANGED <<import_item, adding, bot, failures, overlapped, raced>>
    PROVE  /\ QueueInv' /\ AnswersInv' /\ server' \in Seq(ServerRequest)
           /\ \E rs, kept :
                 /\ Goes(n, rs, kept)
                 /\ \A r \in rs : r.ia_id = server[n].ia_id /\ r.pc = what
<1> DEFINE r == [server[n] EXCEPT !.pc = what]
<1>1. server \in Seq(ServerRequest) /\ server[n] \in ServerRequest /\ Len(server) \in Nat
  BY DEF IQInv, ServerInv
<1>2. /\ r \in ServerRequest /\ r.bot = server[n].bot /\ r.ia_id = server[n].ia_id
      /\ r.pc = what
  BY <1>1 DEF ServerRequest
<1>3. QueueInv'
  BY DEF IQInv, QueueInv, Rows, ItemsAreQueuedOnce
<1>4. CASE server[n].bot = NoBot /\ server' = RemoveAt(server, n)
  <2>1. server' \in Seq(ServerRequest) /\ \E kept : Goes(n, {}, kept)
    BY <1>4, RequestRemoved DEF IQInv
  <2>2. AnswersInv'
    BY <1>4, <2>1, AnswersKept DEF IQInv
  <2>3. QED
    BY <1>3, <2>1, <2>2
<1>5. CASE server' = [server EXCEPT ![n].pc = what]
  <2>1. server' = [server EXCEPT ![n] = r]
    BY <1>5
  <2> HIDE DEF r
  <2>2. server' \in Seq(ServerRequest) /\ Len(server') = Len(server) /\ server'[n] = r
        /\ \A m \in 1..Len(server) : m # n => server'[m] = server[m]
    BY <1>1, <1>2, <2>1
  <2>3. PICK kept : Goes(n, {r}, kept)
    BY <1>2, <2>1, RequestChanged DEF IQInv
  <2>4. AnswersInv'
    <3>1. \A m \in 1..Len(server) : server'[m].bot = server[m].bot
      BY <1>2, <2>2
    <3>2. BotType' = BotType
      BY DEF BotType, Rows
    <3>3. QED
      BY <2>2, <3>1, <3>2 DEF IQInv, AnswersInv
  <2>5. QED
    BY <1>2, <1>3, <2>2, <2>3, <2>4
<1>6. QED
  BY <1>4, <1>5 DEF Proceed

LEMMA FindsMatch == ASSUME IQInv, NEW n \in 1..Len(server), FindMatch(n) PROVE IQInv'
<1>1. PICK what \in {"make", "matched", "error"} :
        Proceed(n, what) /\ (what = "make" => ~(editions[server[n].ia_id] > 0))
  BY DEF FindMatch
<1>2. /\ UNCHANGED <<import_item, adding, bot, editions, failures, overlapped, raced>>
      /\ server[n].pc = "find"
  BY DEF FindMatch
<1>3. /\ ServerInv /\ server[n] \in ServerRequest /\ editions \in [Items -> Nat]
  BY DEF IQInv, ServerInv
<1>4. what = "make" => editions[server[n].ia_id] = 0
  BY <1>1, <1>3 DEF ServerRequest
<1>5. /\ QueueInv' /\ AnswersInv' /\ server' \in Seq(ServerRequest)
  BY <1>1, <1>2, ProceedGoes
<1>6. PICK rs, kept : /\ Goes(n, rs, kept)
                      /\ \A r \in rs : r.ia_id = server[n].ia_id /\ r.pc = what
  BY <1>1, <1>2, ProceedGoes
<1>7. ServerInv'
  BY <1>2, <1>3, <1>4, <1>5, <1>6, ServerStep
<1>8. QED
  BY <1>5, <1>7 DEF IQInv

LEMMA MakesEdition == ASSUME IQInv, NEW n \in 1..Len(server), MakeEdition(n) PROVE IQInv'
<1> PICK item : item = server[n].ia_id
  OBVIOUS
<1>1. /\ UNCHANGED <<import_item, adding, bot, failures, overlapped, raced>>
      /\ Proceed(n, "created") /\ server[n].pc = "make"
      /\ editions' = [editions EXCEPT ![item] = @ + 1]
  BY DEF MakeEdition
<1>2. /\ ServerInv /\ server[n] \in ServerRequest /\ editions \in [Items -> Nat]
  BY DEF IQInv, ServerInv
<1>3. item \in Items /\ n \in Importing(item)
  BY <1>1, <1>2 DEF ServerRequest, Importing
<1>4. /\ QueueInv' /\ AnswersInv' /\ server' \in Seq(ServerRequest)
  BY <1>1, ProceedGoes
<1>5. PICK rs, kept : /\ Goes(n, rs, kept)
                      /\ \A r \in rs : r.ia_id = server[n].ia_id /\ r.pc = "created"
  BY <1>1, ProceedGoes
<1>6. /\ editions' \in [Items -> Nat] /\ editions'[item] = editions[item] + 1
      /\ \A i \in Items : i # item => editions'[i] = editions[i]
  BY <1>1, <1>2, <1>3
<1>7. item \notin overlapped => editions[item] = 0 /\ Importing(item)' = {}
  <2> SUFFICES ASSUME item \notin overlapped PROVE editions[item] = 0 /\ Importing(item)' = {}
    OBVIOUS
  <2>1. editions[item] = 0
    BY <1>1, <1>2, <1>3 DEF ServerInv
  <2>2. ASSUME NEW m \in Importing(item)' PROVE FALSE
    <3>1. m \in 1..Len(server') /\ server'[m].ia_id = item /\ server'[m].pc \in {"find", "make"}
      BY <2>2 DEF Importing
    <3>2. kept[m] # n
      BY <1>5, <3>1 DEF Goes
    <3>3. kept[m] \in Importing(item)
      BY <1>5, <3>1, <3>2 DEF Goes, Importing
    <3>4. QED
      BY <1>2, <1>3, <3>2, <3>3 DEF ServerInv
  <2>3. QED
    BY <2>1, <2>2
<1>8. \A i \in Items \ overlapped :
         \/ editions'[i] = editions[i]
         \/ editions[i] = 0 /\ editions'[i] = 1 /\ Importing(i)' = {}
  BY <1>2, <1>6, <1>7
<1>9. \A r \in rs : /\ r.ia_id = server[n].ia_id
                    /\ r.pc \in {"find", "make"} => server[n].pc \in {"find", "make"}
                    /\ r.pc = "make" => server[n].pc = "make" \/ editions[r.ia_id] = 0
  BY <1>5
<1>10. ServerInv'
  BY <1>1, <1>2, <1>4, <1>5, <1>6, <1>8, <1>9, ServerStep
<1>11. QED
  BY <1>4, <1>10 DEF IQInv

----------------------------------------------------------------------------
(* ImportQueue: the theorems *)

LEMMA IQInitInv == IQInit => IQInv
<1> SUFFICES ASSUME IQInit PROVE IQInv
  OBVIOUS
<1>1. /\ import_item = <<>> /\ adding = [b \in Batches |-> {}] /\ bot = [b \in Bots |-> IdleBot]
      /\ server = <<>> /\ editions = [i \in Items |-> 0] /\ failures = 0 /\ overlapped = {}
      /\ raced = {}
  BY DEF IQInit
<1>2. Rows = {} /\ Len(server) = 0 /\ \A i : Importing(i) = {}
  BY <1>1 DEF Rows, Importing
<1>3. QueueInv
  BY <1>1, <1>2 DEF QueueInv, ItemsAreQueuedOnce
<1>4. ServerInv
  BY <1>1, <1>2 DEF ServerInv
<1>5. IdleBot \in BotType /\ ~IdleBot.waits
  BY ImportQueueAssumption DEF IdleBot, BotType
<1>6. AnswersInv
  BY <1>1, <1>2, <1>5, ImportQueueAssumption DEF AnswersInv
<1>7. QED
  BY <1>3, <1>4, <1>6 DEF IQInv

LEMMA IQNextInv == IQInv /\ [IQNext]_iqVars => IQInv'
<1> SUFFICES ASSUME IQInv, [IQNext]_iqVars PROVE IQInv'
  OBVIOUS
<1>1. ASSUME UNCHANGED <<bot, server, editions, failures, overlapped>>, QueueInv',
             BotType \subseteq BotType'
      PROVE  IQInv'
  <2>1. ServerInv'
    BY <1>1 DEF IQInv, ServerInv, Importing
  <2>2. bot' \in [Bots -> BotType']
    BY <1>1 DEF IQInv, AnswersInv
  <2>3. AnswersInv'
    BY <1>1, <2>2 DEF IQInv, AnswersInv
  <2>4. QED
    BY <1>1, <2>1, <2>3 DEF IQInv
<1>2. ASSUME NEW b \in Batches, SelectPresent(b) \/ InsertItems(b) PROVE IQInv'
  <2>1. QueueInv' /\ Rows \subseteq Rows'
    BY <1>2, SelectQueue, InsertQueue DEF IQInv, Rows, SelectPresent
  <2>2. BotType \subseteq BotType'
    BY <2>1 DEF BotType
  <2>3. QED
    BY <1>1, <1>2, <2>1, <2>2 DEF SelectPresent, InsertItems
<1>3. ASSUME NEW b \in Bots, Work(b) \/ KillBot(b) PROVE IQInv'
  BY <1>3, TakesPending, Asks, GetsAnswer, FailsAttempt, GivesUp, KillsBot DEF Work
<1>4. ASSUME NEW n \in 1..Len(server), Serve(n) PROVE IQInv'
  BY <1>4, FindsMatch, MakesEdition DEF Serve
<1>5. CASE UNCHANGED iqVars
  <2>1. QueueInv'
    BY <1>5 DEF iqVars, IQInv, QueueInv, Rows, ItemsAreQueuedOnce
  <2>2. BotType' = BotType
    BY <1>5 DEF iqVars, BotType, Rows
  <2>3. QED
    BY <1>1, <1>5, <2>1, <2>2 DEF iqVars
<1>6. QED
  BY <1>2, <1>3, <1>4, <1>5 DEF IQNext

LEMMA IQInvariant == IQSpec => []IQInv
<1>1. QED
  BY IQInitInv, IQNextInv, PTL DEF IQSpec

LEMMA IQInvTypes == IQInv => IQTypeOK
<1> SUFFICES ASSUME IQInv PROVE IQTypeOK
  OBVIOUS
<1>1. \A b \in Bots : bot[b].todo \in Seq(1..Len(import_item)) /\ bot[b].tries \in 0..Retries
  BY BotIs DEF Rows
<1>2. \A b \in Bots : /\ bot[b].waits => bot[b].todo # <<>>
                      /\ bot[b].waits <=> \E n \in 1..Len(server) : server[n].bot = b
  BY DEF IQInv, AnswersInv
<1>3. failures \in 0..MaxFailures
  BY DEF IQInv, AnswersInv
<1>4. QED
  BY <1>1, <1>2, <1>3 DEF IQInv, QueueInv, ServerInv, IQTypeOK

\* Rows, bots and requests keep their types, and a bot waits exactly while there is
\* a request that will answer it, for any items, batches, bots and failures.
THEOREM IQTypeCorrect == IQSpec => []IQTypeOK
<1>1. QED
  BY IQInvTypes, IQInvariant, PTL

\* An identifier gets into the queue twice only by two batches that were adding it
\* at one time.
THEOREM QueuedOnce == IQSpec => []ItemsAreQueuedOnce
<1>1. IQInv => ItemsAreQueuedOnce
  BY DEF IQInv, QueueInv
<1>2. QED
  BY <1>1, IQInvariant, PTL

\* Whatever fails and whoever is killed, an item gets a second edition only by two
\* requests to import it that were under way at one time.
THEOREM MadeOnce == IQSpec => []ItemsAreMadeOnce
<1>1. ASSUME IQInv PROVE ItemsAreMadeOnce
  <2>1. \A i \in Items : editions[i] \in Nat
    BY <1>1 DEF IQInv, ServerInv
  <2>2. \A i \in Items \ overlapped : editions[i] <= 1
    BY <1>1 DEF IQInv, ServerInv
  <2>3. QED
    BY <2>1, <2>2 DEF ItemsAreMadeOnce
<1>2. QED
  BY <1>1, IQInvariant, PTL

----------------------------------------------------------------------------
(* The three components in one specification *)

SharedInv == CacheInv /\ MemInv /\ IQInv

LEMMA SharedInvariant == SharedSpec => []SharedInv
<1>1. SharedInit => SharedInv
  BY InitInv, MemInitInv, IQInitInv DEF SharedInit, SharedInv
<1>2. SharedInv /\ [SharedNext]_sharedVars => SharedInv'
  BY NextInv, MemNextInv, IQNextInv DEF SharedInv, SharedNext, sharedVars
<1>3. QED
  BY <1>1, <1>2, PTL DEF SharedSpec

\* Each component keeps its types while it, or another one, goes on.
THEOREM SharedTypeCorrect == SharedSpec => []SharedTypeOK
<1>1. SharedInv => SharedTypeOK
  BY IQInvTypes DEF SharedInv, SharedTypeOK, CacheInv, MemInv
<1>2. QED
  BY <1>1, SharedInvariant, PTL
=============================================================================
