---------------------------- MODULE RecordsProofs ----------------------------
(***************************************************************************)
(* Theorems about what is kept of pages, for any number of processes,      *)
(* clients and editions.  About PageData: type correctness, that a part is *)
(* out of date only for a reason, and that a work is deleted with editions *)
(* only by a race.  About Invalidation: type correctness, that a client    *)
(* sees its own edits, and that no copy is older than the timeout.  The    *)
(* types of all components of MCRecords are correct together.              *)
(***************************************************************************)
EXTENDS MCRecords, PatronProofs, CoverStoreProofs

----------------------------------------------------------------------------
(* PageData: the inductive invariant *)

Process == [pc: {"idle", "get", "compute", "get again", "set", "delete", "invalidate", "decide"},
            job: {"none", "view", "check", "delete", "last"}, part: Parts, value: Value,
            local: Value, copy: [Parts -> Value], book: Books \cup {Unknown}]

\* What a process does, by where it is: only the deletion of an edition keeps the
\* count with the work object, and looks at nothing but the count.
Doing(r) ==
    /\ r.pc = "idle" => r.local = Unknown
    /\ r.pc \in {"get", "compute", "get again", "set"} =>
          r.job \in {"view", "check", "delete"} /\ r.local = Unknown
    /\ r.pc \in {"delete", "decide"} => r.job = "delete"
    /\ r.pc = "invalidate" => r.job \in {"last", "delete"}
    /\ r.job \in {"check", "delete"} => r.part = "count" /\ r.book # Unknown
    /\ r.pc \in {"get again", "set", "decide"} => r.value # Unknown

\* A process that counted no editions, behind nobody's back, was right and still is.
Counts(p) ==
    p \notin raced =>
       /\ process[p].local = 0 => books = {}
       /\ process[p].pc \in {"get again", "set", "decide"} /\ process[p].part = "count"
          /\ process[p].value = 0 => books = {}

PDTables ==
    /\ books \subseteq Books /\ revision \in 0..MaxSaves /\ deleted \in BOOLEAN
    /\ entry \in [Parts -> Value]
    /\ saves \in 0..MaxSaves /\ outdated \subseteq Parts /\ raced \subseteq Processes
    /\ revision <= saves

PDInv ==
    /\ PDTables /\ OutdatedPartsHaveACause
    /\ process \in [Processes -> Process]
    /\ \A p \in Processes : Doing(process[p]) /\ Counts(p)

----------------------------------------------------------------------------
(* PageData: lemmas *)

\* A count is a number, and none only if there is no edition.
LEMMA TruthIs ==
    ASSUME PDTables
    PROVE  /\ \A x \in Parts : Truth(x) \in Nat
           /\ Truth("count") = 0 <=> books = {}
<1>1. IsFiniteSet(books)
  BY PageDataAssumption, FS_Subset DEF PDTables
<1>2. Cardinality(books) \in Nat /\ (Cardinality(books) = 0 <=> books = {})
  BY <1>1, FS_CardinalityType, FS_EmptySet
<1>3. revision \in Nat
  BY DEF PDTables
<1>4. QED
  BY <1>2, <1>3 DEF Truth, Parts

LEMMA IdleIs ==
           /\ IdleProcess \in Process /\ Doing(IdleProcess)
           /\ IdleProcess.pc = "idle" /\ IdleProcess.job = "none" /\ IdleProcess.part = "count"
           /\ IdleProcess.value = Unknown /\ IdleProcess.local = Unknown
<1>1. IdleProcess \in Process
  BY DEF IdleProcess, Process, Parts, Value, NoEntry
<1>2. /\ IdleProcess.pc = "idle" /\ IdleProcess.job = "none" /\ IdleProcess.part = "count"
      /\ IdleProcess.value = Unknown /\ IdleProcess.local = Unknown
  BY DEF IdleProcess
<1>3. QED
  BY <1>1, <1>2 DEF Doing

\* Whoever counted no editions still does when none is added.
LEMMA ProcessStep ==
    ASSUME PDInv, NEW p \in Processes, NEW r \in Process, Doing(r), Proceed(p, r),
           books' \subseteq books, \A q \in Processes : q # p /\ q \notin raced' => q \notin raced,
           PDTables', OutdatedPartsHaveACause',
           p \notin raced' => /\ r.local = 0 => books' = {}
                              /\ r.pc \in {"get again", "set", "decide"} /\ r.part = "count"
                                 /\ r.value = 0 => books' = {}
    PROVE  PDInv'
<1>1. /\ process' \in [Processes -> Process] /\ process'[p] = r
      /\ \A q \in Processes : q # p => process'[q] = process[q]
  BY DEF Proceed, PDInv
<1>2. ASSUME NEW q \in Processes PROVE Doing(process'[q]) /\ Counts(q)'
  <2>1. CASE q = p
    BY <1>1, <2>1 DEF Counts
  <2>2. CASE q # p
    BY <1>1, <2>2 DEF PDInv, Counts
  <2>3. QED
    BY <2>1, <2>2
<1>3. QED
  BY <1>1, <1>2 DEF PDInv, Doing

\* Who is between a save and its event stays there, but for p.
LEMMA StillInvalidates ==
    ASSUME PDInv, NEW p \in Processes, NEW r, Proceed(p, r),
           process[p].pc # "invalidate" \/ r.pc = "invalidate"
    PROVE  (\E q \in Processes : process[q].pc = "invalidate")
           => (\E q \in Processes : process[q].pc = "invalidate")'
<1>1. process'[p] = r /\ \A q \in Processes : q # p => process'[q] = process[q]
  BY DEF Proceed, PDInv
<1>2. QED
  BY <1>1

\* A step that leaves the entry, the editions and the work as they are.
LEMMA OutdatedKept ==
    ASSUME PDInv, NEW p \in Processes, NEW r, Proceed(p, r),
           process[p].pc # "invalidate" \/ r.pc = "invalidate",
           UNCHANGED <<books, revision, entry, outdated>>
    PROVE  OutdatedPartsHaveACause'
<1>1. \A x : Truth(x)' = Truth(x)
  BY DEF Truth
<1>2. QED
  BY <1>1, StillInvalidates DEF PDInv, OutdatedPartsHaveACause

----------------------------------------------------------------------------
(* PageData: every step keeps the invariant *)

LEMMA ViewInv == ASSUME PDInv, NEW p \in Processes, View(p) PROVE PDInv'
<1>1. PICK x \in Parts :
        Proceed(p, [IdleProcess EXCEPT !.pc = "get", !.job = "view", !.part = x])
  BY DEF View
<1> DEFINE r == [IdleProcess EXCEPT !.pc = "get", !.job = "view", !.part = x]
<1>2. r \in Process /\ r.pc = "get" /\ r.job = "view" /\ r.local = Unknown
  BY IdleIs DEF Process
<1>3. Unknown # 0
  BY PageDataAssumption
<1> HIDE DEF r
<1>4. Doing(r)
  BY <1>2 DEF Doing
<1>5. /\ UNCHANGED <<books, revision, deleted, entry, saves, outdated, raced>>
      /\ process[p].pc = "idle"
  BY DEF View
<1>6. Proceed(p, r)
  BY <1>1 DEF r
<1>7. OutdatedPartsHaveACause'
  BY <1>5, <1>6, OutdatedKept
<1>8. PDTables'
  BY <1>5 DEF PDInv, PDTables
<1>9. QED
  BY <1>2, <1>3, <1>4, <1>5, <1>6, <1>7, <1>8, ProcessStep

\* What becomes of a process that the function has returned a value to.
LEMMA ReturnedIs ==
    ASSUME PDInv, NEW p \in Processes, NEW v \in Nat,
           process[p].pc \in {"get", "compute", "get again", "set"}
    PROVE  LET r == Returned(p, v) IN
           /\ r \in Process /\ Doing(r)
           /\ r.local = 0 => process[p].part = "count" /\ v = 0
           /\ r.pc \in {"get again", "set", "decide"} =>
                 r.pc = "decide" /\ process[p].part = "count" /\ r.value = v
           /\ r.pc # "invalidate"
<1> DEFINE r == process[p]
<1>1. /\ r \in Process /\ r.job \in {"view", "check", "delete"} /\ r.local = Unknown
      /\ r.job \in {"check", "delete"} => r.part = "count" /\ r.book # Unknown
  <2>1. r \in Process /\ Doing(r)
    BY DEF PDInv
  <2>2. QED
    BY <2>1 DEF Doing
<1>2. /\ NoEntry \in [Parts -> Value] /\ v \in Value /\ Unknown \in Value
      /\ Unknown # 0 /\ Unknown # v
  <2>1. NoEntry \in [Parts -> Value] /\ v \in Value /\ Unknown \in Value
    BY DEF NoEntry, Value
  <2>2. 0 \in Nat /\ v \in Nat /\ Unknown \notin Nat
    BY PageDataAssumption
  <2>3. QED
    BY <2>1, <2>2
<1>3. CASE r.job = "view"
  <2>1. Returned(p, v) = IdleProcess
    BY <1>3 DEF Returned
  <2>2. QED
    BY <1>1, <1>2, <2>1, IdleIs
<1>4. CASE r.job = "check"
  <2> DEFINE z == [r EXCEPT !.pc = "delete", !.job = "delete", !.local = v,
                            !.value = Unknown, !.copy = NoEntry]
  <2>1. Returned(p, v) = z
    BY <1>4 DEF Returned
  <2>2. /\ z \in Process /\ z.pc = "delete" /\ z.job = "delete" /\ z.local = v
        /\ z.part = r.part /\ z.book = r.book
    BY <1>1, <1>2 DEF Process
  <2> HIDE DEF z
  <2>3. Doing(z)
    BY <1>1, <1>2, <1>4, <2>2 DEF Doing
  <2>4. QED
    BY <1>1, <1>2, <1>4, <2>1, <2>2, <2>3
<1>5. CASE r.job = "delete"
  <2> DEFINE z == [r EXCEPT !.pc = "decide", !.value = v, !.copy = NoEntry]
  <2>1. Returned(p, v) = z
    BY <1>5 DEF Returned
  <2>2. /\ z \in Process /\ z.pc = "decide" /\ z.job = "delete" /\ z.local = Unknown
        /\ z.part = r.part /\ z.book = r.book /\ z.value = v
    BY <1>1, <1>2, <1>5 DEF Process
  <2> HIDE DEF z
  <2>3. Doing(z)
    BY <1>1, <1>2, <1>5, <2>2 DEF Doing
  <2>4. QED
    BY <1>1, <1>2, <1>5, <2>1, <2>2, <2>3
<1>6. QED
  BY <1>1, <1>3, <1>4, <1>5

LEMMA GetPartInv == ASSUME PDInv, NEW p \in Processes, GetPart(p) PROVE PDInv'
<1> DEFINE r == process[p]
<1>1. /\ UNCHANGED <<books, revision, deleted, entry, saves, outdated>> /\ r.pc = "get"
      /\ raced' = IF "count" \in outdated \/ \E q \in Processes : process[q].pc = "invalidate"
                  THEN raced \cup {p} ELSE raced \ {p}
      /\ Proceed(p, IF entry[r.part] # Unknown THEN Returned(p, entry[r.part])
                    ELSE [r EXCEPT !.pc = "compute"])
  BY DEF GetPart
<1>2. r \in Process /\ Doing(r) /\ PDTables /\ OutdatedPartsHaveACause
  BY DEF PDInv
<1>3. r.job \in {"view", "check", "delete"} /\ r.local = Unknown /\ r.part \in Parts
  BY <1>1, <1>2 DEF Doing, Process
<1>4. PDTables' /\ \A q \in Processes : q # p /\ q \notin raced' => q \notin raced
  BY <1>1, <1>2 DEF PDTables
<1>5. Unknown # 0
  BY PageDataAssumption
<1>6. CASE entry[r.part] # Unknown
  <2> DEFINE v == entry[r.part]
             z == Returned(p, v)
  <2>1. v \in Nat
    BY <1>2, <1>3, <1>6 DEF PDTables, Value
  <2>2. /\ z \in Process /\ Doing(z) /\ z.pc # "invalidate"
        /\ z.local = 0 => r.part = "count" /\ v = 0
        /\ z.pc \in {"get again", "set", "decide"} => r.part = "count" /\ z.value = v
    BY <1>1, <2>1, ReturnedIs
  <2>3. Proceed(p, z)
    BY <1>1, <1>6
  <2> HIDE DEF z, v
  <2>4. OutdatedPartsHaveACause'
    BY <1>1, <2>3, OutdatedKept
  <2>5. p \notin raced' /\ r.part = "count" /\ v = 0 => books' = {}
    <3> SUFFICES ASSUME p \notin raced', r.part = "count", v = 0 PROVE books' = {}
      OBVIOUS
    <3>1. "count" \notin outdated /\ ~\E q \in Processes : process[q].pc = "invalidate"
      BY <1>1
    <3>2. entry["count"] = 0 /\ "count" \in Parts
      BY DEF v, Parts
    <3>3. Truth("count") = 0
      BY <1>2, <1>5, <3>1, <3>2 DEF OutdatedPartsHaveACause
    <3>4. QED
      BY <1>1, <1>2, <3>3, TruthIs
  <2>6. QED
    BY <1>1, <1>4, <2>2, <2>3, <2>4, <2>5, ProcessStep
<1>7. CASE entry[r.part] = Unknown
  <2> DEFINE z == [r EXCEPT !.pc = "compute"]
  <2>1. /\ z \in Process /\ z.pc = "compute" /\ z.job = r.job /\ z.local = r.local
        /\ z.part = r.part /\ z.book = r.book
    BY <1>2 DEF Process
  <2>2. Proceed(p, z)
    BY <1>1, <1>7
  <2> HIDE DEF z
  <2>3. Doing(z)
    BY <1>2, <1>3, <2>1 DEF Doing
  <2>4. OutdatedPartsHaveACause'
    BY <1>1, <2>2, OutdatedKept
  <2>5. QED
    BY <1>1, <1>3, <1>4, <1>5, <2>1, <2>2, <2>3, <2>4, ProcessStep
<1>8. QED
  BY <1>6, <1>7

LEMMA ComputeInv == ASSUME PDInv, NEW p \in Processes, Compute(p) PROVE PDInv'
<1> DEFINE r == process[p]
<1>1. /\ UNCHANGED <<books, revision, deleted, entry, saves, outdated>> /\ r.pc = "compute"
      /\ raced' = raced \ {p}
      /\ Proceed(p, [r EXCEPT !.pc = "get again", !.value = Truth(r.part)])
  BY DEF Compute
<1>2. r \in Process /\ Doing(r) /\ PDTables
  BY DEF PDInv
<1>3. r.job \in {"view", "check", "delete"} /\ r.local = Unknown /\ r.part \in Parts
  BY <1>1, <1>2 DEF Doing, Process
<1>4. PDTables' /\ \A q \in Processes : q # p /\ q \notin raced' => q \notin raced
  BY <1>1, <1>2 DEF PDTables
<1>5. Unknown # 0 /\ Unknown \notin Nat
  BY PageDataAssumption
<1> PICK v : v = Truth(r.part)
  OBVIOUS
<1>6. v \in Nat /\ (r.part = "count" /\ v = 0 => books = {})
  BY <1>2, <1>3, TruthIs
<1> DEFINE z == [r EXCEPT !.pc = "get again", !.value = v]
<1>7. /\ z \in Process /\ z.pc = "get again" /\ z.job = r.job /\ z.local = r.local
      /\ z.part = r.part /\ z.book = r.book /\ z.value = v
  BY <1>2, <1>6 DEF Process, Value
<1>8. Proceed(p, z)
  BY <1>1
<1> HIDE DEF z
<1>9. Doing(z)
  BY <1>2, <1>3, <1>5, <1>6, <1>7 DEF Doing
<1>10. OutdatedPartsHaveACause'
  BY <1>1, <1>8, OutdatedKept
<1>11. QED
  BY <1>1, <1>3, <1>4, <1>5, <1>6, <1>7, <1>8, <1>9, <1>10, ProcessStep

LEMMA GetEntryInv == ASSUME PDInv, NEW p \in Processes, GetEntry(p) PROVE PDInv'
<1> DEFINE r == process[p]
           z == [r EXCEPT !.pc = "set", !.copy = [entry EXCEPT ![r.part] = r.value]]
<1>1. /\ UNCHANGED <<books, revision, deleted, entry, saves, outdated, raced>>
      /\ r.pc = "get again" /\ Proceed(p, z)
  BY DEF GetEntry
<1>2. r \in Process /\ Doing(r) /\ PDTables /\ Counts(p)
  BY DEF PDInv
<1>3. [entry EXCEPT ![r.part] = r.value] \in [Parts -> Value]
  BY <1>2 DEF Process, PDTables
<1>4. /\ z \in Process /\ z.pc = "set" /\ z.job = r.job /\ z.local = r.local
      /\ z.part = r.part /\ z.book = r.book /\ z.value = r.value
  BY <1>2, <1>3 DEF Process
<1> HIDE DEF z
<1>5. Doing(z)
  BY <1>1, <1>2, <1>4 DEF Doing
<1>6. OutdatedPartsHaveACause'
  BY <1>1, OutdatedKept
<1>7. PDTables'
  BY <1>1, <1>2 DEF PDTables
<1>8. QED
  BY <1>1, <1>2, <1>4, <1>5, <1>6, <1>7, ProcessStep DEF Counts

LEMMA SetEntryInv == ASSUME PDInv, NEW p \in Processes, SetEntry(p) PROVE PDInv'
<1> DEFINE r == process[p]
           z == Returned(p, r.value)
<1>1. /\ UNCHANGED <<books, revision, deleted, saves, raced>> /\ r.pc = "set"
      /\ entry' = r.copy /\ Proceed(p, z)
      /\ outdated' = {x \in Parts : r.copy[x] \notin {Unknown, Truth(x)}}
  BY DEF SetEntry
<1>2. r \in Process /\ Doing(r) /\ PDTables /\ Counts(p)
  BY DEF PDInv
<1>3. r.value \in Nat /\ r.copy \in [Parts -> Value]
  BY <1>1, <1>2 DEF Doing, Process, Value
<1>4. /\ z \in Process /\ Doing(z) /\ z.pc # "invalidate"
      /\ z.local = 0 => r.part = "count" /\ r.value = 0
      /\ z.pc \in {"get again", "set", "decide"} => r.part = "count" /\ z.value = r.value
  BY <1>1, <1>3, ReturnedIs
<1> HIDE DEF z
<1>5. \A x : Truth(x)' = Truth(x)
  BY <1>1 DEF Truth
<1>6. OutdatedPartsHaveACause'
  BY <1>1, <1>5 DEF OutdatedPartsHaveACause
<1>7. PDTables'
  BY <1>1, <1>2, <1>3 DEF PDTables
<1>8. QED
  BY <1>1, <1>2, <1>4, <1>6, <1>7, ProcessStep DEF Counts

LEMMA SaveInv == ASSUME PDInv, NEW p \in Processes, Save(p) PROVE PDInv'
<1> DEFINE z == [IdleProcess EXCEPT !.pc = "invalidate", !.job = "last"]
<1>1. /\ UNCHANGED <<deleted, entry, outdated>> /\ process[p].pc = "idle" /\ Proceed(p, z)
      /\ saves < MaxSaves /\ saves' = saves + 1
      /\ \/ /\ \E b \in Books \ books : books' = books \cup {b}
            /\ raced' = raced \cup {q \in Processes : process[q].pc # "idle"}
            /\ revision' = revision
         \/ revision' = revision + 1 /\ UNCHANGED <<books, raced>>
  BY DEF Save
<1>2. PDTables /\ process \in [Processes -> Process]
  BY DEF PDInv
<1>3. /\ z \in Process /\ z.pc = "invalidate" /\ z.job = "last" /\ z.local = Unknown
  BY IdleIs DEF Process
<1> HIDE DEF z
<1>4. Doing(z)
  BY <1>3 DEF Doing
<1>5. /\ process' \in [Processes -> Process] /\ process'[p] = z
      /\ \A q \in Processes : q # p => process'[q] = process[q]
  BY <1>1, <1>2, <1>3 DEF Proceed
<1>6. OutdatedPartsHaveACause'
  BY <1>3, <1>5 DEF OutdatedPartsHaveACause
<1>7. PDTables'
  <2>1. revision' \in 0..MaxSaves /\ saves' \in 0..MaxSaves /\ revision' <= saves'
    BY <1>1, <1>2, PageDataAssumption DEF PDTables
  <2>2. QED
    BY <1>1, <1>2, <2>1 DEF PDTables
<1>8. Unknown # 0
  BY PageDataAssumption
<1>9. ASSUME NEW q \in Processes PROVE Doing(process'[q]) /\ Counts(q)'
  <2>1. CASE q = p
    BY <1>3, <1>4, <1>5, <1>8, <2>1 DEF Counts
  <2>2. CASE q # p
    <3>1. Doing(process'[q]) /\ process'[q] = process[q] /\ Counts(q)
      BY <1>5, <2>2 DEF PDInv
    <3>2. CASE books' = books /\ raced' = raced
      BY <3>1, <3>2 DEF Counts
    <3>3. CASE raced' = raced \cup {o \in Processes : process[o].pc # "idle"}
      <4>1. q \notin raced' => process[q].pc = "idle" /\ process[q].local = Unknown
        BY <3>1, <3>3 DEF Doing
      <4>2. QED
        BY <1>8, <3>1, <4>1 DEF Counts
    <3>4. QED
      BY <1>1, <3>2, <3>3
  <2>3. QED
    BY <2>1, <2>2
<1>10. QED
  BY <1>5, <1>6, <1>7, <1>9 DEF PDInv, Doing
LEMMA InvalidateInv == ASSUME PDInv, NEW p \in Processes, InvalidateMemcache(p) PROVE PDInv'
<1> DEFINE r == process[p]
           z == IF r.job = "last" THEN IdleProcess
                ELSE IF Counted(r) THEN [r EXCEPT !.pc = "decide", !.value = r.local]
                ELSE [r EXCEPT !.pc = "get"]
<1>1. /\ UNCHANGED <<books, revision, deleted, saves, raced>> /\ r.pc = "invalidate"
      /\ entry' = NoEntry /\ outdated' = {} /\ Proceed(p, z)
  BY DEF InvalidateMemcache, FindKeys
<1>2. r \in Process /\ Doing(r) /\ PDTables /\ Counts(p)
  BY DEF PDInv
<1>3. r.job \in {"last", "delete"} /\ Unknown # 0
  BY <1>1, <1>2, PageDataAssumption DEF Doing
<1>4. OutdatedPartsHaveACause'
  BY <1>1 DEF OutdatedPartsHaveACause, NoEntry
<1>5. PDTables'
  BY <1>1, <1>2 DEF PDTables, NoEntry, Value
<1>6. /\ z \in Process /\ Doing(z)
      /\ z.local = 0 => r.local = 0
      /\ z.pc \in {"get again", "set", "decide"} => z.value = r.local
  <2>1. CASE r.job = "last"
    BY <1>3, <2>1, IdleIs
  <2>2. CASE r.job = "delete" /\ Counted(r)
    <3> DEFINE y == [r EXCEPT !.pc = "decide", !.value = r.local]
    <3>1. /\ y \in Process /\ y.pc = "decide" /\ y.job = r.job /\ y.local = r.local
          /\ y.part = r.part /\ y.book = r.book /\ y.value = r.local
      BY <1>2 DEF Process
    <3>2. z = y
      BY <2>2
    <3> HIDE DEF y, z
    <3>3. Doing(y)
      BY <1>2, <2>2, <3>1 DEF Doing, Counted
    <3>4. QED
      BY <3>1, <3>2, <3>3
  <2>3. CASE r.job = "delete" /\ ~Counted(r)
    <3> DEFINE y == [r EXCEPT !.pc = "get"]
    <3>1. /\ y \in Process /\ y.pc = "get" /\ y.job = r.job /\ y.local = r.local
          /\ y.part = r.part /\ y.book = r.book
      BY <1>2 DEF Process
    <3>2. z = y
      BY <2>3
    <3> HIDE DEF y, z
    <3>3. Doing(y)
      BY <1>2, <2>3, <3>1 DEF Doing, Counted
    <3>4. QED
      BY <3>1, <3>2, <3>3
  <2>4. QED
    BY <1>3, <2>1, <2>2, <2>3
<1> HIDE DEF z
<1>7. QED
  BY <1>1, <1>2, <1>4, <1>5, <1>6, ProcessStep DEF Counts

LEMMA PostDeleteInv == ASSUME PDInv, NEW p \in Processes, PostDelete(p) PROVE PDInv'
<1>1. PICK x \in books :
        \/ Proceed(p, [IdleProcess EXCEPT !.pc = "get", !.job = "check", !.book = x])
        \/ Proceed(p, [IdleProcess EXCEPT !.pc = "delete", !.job = "delete", !.book = x])
  BY DEF PostDelete
<1>2. /\ UNCHANGED <<books, revision, deleted, entry, saves, outdated, raced>>
      /\ process[p].pc = "idle" /\ PDTables
  BY DEF PostDelete, PDInv
<1>3. PDTables' /\ x \in Books /\ x # Unknown /\ Unknown # 0
  BY <1>2, PageDataAssumption DEF PDTables
<1>4. PICK z : /\ z \in { [IdleProcess EXCEPT !.pc = "get", !.job = "check", !.book = x],
                          [IdleProcess EXCEPT !.pc = "delete", !.job = "delete", !.book = x] }
               /\ Proceed(p, z)
  BY <1>1
<1>5. /\ z \in Process /\ <<z.pc, z.job>> \in {<<"get", "check">>, <<"delete", "delete">>}
      /\ z.local = Unknown /\ z.book = x /\ z.part = "count"
  BY <1>3, <1>4, IdleIs DEF Process
<1>6. Doing(z)
  BY <1>3, <1>5 DEF Doing
<1>7. OutdatedPartsHaveACause'
  BY <1>2, <1>4, OutdatedKept
<1>8. QED
  BY <1>2, <1>3, <1>4, <1>5, <1>6, <1>7, ProcessStep

LEMMA DeleteEditionInv == ASSUME PDInv, NEW p \in Processes, DeleteEdition(p) PROVE PDInv'
<1> DEFINE r == process[p]
           z == [r EXCEPT !.pc = "invalidate"]
<1>1. /\ UNCHANGED <<revision, deleted, entry, saves, outdated, raced>> /\ r.pc = "delete"
      /\ books' = books \ {r.book} /\ Proceed(p, z)
  BY DEF DeleteEdition
<1>2. r \in Process /\ Doing(r) /\ PDTables /\ Counts(p) /\ process \in [Processes -> Process]
  BY DEF PDInv
<1>3. /\ z \in Process /\ z.pc = "invalidate" /\ z.job = r.job /\ z.local = r.local
      /\ z.part = r.part /\ z.book = r.book
  BY <1>2 DEF Process
<1> HIDE DEF z
<1>4. Doing(z)
  BY <1>1, <1>2, <1>3 DEF Doing
<1>5. process'[p].pc = "invalidate"
  BY <1>1, <1>2, <1>3 DEF Proceed
<1>6. OutdatedPartsHaveACause'
  BY <1>5 DEF OutdatedPartsHaveACause
<1>7. PDTables'
  BY <1>1, <1>2 DEF PDTables
<1>8. QED
  BY <1>1, <1>2, <1>3, <1>4, <1>6, <1>7, ProcessStep DEF Counts

LEMMA DeleteWorkInv == ASSUME PDInv, NEW p \in Processes, DeleteWork(p) PROVE PDInv'
<1> DEFINE z == IF NoEditions(p)
                THEN [IdleProcess EXCEPT !.pc = "invalidate", !.job = "last"] ELSE IdleProcess
<1>1. /\ UNCHANGED <<books, revision, entry, saves, outdated, raced>>
      /\ process[p].pc = "decide" /\ Proceed(p, z) /\ deleted' = (deleted \/ NoEditions(p))
      /\ PDTables
  BY DEF DeleteWork, PDInv
<1>2. /\ z \in Process /\ z.local = Unknown /\ z.pc \in {"idle", "invalidate"}
      /\ z.pc = "invalidate" => z.job = "last"
      /\ z.job \in {"last", "none"}
  BY IdleIs DEF Process
<1> HIDE DEF z
<1>3. Doing(z)
  BY <1>2 DEF Doing
<1>4. OutdatedPartsHaveACause'
  BY <1>1, OutdatedKept
<1>5. deleted' \in BOOLEAN
  BY <1>1 DEF PDTables
<1>6. PDTables'
  BY <1>1, <1>5 DEF PDTables
<1>7. Unknown # 0
  BY PageDataAssumption
<1>8. QED
  BY <1>1, <1>2, <1>3, <1>4, <1>6, <1>7, ProcessStep

LEMMA PDInitInv == PDInit => PDInv
<1> SUFFICES ASSUME PDInit PROVE PDInv
  OBVIOUS
<1>0. deleted \in BOOLEAN
  BY DEF PDInit
<1>1. /\ books \in SUBSET Books /\ revision = 0
      /\ process = [q \in Processes |-> IdleProcess]
      /\ saves = 0 /\ outdated = {} /\ raced = {}
  <2>1. books \in SUBSET Books
    BY DEF PDInit
  <2>2. revision = 0 /\ saves = 0 /\ outdated = {} /\ raced = {}
    BY DEF PDInit
  <2>3. process = [q \in Processes |-> IdleProcess]
    BY DEF PDInit
  <2>4. QED
    BY <2>1, <2>2, <2>3
<1>2. IsFiniteSet(books) /\ 0 \in 0..MaxSaves
  BY <1>1, PageDataAssumption, FS_Subset
<1>3. \A x \in Parts : Truth(x) \in Nat
  BY <1>1, <1>2, FS_CardinalityType DEF Truth
<1>4. entry \in [Parts -> Value] /\ \A x \in Parts : entry[x] \in {Unknown, Truth(x)}
  BY <1>3 DEF PDInit, NoEntry, Value
<1>5. PDTables /\ OutdatedPartsHaveACause
  BY <1>0, <1>1, <1>2, <1>4 DEF PDTables, OutdatedPartsHaveACause
<1>6. Unknown # 0
  BY PageDataAssumption
<1>7. \A q \in Processes : process[q] = IdleProcess
  BY <1>1
<1>8. \A q \in Processes : Doing(process[q]) /\ Counts(q)
  BY <1>6, <1>7, IdleIs DEF Counts
<1>9. QED
  BY <1>1, <1>5, <1>8, IdleIs DEF PDInv

LEMMA PDNextInv == PDInv /\ [PDNext]_pdVars => PDInv'
<1> SUFFICES ASSUME PDInv, [PDNext]_pdVars PROVE PDInv'
  OBVIOUS
<1>1. ASSUME NEW p \in Processes,
             View(p) \/ GetPart(p) \/ Compute(p) \/ GetEntry(p) \/ SetEntry(p) \/ Save(p)
             \/ InvalidateMemcache(p) \/ PostDelete(p) \/ DeleteEdition(p) \/ DeleteWork(p)
      PROVE  PDInv'
  BY <1>1, ViewInv, GetPartInv, ComputeInv, GetEntryInv, SetEntryInv, SaveInv,
     InvalidateInv, PostDeleteInv, DeleteEditionInv, DeleteWorkInv
<1>2. CASE UNCHANGED pdVars
  <2>1. /\ UNCHANGED <<books, revision, deleted, entry, process, saves, outdated, raced>>
        /\ \A x : Truth(x)' = Truth(x)
    BY <1>2 DEF pdVars, Truth
  <2>2. PDTables' /\ OutdatedPartsHaveACause'
    BY <2>1 DEF PDInv, PDTables, OutdatedPartsHaveACause
  <2>3. QED
    BY <2>1, <2>2 DEF PDInv, Counts
<1>3. QED
  BY <1>1, <1>2 DEF PDNext

LEMMA PDInvariant == PDSpec => []PDInv
BY PDInitInv, PDNextInv, PTL DEF PDSpec

LEMMA PDInvTypeOK == PDInv => PDTypeOK
<1> SUFFICES ASSUME PDInv PROVE PDTypeOK
  OBVIOUS
<1>1. ASSUME NEW p \in Processes
      PROVE  /\ process[p] \in Process /\ Doing(process[p])
             /\ process[p].pc \in {"get again", "set", "decide"} => process[p].value # Unknown
             /\ process[p].pc \in {"delete", "decide"} => process[p].book # Unknown
  BY DEF PDInv, Doing
<1>2. QED
  BY <1>1 DEF PDInv, PDTables, PDTypeOK, Process

----------------------------------------------------------------------------
(* PageData: theorems *)

\* The entry and the processes have their types: memoize never sets a part, and
\* a deletion is never decided, without a value.
THEOREM PDTypeCorrect == PDSpec => []PDTypeOK
BY PDInvariant, PDInvTypeOK, PTL

\* memoize, invalidate_memcache: whatever is out of date in the entry of a page
\* is waiting for the event of a save, or was out of date when it was set.
THEOREM OutdatedHaveCause == PDSpec => []OutdatedPartsHaveACause
<1>1. PDInv => OutdatedPartsHaveACause
  BY DEF PDInv
<1>2. QED
  BY <1>1, PDInvariant, PTL

\* SaveBookHelper.save: the process that deletes the work has counted no editions
\* truly, or somebody raced it.
LEMMA DeletionStep ==
    PDInv /\ [PDNext]_pdVars =>
        [\A p \in Processes : deleted' /\ ~deleted /\ process[p] # process'[p] =>
            books = {} \/ p \in raced]_pdVars
<1> SUFFICES ASSUME PDInv, PDNext, NEW p \in Processes,
                    deleted', ~deleted, process[p] # process'[p]
             PROVE  books = {} \/ p \in raced
  BY DEF pdVars
<1>1. PICK q \in Processes : DeleteWork(q)
  BY DEF PDNext, View, GetPart, Compute, GetEntry, SetEntry, Save, InvalidateMemcache,
         PostDelete, DeleteEdition
<1>2. p = q /\ process[p].pc = "decide" /\ process[p].value = 0
  BY <1>1 DEF DeleteWork, Proceed, NoEditions, PDInv
<1>3. Doing(process[p]) /\ Counts(p)
  BY DEF PDInv
<1>4. process[p].part = "count"
  BY <1>2, <1>3 DEF Doing
<1>5. QED
  BY <1>2, <1>3, <1>4 DEF Counts

\* SaveBookHelper.save: a work goes while it has editions only by a race, or for
\* a count in memcache that was out of date when it was set.
THEOREM DeletedEmpty == PDSpec => WorksAreDeletedEmpty
<1>1. PDInv /\ [PDNext]_pdVars =>
        [\A p \in Processes : deleted' /\ ~deleted /\ process[p] # process'[p] =>
            books = {} \/ p \in raced]_pdVars
  BY DeletionStep
<1>2. QED
  BY <1>1, PDInvariant, PTL DEF PDSpec, WorksAreDeletedEmpty
----------------------------------------------------------------------------
(* Invalidation: the inductive invariant *)

Version == [last_modified: Times, committed: Times]
Cookie == [time: Times, set: Times]
Edit == [site: Sites, stamp: Times]

InvTables ==
    /\ clock \in Times /\ edits \in Seq(Version)
    /\ saving \in [Clients -> Edit \cup {NoTime}]
    /\ copy \in [Sites -> 0..Len(edits)]
    /\ last_poll_time \in [Sites -> 0..clock] /\ last_update_time \in [Sites -> 0..clock]
    /\ cookie \in [Clients -> Cookie \cup {NoTime}]
    /\ seen \in [Clients -> 0..Len(edits)] /\ made \in [Clients -> 0..Len(edits)]
    /\ missed \subseteq Sites

\* A version is stamped before it is committed, and neither is in the future.
StampsInv ==
    /\ \A n \in 1..Len(edits) : /\ edits[n].last_modified <= edits[n].committed
                                /\ edits[n].committed <= clock
    /\ \A c \in Clients : saving[c] # NoTime => saving[c].stamp <= clock

\* What a process does not have in its copy is what it will find at its next poll.
CopiesInv ==
    \A p \in Sites \ missed : \A n \in 1..Len(edits) :
        copy[p] < n => edits[n].last_modified > last_poll_time[p]

\* The cookie of a client names its own latest version or a later one, however
\* often it has been replaced or has expired.
CookiesInv ==
    \A c \in Clients :
        /\ cookie[c] # NoTime => cookie[c].time <= cookie[c].set
        /\ made[c] > 0 => cookie[c] # NoTime /\ cookie[c].time >= edits[made[c]].last_modified

InvInv == InvTables /\ StampsInv /\ CopiesInv /\ CookiesInv

----------------------------------------------------------------------------
(* Invalidation: lemmas *)

\* Times are numbers, and a cookie that is not set is told from one that is.
LEMMA TimesAre ==
    /\ Times \subseteq Nat /\ Timeout \in Nat /\ Timeout > 0
    /\ NoTime \notin Cookie
BY InvalidationAssumption DEF Times, Cookie

\* The versions, the last one among them, are stamped with times.
LEMMA VersionsAre ==
    ASSUME InvTables
    PROVE  /\ Len(edits) \in Nat
           /\ edits # <<>> => Len(edits) \in 1..Len(edits)
           /\ \A n \in 1..Len(edits) : /\ edits[n] \in Version
                                       /\ edits[n].last_modified \in Nat
                                       /\ edits[n].committed \in Nat
<1>1. edits \in Seq(Version)
  BY DEF InvTables
<1> HIDE DEF Version
<1>2. \A n \in 1..Len(edits) : edits[n] \in Version
  BY <1>1
<1>3. \A e \in Version : e.last_modified \in Nat /\ e.committed \in Nat
  BY TimesAre DEF Version
<1>4. edits # <<>> => Len(edits) \in 1..Len(edits)
  BY <1>1
<1>5. QED
  BY <1>1, <1>2, <1>3, <1>4

\* What a request comes to: the copy that is shown is the latest version when the
\* process polls and finds a change, and what it was before when not.
LEMMA RequestIs ==
    ASSUME InvTables, NEW c \in Clients, NEW p \in Sites, Request(c, p)
    PROVE  \E poll \in Nat, upd \in Nat, shown \in Nat :
             /\ copy' = [copy EXCEPT ![p] = shown]
             /\ last_poll_time' = [last_poll_time EXCEPT ![p] = poll]
             /\ last_update_time' = [last_update_time EXCEPT ![p] = upd]
             /\ cookie' = IF poll - upd < Timeout /\ CookieTime(c) < upd
                          THEN [cookie EXCEPT ![c] = [time |-> upd, set |-> clock]]
                          ELSE cookie
             /\ seen' = [seen EXCEPT ![c] = shown]
             /\ missed' \in {missed, missed \ {p}}
             /\ UNCHANGED <<clock, edits, saving, made>>
             /\ \/ MustReload(c, p) /\ poll = clock
                \/ ~MustReload(c, p) /\ poll = last_poll_time[p]
             /\ \/ /\ MustReload(c, p) /\ Modified(p) /\ shown = Len(edits)
                   /\ upd = edits[Len(edits)].last_modified
                \/ /\ ~(MustReload(c, p) /\ Modified(p)) /\ shown = copy[p]
                   /\ upd = last_update_time[p] /\ missed' = missed
<1> DEFINE rel == MustReload(c, p)
           new == rel /\ Modified(p)
           o == IF rel THEN clock ELSE last_poll_time[p]
           u == IF new THEN edits[Len(edits)].last_modified ELSE last_update_time[p]
           w == IF new THEN Len(edits) ELSE copy[p]
<1>1. clock \in Nat /\ last_poll_time[p] \in Nat /\ last_update_time[p] \in Nat
      /\ copy[p] \in Nat /\ Len(edits) \in Nat
  BY TimesAre DEF InvTables
<1>2. Modified(p) => edits[Len(edits)].last_modified \in Nat
  BY VersionsAre DEF Modified
<1>3. o \in Nat /\ u \in Nat /\ w \in Nat
  BY <1>1, <1>2
<1>4. /\ copy' = [copy EXCEPT ![p] = w]
      /\ last_poll_time' = [last_poll_time EXCEPT ![p] = o]
      /\ last_update_time' = [last_update_time EXCEPT ![p] = u]
      /\ cookie' = IF o - u < Timeout /\ CookieTime(c) < u
                   THEN [cookie EXCEPT ![c] = [time |-> u, set |-> clock]]
                   ELSE cookie
      /\ seen' = [seen EXCEPT ![c] = w]
      /\ missed' = IF new THEN missed \ {p} ELSE missed
      /\ UNCHANGED <<clock, edits, saving, made>>
  BY DEF Request
<1>5. /\ \/ rel /\ o = clock
         \/ ~rel /\ o = last_poll_time[p]
      /\ \/ new /\ w = Len(edits) /\ u = edits[Len(edits)].last_modified
         \/ ~new /\ w = copy[p] /\ u = last_update_time[p] /\ missed' = missed
      /\ missed' \in {missed, missed \ {p}}
  BY <1>4
<1> HIDE DEF o, u, w
<1>6. QED
  BY <1>3, <1>4, <1>5

----------------------------------------------------------------------------
(* Invalidation: every step keeps the invariant *)

LEMMA StampEditInv ==
    ASSUME InvInv, NEW c \in Clients, NEW p \in Sites, StampEdit(c, p) PROVE InvInv'
<1>1. /\ saving' = [saving EXCEPT ![c] = [site |-> p, stamp |-> clock]]
      /\ UNCHANGED <<clock, edits, copy, last_poll_time, last_update_time, cookie, seen,
                     made, missed>>
  BY DEF StampEdit, siteVars
<1>2. InvTables'
  BY <1>1 DEF InvInv, InvTables, Edit
<1>3. StampsInv'
  <2>1. clock \in Nat /\ saving \in [Clients -> Edit \cup {NoTime}]
    BY TimesAre DEF InvInv, InvTables
  <2>2. ASSUME NEW d \in Clients, saving'[d] # NoTime PROVE saving'[d].stamp <= clock
    <3>1. CASE d = c
      BY <1>1, <2>1, <3>1
    <3>2. CASE d # c
      BY <1>1, <2>1, <2>2, <3>2 DEF InvInv, StampsInv
    <3>3. QED
      BY <3>1, <3>2
  <2>3. QED
    BY <1>1, <2>2 DEF InvInv, StampsInv
<1>4. CopiesInv' /\ CookiesInv'
  BY <1>1 DEF InvInv, CopiesInv, CookiesInv
<1>5. QED
  BY <1>2, <1>3, <1>4 DEF InvInv

LEMMA CommitEditInv ==
    ASSUME InvInv, NEW c \in Clients, CommitEdit(c) PROVE InvInv'
<1> DEFINE e == saving[c]
           v == [last_modified |-> e.stamp, committed |-> clock]
           k == [time |-> e.stamp, set |-> clock]
<1>1. /\ e # NoTime /\ edits' = Append(edits, v)
      /\ copy' = [copy EXCEPT ![e.site] = Len(edits) + 1]
      /\ cookie' = [cookie EXCEPT ![c] = k]
      /\ missed' = missed \cup {q \in Sites \ {e.site} : last_poll_time[q] >= e.stamp}
      /\ made' = [made EXCEPT ![c] = Len(edits) + 1]
      /\ saving' = [saving EXCEPT ![c] = NoTime]
      /\ UNCHANGED <<clock, last_poll_time, last_update_time, seen>>
  BY DEF CommitEdit, HookCookie
<1>2. InvTables
  BY DEF InvInv
<1>3. /\ e \in Edit /\ e.site \in Sites /\ e.stamp \in Times /\ e.stamp \in Nat
      /\ clock \in Times /\ clock \in Nat /\ e.stamp <= clock
  BY <1>1, <1>2, TimesAre DEF InvTables, Edit, InvInv, StampsInv
<1>4. v \in Version /\ v.last_modified = e.stamp /\ v.committed = clock
      /\ k \in Cookie /\ k # NoTime /\ k.time = e.stamp /\ k.set = clock
  BY <1>3, TimesAre DEF Version, Cookie
<1> HIDE DEF e, v, k
<1>5. edits \in Seq(Version) /\ Len(edits) \in Nat
  BY <1>2 DEF InvTables
<1>6. /\ edits' \in Seq(Version) /\ Len(edits') = Len(edits) + 1
      /\ \A n \in 1..Len(edits) : edits'[n] = edits[n]
      /\ edits'[Len(edits) + 1] = v
  <2> HIDE DEF Version
  <2>1. QED
    BY <1>1, <1>4, <1>5
<1>7. InvTables'
  <2>1. /\ copy' \in [Sites -> 0..Len(edits')] /\ seen' \in [Clients -> 0..Len(edits')]
        /\ made' \in [Clients -> 0..Len(edits')]
    BY <1>1, <1>2, <1>3, <1>5, <1>6 DEF InvTables
  <2>2. cookie' \in [Clients -> Cookie \cup {NoTime}]
    BY <1>1, <1>2, <1>4 DEF InvTables
  <2>3. saving' \in [Clients -> Edit \cup {NoTime}] /\ missed' \subseteq Sites
    BY <1>1, <1>2 DEF InvTables
  <2>4. QED
    BY <1>1, <1>2, <1>6, <2>1, <2>2, <2>3 DEF InvTables
<1>8. StampsInv'
  <2>1. ASSUME NEW n \in 1..Len(edits')
        PROVE  edits'[n].last_modified <= edits'[n].committed /\ edits'[n].committed <= clock
    <3>1. CASE n = Len(edits) + 1
      BY <1>3, <1>4, <1>6, <3>1
    <3>2. CASE n \in 1..Len(edits)
      BY <1>6, <3>2 DEF InvInv, StampsInv
    <3>3. QED
      BY <1>5, <1>6, <3>1, <3>2
  <2>2. ASSUME NEW d \in Clients, saving'[d] # NoTime PROVE saving'[d].stamp <= clock
    BY <1>1, <1>2, <2>2 DEF InvInv, InvTables, StampsInv
  <2>3. QED
    BY <1>1, <2>1, <2>2 DEF StampsInv
<1>9. CopiesInv'
  <2> SUFFICES ASSUME NEW p \in Sites \ missed', NEW n \in 1..Len(edits'), copy'[p] < n
               PROVE  edits'[n].last_modified > last_poll_time[p]
    BY <1>1 DEF CopiesInv
  <2>1. last_poll_time[p] \in Nat /\ copy[p] \in Nat /\ copy'[p] \in Nat
    BY <1>1, <1>2, <1>3, <1>5, TimesAre DEF InvTables
  <2>2. p # e.site
    BY <1>1, <1>2, <1>5, <1>6 DEF InvTables
  <2>3. p \notin missed /\ ~(last_poll_time[p] >= e.stamp) /\ copy[p] < n
    BY <1>1, <1>2, <2>2 DEF InvTables
  <2>4. CASE n = Len(edits) + 1
    BY <1>3, <1>4, <1>6, <2>1, <2>3, <2>4
  <2>5. CASE n \in 1..Len(edits)
    BY <1>6, <2>3, <2>5 DEF InvInv, CopiesInv
  <2>6. QED
    BY <1>5, <1>6, <2>4, <2>5
<1>10. CookiesInv'
  <2> SUFFICES ASSUME NEW d \in Clients
               PROVE  /\ cookie'[d] # NoTime => cookie'[d].time <= cookie'[d].set
                      /\ made'[d] > 0 => /\ cookie'[d] # NoTime
                                         /\ cookie'[d].time >= edits'[made'[d]].last_modified
    BY DEF CookiesInv
  <2>1. CASE d = c
    BY <1>1, <1>2, <1>3, <1>4, <1>6, <2>1 DEF InvTables
  <2>2. CASE d # c
    <3>1. cookie'[d] = cookie[d] /\ made'[d] = made[d] /\ made[d] \in 0..Len(edits)
      BY <1>1, <1>2, <2>2 DEF InvTables
    <3>2. made[d] > 0 => edits'[made[d]] = edits[made[d]]
      BY <1>5, <1>6, <3>1
    <3>3. QED
      BY <3>1, <3>2 DEF InvInv, CookiesInv
  <2>3. QED
    BY <2>1, <2>2
<1>11. QED
  BY <1>7, <1>8, <1>9, <1>10 DEF InvInv

LEMMA TickInv == ASSUME InvInv, Tick PROVE InvInv'
<1>1. /\ clock < MaxTime /\ clock' = clock + 1
      /\ UNCHANGED <<edits, saving, copy, last_poll_time, last_update_time, cookie, seen,
                     made, missed>>
  BY DEF Tick, siteVars
<1>2. InvTables
  BY DEF InvInv
<1>3. clock \in Nat /\ clock' \in Times /\ 0..clock \subseteq 0..clock'
  BY <1>1, <1>2, InvalidationAssumption DEF InvTables, Times
<1>4. InvTables'
  BY <1>1, <1>2, <1>3 DEF InvTables
<1>5. StampsInv'
  <2>1. ASSUME NEW n \in 1..Len(edits)
        PROVE  edits[n].last_modified <= edits[n].committed /\ edits[n].committed <= clock'
    BY <1>1, <1>2, <1>3, VersionsAre DEF InvInv, StampsInv
  <2>2. ASSUME NEW d \in Clients, saving[d] # NoTime PROVE saving[d].stamp <= clock'
    <3>1. saving[d].stamp \in Nat /\ saving[d].stamp <= clock
      BY <1>2, <2>2, TimesAre DEF InvInv, InvTables, Edit, StampsInv
    <3>2. QED
      BY <1>1, <1>3, <3>1
  <2>3. QED
    BY <1>1, <2>1, <2>2 DEF StampsInv
<1>6. CopiesInv' /\ CookiesInv'
  BY <1>1 DEF InvInv, CopiesInv, CookiesInv
<1>7. QED
  BY <1>4, <1>5, <1>6 DEF InvInv

\* An expired cookie is not replaced by an older one: an update so long ago is
\* not written into a cookie.
LEMMA RequestInv ==
    ASSUME InvInv, NEW c \in Clients, NEW p \in Sites, Request(c, p) PROVE InvInv'
<1>1. InvTables
  BY DEF InvInv
<1>2. PICK poll \in Nat, upd \in Nat, shown \in Nat :
        /\ copy' = [copy EXCEPT ![p] = shown]
        /\ last_poll_time' = [last_poll_time EXCEPT ![p] = poll]
        /\ last_update_time' = [last_update_time EXCEPT ![p] = upd]
        /\ cookie' = IF poll - upd < Timeout /\ CookieTime(c) < upd
                     THEN [cookie EXCEPT ![c] = [time |-> upd, set |-> clock]]
                     ELSE cookie
        /\ seen' = [seen EXCEPT ![c] = shown]
        /\ missed' \in {missed, missed \ {p}}
        /\ UNCHANGED <<clock, edits, saving, made>>
        /\ \/ MustReload(c, p) /\ poll = clock
           \/ ~MustReload(c, p) /\ poll = last_poll_time[p]
        /\ \/ /\ MustReload(c, p) /\ Modified(p) /\ shown = Len(edits)
              /\ upd = edits[Len(edits)].last_modified
           \/ /\ ~(MustReload(c, p) /\ Modified(p)) /\ shown = copy[p]
              /\ upd = last_update_time[p] /\ missed' = missed
  BY <1>1, RequestIs
<1>3. /\ clock \in Nat /\ clock \in Times /\ 0..clock \subseteq Times
      /\ last_poll_time[p] \in 0..clock /\ last_update_time[p] \in 0..clock
      /\ copy[p] \in 0..Len(edits) /\ Len(edits) \in Nat
  BY <1>1, InvalidationAssumption DEF InvTables, Times
<1>4. poll \in 0..clock /\ shown \in 0..Len(edits)
  BY <1>2, <1>3
<1>5. upd \in 0..clock
  <2>1. CASE upd = last_update_time[p]
    BY <1>3, <2>1
  <2>2. CASE Modified(p) /\ upd = edits[Len(edits)].last_modified
    <3>1. Len(edits) \in 1..Len(edits)
      BY <1>1, <2>2, VersionsAre DEF Modified
    <3>2. /\ edits[Len(edits)].last_modified <= edits[Len(edits)].committed
          /\ edits[Len(edits)].committed <= clock
      BY <3>1 DEF InvInv, StampsInv
    <3>3. edits[Len(edits)].committed \in Nat
      BY <1>1, <3>1, VersionsAre
    <3>4. QED
      BY <1>2, <1>3, <2>2, <3>2, <3>3
  <2>3. QED
    BY <1>2, <2>1, <2>2
<1> DEFINE k == [time |-> upd, set |-> clock]
<1>6. k \in Cookie /\ k # NoTime /\ k.time = upd /\ k.set = clock
  BY <1>3, <1>5, TimesAre DEF Cookie
<1>7. /\ \A d \in Clients : d # c => cookie'[d] = cookie[d]
      /\ \/ cookie'[c] = cookie[c]
         \/ poll - upd < Timeout /\ CookieTime(c) < upd /\ cookie'[c] = k
      /\ cookie' \in [Clients -> Cookie \cup {NoTime}]
  BY <1>1, <1>2, <1>6 DEF InvTables
<1> HIDE DEF k
<1>8. InvTables'
  BY <1>1, <1>2, <1>4, <1>5, <1>7 DEF InvTables
<1>9. StampsInv'
  BY <1>2 DEF InvInv, StampsInv
<1>10. CopiesInv'
  <2> SUFFICES ASSUME NEW q \in Sites \ missed', NEW n \in 1..Len(edits), copy'[q] < n
               PROVE  edits[n].last_modified > last_poll_time'[q]
    BY <1>2 DEF CopiesInv
  <2>1. CASE q # p
    BY <1>1, <1>2, <2>1 DEF InvInv, InvTables, CopiesInv
  <2>2. CASE q = p
    <3>1. copy'[p] = shown /\ last_poll_time'[p] = poll
      BY <1>1, <1>2 DEF InvTables
    <3>2. shown = copy[p] /\ ~(MustReload(c, p) /\ Modified(p)) /\ p \notin missed
      BY <1>2, <1>3, <2>2, <3>1
    <3>3. Len(edits) \in 1..Len(edits) /\ copy[p] < Len(edits) /\ edits # <<>>
      BY <1>3, <2>2, <3>1, <3>2
    <3>4. Modified(p)
      BY <3>2, <3>3 DEF InvInv, CopiesInv, Modified
    <3>5. poll = last_poll_time[p] /\ copy[p] < n
      BY <1>2, <2>2, <3>1, <3>2, <3>4
    <3>6. QED
      BY <2>2, <3>1, <3>2, <3>5 DEF InvInv, CopiesInv
  <2>3. QED
    BY <2>1, <2>2
<1>11. CookiesInv'
  <2> SUFFICES ASSUME NEW d \in Clients
               PROVE  /\ cookie'[d] # NoTime => cookie'[d].time <= cookie'[d].set
                      /\ made[d] > 0 => /\ cookie'[d] # NoTime
                                        /\ cookie'[d].time >= edits[made[d]].last_modified
    BY <1>2 DEF CookiesInv
  <2>1. CASE cookie'[d] = cookie[d]
    BY <2>1 DEF InvInv, CookiesInv
  <2>2. CASE d = c /\ poll - upd < Timeout /\ CookieTime(c) < upd /\ cookie'[c] = k
    <3>1. cookie'[c].time <= cookie'[c].set /\ cookie'[c] # NoTime
      BY <1>5, <1>6, <2>2
    <3>2. ASSUME made[c] > 0 PROVE upd >= edits[made[c]].last_modified
      <4>1. /\ cookie[c] # NoTime /\ cookie[c].time >= edits[made[c]].last_modified
            /\ cookie[c].time <= cookie[c].set
        BY <3>2 DEF InvInv, CookiesInv
      <4>2. cookie[c].time \in Nat /\ cookie[c].set \in Nat
        BY <1>1, <4>1, TimesAre DEF InvTables, Cookie
      <4>3. edits[made[c]].last_modified \in Nat
        <5>1. made[c] \in 1..Len(edits)
          BY <1>1, <1>3, <3>2 DEF InvTables
        <5>2. QED
          BY <1>1, <5>1, VersionsAre
      <4>4. CASE clock - cookie[c].set < 3 * Timeout
        <5>1. CookieTime(c) = cookie[c].time
          BY <4>1, <4>4 DEF CookieTime
        <5>2. cookie[c].time < upd
          BY <2>2, <4>2, <5>1
        <5>3. QED
          BY <4>1, <4>2, <4>3, <5>2
      <4>5. CASE ~(clock - cookie[c].set < 3 * Timeout)
        <5>1. clock - poll <= Timeout
          <6>1. CASE poll = clock
            BY <1>3, <6>1, TimesAre
          <6>2. CASE ~MustReload(c, p) /\ poll = last_poll_time[p]
            BY <1>3, <6>2, TimesAre DEF MustReload
          <6>3. QED
            BY <1>2, <6>1, <6>2
        <5>2. poll - upd < Timeout
          BY <1>4, <1>5, <2>2, TimesAre
        <5>3. poll \in Int /\ upd \in Int /\ clock \in Int /\ Timeout \in Nat
          BY <1>3, <1>4, <1>5, TimesAre
        <5>4. upd > cookie[c].set
          BY <4>2, <4>5, <5>1, <5>2, <5>3
        <5>5. QED
          BY <4>1, <4>2, <4>3, <5>3, <5>4
      <4>6. QED
        BY <4>4, <4>5
    <3>3. QED
      BY <1>6, <2>2, <3>1, <3>2
  <2>3. QED
    BY <1>7, <2>1, <2>2
<1>12. QED
  BY <1>8, <1>9, <1>10, <1>11 DEF InvInv

LEMMA InvInitInv == InvInit => InvInv
<1> SUFFICES ASSUME InvInit PROVE InvInv
  OBVIOUS
<1>1. /\ clock = 1 /\ edits = <<>> /\ Len(edits) = 0 /\ missed = {}
      /\ saving = [c \in Clients |-> NoTime] /\ cookie = [c \in Clients |-> NoTime]
      /\ copy = [p \in Sites |-> 0] /\ last_poll_time = [p \in Sites |-> 0]
      /\ last_update_time = [p \in Sites |-> 0]
      /\ seen = [c \in Clients |-> 0] /\ made = [c \in Clients |-> 0]
  BY DEF InvInit
<1>2. clock \in Times /\ 0 \in 0..clock /\ 0 \in 0..Len(edits)
  BY <1>1, InvalidationAssumption DEF Times
<1>3. edits \in Seq(Version)
  BY <1>1
<1>4. InvTables
  <2>1. /\ clock \in Times /\ edits \in Seq(Version) /\ missed \subseteq Sites
        /\ saving \in [Clients -> Edit \cup {NoTime}]
        /\ cookie \in [Clients -> Cookie \cup {NoTime}]
    BY <1>1, <1>2, <1>3
  <2>2. /\ copy \in [Sites -> 0..Len(edits)] /\ last_poll_time \in [Sites -> 0..clock]
        /\ last_update_time \in [Sites -> 0..clock]
        /\ seen \in [Clients -> 0..Len(edits)] /\ made \in [Clients -> 0..Len(edits)]
    <3> PICK k, m : k = Len(edits) /\ m = clock
      OBVIOUS
    <3>1. 0 \in 0..k /\ 0 \in 0..m
      BY <1>2
    <3>2. QED
      BY <1>1, <3>1
  <2>3. QED
    BY <2>1, <2>2 DEF InvTables
<1>5. StampsInv /\ CopiesInv /\ CookiesInv
  BY <1>1 DEF StampsInv, CopiesInv, CookiesInv
<1>6. QED
  BY <1>4, <1>5 DEF InvInv

LEMMA InvNextInv == InvInv /\ [InvNext]_invVars => InvInv'
<1> SUFFICES ASSUME InvInv, [InvNext]_invVars PROVE InvInv'
  OBVIOUS
<1>1. ASSUME NEW c \in Clients, CommitEdit(c) PROVE InvInv'
  BY <1>1, CommitEditInv
<1>2. ASSUME NEW c \in Clients, NEW p \in Sites, StampEdit(c, p) \/ Request(c, p)
      PROVE  InvInv'
  BY <1>2, StampEditInv, RequestInv
<1>3. CASE Tick
  BY <1>3, TickInv
<1>4. CASE UNCHANGED invVars
  BY <1>4 DEF invVars, siteVars, InvInv, InvTables, StampsInv, CopiesInv, CookiesInv
<1>5. QED
  BY <1>1, <1>2, <1>3, <1>4 DEF InvNext

LEMMA InvInvariant == InvSpec => []InvInv
BY InvInitInv, InvNextInv, PTL DEF InvSpec

LEMMA InvInvTypeOK == InvInv => InvTypeOK
BY DEF InvInv, InvTables, InvTypeOK, Version, Cookie, Edit

\* A process that should reload, and has not missed a version, shows the last one;
\* any that has not missed one shows what is in its copy, or later.
LEMMA ShownIs ==
    ASSUME InvInv, NEW c \in Clients, NEW p \in Sites \ missed, Request(c, p)
    PROVE  /\ seen'[c] \in Nat /\ seen'[c] >= copy[p]
           /\ MustReload(c, p) => seen'[c] = Len(edits)
<1>1. InvTables
  BY DEF InvInv
<1>2. PICK shown \in Nat :
        /\ seen' = [seen EXCEPT ![c] = shown]
        /\ \/ MustReload(c, p) /\ Modified(p) /\ shown = Len(edits)
           \/ ~(MustReload(c, p) /\ Modified(p)) /\ shown = copy[p]
  BY <1>1, RequestIs
<1>3. /\ seen'[c] = shown /\ copy[p] \in 0..Len(edits) /\ Len(edits) \in Nat
  BY <1>1, <1>2, VersionsAre DEF InvTables
<1>4. copy[p] < Len(edits) => Modified(p)
  <2>1. SUFFICES ASSUME copy[p] < Len(edits) PROVE Modified(p)
    OBVIOUS
  <2>2. Len(edits) \in 1..Len(edits) /\ edits # <<>>
    BY <1>3, <2>1
  <2>3. QED
    BY <2>1, <2>2 DEF InvInv, CopiesInv, Modified
<1>5. QED
  BY <1>2, <1>3, <1>4

----------------------------------------------------------------------------
(* Invalidation: theorems *)

\* The clock, versions, copies and cookies have their types, and no process polls
\* in the future.
THEOREM InvTypeCorrect == InvSpec => []InvTypeOK
BY InvInvariant, InvInvTypeOK, PTL

\* InvalidationProcessor.__call__: the cookie of a client names its own version or
\* a later one, or has expired so long after that the timeout is over anyway.
LEMMA OwnEditStep ==
    ASSUME InvInv, NEW c \in Clients, NEW p \in Sites \ missed, Request(c, p)
    PROVE  seen'[c] >= made[c]
<1>1. InvTables
  BY DEF InvInv
<1>2. /\ made[c] \in 0..Len(edits) /\ copy[p] \in 0..Len(edits) /\ Len(edits) \in Nat
      /\ clock \in Nat /\ last_poll_time[p] \in Nat
  BY <1>1, VersionsAre, TimesAre DEF InvTables
<1>3. seen'[c] \in Nat /\ seen'[c] >= copy[p] /\ (MustReload(c, p) => seen'[c] = Len(edits))
  BY ShownIs
<1>4. CASE copy[p] >= made[c]
  BY <1>2, <1>3, <1>4
<1>5. CASE copy[p] < made[c]
  <2>1. made[c] \in 1..Len(edits)
    BY <1>2, <1>5
  <2>2. edits[made[c]].last_modified > last_poll_time[p]
    BY <1>5, <2>1 DEF InvInv, CopiesInv
  <2>3. /\ cookie[c] # NoTime /\ cookie[c].time >= edits[made[c]].last_modified
        /\ cookie[c].time <= cookie[c].set
    BY <2>1 DEF InvInv, CookiesInv
  <2>4. /\ cookie[c].time \in Nat /\ cookie[c].set \in Nat
        /\ edits[made[c]].last_modified \in Nat
    BY <1>1, <2>1, <2>3, TimesAre, VersionsAre DEF InvTables, Cookie
  <2>5. cookie[c].time > last_poll_time[p] /\ cookie[c].set > last_poll_time[p]
    BY <1>2, <2>2, <2>3, <2>4
  <2>6. MustReload(c, p)
    <3>1. CASE clock - cookie[c].set < 3 * Timeout
      <4>1. CookieTime(c) = cookie[c].time
        BY <2>3, <3>1 DEF CookieTime
      <4>2. QED
        BY <2>5, <4>1 DEF MustReload
    <3>2. CASE ~(clock - cookie[c].set < 3 * Timeout)
      <4>1. clock - last_poll_time[p] > Timeout
        BY <1>2, <2>4, <2>5, <3>2, TimesAre
      <4>2. QED
        BY <4>1 DEF MustReload
    <3>3. QED
      BY <3>1, <3>2
  <2>7. QED
    BY <1>2, <1>3, <2>6
<1>6. QED
  BY <1>2, <1>4, <1>5

\* InvalidationProcessor.__call__: what has been committed for longer than the
\* timeout is in the copy, or the process polls now and finds it.
LEMMA OldEditStep ==
    ASSUME InvInv, NEW c \in Clients, NEW p \in Sites \ missed, Request(c, p),
           NEW n \in 1..Len(edits), clock - edits[n].committed > Timeout
    PROVE  seen'[c] >= n
<1>1. InvTables
  BY DEF InvInv
<1>2. /\ copy[p] \in 0..Len(edits) /\ Len(edits) \in Nat /\ n \in Nat /\ n <= Len(edits)
      /\ clock \in Nat /\ last_poll_time[p] \in Nat
  BY <1>1, VersionsAre, TimesAre DEF InvTables
<1>3. seen'[c] \in Nat /\ seen'[c] >= copy[p] /\ (MustReload(c, p) => seen'[c] = Len(edits))
  BY ShownIs
<1>4. CASE copy[p] < n
  <2>1. /\ edits[n].last_modified > last_poll_time[p]
        /\ edits[n].last_modified <= edits[n].committed
    BY <1>4 DEF InvInv, CopiesInv, StampsInv
  <2>2. edits[n].last_modified \in Nat /\ edits[n].committed \in Nat
    BY <1>1, VersionsAre
  <2>3. MustReload(c, p)
    BY <1>2, <2>1, <2>2, TimesAre DEF MustReload
  <2>4. QED
    BY <1>2, <1>3, <2>3
<1>5. QED
  BY <1>2, <1>3, <1>4

\* "If a client makes an update, he will continue to see that update on
\* subsequent requests", on any process that did not poll between the stamp and
\* the commit of a version.
THEOREM OwnEdits == InvSpec => OwnEditsAreSeen
<1>1. InvInv /\ [InvNext]_invVars =>
        [\A c \in Clients, p \in Sites :
            Request(c, p) => seen'[c] >= made[c] \/ p \in missed]_invVars
  BY OwnEditStep
<1>2. QED
  BY <1>1, InvInvariant, PTL DEF InvSpec, OwnEditsAreSeen

\* "A client sees older version of a document no longer than the specified
\* timeout after the document is updated", on such a process.
THEOREM OldEdits == InvSpec => CopiesAreNotOlderThanTimeout
<1>1. InvInv /\ [InvNext]_invVars =>
        [\A c \in Clients, p \in Sites :
            Request(c, p) /\ p \notin missed =>
                \A n \in 1..Len(edits) :
                    clock - edits[n].committed > Timeout => seen'[c] >= n]_invVars
  BY OldEditStep
<1>2. QED
  BY <1>1, InvInvariant, PTL DEF InvSpec, CopiesAreNotOlderThanTimeout
----------------------------------------------------------------------------
(* The composition *)

RecordsInv == InvInv /\ PDInv /\ CovInv /\ RLInv /\ ACInv

LEMMA RecordsNextInv ==
    RecordsInv /\ [RecordsNext]_<<part, invVars, pdVars, covVars, rlVars, acVars>>
    => RecordsInv'
<1> SUFFICES ASSUME RecordsInv, [RecordsNext]_<<part, invVars, pdVars, covVars, rlVars, acVars>>
             PROVE  RecordsInv'
  OBVIOUS
<1>1. /\ [InvNext]_invVars /\ [PDNext]_pdVars /\ [CovNext]_covVars /\ [RLNext]_rlVars
      /\ [ACNext]_acVars
  BY DEF RecordsNext
<1>2. QED
  BY <1>1, InvNextInv, PDNextInv, CovNextInv, RLNextInv, ACNextInv DEF RecordsInv

\* The components keep their types together, whichever of them moves.
THEOREM RecordsTypeCorrect == RecordsSpec => []RecordsTypeOK
<1>1. RecordsInit => RecordsInv
  BY InvInitInv, PDInitInv, CovInitInv, RLInitInv, ACInitInv DEF RecordsInit, RecordsInv
<1>2. RecordsInv => RecordsTypeOK
  <2>1. ACInv => ACTypeOK
    BY DEF ACInv, AccountsAgree, Tables, ACTypeOK
  <2>2. (CovInv => CovTypeOK) /\ (RLInv => RLTypeOK)
    BY DEF CovInv, RLInv
  <2>3. QED
    BY <2>1, <2>2, InvInvTypeOK, PDInvTypeOK DEF RecordsInv, RecordsTypeOK
<1>3. QED
  BY <1>1, <1>2, RecordsNextInv, PTL DEF RecordsSpec
=============================================================================
