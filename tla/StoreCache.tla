----------------------------- MODULE StoreCache -----------------------------
(***************************************************************************)
(* Memcache in front of the document store: a reader that finds no entry   *)
(* reads the store and adds what it has read; a writer deletes the entries *)
(* before and after it writes.  Every process of the site does both, and   *)
(* between two of its calls all others go on.                              *)
(*                                                                         *)
(* Code: MemcacheMiddleware of openlibrary/plugins/openlibrary/            *)
(* connection.py.                                                          *)
(***************************************************************************)
EXTENDS Naturals, FiniteSets

CONSTANTS
    Keys,
    Processes,
    Empty,      \* no entry in memcache
    MaxWrites,  \* bound: how often a document is written
    Failures    \* may a process die, or an answer be lost?

ASSUME StoreCacheAssumption ==
    /\ MaxWrites \in Nat
    /\ Failures \in BOOLEAN
    /\ Empty \notin [rev: 0..MaxWrites, live: BOOLEAN, timed: BOOLEAN]

VARIABLES
    store,     \* [Keys -> Doc], the database
    cache,     \* [Keys -> Entry], memcache
    (* processes *)
    pc,
    keys,      \* keys of the call a process is in
    doc,       \* what a reader has read
    (* history *)
    overtaken, \* readers whose document was written after they read it
    filled,    \* by writer: keys that got an entry after its first deletion
    late       \* keys with an entry that nobody is going to delete any more

local == <<pc, keys, doc>>
history == <<overtaken, filled, late>>
vars == <<store, cache, local, history>>

----------------------------------------------------------------------------
(* A write makes a revision, which has the document or does not. *)
Doc == [rev: 0..MaxWrites, live: BOOLEAN]

Entry == [rev: 0..MaxWrites, live: {TRUE}, timed: BOOLEAN] \cup {Empty}

\* What memcache holds for a document, with or without a lifetime.
EntryOf(d, timed) == [rev |-> d.rev, live |-> d.live, timed |-> timed]

\* The variables have the types listed with their declarations; a document that
\* does not exist is neither cached nor about to be.
TypeOK ==
    /\ store \in [Keys -> Doc]
    /\ cache \in [Keys -> Entry]
    /\ pc \in [Processes -> {"idle", "fetch", "fill", "write", "clear"}]
    /\ keys \in [Processes -> SUBSET Keys]
    /\ doc \in [Processes -> Doc]
    /\ \A p \in Processes :
          /\ pc[p] \in {"fetch", "fill"} => \E k \in Keys : keys[p] = {k}
          /\ pc[p] = "fill" => doc[p].live
    /\ overtaken \subseteq Processes
    /\ filled \in [Processes -> SUBSET Keys]
    /\ late \subseteq Keys

Goto(p, l) == pc' = [pc EXCEPT ![p] = l]

\* mc_delete_multi of ks.
Delete(ks) ==
    /\ cache' = [k \in Keys |-> IF k \in ks THEN Empty ELSE cache[k]]
    /\ late' = late \ ks

----------------------------------------------------------------------------
(* store_get.  One that finds an entry returns it and changes nothing. *)

StoreGet(p, k) ==
    /\ pc[p] = "idle"
    /\ cache[k] = Empty
    /\ Goto(p, "fetch")
    /\ keys' = [keys EXCEPT ![p] = {k}]
    /\ overtaken' = overtaken \ {p}
    /\ UNCHANGED <<store, cache, doc, filled, late>>

\* The database is read.
Fetch(p) ==
    /\ pc[p] = "fetch"
    /\ \E k \in keys[p] :
          /\ doc' = [doc EXCEPT ![p] = store[k]]
          /\ Goto(p, IF store[k].live THEN "fill" ELSE "idle")
    /\ UNCHANGED <<store, cache, keys, history>>

\* Mutant: an entry without a lifetime, which is what mc_add would make.
Lifetime_None == FALSE

\* The entry is cached for an hour.
Lifetime == TRUE

\* memcache.add: an entry that has been made meanwhile stays.
Fill(p) ==
    /\ pc[p] = "fill"
    /\ Goto(p, "idle")
    /\ \E k \in keys[p] :
          IF cache[k] # Empty
          THEN UNCHANGED <<cache, filled, late>>
          ELSE /\ cache' = [cache EXCEPT ![k] = EntryOf(doc[p], Lifetime)]
               /\ filled' = [q \in Processes |->
                               IF pc[q] = "write" /\ k \in keys[q]
                               THEN filled[q] \cup {k} ELSE filled[q]]
               /\ late' = IF p \in overtaken THEN late \cup {k} ELSE late
    /\ UNCHANGED <<store, keys, doc, overtaken>>

----------------------------------------------------------------------------
(* store_put, store_delete, store_put_many *)

\* Mutant: the entries are not deleted before the write.
ClearFirst_None(p, ks) ==
    /\ pc[p] = "idle"
    /\ Goto(p, "write")
    /\ keys' = [keys EXCEPT ![p] = ks]
    /\ filled' = [filled EXCEPT ![p] = {}]
    /\ UNCHANGED <<store, cache, doc, overtaken, late>>

ClearFirst(p, ks) ==
    /\ pc[p] = "idle"
    /\ Goto(p, "write")
    /\ keys' = [keys EXCEPT ![p] = ks]
    /\ Delete(ks)
    /\ filled' = [q \in Processes |-> IF q = p THEN {} ELSE filled[q] \ ks]
    /\ UNCHANGED <<store, doc, overtaken>>

\* Documents are saved, or one is deleted.
Write(p) ==
    /\ pc[p] = "write"
    /\ \A k \in keys[p] : store[k].rev < MaxWrites
    /\ \E live \in BOOLEAN :
          /\ ~live => Cardinality(keys[p]) = 1
          /\ store' = [k \in Keys |->
                         IF k \in keys[p] THEN [rev |-> store[k].rev + 1, live |-> live]
                                          ELSE store[k]]
    /\ overtaken' = overtaken \cup
                    {q \in Processes : pc[q] = "fill" /\ keys[q] \cap keys[p] # {}}
    /\ Goto(p, "clear")
    /\ UNCHANGED <<cache, keys, doc, filled, late>>

\* The database refuses: another revision was saved, or there is no document.
Refuse(p) ==
    /\ pc[p] = "write"
    /\ Goto(p, "idle")
    /\ UNCHANGED <<store, cache, keys, doc, history>>

ClearAgain(p) ==
    /\ pc[p] = "clear"
    /\ Goto(p, "idle")
    /\ Delete(keys[p])
    /\ filled' = [q \in Processes |-> filled[q] \ keys[p]]
    /\ UNCHANGED <<store, keys, doc, overtaken>>

----------------------------------------------------------------------------
(* The rest *)

\* A process dies, or its call raises because an answer was lost.
Die(p) ==
    /\ Failures
    /\ pc[p] # "idle"
    /\ Goto(p, "idle")
    /\ late' = IF pc[p] = "clear" THEN late \cup filled[p] ELSE late
    /\ UNCHANGED <<store, cache, keys, doc, overtaken, filled>>

\* memcached drops an entry when its time is over.
Expire(k) ==
    /\ cache[k] # Empty
    /\ cache[k].timed
    /\ Delete({k})
    /\ filled' = [q \in Processes |-> filled[q] \ {k}]
    /\ UNCHANGED <<store, local, overtaken>>

NoDoc == [rev |-> 0, live |-> FALSE]

Init ==
    /\ store = [k \in Keys |-> NoDoc]
    /\ cache = [k \in Keys |-> Empty]
    /\ pc = [p \in Processes |-> "idle"]
    /\ keys = [p \in Processes |-> {}]
    /\ doc = [p \in Processes |-> NoDoc]
    /\ overtaken = {} /\ late = {}
    /\ filled = [p \in Processes |-> {}]

Continue(p) == Fetch(p) \/ Fill(p) \/ Write(p) \/ Refuse(p) \/ ClearAgain(p)

Call(p) == \/ \E k \in Keys : StoreGet(p, k)
           \/ \E ks \in (SUBSET Keys) \ {{}} : ClearFirst(p, ks)

Next == \/ \E p \in Processes : Call(p) \/ Continue(p) \/ Die(p)
        \/ \E k \in Keys : Expire(k)

Spec == Init /\ [][Next]_vars

\* A process goes on with its call, and memcached keeps the time.
FairSpec == /\ Spec
            /\ \A p \in Processes : WF_vars(Continue(p))
            /\ \A k \in Keys : WF_vars(Expire(k))

----------------------------------------------------------------------------
(* Properties *)

Stale(k) == cache[k] # Empty /\ cache[k].rev # store[k].rev

\* store_put: a stale entry is there only between a write and the deletion that
\* follows it, or because its reader was overtaken by a write before it added
\* what it had read, or because a writer died after its write - and then only
\* if the entry was added after that writer's first deletion.
StaleEntriesHaveACause ==
    \A k \in Keys : Stale(k) =>
        \/ k \in late
        \/ \E p \in Processes : pc[p] = "clear" /\ k \in filled[p]

\* store_get: whatever has gone wrong, a stale entry goes.
StaleEntriesGo == \A k \in Keys : Stale(k) ~> ~Stale(k)

=============================================================================
