------------------------------ MODULE Memoize ------------------------------
(***************************************************************************)
(* A function whose value for one list of arguments is kept in memcache.   *)
(* A thread that finds no value computes it; one that finds a value older  *)
(* than the timeout returns it and starts another thread to compute it     *)
(* afresh, and a flag in memcache keeps all but one of these from doing    *)
(* so.  An edit may delete the value.                                      *)
(*                                                                         *)
(* Code: memcache_memoize of openlibrary/core/cache.py; the deletion by    *)
(* openlibrary/plugins/openlibrary/events.py.                              *)
(***************************************************************************)
EXTENDS Naturals, FiniteSets

CONSTANTS
    Threads,    \* of all processes of the site
    NoValue,
    MaxChanges, \* bound: how often the result of the function changes
    MaxFaults   \* bound: how often it raises, or a process is killed

ASSUME MemoizeAssumption ==
    MaxChanges \in Nat /\ MaxFaults \in Nat /\ NoValue \notin Nat

VARIABLES
    result,   \* what the function would return, as the number of its changes
    value,    \* the value in memcache
    expired,  \* is it older than the timeout?
    flag,     \* the key "/flag" in memcache
    (* threads *)
    thread,   \* where a thread is
    computed, \* what the function has returned to it
    (* history *)
    faults,
    orphan    \* was the thread that set the flag killed?

memVars == <<result, value, expired, flag, thread, computed, faults, orphan>>

\* Threads of _update_async_worker that have set the flag.
Refreshing == {t \in Threads : thread[t] \in {"refresh", "set refreshed", "unflag"}}

MemPcs == {"idle", "compute", "set", "worker", "refresh", "set refreshed", "unflag", "delete"}

\* Every variable has its type, and only a value can be expired.
MemTypeOK ==
    /\ result \in 0..MaxChanges
    /\ value \in {NoValue} \cup (0..result)
    /\ expired \in BOOLEAN /\ (expired => value # NoValue)
    /\ flag \in BOOLEAN /\ orphan \in BOOLEAN
    /\ thread \in [Threads -> MemPcs]
    /\ computed \in [Threads -> 0..result]
    /\ faults \in 0..MaxFaults

MemGoto(t, l) == thread' = [thread EXCEPT ![t] = l]

----------------------------------------------------------------------------
(* __call__ *)

\* No value: the caller computes it itself.
CallMisses(t) ==
    /\ thread[t] = "idle" /\ value = NoValue
    /\ MemGoto(t, "compute")
    /\ UNCHANGED <<result, value, expired, flag, computed, faults, orphan>>

\* An old value: it is returned, and update_async starts the thread t.
CallFindsExpired(t) ==
    /\ thread[t] = "idle" /\ expired
    /\ MemGoto(t, "worker")
    /\ UNCHANGED <<result, value, expired, flag, computed, faults, orphan>>

\* The library page is saved, and on_library_edit will delete the value.
EditLibrary(t) ==
    /\ thread[t] = "idle" /\ result < MaxChanges
    /\ result' = result + 1
    /\ MemGoto(t, "delete")
    /\ UNCHANGED <<value, expired, flag, computed, faults, orphan>>

\* memcache_delete.
DeleteValue(t) ==
    /\ thread[t] = "delete"
    /\ value' = NoValue /\ expired' = FALSE
    /\ MemGoto(t, "idle")
    /\ UNCHANGED <<result, flag, computed, faults, orphan>>

----------------------------------------------------------------------------
(* _update_async_worker and update *)

\* Mutant: a worker that does not get the flag still ends by removing it.
AddFlag_AlwaysFinally(t) ==
    /\ thread[t] = "worker"
    /\ MemGoto(t, IF flag THEN "unflag" ELSE "refresh")
    /\ flag' = TRUE
    /\ UNCHANGED <<result, value, expired, computed, faults, orphan>>

\* Only one thread gets the flag; the others end.
AddFlag(t) ==
    /\ thread[t] = "worker"
    /\ MemGoto(t, IF flag THEN "idle" ELSE "refresh")
    /\ flag' = TRUE
    /\ UNCHANGED <<result, value, expired, computed, faults, orphan>>

\* Mutant: when the function raises, the flag stays.
AfterRaise_NoFinally(l) == "idle"

\* finally: the worker removes the flag; a caller raises.
AfterRaise(l) == IF l = "refresh" THEN "unflag" ELSE "idle"

Compute(t) ==
    /\ thread[t] \in {"compute", "refresh"}
    /\ \/ /\ computed' = [computed EXCEPT ![t] = result]
          /\ MemGoto(t, IF thread[t] = "refresh" THEN "set refreshed" ELSE "set")
          /\ UNCHANGED faults
       \/ /\ faults < MaxFaults /\ faults' = faults + 1
          /\ MemGoto(t, AfterRaise(thread[t]))
          /\ UNCHANGED computed
    /\ UNCHANGED <<result, value, expired, flag, orphan>>

\* memcache_set, whatever has been set or deleted since the function was called.
SetValue(t) ==
    /\ thread[t] \in {"set", "set refreshed"}
    /\ value' = computed[t] /\ expired' = FALSE
    /\ MemGoto(t, IF thread[t] = "set" THEN "idle" ELSE "unflag")
    /\ UNCHANGED <<result, flag, computed, faults, orphan>>

RemoveFlag(t) ==
    /\ thread[t] = "unflag"
    /\ flag' = FALSE
    /\ MemGoto(t, "idle")
    /\ UNCHANGED <<result, value, expired, computed, faults, orphan>>

----------------------------------------------------------------------------
(* The rest *)

\* The result changes and nobody deletes the value.
Change ==
    /\ result < MaxChanges
    /\ result' = result + 1
    /\ UNCHANGED <<value, expired, flag, thread, computed, faults, orphan>>

\* The timeout passes.
Age ==
    /\ value # NoValue /\ ~expired
    /\ expired' = TRUE
    /\ UNCHANGED <<result, value, flag, thread, computed, faults, orphan>>

\* A process is killed; a flag that one of its threads has set stays, as it has
\* no lifetime.
KillThread(t) ==
    /\ thread[t] # "idle" /\ faults < MaxFaults
    /\ faults' = faults + 1
    /\ orphan' = (orphan \/ t \in Refreshing)
    /\ MemGoto(t, "idle")
    /\ UNCHANGED <<result, value, expired, flag, computed>>

MemInit ==
    /\ result = 0 /\ value = NoValue /\ expired = FALSE /\ flag = FALSE
    /\ thread = [t \in Threads |-> "idle"]
    /\ computed = [t \in Threads |-> 0]
    /\ faults = 0 /\ orphan = FALSE

MemCall(t) == CallMisses(t) \/ CallFindsExpired(t)

MemStep(t) == AddFlag(t) \/ Compute(t) \/ SetValue(t) \/ RemoveFlag(t) \/ DeleteValue(t)

MemNext ==
    \/ \E t \in Threads : MemCall(t) \/ MemStep(t) \/ EditLibrary(t) \/ KillThread(t)
    \/ Change \/ Age

MemSpec == MemInit /\ [][MemNext]_memVars

\* The function goes on being called, threads go on, and time passes.
MemFairSpec ==
    /\ MemSpec
    /\ WF_memVars(Age)
    /\ WF_memVars(\E t \in Threads : MemCall(t))
    /\ \A t \in Threads : WF_memVars(MemStep(t))

----------------------------------------------------------------------------
(* Properties *)

\* _update_async_worker: "already somebody else is computing this value" - at
\* most one thread refreshes it, and a flag that no thread is going to remove
\* was left by a process that was killed.
FlagsHaveAnOwner ==
    /\ Cardinality(Refreshing) <= 1
    /\ flag <=> Refreshing # {} \/ orphan

\* memcache_memoize: "after the timeout, a new thread is spawned to update the
\* value".  A value that is not what the function returns, even one that was
\* computed before an edit and set after the deletion that the edit brings, is
\* replaced - unless a flag is left over, and then it never is.
OldValuesAreReplaced ==
    value \in Nat /\ value < result ~> value \in {NoValue, result} \/ orphan

=============================================================================
