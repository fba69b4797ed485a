---------------------------- MODULE Invalidation ----------------------------
(***************************************************************************)
(* Copies of a document (a template or a macro) in the memory of each      *)
(* process of the site.  A process polls the database for what has been    *)
(* modified since its last poll when the timeout is over, or as soon as a  *)
(* client comes with a cookie that names a later update.  Clocks agree     *)
(* here, and no two events of the clock's resolution coincide.             *)
(*                                                                         *)
(* Code: openlibrary/core/processors/invalidation.py.                      *)
(***************************************************************************)
EXTENDS Integers, Sequences

CONSTANTS
    Sites,    \* the processes
    Clients,
    Timeout,
    NoTime,   \* of a cookie that is not set, or an edit that is not under way
    MaxTime,  \* bound: how long the clock runs
    MaxEdits  \* bound: how often the document is edited

ASSUME InvalidationAssumption ==
    /\ Timeout \in Nat \ {0} /\ MaxTime \in Nat \ {0} /\ MaxEdits \in Nat
    /\ NoTime \notin Nat \cup [time: Nat, set: Nat]

VARIABLES
    clock,
    edits,       \* the committed versions of the document, in order
    saving,      \* [Clients -> edit under way]
    (* processes *)
    copy,        \* [Sites -> 0..Len(edits)], the version in its memory
    last_poll_time,
    last_update_time,
    (* clients *)
    cookie,      \* [Clients -> its value, and when it was set]
    seen,        \* the version a client saw last
    (* history *)
    made,        \* the latest version a client made itself
    missed       \* processes that polled between stamp and commit of a version

siteVars == <<copy, last_poll_time, last_update_time>>
invVars == <<clock, edits, saving, siteVars, cookie, seen, made, missed>>

Times == 0..MaxTime

\* The clock, versions, copies and cookies have their types, and nobody polls
\* in the future.
InvTypeOK ==
    /\ clock \in Times
    /\ edits \in Seq([last_modified: Times, committed: Times])
    /\ saving \in [Clients -> [site: Sites, stamp: Times] \cup {NoTime}]
    /\ copy \in [Sites -> 0..Len(edits)]
    /\ \A p \in Sites : last_poll_time[p] \in 0..clock /\ last_update_time[p] \in 0..clock
    /\ cookie \in [Clients -> [time: Times, set: Times] \cup {NoTime}]
    /\ seen \in [Clients -> 0..Len(edits)]
    /\ made \in [Clients -> 0..Len(edits)]
    /\ missed \subseteq Sites

----------------------------------------------------------------------------
(* Edits: the database stamps a version with the time, and commits it later. *)

\* Two versions of a document are not saved at the same time: its row is locked.
StampEdit(c, p) ==
    /\ \A d \in Clients : saving[d] = NoTime
    /\ Len(edits) < MaxEdits
    /\ \A q \in Sites : last_poll_time[q] < clock
    /\ saving' = [saving EXCEPT ![c] = [site |-> p, stamp |-> clock]]
    /\ UNCHANGED <<clock, edits, siteVars, cookie, seen, made, missed>>

\* Mutant: the hook sets no cookie.
HookCookie_None(c, stamp) == cookie[c]

\* The cookie that _InvalidationHook.on_new_version sets.
HookCookie(c, stamp) == [time |-> stamp, set |-> clock]

\* The process that saved the version runs the hooks: its own copy is updated,
\* and the client gets a cookie.  last_update_time stays as it was.
CommitEdit(c) ==
    /\ saving[c] # NoTime
    /\ LET e == saving[c] IN
       /\ edits' = Append(edits, [last_modified |-> e.stamp, committed |-> clock])
       /\ copy' = [copy EXCEPT ![e.site] = Len(edits) + 1]
       /\ cookie' = [cookie EXCEPT ![c] = HookCookie(c, e.stamp)]
       /\ missed' = missed \cup {q \in Sites \ {e.site} : last_poll_time[q] >= e.stamp}
    /\ made' = [made EXCEPT ![c] = Len(edits) + 1]
    /\ saving' = [saving EXCEPT ![c] = NoTime]
    /\ UNCHANGED <<clock, last_poll_time, last_update_time, seen>>

----------------------------------------------------------------------------
(* A request *)

\* get_cookie_time: the browser drops a cookie after three timeouts.
CookieTime(c) ==
    IF cookie[c] = NoTime THEN -1
    ELSE IF clock - cookie[c].set < 3 * Timeout THEN cookie[c].time ELSE -1

\* Mutant: a process that is asked often enough does not poll.
MustReload_CookieOnly(c, p) == CookieTime(c) > last_poll_time[p]

\* The cookie names a later update, or the timeout is over.
MustReload(c, p) == \/ CookieTime(c) > last_poll_time[p]
                    \/ clock - last_poll_time[p] > Timeout

\* reload: was the document modified since the last poll?
Modified(p) == edits # <<>> /\ edits[Len(edits)].last_modified > last_poll_time[p]

\* __call__, with the handler, which shows the copy.
Request(c, p) ==
    LET reload == MustReload(c, p)
        update == reload /\ Modified(p)
        poll   == IF reload THEN clock ELSE last_poll_time[p]
        upd    == IF update THEN edits[Len(edits)].last_modified ELSE last_update_time[p]
        shown  == IF update THEN Len(edits) ELSE copy[p]
    IN
    /\ copy' = [copy EXCEPT ![p] = shown]
    /\ last_poll_time' = [last_poll_time EXCEPT ![p] = poll]
    /\ last_update_time' = [last_update_time EXCEPT ![p] = upd]
    /\ cookie' = IF poll - upd < Timeout /\ CookieTime(c) < upd
                 THEN [cookie EXCEPT ![c] = [time |-> upd, set |-> clock]]
                 ELSE cookie
    /\ seen' = [seen EXCEPT ![c] = shown]
    /\ missed' = IF update THEN missed \ {p} ELSE missed
    /\ UNCHANGED <<clock, edits, saving, made>>

Tick == /\ clock < MaxTime
        /\ clock' = clock + 1
        /\ UNCHANGED <<edits, saving, siteVars, cookie, seen, made, missed>>

InvInit ==
    /\ clock = 1
    /\ edits = <<>>
    /\ saving = [c \in Clients |-> NoTime]
    /\ copy = [p \in Sites |-> 0]
    /\ last_poll_time = [p \in Sites |-> 0]
    /\ last_update_time = [p \in Sites |-> 0]
    /\ cookie = [c \in Clients |-> NoTime]
    /\ seen = [c \in Clients |-> 0]
    /\ made = [c \in Clients |-> 0]
    /\ missed = {}

InvNext == \/ \E c \in Clients : \/ CommitEdit(c)
                                 \/ \E p \in Sites : StampEdit(c, p) \/ Request(c, p)
           \/ Tick

InvSpec == InvInit /\ [][InvNext]_invVars

----------------------------------------------------------------------------
(* Properties *)

\* "If a client makes an update, he will continue to see that update on
\* subsequent requests" - but for an update that was stamped before a poll of
\* the process and committed after it.
OwnEditsAreSeen ==
    [][\A c \in Clients, p \in Sites :
          Request(c, p) => seen'[c] >= made[c] \/ p \in missed]_invVars

\* "A client sees older version of a document no longer than the specified
\* timeout after the document is updated" - with the same exception.
CopiesAreNotOlderThanTimeout ==
    [][\A c \in Clients, p \in Sites :
          Request(c, p) /\ p \notin missed =>
              \A n \in 1..Len(edits) :
                  clock - edits[n].committed > Timeout => seen'[c] >= n]_invVars

=============================================================================
