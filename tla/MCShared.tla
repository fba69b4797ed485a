------------------------------ MODULE MCShared ------------------------------
(***************************************************************************)
(* What several processes share - cached documents, memoized values, the   *)
(* import queue - for TLC.  The three components share no state with each  *)
(* other, so a behaviour is one of a single component: part says of which, *)
(* and the variables of the others keep their initial values.              *)
(***************************************************************************)
EXTENDS StoreCache, Memoize, ImportQueue

CONSTANTS k1, p1, p2, p3, t1, t2, i1, b1, b2, a1, a2

MCKeys == {k1}
MCProcesses == {p1, p2, p3}
MCThreads == {t1, t2}
MCItems == {i1}
MCBatches == {b1, b2}
MCBots == {a1, a2}

VARIABLE part

SharedInit ==
    /\ part \in {"documents", "functions", "imports"}
    /\ Init /\ MemInit /\ IQInit

sharedVars == <<part, vars, memVars, iqVars>>

SharedNext ==
    /\ part' = part
    /\ \/ part = "documents" /\ Next /\ UNCHANGED <<memVars, iqVars>>
       \/ part = "functions" /\ MemNext /\ UNCHANGED <<vars, iqVars>>
       \/ part = "imports" /\ IQNext /\ UNCHANGED <<vars, memVars>>

\* What a process, a thread or a bot goes on with.
GoOn(p, t, b) ==
    \/ part = "documents" /\ Continue(p) /\ UNCHANGED <<memVars, iqVars>>
    \/ part = "functions" /\ MemStep(t) /\ UNCHANGED <<vars, iqVars>>
    \/ part = "imports" /\ Work(b) /\ UNCHANGED <<vars, memVars>>

\* Time passes, or the server goes on.
PassTime(k) ==
    \/ part = "documents" /\ Expire(k) /\ UNCHANGED <<memVars, iqVars>>
    \/ part = "functions" /\ Age /\ UNCHANGED <<vars, iqVars>>
    \/ part = "imports" /\ UNCHANGED <<vars, memVars>>
       /\ \E n \in 1..Len(server) : Serve(n)

CallFunction ==
    part = "functions" /\ UNCHANGED <<vars, iqVars>> /\ \E t \in Threads : MemCall(t)

\* The fairness of FairSpec, of MemFairSpec and of IQFairSpec: as the part of a
\* behaviour stays what it is, an alternative of one part is fair in it exactly if
\* the disjunction of it with alternatives of other parts is.
SharedSpec ==
    /\ SharedInit /\ [][SharedNext]_sharedVars
    /\ WF_sharedVars(part' = part /\ GoOn(p1, t1, a1))
    /\ WF_sharedVars(part' = part /\ GoOn(p2, t2, a2))
    /\ WF_sharedVars(part' = part /\ GoOn(p3, t1, a1))
    /\ WF_sharedVars(part' = part /\ PassTime(k1))
    /\ WF_sharedVars(part' = part /\ CallFunction)

\* The type invariants of the three components.
SharedTypeOK == TypeOK /\ MemTypeOK /\ IQTypeOK

=============================================================================
