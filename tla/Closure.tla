------------------------------- MODULE Closure -------------------------------
(***************************************************************************)
(* What resolving promises, without index, marks, rounds and disk: states  *)
(* come in one by one, each naming others; some ids are given up; and the  *)
(* set is handed on as closed only when every id that a loaded state names *)
(* is loaded or given up.  A reference without an id voids the promise     *)
(* until a state of the empty id is loaded.                                *)
(***************************************************************************)
CONSTANTS Ids, Blank

VARIABLES
    names,      \* the loaded states, each with the ids it names
    dropped,    \* the ids given up
    void,       \* was a reference without an id met?
    verdict     \* "open", "closed" or "broken"

closureVars == <<names, dropped, void, verdict>>

ClosureInit == /\ names = [i \in {} |-> {}] /\ dropped = {}
               /\ void = FALSE /\ verdict = "open"

\* State i comes in, or comes in again, and settles what was given up of it.
Load(i, named) ==
    /\ verdict # "broken" /\ verdict' = "open"
    /\ names' = [j \in DOMAIN names \cup {i} |-> IF j = i THEN named ELSE names[j]]
    /\ dropped' = dropped \ {i}
    /\ void' = (i # Blank /\ (void \/ Blank \in named))

Drop(i) ==
    /\ verdict = "open" /\ UNCHANGED verdict
    /\ dropped' = dropped \cup {i}
    /\ UNCHANGED <<names, void>>

Settled == \A i \in DOMAIN names : names[i] \subseteq DOMAIN names \cup dropped

Close ==
    /\ verdict = "open" /\ verdict' = "closed"
    /\ Settled \/ void
    /\ UNCHANGED <<names, dropped, void>>

\* Another request that brought no state in
Reopen ==
    /\ verdict = "closed" /\ verdict' = "open"
    /\ UNCHANGED <<names, dropped, void>>

\* What a panic leaves behind is not promised to be complete, but nothing
\* that was loaded is lost.
Break ==
    /\ verdict # "broken" /\ verdict' = "broken"
    /\ DOMAIN names \subseteq DOMAIN names'
    /\ dropped' \subseteq dropped

ClosureNext == \/ \E i \in Ids : Drop(i) \/ \E named \in SUBSET Ids : Load(i, named)
               \/ Close \/ Reopen \/ Break

ClosureSpec == ClosureInit /\ [][ClosureNext]_closureVars
=============================================================================
